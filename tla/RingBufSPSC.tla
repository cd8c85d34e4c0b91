---------------------------- MODULE RingBufSPSC ----------------------------
(***************************************************************************)
(* libaudiowire/src/ringbuf.c with its two threads inside it: a producer   *)
(* that pushes and a consumer that pops, one of them a task and the other  *)
(* the callback of the audio server.                                       *)
(*                                                                         *)
(*   record stream    producer: on_stream_read (pulseaudio.c:66-85)        *)
(*                    consumer: handle_*_record_stream (handlers.rs)       *)
(*   playback stream  producer: handle_*_playback_stream (handlers.rs)     *)
(*                    consumer: on_stream_write (pulseaudio.c:87-108)      *)
(*                                                                         *)
(* Every load and store of the atomics head and tail is a step, and so is  *)
(* each memcpy; the atomics are sequentially consistent, the bytes are     *)
(* not atomic at all (see RaceFree).  Only the producer stores tail, so    *)
(* its own loads of tail are not steps of their own.                       *)
(***************************************************************************)
EXTENDS RingIndex

CONSTANTS
  MaxBufsize,  \* base->max_bufsize, the offset of every ringbuf_pop_back_from
  WordSize,    \* 2^64 in the program: size_t wraps around at it
  StampCount,  \* how many stamps tell bytes apart
  Writes,      \* the lengths the producer pushes
  Reads,       \* the lengths the consumer asks for
  Guarded      \* TRUE: the producer pushes only what ringbuf_available admits
               \* (the device callback, the tasks of handlers.rs); FALSE: it
               \* pushes at once (loopback.rs:53, audiowire_test.c:58)

ASSUME MaxBufsizeAssumption == MaxBufsize \in 1 .. Capacity
ASSUME WordSizeAssumption ==
  WordSize \in Nat /\ WordSize > Capacity /\ WordSize % Capacity = 0
ASSUME StampAssumption == StampCount \in Nat \ {0}
ASSUME WritesAssumption == Writes \subseteq Nat \ {0}
ASSUME ReadsAssumption  == Reads \subseteq Nat \ {0}
ASSUME GuardedAssumption == Guarded \in BOOLEAN

(* Bytes are numbered in the order they are pushed, modulo StampCount.     *)
(* With two laps of the ring, a byte left over from the lap before differs *)
(* from the one that should be in its slot; one stamp leaves the bytes out. *)
Stamps == 0 .. StampCount - 1
Stamp(i) == i % StampCount

Words == 0 .. WordSize - 1
Word(i) == i % WordSize

VARIABLES
  head,      \* rb->head
  tail,      \* rb->tail
  data,      \* the array: the stamp of the byte in each slot
  ppc,       \* where the producer is
  pn,        \* bytes of its buffer still to be written
  pwrapped,  \* "rb->head > rb->tail" as ringbuf_available saw it
  poffset,   \* bytes ringbuf_push has to drop
  phead,     \* the head it loaded to drop them
  cpc,       \* where the consumer is
  cn,        \* bytes of its buffer still to be read
  cloaded,   \* the index it loaded last
  cordered,  \* "rb->head <= rb->tail" as ringbuf_remaining saw it
  cpopping,  \* TRUE in ringbuf_pop_back_from, FALSE in the caller's guard
  cremaining, \* what ringbuf_remaining returned to ringbuf_pop_back_from
  pushed,    \* history: the stamp of the next byte to become visible
  expected,  \* history: the stamp of the next byte the consumer is due, as
             \* long as the producer drops none
  torn       \* history: a counter came out negative and wrapped around

shared   == <<head, tail, data>>
producer == <<ppc, pn, pwrapped, poffset, phead>>
consumer == <<cpc, cn, cloaded, cordered, cpopping, cremaining>>
history  == <<pushed, expected, torn>>
vars == <<shared, producer, consumer, history>>

Init ==
  /\ head = 0 /\ tail = 0
  /\ data = [i \in Slots |-> 0]
  /\ ppc = "idle" /\ pn = 0 /\ pwrapped = FALSE /\ poffset = 0 /\ phead = 0
  /\ cpc = "idle" /\ cn = 0 /\ cloaded = 0 /\ cordered = FALSE
  /\ cpopping = FALSE /\ cremaining = 0
  /\ pushed = 0 /\ expected = 0 /\ torn = FALSE

-----------------------------------------------------------------------------
(* The producer.  Its first step, and each call of ringbuf_available, is   *)
(* the load of head for "if (rb->head > rb->tail)".                        *)

(* A mutant: the producer does not ask.                                    *)
StartWriteUnguarded ==
  /\ ppc = "idle"
  /\ pn' \in Writes
  /\ pwrapped' = (head > tail)
  /\ ppc' = "pushReturn"
  /\ UNCHANGED <<shared, poffset, phead, consumer, history>>

StartWrite ==
  /\ ppc = "idle"
  /\ pn' \in Writes
  /\ pwrapped' = (head > tail)
  /\ ppc' = IF Guarded THEN "guardReturn" ELSE "pushReturn"
  /\ UNCHANGED <<shared, poffset, phead, consumer, history>>

(* What ringbuf_available returns: head is loaded again.                   *)
RawAvailable == AvailableWhen(pwrapped, head, tail)

(* The caller goes on to ringbuf_push if the bytes fit, else drops them.   *)
GuardFails ==
  /\ ppc = "guardReturn"
  /\ Word(RawAvailable) < pn
  /\ ppc' = "idle" /\ pn' = 0
  /\ torn' = (torn \/ RawAvailable < 0)
  /\ UNCHANGED <<shared, pwrapped, poffset, phead, consumer, pushed, expected>>

GuardHoldsUnchecked ==
  /\ ppc = "guardReturn"
  /\ ppc' = "push"
  /\ torn' = (torn \/ RawAvailable < 0)
  /\ UNCHANGED <<shared, pn, pwrapped, poffset, phead, consumer, pushed,
                 expected>>

GuardHolds ==
  /\ ppc = "guardReturn"
  /\ Word(RawAvailable) >= pn
  /\ ppc' = "push"
  /\ torn' = (torn \/ RawAvailable < 0)
  /\ UNCHANGED <<shared, pn, pwrapped, poffset, phead, consumer, pushed,
                 expected>>

(* ringbuf_push calls ringbuf_available once more.                         *)
PushCompare ==
  /\ ppc = "push"
  /\ pwrapped' = (head > tail)
  /\ ppc' = "pushReturn"
  /\ UNCHANGED <<shared, pn, poffset, phead, consumer, history>>

PushReturn ==
  /\ ppc = "pushReturn"
  /\ \/ pn >= Usable /\ ppc' = "resetTail" /\ poffset' = 0
     \/ pn < Usable /\ pn > Word(RawAvailable)
        /\ ppc' = "dropLoad" /\ poffset' = pn - Word(RawAvailable)
     \/ pn < Usable /\ pn <= Word(RawAvailable)
        /\ ppc' = "copy" /\ poffset' = 0
  /\ torn' = (torn \/ RawAvailable < 0)
  /\ UNCHANGED <<shared, pn, pwrapped, phead, consumer, pushed, expected>>

(* A buffer as large as the ring: two stores, then one memcpy.             *)
ResetTail ==
  /\ ppc = "resetTail"
  /\ tail' = 0
  /\ ppc' = "resetHead"
  /\ UNCHANGED <<head, data, pn, pwrapped, poffset, phead, consumer, history>>

ResetHead ==
  /\ ppc = "resetHead"
  /\ head' = 1
  /\ ppc' = "replace"
  /\ pushed' = Stamp(pushed + pn)
  /\ UNCHANGED <<tail, data, pn, pwrapped, poffset, phead, consumer, expected,
                 torn>>

Replace ==
  /\ ppc = "replace"
  /\ data' = [i \in Slots |-> IF i = 0 THEN data[0]
                              ELSE Stamp(pushed - Usable + (i - 1))]
  /\ ppc' = "idle" /\ pn' = 0
  /\ UNCHANGED <<head, tail, pwrapped, poffset, phead, consumer, history>>

(* "rb->head = (rb->head + offset) & rb->mask": a load and a store, of the *)
(* index the consumer moves too.                                           *)
DropLoad ==
  /\ ppc = "dropLoad"
  /\ phead' = head
  /\ ppc' = "dropStore"
  /\ UNCHANGED <<shared, pn, pwrapped, poffset, consumer, history>>

DropStore ==
  /\ ppc = "dropStore"
  /\ head' = Masked(phead + poffset)
  /\ ppc' = "copy"
  /\ UNCHANGED <<tail, data, pn, pwrapped, poffset, phead, consumer, history>>

(* Mutants of it: past the end of the array, and one slot short of it.     *)
PushLengthUnsplit  == pn
PushLengthOneShort == Min2(Usable - tail, pn)

(* One turn of the loop of ringbuf_write: up to the end of the array.      *)
PushLength == Min2(Capacity - tail, pn)
PushSlots  == tail .. tail + PushLength - 1

CopyIn ==
  /\ ppc = "copy"
  /\ data' = [i \in Slots |-> IF i \in PushSlots THEN Stamp(pushed + (i - tail))
                              ELSE data[i]]
  /\ ppc' = "store"
  /\ UNCHANGED <<head, tail, pn, pwrapped, poffset, phead, consumer, history>>

(* A mutant: tail is moved over the whole buffer with its first piece.     *)
StoreTailAtOnce ==
  /\ ppc = "store"
  /\ tail' = Masked(tail + pn)
  /\ pn' = pn - PushLength
  /\ pushed' = Stamp(pushed + PushLength)
  /\ ppc' = IF pn' > 0 THEN "copy" ELSE "idle"
  /\ UNCHANGED <<head, data, pwrapped, poffset, phead, consumer, expected, torn>>

StoreTail ==
  /\ ppc = "store"
  /\ tail' = Masked(tail + PushLength)
  /\ pn' = pn - PushLength
  /\ pushed' = Stamp(pushed + PushLength)
  /\ ppc' = IF pn' > 0 THEN "copy" ELSE "idle"
  /\ UNCHANGED <<head, data, pwrapped, poffset, phead, consumer, expected, torn>>

Producer ==
  \/ StartWrite \/ GuardFails \/ GuardHolds \/ PushCompare \/ PushReturn
  \/ ResetTail \/ ResetHead \/ Replace
  \/ DropLoad \/ DropStore \/ CopyIn \/ StoreTail

-----------------------------------------------------------------------------
(* The consumer.  All callers compare ringbuf_remaining with the length    *)
(* before they pop.  Its first step, and each call of ringbuf_remaining,   *)
(* is the load of head for "if (rb->head <= rb->tail)".                    *)

StartRead ==
  /\ cpc = "idle"
  /\ cn' \in Reads
  /\ cloaded' = head
  /\ cpopping' = FALSE
  /\ cpc' = "compare"
  /\ UNCHANGED <<shared, cordered, cremaining, producer, history>>

(* The load of tail.                                                       *)
Compare ==
  /\ cpc = "compare"
  /\ cordered' = (cloaded <= tail)
  /\ cpc' = "first"
  /\ UNCHANGED <<shared, cn, cloaded, cpopping, cremaining, producer, history>>

(* "rb->tail - rb->head" or "rb->capacity - rb->head + rb->tail", operands *)
(* loaded from left to right.                                              *)
FirstOperand ==
  /\ cpc = "first"
  /\ cloaded' = IF cordered THEN tail ELSE head
  /\ cpc' = "second"
  /\ UNCHANGED <<shared, cn, cordered, cpopping, cremaining, producer, history>>

RawRemaining == IF cordered THEN RemainingWhen(TRUE, head, cloaded)
                            ELSE RemainingWhen(FALSE, cloaded, tail)

(* Too few bytes: silence is played, or the task goes back to sleep.       *)
PeekFails ==
  /\ cpc = "second" /\ ~ cpopping
  /\ Word(RawRemaining) < cn
  /\ cpc' = "idle" /\ cn' = 0
  /\ torn' = (torn \/ RawRemaining < 0)
  /\ UNCHANGED <<shared, cloaded, cordered, cpopping, cremaining, producer,
                 pushed, expected>>

PeekHoldsUnchecked ==
  /\ cpc = "second" /\ ~ cpopping
  /\ cpc' = "pop"
  /\ torn' = (torn \/ RawRemaining < 0)
  /\ UNCHANGED <<shared, cn, cloaded, cordered, cpopping, cremaining, producer,
                 pushed, expected>>

PeekHolds ==
  /\ cpc = "second" /\ ~ cpopping
  /\ Word(RawRemaining) >= cn
  /\ cpc' = "pop"
  /\ torn' = (torn \/ RawRemaining < 0)
  /\ UNCHANGED <<shared, cn, cloaded, cordered, cpopping, cremaining, producer,
                 pushed, expected>>

(* ringbuf_pop_back_from calls ringbuf_remaining once more.                *)
PopCompare ==
  /\ cpc = "pop"
  /\ cloaded' = head
  /\ cpopping' = TRUE
  /\ cpc' = "compare"
  /\ UNCHANGED <<shared, cn, cordered, cremaining, producer, history>>

PopReturn ==
  /\ cpc = "second" /\ cpopping
  /\ cremaining' = Word(RawRemaining)
  /\ cpc' = IF cremaining' > MaxBufsize THEN "skipLoad" ELSE "read"
  /\ torn' = (torn \/ RawRemaining < 0)
  /\ UNCHANGED <<shared, cn, cloaded, cordered, cpopping, producer, pushed,
                 expected>>

(* "rb->head = (rb->head + diff) & rb->mask": the oldest bytes are skipped *)
(* so that no more than max_bufsize of delay is left.                      *)
SkipLoad ==
  /\ cpc = "skipLoad"
  /\ cloaded' = head
  /\ cpc' = "skipStore"
  /\ UNCHANGED <<shared, cn, cordered, cpopping, cremaining, producer, history>>

SkipStore ==
  /\ cpc = "skipStore"
  /\ head' = Masked(cloaded + (cremaining - MaxBufsize))
  /\ expected' = Stamp(expected + (cremaining - MaxBufsize))
  /\ cpc' = "read"
  /\ UNCHANGED <<tail, data, cn, cloaded, cordered, cpopping, cremaining,
                 producer, pushed, torn>>

(* The head ringbuf_read works on is loaded once; the loop stores what it  *)
(* makes of it, whatever the producer has stored meanwhile.                *)
ReadLoad ==
  /\ cpc = "read"
  /\ cloaded' = head
  /\ cn' = Min2(cn, cremaining)
  /\ cremaining' = 0
  /\ cpc' = IF cn' > 0 THEN "copy" ELSE "idle"
  /\ UNCHANGED <<shared, cordered, cpopping, producer, history>>

PopLength == Min2(Capacity - cloaded, cn)
PopSlots  == cloaded .. cloaded + PopLength - 1

CopyOut ==
  /\ cpc = "copy"
  /\ cpc' = "store"
  /\ UNCHANGED <<shared, cn, cloaded, cordered, cpopping, cremaining, producer,
                 history>>

StoreHead ==
  /\ cpc = "store"
  /\ head' = Masked(cloaded + PopLength)
  /\ cloaded' = head'
  /\ cn' = cn - PopLength
  /\ expected' = Stamp(expected + PopLength)
  /\ cpc' = IF cn' > 0 THEN "copy" ELSE "idle"
  /\ UNCHANGED <<tail, data, cordered, cpopping, cremaining, producer, pushed,
                 torn>>

Consumer ==
  \/ StartRead \/ Compare \/ FirstOperand
  \/ PeekFails \/ PeekHolds \/ PopCompare \/ PopReturn
  \/ SkipLoad \/ SkipStore \/ ReadLoad \/ CopyOut \/ StoreHead

Next == Producer \/ Consumer

Spec == Init /\ [][Next]_vars

(* Both threads keep running and keep calling: the callback is called      *)
(* every buffer period and the task loops until the session ends.          *)
FairSpec == Spec /\ WF_vars(Producer) /\ WF_vars(Consumer)

-----------------------------------------------------------------------------

TypeOK ==
  /\ head \in Slots /\ tail \in Slots
  /\ data \in [Slots -> Stamps]
  /\ ppc \in {"idle", "guardReturn", "push", "pushReturn", "resetTail",
              "resetHead", "replace", "dropLoad", "dropStore", "copy", "store"}
  /\ pn \in Nat /\ (ppc # "idle" => pn > 0)
  /\ pwrapped \in BOOLEAN
  /\ poffset \in Nat
  /\ phead \in Slots
  /\ cpc \in {"idle", "compare", "first", "second", "pop", "skipLoad",
              "skipStore", "read", "copy", "store"}
  /\ cn \in Nat /\ (cpc # "idle" => cn > 0)
  /\ cloaded \in Slots
  /\ cordered \in BOOLEAN /\ cpopping \in BOOLEAN
  /\ cremaining \in Words
  /\ (cpc \in {"skipLoad", "skipStore"} => cremaining > MaxBufsize)
  /\ pushed \in Stamps /\ expected \in Stamps
  /\ torn \in BOOLEAN

(* What the callers of the Rust crate and the device callbacks respect:    *)
(* they ask before they push, no push fills the whole ring (all lengths    *)
(* are whole frames, an even number of bytes, and Usable is odd), and no   *)
(* pop is larger than max_bufsize (portaudio.c:78).                        *)
CallersContract ==
  /\ Guarded
  /\ \A n \in Writes : n < Usable
  /\ \A n \in Reads : n <= MaxBufsize

Held == Remaining(head, tail)
Room == Available(head, tail)

(* What the producer knows: room it has seen stays, because the consumer   *)
(* only makes more.                                                        *)
RoomStays ==
  /\ ppc \in {"idle", "guardReturn", "push", "pushReturn", "copy", "store"}
  /\ ppc \in {"guardReturn", "pushReturn"} /\ ~ pwrapped => head <= tail
  /\ ppc # "idle" => pn < Usable
  /\ ppc \in {"push", "pushReturn", "copy", "store"} => pn <= Room

(* What the consumer knows: bytes it has seen stay, because the producer   *)
(* only adds more.  "first" and "second" may see an old tail.              *)
BytesStay ==
  /\ cpc # "idle" => cn <= MaxBufsize
  /\ cpc = "compare" => cloaded = head
  /\ cpc \in {"first", "second"} /\ ~ cordered => tail < head
  /\ cpc = "second" /\ ~ cordered => cloaded = head
  /\ cpc = "second" /\ cordered /\ cloaded >= head => cloaded - head <= Held
  /\ cpc \in {"compare", "first", "second"} /\ cpopping => cn <= Held
  /\ cpc = "second" /\ cordered /\ cpopping /\ cloaded >= head
       => cn <= cloaded - head
  /\ cpc \in {"pop", "read", "copy", "store"} => cn <= Held
  /\ cpc \in {"skipLoad", "skipStore", "read"} => cn <= cremaining
  /\ cpc \in {"skipLoad", "skipStore"} => cremaining <= Held
  /\ cpc \in {"skipStore", "copy", "store"} => cloaded = head

(* Each thread's knowledge holds at every step of the other, until a       *)
(* counter is torn: the invariant the safety properties below rest on.     *)
KnowledgeStays == ~ torn => RoomStays /\ BytesStay

(* The two memcpys never touch the same slot at the same time: the bytes   *)
(* are plain memory, and a slot read while it is written is a data race.   *)
(* Holds until a counter is torn (ringbuf.c:66-68 and 72-74).              *)
RaceFree ==
  ~ torn => ~ (ppc = "copy" /\ cpc = "copy" /\ PushSlots \cap PopSlots # {})

(* The consumer copies out exactly the bytes that are due, in the order    *)
(* they were pushed, none twice and none missing but those it skipped.     *)
Fifo ==
  ~ torn /\ cpc = "copy" =>
    \A i \in PopSlots : data[i] = Stamp(expected + (i - cloaded))

(* The bytes between head and tail.                                        *)
HeldBytes == [k \in 1 .. Held |-> data[Masked(head + (k - 1))]]

Queue == INSTANCE ByteQueue WITH Limit <- Usable, queue <- HeldBytes, next <- pushed

(* The ring is an atomic queue: each store of an index puts or takes a     *)
(* whole piece at once, and no other step, a memcpy least of all, touches  *)
(* a byte that is held (ringbuf.c:13-45).                                  *)
ImplementsQueue ==
  /\ Queue!Init
  /\ [][~ torn' => Queue!Next]_<<HeldBytes, pushed>>

(* Until a counter is torn, a producer that asked ringbuf_available first  *)
(* drops no bytes and does not store head: the check still holds when      *)
(* ringbuf_push repeats it (pulseaudio.c:76-77, handlers.rs:116-118),      *)
(* because the consumer can only have made room meanwhile.  After a guard  *)
(* whose counter was torn it does drop (ReportsWithinCapacity).            *)
GuardPreventsDrop ==
  ~ torn => ppc \notin {"resetTail", "resetHead", "replace", "dropLoad",
                        "dropStore"}

(* Until a counter is torn, a consumer that asked ringbuf_remaining first  *)
(* gets as many bytes as it asked for (handlers.rs:207-209 sends what was  *)
(* read as one packet).                                                    *)
GuardedReadIsWhole == ~ torn /\ cpc = "read" => cremaining >= cn

(* A push that overflows drops the oldest bytes (ringbuf_test.c:17), so the *)
(* bytes it has just made visible are held, whatever the consumer does:    *)
(* fails when the consumer stores over the head that dropped them.         *)
OverflowKeepsNewest == [][StoreTail /\ ~ torn => Held' >= PushLength]_vars

(* The counters never report more than the ring can hold: ringbuf.c:59-60  *)
(* says that is how much data can be written into it.                      *)
ReportsWithinCapacity ==
  /\ ppc \in {"guardReturn", "pushReturn"} => Word(RawAvailable) <= Usable
  /\ cpc = "second" => Word(RawRemaining) <= Usable

(* Neither thread waits for the other: every call returns.                 *)
CallsReturn == (ppc # "idle" ~> ppc = "idle") /\ (cpc # "idle" ~> cpc = "idle")
=============================================================================
