------------------------------ MODULE RingBuf ------------------------------
(***************************************************************************)
(* libaudiowire/src/ringbuf.c, one call at a time: every action is a whole *)
(* call of its API, which is how libaudiowire/tests/ringbuf_test.c uses    *)
(* it.  RingBufSPSC.tla models the same functions when a task and a device *)
(* callback run inside them at the same time.                              *)
(***************************************************************************)
EXTENDS RingIndex, Sequences

CONSTANTS
  Byte,      \* the byte values
  Zero,      \* the byte calloc fills the array with
  Buffers,   \* the byte sequences callers push
  Reads      \* the requests callers pop with: records [size, offset]

ASSUME BuffersAssumption  == Zero \in Byte /\ Buffers \subseteq Seq(Byte)
ASSUME ReadsAssumption    == \A r \in Reads : r.size \in Nat /\ r.offset \in Nat

VARIABLES
  head,      \* rb->head, the slot of the oldest byte
  tail,      \* rb->tail, the slot the next byte goes to
  data,      \* the array
  result,    \* the bytes the last call copied into its caller's buffer
  call       \* history: the last call and its argument

vars == <<head, tail, data, result, call>>

(* The array d after ringbuf_write has copied buf to slot t and on, around *)
(* the end of the array; push calls it with fewer bytes than there are     *)
(* slots.                                                                  *)
Written(d, t, buf) ==
  [i \in Slots |-> LET k == Masked(i - t + Capacity)
                   IN IF k < Len(buf) THEN buf[k + 1] ELSE d[i]]

(* The n bytes ringbuf_read copies out of the array d from slot h on.      *)
Copied(d, h, n) == [k \in 1 .. n |-> d[Masked(h + k - 1)]]

-----------------------------------------------------------------------------

Init ==
  /\ head = 0
  /\ tail = 0
  /\ data = [i \in Slots |-> Zero]
  /\ result = <<>>
  /\ call = <<"create">>

(* A buffer as large as the ring replaces its content; one larger than the *)
(* free space first moves head over the bytes it will overwrite.           *)
Push(buf) ==
  LET size      == Len(buf)
      available == Available(head, tail)
  IN /\ \/ /\ size >= Usable
           /\ tail' = 0
           /\ head' = 1
           /\ data' = [i \in Slots |->
                         IF i = 0 THEN data[0] ELSE buf[size - Usable + i]]
        \/ /\ size < Usable
           /\ head' = IF size > available
                      THEN Masked(head + (size - available)) ELSE head
           /\ data' = Written(data, tail, buf)
           /\ tail' = Masked(tail + size)
     /\ result' = <<>>

(* ringbuf_read: copy n bytes out from slot h and leave head after them.   *)
Read(h, n) ==
  /\ result' = Copied(data, h, n)
  /\ head' = Masked(h + n)
  /\ UNCHANGED <<tail, data>>

PopFront(size) == Read(head, Min2(size, Remaining(head, tail)))

PopBack(size) ==
  LET remaining == Remaining(head, tail)
      read      == Min2(size, remaining)
  IN Read(Masked(head + (remaining - read)), read)

(* A mutant: the wrong operand is skipped.                                 *)
PopBackFromSkipsOffset(size, offset) ==
  LET remaining == Remaining(head, tail)
      skipped   == IF remaining > offset THEN offset ELSE 0
  IN Read(Masked(head + skipped), Min2(size, remaining))

(* The length is bounded by the bytes held BEFORE the skip, as in the code. *)
PopBackFrom(size, offset) ==
  LET remaining == Remaining(head, tail)
      skipped   == IF remaining > offset THEN remaining - offset ELSE 0
  IN Read(Masked(head + skipped), Min2(size, remaining))

Flush ==
  /\ head' = 0
  /\ tail' = 0
  /\ result' = <<>>
  /\ UNCHANGED data

Next ==
  \/ \E buf \in Buffers : Push(buf) /\ call' = <<"push", buf>>
  \/ \E r \in Reads :
       \/ PopFront(r.size) /\ call' = <<"pop_front", r>>
       \/ PopBack(r.size) /\ call' = <<"pop_back", r>>
       \/ PopBackFrom(r.size, r.offset) /\ call' = <<"pop_back_from", r>>
  \/ Flush /\ call' = <<"flush">>

Spec == Init /\ [][Next]_vars

-----------------------------------------------------------------------------

(* head and tail stay inside the array, whatever was pushed and popped:    *)
(* every memcpy of ringbuf.c starts at one of them.                        *)
TypeOK ==
  /\ head \in Slots
  /\ tail \in Slots
  /\ data \in [Slots -> Byte]
  /\ result \in Seq(Byte)

(* The window the array stands for: the bytes from head up to tail.        *)
Held == Copied(data, head, Remaining(head, tail))

Window == INSTANCE ByteWindow WITH Limit <- Usable, window <- Held

(* The ring buffer implements the window: it drops the oldest bytes on     *)
(* overflow and hands out the others once and in order (ringbuf_push,      *)
(* ringbuf_pop_front, ringbuf_pop_back, ringbuf_pop_back_from), provided   *)
(* no caller asks ringbuf_pop_back_from for more than its offset.          *)
ImplementsWindow == Window!Spec

(* What the callers of ringbuf_pop_back_from must respect.                 *)
ReadsWithinOffset == \A r \in Reads : r.size <= r.offset

(* A pop takes the bytes it hands out off the ring: what it returned and   *)
(* what is left are together no more than what was held before.  After     *)
(* ringbuf_pop_back_from the next pop continues with the bytes that follow *)
(* (ringbuf_test.c:40-43).                                               *)
PopsTakeHeldBytes ==
  [][result' # <<>> =>
       Len(result') + Remaining(head', tail') <= Remaining(head, tail)]_vars
=============================================================================
