-------------------------- MODULE RingBufSPSCProofs --------------------------
(***************************************************************************)
(* Theorems about RingBufSPSC for every capacity, word size and set of     *)
(* lengths: the indices stay inside the array whatever the threads do, and *)
(* threads that respect CallersContract neither race nor lose a byte, and  *)
(* pass all of them on in their order, until a counter is torn.            *)
(***************************************************************************)
EXTENDS RingBufSPSC, RingIndexProofs, SequenceTheorems

-----------------------------------------------------------------------------
(* Types of what the steps compute.                                        *)

LEMMA MaskedType == \A i \in Int : Masked(i) \in Slots
BY CapacityAssumption DEF Masked, Slots

LEMMA WordType == \A i \in Int : Word(i) \in Words /\ Word(i) \in Nat
BY WordSizeAssumption, CapacityAssumption DEF Word, Words

LEMMA StampType == \A i \in Int : Stamp(i) \in Stamps
BY StampAssumption DEF Stamp, Stamps

(* A turn of either copy loop copies at least one byte, no more than are   *)
(* left, and stops at the end of the array.                                *)
LEMMA TurnLength ==
  ASSUME NEW i \in Slots, NEW n \in Nat, n > 0
  PROVE  /\ Min2(Capacity - i, n) \in 1 .. n
         /\ i + Min2(Capacity - i, n) <= Capacity
BY CapacityAssumption DEF Min2, Slots

LEMMA CountersType ==
  ASSUME TypeOK
  PROVE  RawAvailable \in Int /\ RawRemaining \in Int
BY CapacityAssumption
   DEF TypeOK, RawAvailable, RawRemaining, AvailableWhen, RemainingWhen, Slots

(* The steps of the producer keep the types, racing or not.                *)
LEMMA ProducerType ==
  ASSUME TypeOK, Producer
  PROVE  TypeOK'
<1> USE DEF TypeOK, shared, producer, consumer, history
<1>1. CASE StartWrite
  BY <1>1, WritesAssumption DEF StartWrite
<1>2. CASE GuardFails
  BY <1>2 DEF GuardFails
<1>3. CASE GuardHolds
  BY <1>3 DEF GuardHolds
<1>4. CASE PushCompare
  BY <1>4 DEF PushCompare
<1>5. CASE PushReturn
  <2>1. Word(RawAvailable) \in Nat
    BY CountersType, WordType
  <2>2. poffset' \in Nat
    BY <1>5, <2>1 DEF PushReturn
  <2>3. QED
    BY <1>5, <2>2 DEF PushReturn
<1>6. CASE ResetTail
  BY <1>6, CapacityAssumption DEF ResetTail, Slots
<1>7. CASE ResetHead
  <2>1. pushed' \in Stamps
    BY <1>7, StampType, StampAssumption DEF ResetHead, Stamps
  <2>2. head' \in Slots
    BY <1>7, CapacityAssumption DEF ResetHead, Slots
  <2>3. QED
    BY <1>7, <2>1, <2>2 DEF ResetHead
<1>8. CASE Replace
  <2>1. \A i \in Slots : Stamp(pushed - Usable + (i - 1)) \in Stamps
    <3>1. \A i \in Slots : pushed - Usable + (i - 1) \in Int
      BY StampAssumption, CapacityAssumption DEF Stamps, Slots, Usable
    <3>2. QED
      BY <3>1, StampType
  <2>2. data[0] \in Stamps
    BY CapacityAssumption DEF Slots
  <2>3. data' \in [Slots -> Stamps]
    BY <1>8, <2>1, <2>2 DEF Replace
  <2>4. QED
    BY <1>8, <2>3 DEF Replace
<1>9. CASE DropLoad
  BY <1>9 DEF DropLoad
<1>10. CASE DropStore
  <2>1. head' \in Slots
    BY <1>10, MaskedType, CapacityAssumption DEF DropStore, Slots
  <2>2. QED
    BY <1>10, <2>1 DEF DropStore
<1>11. CASE CopyIn
  <2>1. \A i \in Slots : Stamp(pushed + (i - tail)) \in Stamps
    <3>1. \A i \in Slots : pushed + (i - tail) \in Int
      BY StampAssumption, CapacityAssumption DEF Stamps, Slots
    <3>2. QED
      BY <3>1, StampType
  <2>2. data' \in [Slots -> Stamps]
    BY <1>11, <2>1 DEF CopyIn
  <2>3. QED
    BY <1>11, <2>2 DEF CopyIn
<1>12. CASE StoreTail
  <2>1. PushLength \in 1 .. pn
    BY <1>12, TurnLength DEF StoreTail, PushLength
  <2>2. tail' \in Slots /\ pushed' \in Stamps
    BY <1>12, <2>1, MaskedType, StampType, StampAssumption, CapacityAssumption
       DEF StoreTail, Slots, Stamps
  <2>3. pn' \in Nat /\ (ppc' # "idle" => pn' > 0)
    BY <1>12, <2>1 DEF StoreTail
  <2>4. QED
    BY <1>12, <2>2, <2>3 DEF StoreTail
<1>13. QED
  BY <1>1, <1>2, <1>3, <1>4, <1>5, <1>6, <1>7, <1>8, <1>9, <1>10, <1>11, <1>12
     DEF Producer

(* And those of the consumer.                                              *)
LEMMA ConsumerType ==
  ASSUME TypeOK, Consumer
  PROVE  TypeOK'
<1> USE DEF TypeOK, shared, producer, consumer, history
<1>1. CASE StartRead
  <2>1. cn' \in Nat /\ cn' > 0
    BY <1>1, ReadsAssumption DEF StartRead
  <2>2. QED
    BY <1>1, <2>1 DEF StartRead
<1>2. CASE Compare
  BY <1>2 DEF Compare
<1>3. CASE FirstOperand
  BY <1>3 DEF FirstOperand
<1>4. CASE PeekFails
  BY <1>4 DEF PeekFails
<1>5. CASE PeekHolds
  BY <1>5 DEF PeekHolds
<1>6. CASE PopCompare
  BY <1>6 DEF PopCompare
<1>7. CASE PopReturn
  <2>1. cremaining' \in Words
    BY <1>7, CountersType, WordType DEF PopReturn
  <2>2. QED
    BY <1>7, <2>1 DEF PopReturn
<1>8. CASE SkipLoad
  BY <1>8 DEF SkipLoad
<1>9. CASE SkipStore
  <2>1. head' \in Slots /\ expected' \in Stamps
    BY <1>9, MaskedType, StampType, StampAssumption, CapacityAssumption,
       MaxBufsizeAssumption, WordSizeAssumption
       DEF SkipStore, Slots, Stamps, Words
  <2>2. QED
    BY <1>9, <2>1 DEF SkipStore
<1>10. CASE ReadLoad
  <2>1. cn' \in Nat /\ 0 \in Words
    BY <1>10, WordSizeAssumption, CapacityAssumption DEF ReadLoad, Min2, Words
  <2>2. QED
    BY <1>10, <2>1 DEF ReadLoad
<1>11. CASE CopyOut
  BY <1>11 DEF CopyOut
<1>12. CASE StoreHead
  <2>1. PopLength \in 1 .. cn
    BY <1>12, TurnLength DEF StoreHead, PopLength
  <2>2. head' \in Slots /\ expected' \in Stamps
    BY <1>12, <2>1, MaskedType, StampType, StampAssumption, CapacityAssumption
       DEF StoreHead, Slots, Stamps
  <2>3. cn' \in Nat /\ (cpc' # "idle" => cn' > 0)
    BY <1>12, <2>1 DEF StoreHead
  <2>4. QED
    BY <1>12, <2>2, <2>3 DEF StoreHead
<1>13. QED
  BY <1>1, <1>2, <1>3, <1>4, <1>5, <1>6, <1>7, <1>8, <1>9, <1>10, <1>11, <1>12
     DEF Consumer

(* head and tail stay inside the array in every interleaving, and so does  *)
(* every copy: with or without the guard of the producer, with pushes as   *)
(* large as the ring, and after a counter has been torn.                   *)
THEOREM SPSCTypeCorrect == Spec => []TypeOK
<1>1. Init => TypeOK
  <2>1. 0 \in Slots /\ 0 \in Words /\ 0 \in Stamps
    BY CapacityAssumption, WordSizeAssumption, StampAssumption
       DEF Slots, Words, Stamps
  <2>2. Init => data \in [Slots -> Stamps]
    BY <2>1 DEF Init
  <2>3. Init => /\ cordered \in BOOLEAN /\ cpopping \in BOOLEAN
                /\ pwrapped \in BOOLEAN /\ torn \in BOOLEAN
    BY DEF Init
  <2>4. QED
    BY <2>1, <2>2, <2>3 DEF Init, TypeOK
<1>2. TypeOK /\ [Next]_vars => TypeOK'
  <2> SUFFICES ASSUME TypeOK, [Next]_vars
               PROVE  TypeOK'
    OBVIOUS
  <2>1. CASE UNCHANGED vars
    BY <2>1 DEF vars, shared, producer, consumer, history, TypeOK
  <2>2. QED
    BY <2>1, ProducerType, ConsumerType DEF Next
<1>3. QED
  BY <1>1, <1>2, PTL DEF Spec

-----------------------------------------------------------------------------
(* What each thread knows, and that the other cannot falsify it.           *)

LEMMA HeldAndRoom ==
  ASSUME TypeOK
  PROVE  /\ Held \in Nat /\ Room \in Nat /\ Usable \in Nat
         /\ Room = Usable - Held
         /\ Held \in 0 .. Usable
BY CountersAddUp, CapacityAssumption DEF TypeOK, Held, Room, Usable

(* A counter that did not wrap around is the value of its subtraction.     *)
LEMMA WordExact ==
  ASSUME NEW i \in 0 .. Capacity
  PROVE  Word(i) = i
BY WordSizeAssumption, CapacityAssumption DEF Word

(* ringbuf_available reports the room there is, unless head has wrapped    *)
(* around between its two loads and the result is torn.                    *)
LEMMA AvailableIsRoom ==
  ASSUME TypeOK, RoomStays, ppc \in {"guardReturn", "pushReturn"},
         RawAvailable >= 0
  PROVE  Word(RawAvailable) = Room
<1>1. RawAvailable = Room
  BY CapacityAssumption
     DEF TypeOK, RoomStays, RawAvailable, Room, Available, AvailableWhen, Slots
<1>2. Room \in 0 .. Capacity
  BY HeldAndRoom, CapacityAssumption DEF Usable
<1>3. QED
  BY <1>1, <1>2, WordExact

(* ringbuf_remaining reports bytes that are held, unless tail has wrapped  *)
(* around between its two loads; bytes pushed since may be missing in it.  *)
LEMMA RemainingIsHeld ==
  ASSUME TypeOK, BytesStay, cpc = "second", RawRemaining >= 0
  PROVE  /\ Word(RawRemaining) \in Nat
         /\ Word(RawRemaining) <= Held
         /\ cpopping => cn <= Word(RawRemaining)
<1>1. /\ RawRemaining \in Nat
      /\ RawRemaining <= Held
      /\ cpopping => cn <= RawRemaining
  <2>1. CASE cordered
    BY <2>1 DEF TypeOK, BytesStay, RawRemaining, RemainingWhen, Slots
  <2>2. CASE ~ cordered
    BY <2>2, CapacityAssumption
       DEF TypeOK, BytesStay, RawRemaining, Held, Remaining, RemainingWhen, Slots
  <2>3. QED
    BY <2>1, <2>2
<1>2. RawRemaining \in 0 .. Capacity
  BY <1>1, HeldAndRoom, CapacityAssumption DEF Usable
<1>3. QED
  BY <1>1, <1>2, WordExact

(* The steps that leave head, tail and the other thread alone.             *)
LEMMA BytesStayFrame ==
  ASSUME BytesStay, UNCHANGED <<head, tail, consumer>>
  PROVE  BytesStay'
BY DEF BytesStay, consumer, Held

LEMMA RoomStaysFrame ==
  ASSUME RoomStays, UNCHANGED <<head, tail, producer>>
  PROVE  RoomStays'
BY DEF RoomStays, producer, Room

(* A step of the producer that pushes n bytes into the room there is.      *)
LEMMA BytesStayOnPush ==
  ASSUME TypeOK, BytesStay, NEW n \in 0 .. Room, tail' = Masked(tail + n),
         UNCHANGED <<head, consumer>>
  PROVE  BytesStay'
<1>1. /\ Held' = Held + n
      /\ tail < head => tail' < head
  BY TailMoves DEF TypeOK, Held, Room
<1>2. Held \in Nat /\ Held' \in Nat /\ Held <= Held'
  BY <1>1, HeldAndRoom
<1>3. UNCHANGED <<head, cpc, cn, cloaded, cordered, cpopping, cremaining>>
  BY DEF consumer
<1>4. /\ cn \in Nat /\ cremaining \in Nat
      /\ cloaded \in Int /\ head \in Int /\ cloaded - head \in Int
  BY WordSizeAssumption, CapacityAssumption DEF TypeOK, Slots, Words
<1>5. \A i \in Int : i <= Held => i <= Held'
  BY <1>2
<1>6. QED
  BY <1>1, <1>3, <1>4, <1>5 DEF BytesStay

(* A step of the consumer that takes n of the bytes held.                  *)
LEMMA RoomStaysOnPop ==
  ASSUME TypeOK, RoomStays, NEW n \in 0 .. Held, head' = Masked(head + n),
         UNCHANGED <<tail, producer>>
  PROVE  RoomStays'
<1>1. /\ Room' = Room + n
      /\ head <= tail => head' <= tail
  BY HeadMoves DEF TypeOK, Held, Room
<1>2. Room \in Nat /\ n \in Nat
  BY HeldAndRoom
<1>3. QED
  BY <1>1, <1>2 DEF RoomStays, producer, TypeOK

(* A step that returns from a counter and tears nothing read no negative.  *)
LEMMA NotTornProducer ==
  ASSUME TypeOK, torn' = (torn \/ RawAvailable < 0), ~ torn'
  PROVE  RawAvailable >= 0
<1>1. ~ (RawAvailable < 0)
  OBVIOUS
<1>2. QED
  BY <1>1, CountersType

LEMMA NotTornConsumer ==
  ASSUME TypeOK, torn' = (torn \/ RawRemaining < 0), ~ torn'
  PROVE  RawRemaining >= 0
<1>1. ~ (RawRemaining < 0)
  OBVIOUS
<1>2. QED
  BY <1>1, CountersType

LEMMA ProducerKnowledge ==
  ASSUME CallersContract, TypeOK, RoomStays, BytesStay, Producer, ~ torn'
  PROVE  RoomStays' /\ BytesStay'
<1> USE DEF shared, producer, consumer, history
<1>1. CASE StartWrite
  <2>1. BytesStay'
    BY <1>1, BytesStayFrame DEF StartWrite
  <2>2. ppc' = "guardReturn" /\ pn' < Usable
    BY <1>1 DEF StartWrite, CallersContract
  <2>3. ~ pwrapped' => head' <= tail'
    <3>1. ~ pwrapped' => ~ (head > tail)
      BY <1>1 DEF StartWrite
    <3>2. UNCHANGED <<head, tail>> /\ head \in Int /\ tail \in Int
      BY <1>1 DEF StartWrite, TypeOK, Slots
    <3>3. QED
      BY <3>1, <3>2
  <2>4. RoomStays'
    BY <2>2, <2>3 DEF RoomStays
  <2>5. QED
    BY <2>1, <2>4
<1>2. CASE GuardFails
  BY <1>2, BytesStayFrame DEF GuardFails, RoomStays
<1>3. CASE GuardHolds
  <2>1. BytesStay'
    BY <1>3, BytesStayFrame DEF GuardHolds
  <2>2. pn <= Room
    <3>1. RawAvailable >= 0
      BY <1>3, NotTornProducer DEF GuardHolds
    <3>2. QED
      BY <1>3, <3>1, AvailableIsRoom, HeldAndRoom DEF GuardHolds, TypeOK
  <2>3. QED
    BY <1>3, <2>1, <2>2 DEF GuardHolds, RoomStays, Room
<1>4. CASE PushCompare
  <2>1. BytesStay'
    BY <1>4, BytesStayFrame DEF PushCompare
  <2>2. ~ pwrapped' => head' <= tail'
    <3>1. ~ pwrapped' => ~ (head > tail)
      BY <1>4 DEF PushCompare
    <3>2. UNCHANGED <<head, tail>> /\ head \in Int /\ tail \in Int
      BY <1>4 DEF PushCompare, TypeOK, Slots
    <3>3. QED
      BY <3>1, <3>2
  <2>3. /\ ppc = "push" /\ ppc' = "pushReturn"
        /\ UNCHANGED <<pn, head, tail>>
    BY <1>4 DEF PushCompare
  <2>4. RoomStays'
    BY <2>2, <2>3 DEF RoomStays, Room
  <2>5. QED
    BY <2>1, <2>4
<1>5. CASE PushReturn
  <2>1. BytesStay'
    BY <1>5, BytesStayFrame DEF PushReturn
  <2>2. pn <= Word(RawAvailable) /\ pn < Usable /\ pn \in Nat
    <3>1. RawAvailable >= 0
      BY <1>5, NotTornProducer DEF PushReturn
    <3>2. QED
      BY <1>5, <3>1, AvailableIsRoom DEF PushReturn, RoomStays, TypeOK
  <2>3. ppc' = "copy"
    <3>1. Word(RawAvailable) \in Nat /\ Usable \in Nat
      BY CountersType, WordType, HeldAndRoom
    <3>2. QED
      BY <1>5, <2>2, <3>1 DEF PushReturn
  <2>4. RoomStays'
    BY <1>5, <2>3 DEF PushReturn, RoomStays, Room
  <2>5. QED
    BY <2>1, <2>4
<1>6. CASE ResetTail \/ ResetHead \/ Replace \/ DropLoad \/ DropStore
  BY <1>6 DEF ResetTail, ResetHead, Replace, DropLoad, DropStore, RoomStays
<1>7. CASE CopyIn
  BY <1>7, BytesStayFrame DEF CopyIn, RoomStays, Room
<1>8. CASE StoreTail
  <2>1. PushLength \in 1 .. pn /\ pn <= Room /\ pn \in Nat /\ pn < Usable
    BY <1>8, TurnLength DEF StoreTail, PushLength, RoomStays, TypeOK
  <2>2. PushLength \in 0 .. Room
    BY <2>1, HeldAndRoom
  <2>3. BytesStay'
    BY <1>8, <2>2, BytesStayOnPush DEF StoreTail
  <2>4. Room' = Room - PushLength
    BY <1>8, <2>2, TailMoves DEF StoreTail, TypeOK, Room
  <2>5. pn' <= Room' /\ pn' < Usable
    BY <1>8, <2>1, <2>4, HeldAndRoom DEF StoreTail
  <2>6. ppc' \in {"idle", "copy"}
    BY <1>8 DEF StoreTail
  <2>7. QED
    BY <2>3, <2>5, <2>6 DEF RoomStays
<1>9. QED
  BY <1>1, <1>2, <1>3, <1>4, <1>5, <1>6, <1>7, <1>8 DEF Producer

LEMMA ConsumerKnowledge ==
  ASSUME CallersContract, TypeOK, RoomStays, BytesStay, Consumer, ~ torn'
  PROVE  RoomStays' /\ BytesStay'
<1> USE DEF shared, producer, consumer, history
<1>a. MaxBufsize \in Nat /\ cn \in Nat /\ cremaining \in Nat
  BY MaxBufsizeAssumption, WordSizeAssumption, CapacityAssumption DEF TypeOK, Words
<1>1. CASE StartRead
  <2>1. RoomStays'
    BY <1>1, RoomStaysFrame DEF StartRead
  <2>2. BytesStay'
    BY <1>1 DEF StartRead, BytesStay, CallersContract
  <2>3. QED
    BY <2>1, <2>2
<1>2. CASE Compare
  <2>1. RoomStays'
    BY <1>2, RoomStaysFrame DEF Compare
  <2>2. ~ cordered' => tail < head
    <3>1. ~ cordered' => ~ (head <= tail)
      BY <1>2 DEF Compare, BytesStay
    <3>2. head \in Int /\ tail \in Int
      BY DEF TypeOK, Slots
    <3>3. QED
      BY <3>1, <3>2
  <2>3. /\ cpc = "compare" /\ cpc' = "first"
        /\ UNCHANGED <<cn, cpopping, head, tail>>
    BY <1>2 DEF Compare
  <2>4. BytesStay'
    BY <2>2, <2>3 DEF BytesStay, Held
  <2>5. QED
    BY <2>1, <2>4
<1>3. CASE FirstOperand
  <2>1. RoomStays'
    BY <1>3, RoomStaysFrame DEF FirstOperand
  <2>2. cordered /\ tail >= head => tail - head = Held
    BY DEF TypeOK, Slots, Held, Remaining, RemainingWhen
  <2>3. BytesStay'
    BY <1>3, <2>2, HeldAndRoom DEF FirstOperand, BytesStay, Held
  <2>4. QED
    BY <2>1, <2>3
<1>4. CASE PeekFails
  BY <1>4, RoomStaysFrame DEF PeekFails, BytesStay
<1>5. CASE PeekHolds
  <2>1. RoomStays'
    BY <1>5, RoomStaysFrame DEF PeekHolds
  <2>2. cn <= Held
    <3>1. RawRemaining >= 0
      BY <1>5, NotTornConsumer DEF PeekHolds
    <3>2. QED
      BY <1>5, <1>a, <3>1, RemainingIsHeld, HeldAndRoom DEF PeekHolds
  <2>3. BytesStay'
    BY <1>5, <2>2 DEF PeekHolds, BytesStay, Held
  <2>4. QED
    BY <2>1, <2>3
<1>6. CASE PopCompare
  <2>1. RoomStays'
    BY <1>6, RoomStaysFrame DEF PopCompare
  <2>2. BytesStay'
    BY <1>6 DEF PopCompare, BytesStay, Held
  <2>3. QED
    BY <2>1, <2>2
<1>7. CASE PopReturn
  <2>1. RoomStays'
    BY <1>7, RoomStaysFrame DEF PopReturn
  <2>2. cremaining' \in Nat /\ cremaining' <= Held /\ cn <= cremaining'
    <3>1. RawRemaining >= 0
      BY <1>7, NotTornConsumer DEF PopReturn
    <3>2. QED
      BY <1>7, <3>1, RemainingIsHeld DEF PopReturn
  <2>3. cn <= Held
    BY <1>a, <2>2, HeldAndRoom
  <2>4. BytesStay'
    BY <1>7, <2>2, <2>3 DEF PopReturn, BytesStay, Held
  <2>5. QED
    BY <2>1, <2>4
<1>8. CASE SkipLoad
  <2>1. RoomStays'
    BY <1>8, RoomStaysFrame DEF SkipLoad
  <2>2. BytesStay'
    BY <1>8 DEF SkipLoad, BytesStay, Held
  <2>3. QED
    BY <2>1, <2>2
<1>9. CASE SkipStore
  <2> DEFINE n == cremaining - MaxBufsize
  <2>1. /\ n \in 0 .. Held /\ n \in Nat /\ Held - n >= MaxBufsize
        /\ cn <= MaxBufsize /\ cn <= cremaining
        /\ head' = Masked(head + n)
    BY <1>9, <1>a, HeldAndRoom DEF SkipStore, BytesStay, TypeOK
  <2>2. RoomStays'
    BY <1>9, <2>1, RoomStaysOnPop DEF SkipStore
  <2>3. Held' = Held - n
    BY <1>9, <2>1, HeadMoves DEF SkipStore, TypeOK, Held
  <2>4. cn <= Held'
    BY <1>a, <2>1, <2>3, HeldAndRoom
  <2>5. BytesStay'
    BY <1>9, <2>1, <2>4 DEF SkipStore, BytesStay
  <2>6. QED
    BY <2>2, <2>5
<1>10. CASE ReadLoad
  <2>1. RoomStays'
    BY <1>10, RoomStaysFrame DEF ReadLoad
  <2>2. cn' = cn
    BY <1>10, <1>a DEF ReadLoad, BytesStay, Min2
  <2>3. BytesStay'
    BY <1>10, <2>2 DEF ReadLoad, BytesStay, Held
  <2>4. QED
    BY <2>1, <2>3
<1>11. CASE CopyOut
  <2>1. RoomStays'
    BY <1>11, RoomStaysFrame DEF CopyOut
  <2>2. BytesStay'
    BY <1>11 DEF CopyOut, BytesStay, Held
  <2>3. QED
    BY <2>1, <2>2
<1>12. CASE StoreHead
  <2>1. /\ PopLength \in 1 .. cn /\ cn <= Held /\ cn <= MaxBufsize
        /\ head' = Masked(head + PopLength)
    BY <1>12, TurnLength DEF StoreHead, PopLength, BytesStay, TypeOK
  <2>2. PopLength \in 0 .. Held
    BY <1>a, <2>1, HeldAndRoom
  <2>3. RoomStays'
    BY <1>12, <2>1, <2>2, RoomStaysOnPop DEF StoreHead
  <2>4. Held' = Held - PopLength
    BY <1>12, <2>1, <2>2, HeadMoves DEF StoreHead, TypeOK, Held
  <2>5. cn' <= Held' /\ cn' <= MaxBufsize
    BY <1>12, <1>a, <2>1, <2>4, HeldAndRoom DEF StoreHead
  <2>6. BytesStay'
    <3>1. cpc' \in {"idle", "copy"} /\ cloaded' = head'
      BY <1>12 DEF StoreHead
    <3>2. QED
      BY <2>5, <3>1 DEF BytesStay
  <2>7. QED
    BY <2>3, <2>6
<1>13. QED
  BY <1>1, <1>2, <1>3, <1>4, <1>5, <1>6, <1>7, <1>8, <1>9, <1>10, <1>11, <1>12
     DEF Consumer

-----------------------------------------------------------------------------
(* What follows, for callers that respect the contract.                    *)

(* Neither thread ever falsifies what the other has learned from its       *)
(* counters: room seen stays room, bytes seen stay bytes (ringbuf.c called *)
(* from pulseaudio.c:76-77, 96-97 and handlers.rs:116-118, 145-146,        *)
(* 207-208, 233-235), until a counter is torn.                             *)
THEOREM KnowledgeCorrect ==
  ASSUME CallersContract
  PROVE  Spec => []KnowledgeStays
<1>1. Init => KnowledgeStays
  BY CapacityAssumption
     DEF Init, KnowledgeStays, RoomStays, BytesStay
<1>2. TypeOK /\ KnowledgeStays /\ [Next]_vars => KnowledgeStays'
  <2> SUFFICES ASSUME TypeOK, KnowledgeStays, [Next]_vars, ~ torn'
               PROVE  RoomStays' /\ BytesStay'
    BY DEF KnowledgeStays
  <2>1. ~ torn
    BY DEF Next, Producer, Consumer, vars, history, producer, consumer,
           StartWrite, GuardFails, GuardHolds, PushCompare, PushReturn,
           ResetTail, ResetHead, Replace, DropLoad, DropStore, CopyIn,
           StoreTail, StartRead, Compare, FirstOperand, PeekFails, PeekHolds,
           PopCompare, PopReturn, SkipLoad, SkipStore, ReadLoad, CopyOut,
           StoreHead
  <2>2. RoomStays /\ BytesStay
    BY <2>1 DEF KnowledgeStays
  <2>3. CASE UNCHANGED vars
    BY <2>2, <2>3, RoomStaysFrame, BytesStayFrame
       DEF vars, shared, producer, consumer, history
  <2>4. QED
    BY <2>2, <2>3, ProducerKnowledge, ConsumerKnowledge DEF Next
<1>3. QED
  BY <1>1, <1>2, SPSCTypeCorrect, PTL DEF Spec

(* No slot is read while it is written.                                    *)
THEOREM NoRace ==
  ASSUME CallersContract
  PROVE  Spec => []RaceFree
<1>1. TypeOK /\ KnowledgeStays => RaceFree
  <2> SUFFICES ASSUME TypeOK, RoomStays, BytesStay, ppc = "copy", cpc = "copy"
               PROVE  PushSlots \cap PopSlots = {}
    BY DEF RaceFree, KnowledgeStays
  <2>1. /\ PopLength \in Nat /\ PopLength <= Held
        /\ head + PopLength <= Capacity /\ cloaded = head
    BY TurnLength, HeldAndRoom DEF PopLength, BytesStay, TypeOK
  <2>2. /\ PushLength \in Nat /\ PushLength <= Room
        /\ tail + PushLength <= Capacity
    BY TurnLength, HeldAndRoom DEF PushLength, RoomStays, TypeOK
  <2>3. QED
    BY <2>1, <2>2, HeldAndFreeApart
       DEF PushSlots, PopSlots, Held, Room, TypeOK
<1>2. QED
  BY <1>1, KnowledgeCorrect, SPSCTypeCorrect, PTL

(* Until a counter is torn, the guard of the producer is not contradicted  *)
(* by ringbuf_push: no byte is dropped and head has a single writer.  (A   *)
(* guard whose counter was torn may hold with no room, and then it drops.) *)
THEOREM NoDrop ==
  ASSUME CallersContract
  PROVE  Spec => [](GuardPreventsDrop /\ GuardedReadIsWhole)
<1>1. TypeOK /\ KnowledgeStays => GuardPreventsDrop /\ GuardedReadIsWhole
  BY WordSizeAssumption, CapacityAssumption
     DEF KnowledgeStays, GuardPreventsDrop, GuardedReadIsWhole, RoomStays,
         BytesStay, TypeOK, Words
<1>2. QED
  BY <1>1, KnowledgeCorrect, SPSCTypeCorrect, PTL

(* What a consumer has peeked is there when it reads.                      *)
COROLLARY ReadsAreWhole ==
  ASSUME CallersContract
  PROVE  Spec => []GuardedReadIsWhole
BY NoDrop, PTL

-----------------------------------------------------------------------------
(* The bytes themselves.  Arithmetic modulo StampCount.                    *)

LEMMA StampDivision ==
  ASSUME NEW a \in Int
  PROVE  /\ a = StampCount * (a \div StampCount) + Stamp(a)
         /\ Stamp(a) \in 0 .. StampCount - 1
         /\ a \div StampCount \in Int /\ StampCount * (a \div StampCount) \in Int
<1>1. a = StampCount * (a \div StampCount) + (a % StampCount)
  BY StampAssumption, Z3
<1>2. a % StampCount \in 0 .. StampCount - 1
  BY StampAssumption
<1>3. a \div StampCount \in Int /\ StampCount * (a \div StampCount) \in Int
  BY StampAssumption
<1>4. QED
  BY <1>1, <1>2, <1>3 DEF Stamp

LEMMA StampUnique ==
  ASSUME NEW p \in Int, NEW q \in Int,
         NEW r \in 0 .. StampCount - 1, NEW s \in 0 .. StampCount - 1,
         StampCount * p + r = StampCount * q + s
  PROVE  r = s
<1>1. \A d \in Int : d > 0 => StampCount * d >= StampCount
  BY StampAssumption, Z3
<1>2. StampCount * (p - q) = s - r /\ StampCount * (q - p) = r - s
  BY StampAssumption, Z3
<1>3. ~ (p - q > 0) /\ ~ (q - p > 0)
  BY <1>1, <1>2, StampAssumption
<1>4. p = q
  BY <1>3
<1>5. QED
  BY <1>4, StampAssumption

(* Counting on from a stamp is counting on from the number.                *)
LEMMA StampAdds ==
  ASSUME NEW a \in Int, NEW b \in Int
  PROVE  Stamp(Stamp(a) + b) = Stamp(a + b)
<1> DEFINE p == a \div StampCount
           r == Stamp(a)
           u == (r + b) \div StampCount
           x == Stamp(r + b)
           v == (a + b) \div StampCount
           y == Stamp(a + b)
<1>1. p \in Int /\ r \in 0 .. StampCount - 1 /\ a = StampCount * p + r
  BY StampDivision
<1>2. r + b \in Int /\ a + b \in Int
  BY <1>1, StampAssumption
<1>3. /\ u \in Int /\ x \in 0 .. StampCount - 1 /\ r + b = StampCount * u + x
      /\ v \in Int /\ y \in 0 .. StampCount - 1 /\ a + b = StampCount * v + y
  BY <1>2, StampDivision
<1> HIDE DEF p, r, u, x, v, y
<1>4. /\ StampCount * (p + u) = StampCount * p + StampCount * u
      /\ StampCount * p \in Int /\ StampCount * u \in Int
  BY <1>1, <1>3, StampAssumption, Z3
<1>5. StampCount * (p + u) + x = StampCount * v + y /\ p + u \in Int
  BY <1>1, <1>3, <1>4, StampAssumption
<1>6. x = y
  BY <1>3, <1>5, StampUnique
<1>7. QED
  BY <1>6 DEF r, x, y

-----------------------------------------------------------------------------
(* How far behind head a slot is.                                          *)
Place(h, i) == IF i >= h THEN i - h ELSE i - h + Capacity

LEMMA PlaceOnPop ==
  ASSUME NEW h \in Slots, NEW t \in Slots, NEW n \in 0 .. Remaining(h, t),
         NEW i \in Slots, Place(Masked(h + n), i) < Remaining(h, t) - n
  PROVE  Place(h, i) = Place(Masked(h + n), i) + n /\ Place(h, i) < Remaining(h, t)
<1>1. Remaining(h, t) \in 0 .. Capacity - 1
  BY CountersAddUp DEF Usable
<1>2. h + n \in 0 .. 2 * Capacity - 1
  BY <1>1, CapacityAssumption DEF Slots
<1>3. PICK x \in 0 .. 2 * Capacity - 1 : x = h + n
  BY <1>2
<1>4. /\ x < Capacity => Masked(x) = x
      /\ x >= Capacity => Masked(x) = x - Capacity
  BY <1>3, MaskedOnce
<1>5. Masked(h + n) = Masked(x)
  BY <1>3
<1>6. QED
  BY <1>1, <1>3, <1>4, <1>5, CapacityAssumption DEF Place, Slots

LEMMA PlaceOnPush ==
  ASSUME NEW h \in Slots, NEW t \in Slots, NEW i \in Slots,
         NEW n \in Nat, n <= Available(h, t), t + n <= Capacity
  PROVE  /\ i \in t .. t + n - 1 =>
              Place(h, i) = Remaining(h, t) + (i - t)
         /\ Place(h, i) < Remaining(h, t) + n /\ ~ i \in t .. t + n - 1 =>
              Place(h, i) < Remaining(h, t)
BY CapacityAssumption
   DEF Slots, Place, Remaining, RemainingWhen, Available, AvailableWhen

-----------------------------------------------------------------------------
(* The bytes held are the ones that are due, in their order; a byte that   *)
(* has been copied in waits for the store of tail.                         *)
InOrder ==
  /\ pushed = Stamp(expected + Held)
  /\ \A i \in Slots :
       Place(head, i) < Held => data[i] = Stamp(expected + Place(head, i))
  /\ ppc = "store" =>
       \A i \in PushSlots : data[i] = Stamp(pushed + (i - tail))

LEMMA InOrderFrame ==
  ASSUME InOrder, UNCHANGED <<head, tail, data, pn, pushed, expected>>,
         ppc' = "store" => ppc = "store"
  PROVE  InOrder'
BY DEF InOrder, Held, PushSlots, PushLength

(* The consumer passes n of the bytes held.                                *)
LEMMA InOrderOnPop ==
  ASSUME TypeOK, InOrder, NEW n \in 0 .. Held, head' = Masked(head + n),
         expected' = Stamp(expected + n),
         UNCHANGED <<tail, data, producer, pushed>>
  PROVE  InOrder'
<1>1. /\ head \in Slots /\ tail \in Slots /\ head' \in Slots
      /\ expected \in Int /\ Held \in Nat /\ n \in Nat
  BY HeadMoves, AdvanceHead, HeldAndRoom, StampAssumption
     DEF TypeOK, Stamps, Held
<1>2. Held' = Held - n
  BY <1>1, HeadMoves DEF Held
<1>3. \A d \in Int : Stamp(expected' + d) = Stamp(expected + n + d)
  BY <1>1, StampAdds
<1>4. pushed' = Stamp(expected' + Held')
  <2>1. expected + n + (Held - n) = expected + Held
    BY <1>1
  <2>2. QED
    BY <1>1, <1>2, <1>3, <2>1 DEF InOrder
<1>5. ASSUME NEW i \in Slots, Place(head', i) < Held'
      PROVE  data'[i] = Stamp(expected' + Place(head', i))
  <2>1. Place(head, i) = Place(head', i) + n /\ Place(head, i) < Held
    BY <1>1, <1>2, <1>5, PlaceOnPop DEF Held
  <2>2. Place(head', i) \in Int
    BY <1>1, CapacityAssumption DEF Place, Slots
  <2>3. expected + n + Place(head', i) = expected + Place(head, i)
    BY <1>1, <2>1, <2>2
  <2>4. QED
    BY <1>3, <2>1, <2>2, <2>3 DEF InOrder
<1>6. QED
  BY <1>4, <1>5 DEF InOrder, producer, PushSlots, PushLength

LEMMA ProducerInOrder ==
  ASSUME TypeOK, RoomStays, InOrder, Producer
  PROVE  InOrder'
<1> USE DEF shared, producer, consumer, history
<1>1. CASE StartWrite \/ GuardFails \/ GuardHolds \/ PushCompare \/ PushReturn
  <2>1. /\ UNCHANGED <<head, tail, data, pushed, expected>>
        /\ ppc' # "store"
    BY <1>1 DEF StartWrite, GuardFails, GuardHolds, PushCompare, PushReturn
  <2>2. QED
    BY <2>1 DEF InOrder, Held
<1>2. CASE ResetTail \/ ResetHead \/ Replace \/ DropLoad \/ DropStore
  BY <1>2 DEF ResetTail, ResetHead, Replace, DropLoad, DropStore, RoomStays
<1>3. ASSUME ppc \in {"copy", "store"}
      PROVE  /\ PushLength \in Nat /\ PushLength <= Room
             /\ tail + PushLength <= Capacity
             /\ PushSlots \subseteq Slots
  <2>1. PushLength \in 1 .. pn /\ tail + PushLength <= Capacity /\ pn <= Room
    BY <1>3, TurnLength DEF PushLength, RoomStays, TypeOK
  <2>2. QED
    BY <2>1, HeldAndRoom, CapacityAssumption DEF TypeOK, PushSlots, Slots
<1>4. CASE CopyIn
  <2>1. /\ ppc = "copy" /\ UNCHANGED <<head, tail, pn, pushed, expected>>
        /\ data' = [i \in Slots |-> IF i \in PushSlots
                                    THEN Stamp(pushed + (i - tail))
                                    ELSE data[i]]
    BY <1>4 DEF CopyIn
  <2>2. Held' = Held /\ PushSlots' = PushSlots
    BY <2>1 DEF Held, PushSlots, PushLength
  <2>3. ASSUME NEW i \in Slots, Place(head, i) < Held
        PROVE  i \notin PushSlots
    <3>1. i \in PushSlots => Place(head, i) = Held + (i - tail)
      BY <1>3, <2>1, PlaceOnPush DEF TypeOK, Held, Room, PushSlots
    <3>2. i \in PushSlots => i - tail >= 0 /\ i - tail \in Int
      BY CapacityAssumption, <1>3, <2>1 DEF PushSlots, TypeOK, Slots
    <3>3. QED
      BY <2>3, <3>1, <3>2, HeldAndRoom
  <2>4. \A i \in Slots : Place(head, i) < Held => data'[i] = data[i]
    BY <2>1, <2>3
  <2>5. \A i \in PushSlots : data'[i] = Stamp(pushed + (i - tail))
    BY <1>3, <2>1
  <2>6. QED
    BY <2>1, <2>2, <2>4, <2>5 DEF InOrder
<1>5. CASE StoreTail
  <2> DEFINE n == PushLength
  <2>1. /\ ppc = "store" /\ ppc' # "store" /\ UNCHANGED <<head, data, expected>>
        /\ tail' = Masked(tail + n) /\ pushed' = Stamp(pushed + n)
    BY <1>5 DEF StoreTail
  <2>2. /\ n \in Nat /\ n \in 0 .. Room /\ Held \in Nat /\ expected \in Int
        /\ tail + n <= Capacity /\ head \in Slots /\ tail \in Slots
    BY <1>3, <2>1, HeldAndRoom, StampAssumption DEF TypeOK, Stamps
  <2>3. Held' = Held + n
    BY <2>1, <2>2, TailMoves DEF Held, Room
  <2>4. \A d \in Int : Stamp(pushed + d) = Stamp(expected + Held + d)
    BY <2>2, StampAdds DEF InOrder
  <2>5. pushed' = Stamp(expected' + Held')
    <3>1. expected + Held + n = expected + (Held + n)
      BY <2>2
    <3>2. QED
      BY <2>1, <2>2, <2>3, <2>4, <3>1
  <2>6. ASSUME NEW i \in Slots, Place(head, i) < Held + n
        PROVE  data[i] = Stamp(expected + Place(head, i))
    <3>1. CASE i \in PushSlots
      <4>1. Place(head, i) = Held + (i - tail)
        BY <2>2, <3>1, PlaceOnPush DEF Held, Room, PushSlots
      <4>2. i - tail \in Int
        BY <2>2, CapacityAssumption DEF Slots
      <4>3. expected + Held + (i - tail) = expected + Place(head, i)
        BY <2>2, <4>1, <4>2
      <4>4. QED
        BY <2>1, <2>4, <3>1, <4>2, <4>3 DEF InOrder
    <3>2. CASE i \notin PushSlots
      <4>1. Place(head, i) < Held
        BY <2>2, <2>6, <3>2, PlaceOnPush DEF Held, Room, PushSlots
      <4>2. QED
        BY <4>1 DEF InOrder
    <3>3. QED
      BY <3>1, <3>2
  <2>7. QED
    BY <2>1, <2>3, <2>5, <2>6 DEF InOrder
<1>6. QED
  BY <1>1, <1>2, <1>4, <1>5 DEF Producer

LEMMA ConsumerInOrder ==
  ASSUME TypeOK, BytesStay, InOrder, Consumer
  PROVE  InOrder'
<1> USE DEF shared, producer, consumer, history
<1>1. CASE \/ StartRead \/ Compare \/ FirstOperand \/ PeekFails \/ PeekHolds
           \/ PopCompare \/ PopReturn \/ SkipLoad \/ ReadLoad \/ CopyOut
  BY <1>1, InOrderFrame
     DEF StartRead, Compare, FirstOperand, PeekFails, PeekHolds, PopCompare,
         PopReturn, SkipLoad, ReadLoad, CopyOut
<1>2. CASE SkipStore
  <2>1. /\ cremaining - MaxBufsize \in 0 .. Held
        /\ head' = Masked(head + (cremaining - MaxBufsize))
    BY <1>2, HeldAndRoom, MaxBufsizeAssumption, WordSizeAssumption,
       CapacityAssumption DEF SkipStore, BytesStay, TypeOK, Words
  <2>2. QED
    BY <1>2, <2>1, InOrderOnPop DEF SkipStore
<1>3. CASE StoreHead
  <2>1. /\ PopLength \in 0 .. Held
        /\ head' = Masked(head + PopLength)
    BY <1>3, TurnLength, HeldAndRoom
       DEF StoreHead, PopLength, BytesStay, TypeOK
  <2>2. QED
    BY <1>3, <2>1, InOrderOnPop DEF StoreHead
<1>4. QED
  BY <1>1, <1>2, <1>3 DEF Consumer

Ordered == ~ torn => InOrder

LEMMA OrderedInitially == Init => Ordered
<1> SUFFICES ASSUME Init PROVE InOrder
  BY DEF Ordered
<1>1. Held = 0 /\ expected = 0 /\ pushed = 0 /\ head = 0
  BY CapacityAssumption DEF Init, Held, Remaining, RemainingWhen
<1>2. Stamp(0) = 0
  BY StampAssumption DEF Stamp
<1>3. \A i \in Slots : ~ Place(head, i) < 0
  BY <1>1, CapacityAssumption DEF Place, Slots
<1>4. QED
  BY <1>1, <1>2, <1>3 DEF Init, InOrder

(* A counter once torn stays torn.                                         *)
LEMMA TornStays ==
  ASSUME [Next]_vars, ~ torn'
  PROVE  ~ torn
BY DEF Next, Producer, Consumer, vars, history, producer, consumer,
       StartWrite, GuardFails, GuardHolds, PushCompare, PushReturn,
       ResetTail, ResetHead, Replace, DropLoad, DropStore, CopyIn,
       StoreTail, StartRead, Compare, FirstOperand, PeekFails, PeekHolds,
       PopCompare, PopReturn, SkipLoad, SkipStore, ReadLoad, CopyOut,
       StoreHead

LEMMA OrderKept == TypeOK /\ KnowledgeStays /\ Ordered /\ [Next]_vars => Ordered'
<1> SUFFICES ASSUME TypeOK, KnowledgeStays, Ordered, [Next]_vars, ~ torn'
             PROVE  InOrder'
  BY DEF Ordered
<1>1. ~ torn
  BY TornStays
<1>2. RoomStays /\ BytesStay /\ InOrder
  BY <1>1 DEF KnowledgeStays, Ordered
<1>3. CASE UNCHANGED vars
  BY <1>2, <1>3, InOrderFrame DEF vars, shared, producer, history
<1>4. QED
  BY <1>2, <1>3, ProducerInOrder, ConsumerInOrder DEF Next

(* The ring is a queue, whatever the interleaving: for every capacity,     *)
(* every number of stamps that tell bytes apart and all lengths, what the  *)
(* consumer copies out are the bytes that are due, in the order they were  *)
(* pushed, none twice and none missing but those it has skipped, until a   *)
(* counter is torn (ringbuf.c:26-44, 76-116).                              *)
THEOREM RingIsFifo ==
  ASSUME CallersContract
  PROVE  Spec => []Fifo
<1>1. TypeOK /\ KnowledgeStays /\ Ordered => Fifo
  <2> SUFFICES ASSUME TypeOK, BytesStay, InOrder, cpc = "copy",
                      NEW i \in PopSlots
               PROVE  data[i] = Stamp(expected + (i - cloaded))
    BY DEF Fifo, KnowledgeStays, Ordered
  <2>1. /\ cloaded = head /\ head \in Slots /\ PopLength \in Nat
        /\ PopLength <= Held /\ head + PopLength <= Capacity
    BY TurnLength, HeldAndRoom DEF PopLength, BytesStay, TypeOK
  <2>2. i \in Slots /\ i >= head /\ i - head < Held
    BY <2>1, HeldAndRoom, CapacityAssumption DEF PopSlots, Slots
  <2>3. Place(head, i) = i - head
    BY <2>2 DEF Place
  <2>4. QED
    BY <2>1, <2>2, <2>3 DEF InOrder
<1>2. QED
  BY <1>1, OrderedInitially, OrderKept, KnowledgeCorrect, SPSCTypeCorrect, PTL
     DEF Spec

-----------------------------------------------------------------------------
(* The ring as an atomic queue.                                            *)

(* The slot of the k-th byte held is at place k - 1.                       *)
LEMMA PlaceOfSlot ==
  ASSUME NEW h \in Slots, NEW k \in 1 .. Usable
  PROVE  Masked(h + (k - 1)) \in Slots /\ Place(h, Masked(h + (k - 1))) = k - 1
<1>1. PICK x \in 0 .. 2 * Capacity - 1 : x = h + (k - 1)
  BY CapacityAssumption DEF Slots, Usable
<1>2. /\ Masked(x) \in Slots
      /\ x < Capacity => Masked(x) = x
      /\ x >= Capacity => Masked(x) = x - Capacity
  BY <1>1, MaskedOnce
<1>3. Masked(h + (k - 1)) = Masked(x)
  BY <1>1
<1>4. QED
  BY <1>1, <1>2, <1>3, CapacityAssumption DEF Place, Slots, Usable

(* The n bytes from slot h on, and the n stamps from number e on.          *)
BytesFrom(d, h, n) == [k \in 1 .. n |-> d[Masked(h + (k - 1))]]
StampsFrom(e, n)   == [k \in 1 .. n |-> Stamp(e + (k - 1))]

LEMMA StampsFromFacts ==
  ASSUME NEW e \in Int, NEW n \in Nat
  PROVE  /\ StampsFrom(e, n) \in Seq(Stamps) /\ Len(StampsFrom(e, n)) = n
         /\ \A k \in 1 .. n : StampsFrom(e, n)[k] = Stamp(e + (k - 1))
<1>1. \A k \in 1 .. n : Stamp(e + (k - 1)) \in Stamps
  BY StampType
<1>2. QED
  BY <1>1 DEF StampsFrom

(* Bytes that are the ones due at their places are numbered without a gap. *)
LEMMA Numbering ==
  ASSUME NEW d, NEW h \in Slots, NEW e \in Int, NEW n \in 0 .. Usable,
         \A i \in Slots : Place(h, i) < n => d[i] = Stamp(e + Place(h, i))
  PROVE  BytesFrom(d, h, n) = StampsFrom(e, n)
<1>1. n \in Nat /\ Usable \in Nat
  BY CapacityAssumption DEF Usable
<1>2. ASSUME NEW k \in 1 .. n
      PROVE  d[Masked(h + (k - 1))] = Stamp(e + (k - 1))
  <2>1. k \in 1 .. Usable /\ k - 1 < n
    BY <1>1
  <2>2. QED
    BY <2>1, PlaceOfSlot
<1>3. QED
  BY <1>2 DEF BytesFrom, StampsFrom

LEMMA HeldAreNumbered ==
  ASSUME TypeOK, InOrder
  PROVE  HeldBytes = StampsFrom(expected, Held)
<1>1. /\ head \in Slots /\ expected \in Int /\ Held \in 0 .. Usable
      /\ \A i \in Slots :
           Place(head, i) < Held => data[i] = Stamp(expected + Place(head, i))
  BY CountersAddUp, StampAssumption DEF TypeOK, Stamps, Held, InOrder
<1>2. BytesFrom(data, head, Held) = StampsFrom(expected, Held)
  BY <1>1, Numbering
<1>3. QED
  BY <1>2 DEF HeldBytes, BytesFrom

(* The same of the state after a step.                                     *)
LEMMA HeldAreNumberedNext ==
  ASSUME TypeOK', InOrder'
  PROVE  HeldBytes' = StampsFrom(expected', Held') /\ Held' \in 0 .. Usable
<1>1. /\ head' \in Slots /\ expected' \in Int /\ Held' \in 0 .. Usable
      /\ \A i \in Slots :
           Place(head', i) < Held' => data'[i] = Stamp(expected' + Place(head', i))
  BY CountersAddUp, StampAssumption DEF TypeOK, Stamps, Held, InOrder
<1>2. BytesFrom(data', head', Held') = StampsFrom(expected', Held')
  BY <1>1, Numbering
<1>3. QED
  BY <1>1, <1>2 DEF HeldBytes, BytesFrom

LEMMA PutIsPut ==
  ASSUME TypeOK, InOrder, TypeOK', InOrder', NEW n \in 1 .. Usable,
         expected' = expected, Held' = Held + n, pushed' = Stamp(pushed + n)
  PROVE  Queue!Put(n)
<1> DEFINE piece == Queue!Numbered(pushed, n)
<1>1. /\ Held \in Nat /\ Held' <= Usable /\ expected \in Int /\ pushed \in Int
      /\ n \in Nat /\ Usable \in Nat
  <2>1. Held \in Nat /\ Usable \in Nat /\ Held' \in 0 .. Usable
    BY HeldAndRoom, HeldAreNumberedNext
  <2>2. expected \in Int /\ pushed \in Int
    BY StampAssumption DEF TypeOK, Stamps
  <2>3. QED
    BY <2>1, <2>2
<1>2. /\ HeldBytes \in Seq(Stamps) /\ Len(HeldBytes) = Held
      /\ \A k \in 1 .. Held : HeldBytes[k] = Stamp(expected + (k - 1))
  BY <1>1, HeldAreNumbered, StampsFromFacts
<1>3. /\ HeldBytes' \in Seq(Stamps) /\ Len(HeldBytes') = Held + n
      /\ \A k \in 1 .. Held + n : HeldBytes'[k] = Stamp(expected + (k - 1))
  <2>1. Held + n \in Nat /\ HeldBytes' = StampsFrom(expected, Held + n)
    BY <1>1, HeldAreNumberedNext
  <2>2. QED
    BY <1>1, <2>1, StampsFromFacts
<1>4. /\ piece \in Seq(Stamps) /\ Len(piece) = n
      /\ \A k \in 1 .. n : piece[k] = Stamp(pushed + (k - 1))
  <2>1. piece = StampsFrom(pushed, n)
    BY DEF Queue!Numbered, StampsFrom, Stamp
  <2>2. QED
    BY <1>1, <2>1, StampsFromFacts
<1>5. ASSUME NEW k \in 1 .. n
      PROVE  Stamp(pushed + (k - 1)) = Stamp(expected + (Held + k - 1))
  <2>1. Stamp(Stamp(expected + Held) + (k - 1)) = Stamp(expected + Held + (k - 1))
    BY <1>1, StampAdds
  <2>2. expected + Held + (k - 1) = expected + (Held + k - 1)
    BY <1>1
  <2>3. QED
    BY <2>1, <2>2 DEF InOrder
<1> HIDE DEF piece
<1>6. /\ HeldBytes \o piece \in Seq(Stamps) /\ Len(HeldBytes \o piece) = Held + n
      /\ \A k \in 1 .. Held + n : (HeldBytes \o piece)[k] =
           IF k <= Held THEN HeldBytes[k] ELSE piece[k - Held]
  <2>1. HeldBytes \in Seq(Stamps) /\ Len(HeldBytes) = Held
    BY <1>2
  <2>2. piece \in Seq(Stamps) /\ Len(piece) = n
    BY <1>4
  <2>3. QED
    BY <2>1, <2>2, ConcatProperties
<1>7. ASSUME NEW k \in 1 .. Held + n PROVE HeldBytes'[k] = (HeldBytes \o piece)[k]
  <2>1. HeldBytes'[k] = Stamp(expected + (k - 1))
    BY <1>3
  <2>2. CASE k <= Held
    BY <1>1, <1>2, <1>6, <2>1, <2>2
  <2>3. CASE k > Held
    <3>1. k - Held \in 1 .. n /\ Held + (k - Held) - 1 = k - 1
      BY <1>1, <2>3
    <3>2. piece[k - Held] = Stamp(expected + (k - 1))
      BY <1>4, <1>5, <3>1
    <3>3. (HeldBytes \o piece)[k] = piece[k - Held]
      BY <1>1, <1>6, <2>3
    <3>4. QED
      BY <2>1, <3>2, <3>3
  <2>4. k <= Held \/ k > Held
    BY <1>1
  <2>5. QED
    BY <2>2, <2>3, <2>4
<1>8. HeldBytes' = HeldBytes \o piece
  <2>1. HeldBytes' \in Seq(Stamps) /\ Len(HeldBytes') = Held + n
    BY <1>3
  <2>2. QED
    BY <1>6, <1>7, <2>1, SeqEqual
<1>9. QED
  BY <1>1, <1>2, <1>8 DEF Queue!Put, piece, Stamp

LEMMA TakeIsTake ==
  ASSUME TypeOK, InOrder, TypeOK', InOrder', NEW n \in 1 .. Held,
         expected' = Stamp(expected + n), Held' = Held - n, pushed' = pushed
  PROVE  Queue!Take(n)
<1>1. /\ Held \in Nat /\ expected \in Int /\ n \in Nat
  BY HeldAndRoom, StampAssumption DEF TypeOK, Stamps, Held
<1>2. /\ HeldBytes \in Seq(Stamps) /\ Len(HeldBytes) = Held
      /\ \A k \in 1 .. Held : HeldBytes[k] = Stamp(expected + (k - 1))
  BY <1>1, HeldAreNumbered, StampsFromFacts
<1>3. /\ HeldBytes' \in Seq(Stamps) /\ Len(HeldBytes') = Held - n
      /\ \A k \in 1 .. Held - n : HeldBytes'[k] = Stamp(expected' + (k - 1))
  <2>1. expected' \in Int /\ Held - n \in Nat
    BY <1>1, StampAssumption DEF TypeOK, Stamps
  <2>2. QED
    BY <2>1, HeldAreNumberedNext, StampsFromFacts
<1> DEFINE rest == SubSeq(HeldBytes, n + 1, Len(HeldBytes))
<1>4. /\ rest \in Seq(Stamps) /\ Len(rest) = Held - n
      /\ \A k \in 1 .. Held - n : rest[k] = HeldBytes[n + k]
  BY <1>1, <1>2
<1> HIDE DEF rest
<1>5. ASSUME NEW k \in 1 .. Held - n PROVE HeldBytes'[k] = rest[k]
  <2>1. HeldBytes'[k] = Stamp(Stamp(expected + n) + (k - 1))
    BY <1>3
  <2>2. n + k \in 1 .. Held /\ expected + n + (k - 1) = expected + (n + k - 1)
    BY <1>1
  <2>3. rest[k] = Stamp(expected + (n + k - 1))
    BY <1>2, <1>4, <2>2
  <2>4. Stamp(Stamp(expected + n) + (k - 1)) = Stamp(expected + n + (k - 1))
    BY <1>1, StampAdds
  <2>5. QED
    BY <2>1, <2>2, <2>3, <2>4
<1>6. HeldBytes' = rest
  BY <1>3, <1>4, <1>5
<1>7. QED
  BY <1>1, <1>2, <1>6 DEF Queue!Take, rest

(* A step that moves no index and is not a store leaves what is held.      *)
LEMMA OthersTouchNothing ==
  ASSUME TypeOK, InOrder, TypeOK', InOrder',
         UNCHANGED <<head, tail, expected, pushed>>
  PROVE  UNCHANGED <<HeldBytes, pushed>>
<1>1. Held' = Held
  BY DEF Held
<1>2. QED
  BY <1>1, HeldAreNumbered, HeldAreNumberedNext

LEMMA StepsAreQueueSteps ==
  ASSUME TypeOK, RoomStays, BytesStay, InOrder, TypeOK', InOrder', Next
  PROVE  Queue!Next \/ UNCHANGED <<HeldBytes, pushed>>
<1> USE DEF shared, producer, consumer, history
<1>1. CASE StoreTail
  <2> DEFINE n == PushLength
  <2>1. /\ tail' = Masked(tail + n) /\ pushed' = Stamp(pushed + n)
        /\ ppc = "store" /\ UNCHANGED <<head, expected>>
    BY <1>1 DEF StoreTail
  <2>2. n \in 1 .. pn /\ pn <= Room
    BY <2>1, TurnLength DEF PushLength, RoomStays, TypeOK
  <2>3. /\ n \in 1 .. Usable /\ n \in 0 .. Room
        /\ head \in Slots /\ tail \in Slots
    BY <2>2, HeldAndRoom DEF TypeOK
  <2>4. Held' = Held + n
    BY <2>1, <2>3, TailMoves DEF Held, Room
  <2>5. Queue!Put(n)
    BY <2>1, <2>3, <2>4, PutIsPut
  <2>6. QED
    BY <2>3, <2>5 DEF Queue!Next
<1>2. ASSUME NEW n \in 1 .. Held, head' = Masked(head + n),
             expected' = Stamp(expected + n), UNCHANGED <<tail, pushed>>
      PROVE  Queue!Next
  <2>1. n \in 0 .. Held /\ n \in 1 .. Usable /\ head \in Slots /\ tail \in Slots
    BY <1>2, HeldAndRoom DEF TypeOK
  <2>2. Held' = Held - n
    BY <1>2, <2>1, HeadMoves DEF Held
  <2>3. Queue!Take(n)
    BY <1>2, <2>2, TakeIsTake
  <2>4. QED
    BY <2>1, <2>3 DEF Queue!Next
<1>3. CASE SkipStore
  <2>1. /\ cremaining - MaxBufsize \in 1 .. Held
        /\ head' = Masked(head + (cremaining - MaxBufsize))
        /\ expected' = Stamp(expected + (cremaining - MaxBufsize))
        /\ UNCHANGED <<tail, pushed>>
    BY <1>3, HeldAndRoom, MaxBufsizeAssumption, WordSizeAssumption,
       CapacityAssumption DEF SkipStore, BytesStay, TypeOK, Words
  <2>2. QED
    BY <1>2, <2>1
<1>4. CASE StoreHead
  <2>1. /\ PopLength \in 1 .. Held /\ head' = Masked(head + PopLength)
        /\ expected' = Stamp(expected + PopLength) /\ UNCHANGED <<tail, pushed>>
    BY <1>4, TurnLength, HeldAndRoom DEF StoreHead, PopLength, BytesStay, TypeOK
  <2>2. QED
    BY <1>2, <2>1
<1>5. CASE ~ (StoreTail \/ SkipStore \/ StoreHead)
  <2>1. UNCHANGED <<head, tail, expected, pushed>>
    BY <1>5
       DEF Next, Producer, Consumer, StartWrite, GuardFails, GuardHolds,
           PushCompare, PushReturn, ResetTail, ResetHead, Replace, DropLoad,
           DropStore, CopyIn, StartRead, Compare, FirstOperand, PeekFails,
           PeekHolds, PopCompare, PopReturn, SkipLoad, ReadLoad, CopyOut,
           RoomStays
  <2>2. QED
    BY <2>1, OthersTouchNothing
<1>6. QED
  BY <1>1, <1>3, <1>4, <1>5

(* The ring is an atomic queue (ringbuf.c:17-43): for every capacity and   *)
(* all lengths, and however the two threads interleave, each store of an   *)
(* index puts or takes a whole piece at once and no other step touches a   *)
(* byte that is held, until a counter is torn.                             *)
THEOREM RingIsQueue ==
  ASSUME CallersContract
  PROVE  Spec => ImplementsQueue
<1>1. Init => Queue!Init
  <2> SUFFICES ASSUME Init PROVE Queue!Init
    OBVIOUS
  <2>1. Held = 0 /\ pushed = 0
    BY CapacityAssumption DEF Init, Held, Remaining, RemainingWhen
  <2>2. HeldBytes = <<>>
    BY <2>1 DEF HeldBytes
  <2>3. QED
    BY <2>1, <2>2 DEF Queue!Init
<1>2. /\ TypeOK /\ KnowledgeStays /\ Ordered
      /\ TypeOK' /\ Ordered' /\ [Next]_vars
      => [~ torn' => Queue!Next]_<<HeldBytes, pushed>>
  <2> SUFFICES ASSUME TypeOK, KnowledgeStays, Ordered, TypeOK', Ordered',
                      [Next]_vars, ~ torn'
               PROVE  Queue!Next \/ UNCHANGED <<HeldBytes, pushed>>
    OBVIOUS
  <2>1. ~ torn
    BY TornStays
  <2>2. RoomStays /\ BytesStay /\ InOrder /\ InOrder'
    BY <2>1 DEF KnowledgeStays, Ordered
  <2>3. CASE UNCHANGED vars
    BY <2>2, <2>3, OthersTouchNothing DEF vars, shared, history
  <2>4. QED
    BY <2>2, <2>3, StepsAreQueueSteps
<1>3. QED
  BY <1>1, <1>2, OrderedInitially, OrderKept, KnowledgeCorrect,
     SPSCTypeCorrect, PTL DEF Spec, ImplementsQueue
=============================================================================
