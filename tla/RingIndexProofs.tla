--------------------------- MODULE RingIndexProofs ---------------------------
(***************************************************************************)
(* Lemmas about the index arithmetic of ringbuf.c, for every capacity.     *)
(***************************************************************************)
EXTENDS RingIndex, TLAPS

(* Masking an index less than twice the capacity wraps it around once.     *)
LEMMA MaskedOnce ==
  ASSUME NEW x \in 0 .. 2 * Capacity - 1
  PROVE  /\ Masked(x) \in Slots
         /\ x < Capacity => Masked(x) = x
         /\ x >= Capacity => Masked(x) = x - Capacity
BY CapacityAssumption DEF Masked, Slots

(* Bytes held and bytes free always add up to the usable slots.            *)
LEMMA CountersAddUp ==
  ASSUME NEW h \in Slots, NEW t \in Slots
  PROVE  /\ Remaining(h, t) \in 0 .. Usable
         /\ Available(h, t) = Usable - Remaining(h, t)
BY CapacityAssumption DEF Slots, Remaining, RemainingWhen, Available, AvailableWhen, Usable

(* Moving head over n held bytes leaves n bytes fewer.                     *)
LEMMA AdvanceHead ==
  ASSUME NEW h \in Slots, NEW t \in Slots, NEW n \in 0 .. Remaining(h, t)
  PROVE  /\ Masked(h + n) \in Slots
         /\ Remaining(Masked(h + n), t) = Remaining(h, t) - n
<1>1. n \in 0 .. Usable
  BY CountersAddUp, CapacityAssumption DEF Usable
<1>2. h + n \in 0 .. 2 * Capacity - 1
  BY <1>1, CapacityAssumption DEF Slots, Usable
<1>3. /\ Masked(h + n) \in Slots
      /\ h + n < Capacity => Masked(h + n) = h + n
      /\ h + n >= Capacity => Masked(h + n) = h + n - Capacity
  BY <1>2, MaskedOnce, CapacityAssumption DEF Slots
<1>4. QED
  BY <1>1, <1>3, CapacityAssumption DEF Slots, Remaining, RemainingWhen, Usable

(* Moving tail over n free slots holds n bytes more.                       *)
LEMMA AdvanceTail ==
  ASSUME NEW h \in Slots, NEW t \in Slots, NEW n \in 0 .. Available(h, t)
  PROVE  /\ Masked(t + n) \in Slots
         /\ Remaining(h, Masked(t + n)) = Remaining(h, t) + n
BY CapacityAssumption, CountersAddUp, MaskedOnce
   DEF Slots, Remaining, RemainingWhen, Available, AvailableWhen, Usable

(* Masking in two steps is masking once.                                   *)
LEMMA MaskedTwice ==
  ASSUME NEW h \in Slots, NEW m \in 0 .. Usable, NEW k \in 0 .. Usable,
         m + k <= Usable
  PROVE  Masked(Masked(h + m) + k) = Masked(h + (m + k))
<1>1. /\ h + m \in 0 .. 2 * Capacity - 1
      /\ h + (m + k) \in 0 .. 2 * Capacity - 1
  BY CapacityAssumption DEF Slots, Usable
<1>2. Masked(h + m) + k \in 0 .. 2 * Capacity - 1
  BY <1>1, MaskedOnce, CapacityAssumption DEF Slots, Usable
<1>3. QED
  BY <1>1, <1>2, MaskedOnce, CapacityAssumption DEF Slots, Usable

(* The slot of the i-th held byte, counted from either end.                *)
LEMMA HeldSlot ==
  ASSUME NEW h \in Slots, NEW t \in Slots, NEW i \in Nat, i < Remaining(h, t)
  PROVE  /\ Capacity - Remaining(h, t) + i \in 0 .. Usable
         /\ Masked(t + (Capacity - Remaining(h, t) + i)) = Masked(h + i)
<1> DEFINE r == Remaining(h, t)
<1>1. r \in 0 .. Usable
  BY CountersAddUp
<1>2. /\ h + i \in 0 .. 2 * Capacity - 1
      /\ t + (Capacity - r + i) \in 0 .. 2 * Capacity - 1
      /\ Capacity - r + i \in 0 .. Usable
  <2> HIDE DEF r
  <2>1. QED
    BY <1>1, CapacityAssumption DEF Slots, Usable, r
<1>3. /\ h + i < Capacity => Masked(h + i) = h + i
      /\ h + i >= Capacity => Masked(h + i) = h + i - Capacity
      /\ t + (Capacity - r + i) < Capacity
           => Masked(t + (Capacity - r + i)) = t + (Capacity - r + i)
      /\ t + (Capacity - r + i) >= Capacity
           => Masked(t + (Capacity - r + i)) = t + (Capacity - r + i) - Capacity
  BY <1>1, <1>2, MaskedOnce, CapacityAssumption DEF Slots, Usable
<1>4. QED
  BY <1>1, <1>2, <1>3, CapacityAssumption DEF Slots, Usable, Remaining, RemainingWhen

(* The slots after the held bytes are those from tail on.                  *)
LEMMA FreeSlot ==
  ASSUME NEW h \in Slots, NEW t \in Slots, NEW m \in Nat,
         Remaining(h, t) + m <= Usable
  PROVE  Masked(h + (Remaining(h, t) + m)) = Masked(t + m)
<1> DEFINE r == Remaining(h, t)
<1>1. r \in 0 .. Usable
  BY CountersAddUp
<1>2. /\ h + (r + m) \in 0 .. 2 * Capacity - 1
      /\ t + m \in 0 .. 2 * Capacity - 1
  <2> HIDE DEF r
  <2>1. QED
    BY <1>1, CapacityAssumption DEF Slots, Usable, r
<1>3. /\ t + m < Capacity => Masked(t + m) = t + m
      /\ t + m >= Capacity => Masked(t + m) = t + m - Capacity
      /\ h + (r + m) < Capacity => Masked(h + (r + m)) = h + (r + m)
      /\ h + (r + m) >= Capacity => Masked(h + (r + m)) = h + (r + m) - Capacity
  BY <1>1, <1>2, MaskedOnce, CapacityAssumption DEF Slots, Usable
<1>4. QED
  BY <1>1, <1>2, <1>3, CapacityAssumption DEF Slots, Usable, Remaining, RemainingWhen

(* head moved over n held bytes: it does not pass tail.                    *)
LEMMA HeadMoves ==
  ASSUME NEW h \in Slots, NEW t \in Slots, NEW n \in 0 .. Remaining(h, t)
  PROVE  /\ Remaining(Masked(h + n), t) = Remaining(h, t) - n
         /\ Available(Masked(h + n), t) = Available(h, t) + n
         /\ h <= t => Masked(h + n) <= t
<1>1. h + n \in 0 .. 2 * Capacity - 1
  BY CountersAddUp, CapacityAssumption DEF Slots, Usable
<1>2. /\ Masked(h + n) \in Slots
      /\ Remaining(Masked(h + n), t) = Remaining(h, t) - n
  BY AdvanceHead
<1>3. Available(Masked(h + n), t) = Available(h, t) + n
  BY <1>2, CountersAddUp, CapacityAssumption DEF Usable
<1>4. h <= t => Masked(h + n) <= t
  BY <1>1, MaskedOnce, CapacityAssumption DEF Remaining, RemainingWhen, Slots
<1>5. QED
  BY <1>2, <1>3, <1>4

(* tail moved over n free slots: it does not reach head.                   *)
LEMMA TailMoves ==
  ASSUME NEW h \in Slots, NEW t \in Slots, NEW n \in 0 .. Available(h, t)
  PROVE  /\ Remaining(h, Masked(t + n)) = Remaining(h, t) + n
         /\ Available(h, Masked(t + n)) = Available(h, t) - n
         /\ t < h => Masked(t + n) < h
<1>1. t + n \in 0 .. 2 * Capacity - 1
  BY CountersAddUp, CapacityAssumption DEF Slots, Usable
<1>2. /\ Masked(t + n) \in Slots
      /\ Remaining(h, Masked(t + n)) = Remaining(h, t) + n
  BY AdvanceTail
<1>3. Available(h, Masked(t + n)) = Available(h, t) - n
  BY <1>2, CountersAddUp, CapacityAssumption DEF Usable
<1>4. t < h => Masked(t + n) < h
  BY <1>1, MaskedOnce, CapacityAssumption DEF Available, AvailableWhen, Slots
<1>5. QED
  BY <1>2, <1>3, <1>4

(* Held bytes and free slots, each up to the end of the array, are apart.  *)
LEMMA HeldAndFreeApart ==
  ASSUME NEW h \in Slots, NEW t \in Slots,
         NEW n \in Nat, n <= Remaining(h, t), h + n <= Capacity,
         NEW m \in Nat, m <= Available(h, t), t + m <= Capacity
  PROVE  (h .. h + n - 1) \cap (t .. t + m - 1) = {}
BY CapacityAssumption
   DEF Slots, Remaining, RemainingWhen, Available, AvailableWhen
=============================================================================
