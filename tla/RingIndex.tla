----------------------------- MODULE RingIndex -----------------------------
(***************************************************************************)
(* The index arithmetic of libaudiowire/src/ringbuf.c.                     *)
(*                                                                         *)
(* The mask is capacity - 1 and the capacity a power of two, so "x & mask" *)
(* is x % Capacity.  One slot is never used: head = tail means empty.      *)
(***************************************************************************)
EXTENDS Integers

CONSTANT Capacity  \* rb->capacity, the number of slots of the array

ASSUME CapacityAssumption == Capacity \in Nat /\ Capacity > 1

Slots == 0 .. Capacity - 1

(* The capacity ringbuf_create allocates for a requested size: 1, doubled  *)
(* while it is too small.                                                  *)
CreateCapacity(cap) ==
  LET doubled[c \in Nat] == IF c < cap THEN doubled[2 * c] ELSE c
  IN doubled[1]

(* A mutant: the wrap-around comes one slot late.                          *)
MaskedOffByOne(i) == IF i = Capacity THEN i ELSE i % Capacity

Masked(i) == i % Capacity

Min2(a, b) == IF a < b THEN a ELSE b

(* ringbuf_capacity.                                                       *)
Usable == Capacity - 1

(* A mutant: the slot that is never used counts as free.                   *)
AvailableWhenCountsSpareSlot(wrapped, h, t) ==
  IF wrapped THEN h - t ELSE Capacity - t + h

(* The value ringbuf_available returns when its comparison saw             *)
(* wrapped = (head > tail) and its subtraction then read h and t.  The     *)
(* loads are separate, so another thread may move an index between them.   *)
AvailableWhen(wrapped, h, t) ==
  IF wrapped THEN h - t - 1 ELSE Capacity - t + h - 1

(* The same for ringbuf_remaining and ordered = (head <= tail).            *)
RemainingWhen(ordered, h, t) ==
  IF ordered THEN t - h ELSE Capacity - h + t

(* Both functions when nothing moves between their loads.                  *)
Available(h, t) == AvailableWhen(h > t, h, t)
Remaining(h, t) == RemainingWhen(h <= t, h, t)
=============================================================================
