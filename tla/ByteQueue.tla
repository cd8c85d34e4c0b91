----------------------------- MODULE ByteQueue -----------------------------
(***************************************************************************)
(* What the ring buffer of libaudiowire promises a producer and a consumer *)
(* that use it at the same time, as long as both ask before they act: a    *)
(* queue.  Bytes are put in whole pieces, and taken or skipped in the same *)
(* order; nothing else happens to them.  RingBufSPSC.tla implements this   *)
(* with two indices and no lock.                                           *)
(***************************************************************************)
EXTENDS Integers, Sequences

CONSTANTS
  Limit,      \* number of bytes the queue can hold
  StampCount  \* bytes are numbered modulo this

VARIABLES
  queue,  \* the bytes held, oldest first
  next    \* the number of the next byte to be put

Numbered(first, n) == [k \in 1 .. n |-> (first + (k - 1)) % StampCount]

Init == queue = <<>> /\ next = 0

Put(n) ==
  /\ Len(queue) + n <= Limit
  /\ queue' = queue \o Numbered(next, n)
  /\ next' = (next + n) % StampCount

(* What is taken and what is skipped leave the queue alike.                *)
Take(n) ==
  /\ n <= Len(queue)
  /\ queue' = SubSeq(queue, n + 1, Len(queue))
  /\ UNCHANGED next

Next == \E n \in 1 .. Limit : Put(n) \/ Take(n)

Spec == Init /\ [][Next]_<<queue, next>>
=============================================================================
