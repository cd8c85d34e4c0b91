----------------------------- MODULE FrameQueue -----------------------------
(***************************************************************************)
(* What the UDP peer promises the loops of handlers.rs once a datagram has *)
(* been accepted from its producer: a queue of frames that ends.  Frames   *)
(* are delivered once, in the order they were accepted, and the end is     *)
(* reported after the last of them.  UdpPeer.tla implements this by reads  *)
(* of a number of bytes.                                                   *)
(***************************************************************************)
EXTENDS Integers, Sequences

CONSTANTS
  Frames,  \* the frames that may be accepted
  Limit    \* how many may be accepted and not yet delivered

VARIABLES
  queue,   \* the frames accepted and not yet delivered, oldest first
  closed,  \* no frame is accepted any more
  ended    \* the end has been reported

Init == queue = <<>> /\ closed = FALSE /\ ended = FALSE

Accept(f) ==
  /\ ~ closed /\ Len(queue) < Limit
  /\ queue' = Append(queue, f)
  /\ UNCHANGED <<closed, ended>>

Deliver ==
  /\ queue # <<>> /\ ~ ended
  /\ queue' = Tail(queue)
  /\ UNCHANGED <<closed, ended>>

Close == ~ closed /\ closed' = TRUE /\ UNCHANGED <<queue, ended>>

End == closed /\ queue = <<>> /\ ~ ended /\ ended' = TRUE /\ UNCHANGED <<queue, closed>>

Next == (\E f \in Frames : Accept(f)) \/ Deliver \/ Close \/ End

Spec == Init /\ [][Next]_<<queue, closed, ended>>
=============================================================================
