----------------------------- MODULE MCUdpPeer -----------------------------
(***************************************************************************)
(* A small instance of UdpPeer for TLC: three frames of two sizes, with a  *)
(* head of one byte, a channel of two datagrams, and requests from one byte *)
(* to more than two datagrams hold.                                        *)
(***************************************************************************)
EXTENDS UdpPeer

MCFrames == {1, 2, 3}
MCSize   == [f \in MCFrames |-> IF f = 3 THEN 3 ELSE 2]
MCRequests == 1 .. 5
=============================================================================
