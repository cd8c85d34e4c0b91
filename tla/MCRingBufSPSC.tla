--------------------------- MODULE MCRingBufSPSC ---------------------------
(***************************************************************************)
(* Small instances of RingBufSPSC for TLC.                                 *)
(*                                                                         *)
(*   MCGuarded    both threads as the program runs them: the producer asks *)
(*                before it pushes; a ring of four slots, twice as many    *)
(*                stamps                                                   *)
(*   MCBare       the producer never asks and pushes up to the whole ring  *)
(*   MCTorn       a counter that goes negative between its two loads       *)
(*   MCUnguarded  overflow while the consumer reads                        *)
(*                                                                         *)
(* The callers' contract is what the theorems assume; TLC checks that the  *)
(* instances it is claimed for satisfy it.                                 *)
(***************************************************************************)
EXTENDS RingBufSPSC

ASSUME GuardedInstancesRespectTheContract ==
  Guarded => CallersContract
=============================================================================
