----------------------------- MODULE MCSession -----------------------------
(***************************************************************************)
(* Small instances of Session for TLC.                                     *)
(*                                                                         *)
(*   MCSessionSafe    one client, every pair of stream types, both codecs, *)
(*                    two frames in flight, one retry, everything that may *)
(*                    fail but devices and the stop of a stream            *)
(*   MCSessionSignal  a signal at any moment, in a session both ways, with *)
(*                    and without a codec                                  *)
(*   MCSessionGone    a session in which either process dies at any        *)
(*                    moment, or none does, and stops fail                 *)
(***************************************************************************)
EXTENDS Session
=============================================================================
