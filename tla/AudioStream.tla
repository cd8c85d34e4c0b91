---------------------------- MODULE AudioStream ----------------------------
(***************************************************************************)
(* What an audio stream is to the Rust code that owns it, whatever the     *)
(* backend: start gives a stream or nothing, stop takes it back or leaves  *)
(* it as it was, its memory is freed once, and the callbacks of the device *)
(* run only while it is there.                                             *)
(***************************************************************************)

VARIABLES
  memory,  \* the stream and its ring buffer: "none", "live", "freed"
  owned,   \* the caller has a stream that runs
  call,    \* the call it is in: "none", "start", "stop"
  result,  \* of the last call: "none" before it, "ok", "error"
  inside   \* a callback of the device uses the memory

vars == <<memory, owned, call, result, inside>>

Init ==
  /\ memory = "none" /\ owned = FALSE
  /\ call = "none" /\ result = "none"
  /\ inside = FALSE

Calls(which) ==
  /\ call = "none" /\ call' = which
  /\ UNCHANGED <<memory, owned, result, inside>>

Start == result = "none" /\ Calls("start")
Stop  == owned /\ Calls("stop")

Allocate ==
  /\ call = "start" /\ memory = "none" /\ memory' = "live"
  /\ UNCHANGED <<owned, call, result, inside>>

(* Never under a callback, and never twice.                                *)
Free ==
  /\ call # "none" /\ memory = "live" /\ ~ inside
  /\ memory' = "freed"
  /\ UNCHANGED <<owned, call, result, inside>>

Returns(which, outcome, owns) ==
  /\ call = which /\ call' = "none"
  /\ result' = outcome /\ owned' = owns
  /\ UNCHANGED <<memory, inside>>

Started     == memory = "live"  /\ Returns("start", "ok", TRUE)
StartFailed == memory # "live"  /\ Returns("start", "error", FALSE)
Stopped     == memory = "freed" /\ Returns("stop", "ok", FALSE)
StopFailed  == memory = "live"  /\ Returns("stop", "error", TRUE)

Callback ==
  /\ inside' = ~ inside
  /\ inside' => memory = "live"
  /\ UNCHANGED <<memory, owned, call, result>>

Next ==
  \/ Start \/ Stop \/ Allocate \/ Free
  \/ Started \/ StartFailed \/ Stopped \/ StopFailed
  \/ Callback

Spec == Init /\ [][Next]_vars
=============================================================================
