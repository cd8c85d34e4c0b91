---------------------------- MODULE PulseStream ----------------------------
(***************************************************************************)
(* One stream of libaudiowire/src/pulseaudio.c, from start_stream to       *)
(* aw_stop.  AudioBackend calls it as the Rust wrapper does.               *)
(*                                                                         *)
(*   app    the thread that starts and stops the stream                    *)
(*   loop   the thread of pa_threaded_mainloop, which runs the callbacks   *)
(*          with the lock of the mainloop held                             *)
(*   audio  the audio server: it answers, fails, asks for data and moves   *)
(*          the stream, and each event reaches the program as a callback   *)
(*          on the loop                                                    *)
(*                                                                         *)
(* aw_stop never takes the lock, so its steps may fall into a callback.    *)
(***************************************************************************)
EXTENDS Naturals

CONSTANT Moves  \* bound: how often the audio server moves the stream

VARIABLES
  apc,      \* where the app is; "crashed" when the program has aborted
  code,     \* what the call returns: 0 is "ok"; "none" before it is known
  given,    \* start_stream has stored the stream for its caller
  base,     \* the aw_stream and its ring buffer
  handle,   \* stream->handle is not NULL
  devname,  \* base.devname: the n-th name libpulse allocated; 0: another
  lock,     \* who holds the lock of the mainloop
  waiting,  \* the app in pa_threaded_mainloop_wait
  lpc,      \* where the loop is; "none" before pa_threaded_mainloop_start
  quit,     \* the loop has been told to end
  context,  \* state of the pa_context; "none" when stream->context is NULL
  stream,   \* state of the pa_stream, which outlives stream->handle
  hooked,   \* the read or write callback is set
  errno,    \* pa_context_errno is not 0
  name,     \* the device name libpulse holds, by number; it frees the others
  reports   \* history: calls of the error callback

call   == <<apc, code, given>>
memory == <<base, handle, devname>>
loop   == <<lpc, quit>>
pulse  == <<context, stream, errno>>
audio  == <<hooked, name, reports>>

Init ==
  /\ lock = "free" /\ waiting = "no"
  /\ lpc = "none" /\ quit = FALSE
  /\ context = "none" /\ stream = "none" /\ errno = FALSE
  /\ hooked = FALSE /\ name = 0 /\ reports = 0

(* PA_CONTEXT_IS_GOOD and PA_STREAM_IS_GOOD, of the states that occur.     *)
ContextGood == context \in {"connecting", "ready"}
StreamGood  == stream \in {"creating", "ready"}

Becomes(pc) == apc' = pc /\ UNCHANGED <<code, given>>

-----------------------------------------------------------------------------
(* start_stream.                                                           *)

Create ==
  /\ apc = "aw_start" /\ Becomes("connectContext")
  /\ base' = "live" /\ context' = "unconnected"
  /\ UNCHANGED <<handle, devname, lock, waiting, loop, stream, errno, audio>>

ConnectContext ==
  /\ apc = "connectContext"
  /\ \/ Becomes("startLoop") /\ context' = "connecting" /\ UNCHANGED errno
     \/ Becomes("error") /\ context' = "failed" /\ errno' = TRUE
  /\ UNCHANGED <<memory, lock, waiting, loop, stream, audio>>

(* The lock is taken first: the loop cannot run before the app waits.      *)
StartLoop ==
  /\ apc = "startLoop" /\ lock = "free"
  /\ \/ Becomes("contextLoop") /\ lock' = "app" /\ lpc' = "poll"
     \/ /\ apc' = "freeHandle" /\ code' = "error"
        /\ UNCHANGED <<given, lock, lpc>>
  /\ UNCHANGED <<memory, waiting, quit, pulse, audio>>

(* pa_threaded_mainloop_wait gives the lock away until it is signalled.    *)
Wait(pc) == Becomes(pc) /\ lock' = "free" /\ waiting' = "waiting"

ContextLoop ==
  /\ apc = "contextLoop"
  /\ \/ context = "ready" /\ Becomes("newStream") /\ UNCHANGED <<lock, waiting>>
     \/ context # "ready" /\ Wait("contextWait")
  /\ UNCHANGED <<memory, loop, pulse, audio>>

(* A mutant: the app goes on without the lock.                             *)
WokenUnlocked(from, good, to) ==
  /\ apc = from /\ waiting = "woken"
  /\ lock' = "app" /\ waiting' = "no"
  /\ Becomes(IF good THEN to ELSE "unlockError")
  /\ UNCHANGED <<memory, loop, pulse, audio>>

(* It has the lock back when it returns, and looks at the state again.     *)
Woken(from, good, to) ==
  /\ apc = from /\ waiting = "woken" /\ lock = "free"
  /\ lock' = "app" /\ waiting' = "no"
  /\ Becomes(IF good THEN to ELSE "unlockError")
  /\ UNCHANGED <<memory, loop, pulse, audio>>

ContextWoken == Woken("contextWait", ContextGood, "contextLoop")

(* A mutant: the stream is stored only once it is ready.                   *)
NewStreamStoresLate ==
  /\ apc = "newStream" /\ hooked' = TRUE
  /\ \/ Becomes("streamLoop") /\ stream' = "creating" /\ UNCHANGED errno
     \/ Becomes("unlockError") /\ stream' = "unconnected" /\ errno' = TRUE
  /\ UNCHANGED <<memory, lock, waiting, loop, context, name, reports>>

NewStream ==
  /\ apc = "newStream"
  /\ handle' = TRUE /\ hooked' = TRUE
  /\ \/ Becomes("streamLoop") /\ stream' = "creating" /\ UNCHANGED errno
     \/ Becomes("unlockError") /\ stream' = "unconnected" /\ errno' = TRUE
  /\ UNCHANGED <<base, devname, lock, waiting, loop, context, name, reports>>

StreamLoop ==
  /\ apc = "streamLoop"
  /\ \/ /\ stream = "ready"
        /\ apc' = "returned" /\ code' = "ok"
        /\ given' = TRUE /\ lock' = "free" /\ UNCHANGED waiting
     \/ stream # "ready" /\ Wait("streamWait")
  /\ UNCHANGED <<memory, loop, pulse, audio>>

(* A mutant: only READY ends the loop.                                     *)
StreamWokenUnchecked == Woken("streamWait", TRUE, "streamLoop")

StreamWoken == Woken("streamWait", StreamGood, "streamLoop")

UnlockError ==
  /\ apc = "unlockError" /\ Becomes("error")
  /\ lock' = "free"
  /\ UNCHANGED <<memory, waiting, loop, pulse, audio>>

(* error_stream: a code of 0 would be a success to the caller.             *)
Error ==
  /\ apc = "error" /\ apc' = "freeHandle"
  /\ code' = IF errno THEN "error" ELSE "ok"
  /\ UNCHANGED <<given, memory, lock, waiting, loop, pulse, audio>>

-----------------------------------------------------------------------------
(* aw_stop, and free_stream, without the lock.                             *)

(* pa_stream_disconnect, asked of a live stream of a live context.         *)
Disconnects == handle => context = "ready" /\ stream = "ready"

Disconnect ==
  /\ apc = "aw_stop"
  /\ \/ Disconnects /\ Becomes("freeHandle") /\ UNCHANGED errno
     \/ /\ ~ Disconnects
        /\ apc' = "returned" /\ code' = "error" /\ errno' = TRUE
        /\ UNCHANGED given
  /\ UNCHANGED <<memory, lock, waiting, loop, context, stream, audio>>

FreeHandle ==
  /\ apc = "freeHandle" /\ Becomes("freeContext")
  /\ handle' = FALSE
  /\ UNCHANGED <<base, devname, lock, waiting, loop, pulse, audio>>

(* pa_context_disconnect ends the streams of the context.                  *)
FreeContext ==
  /\ apc = "freeContext" /\ Becomes("stopLoop")
  /\ context' = "none"
  /\ stream' = IF StreamGood THEN "terminated" ELSE stream
  /\ UNCHANGED <<memory, lock, waiting, loop, errno, audio>>

(* pa_threaded_mainloop_stop: takes the lock to tell the loop, and joins.  *)
StopLoop ==
  /\ apc = "stopLoop"
  /\ \/ lpc = "none" /\ Becomes("freeBase") /\ UNCHANGED quit
     \/ lpc # "none" /\ lock = "free" /\ Becomes("joinLoop") /\ quit' = TRUE
  /\ UNCHANGED <<memory, lock, waiting, lpc, pulse, audio>>

JoinLoop ==
  /\ apc = "joinLoop" /\ lpc = "exited" /\ Becomes("freeBase")
  /\ UNCHANGED <<memory, lock, waiting, loop, pulse, audio>>

(* The end of start_stream after an error, or of aw_stop.                  *)
FreeBase ==
  /\ apc = "freeBase" /\ apc' = "returned"
  /\ base' = IF base = "live" THEN "freed" ELSE "twice"
  /\ devname' = 0
  /\ code' = IF code = "none" THEN "ok" ELSE code
  /\ UNCHANGED <<given, handle, lock, waiting, loop, pulse, audio>>

App ==
  \/ Create \/ ConnectContext \/ StartLoop
  \/ ContextLoop \/ ContextWoken \/ NewStream \/ StreamLoop \/ StreamWoken
  \/ UnlockError \/ Error
  \/ Disconnect \/ FreeHandle \/ FreeContext \/ StopLoop \/ JoinLoop \/ FreeBase

-----------------------------------------------------------------------------
(* The loop and the audio server.  An event is dispatched with the lock.   *)

Dispatch(pc) ==
  /\ lpc = "poll" /\ lock = "free" /\ ~ quit
  /\ lock' = "loop" /\ lpc' = pc
  /\ UNCHANGED <<call, base, handle, quit, hooked, reports>>

(* pa_threaded_mainloop_signal is lost on an app that does not wait.       *)
Signal == waiting' = IF waiting = "waiting" THEN "woken" ELSE waiting

ContextReady ==
  /\ context = "connecting" /\ context' = "ready"
  /\ Dispatch("unlock") /\ Signal
  /\ UNCHANGED <<stream, errno, devname, name>>

(* The streams of a context fail with it.                                  *)
ContextFails ==
  /\ ContextGood /\ context' = "failed" /\ errno' = TRUE
  /\ stream' = IF StreamGood THEN "failed" ELSE stream
  /\ Dispatch("unlock") /\ Signal
  /\ UNCHANGED <<devname, name>>

(* The device has a name from here on.                                     *)
StreamReady ==
  /\ stream = "creating" /\ stream' = "ready"
  /\ name' = 1 /\ devname' = name'
  /\ Dispatch("unlock") /\ Signal
  /\ UNCHANGED <<context, errno>>

StreamFails ==
  /\ StreamGood /\ stream' = "failed" /\ errno' = TRUE
  /\ Dispatch("unlock") /\ Signal
  /\ UNCHANGED <<context, devname, name>>

(* on_stream_read or on_stream_write, which work on the ring buffer.       *)
Data ==
  /\ stream = "ready" /\ hooked
  /\ Dispatch("data")
  /\ UNCHANGED <<waiting, pulse, devname, name>>

(* The stream goes to another device: libpulse frees the name of the old   *)
(* one, and then calls on_stream_moved.                                    *)
Move ==
  /\ stream = "ready" /\ name <= Moves
  /\ name' = name + 1
  /\ Dispatch("moved")
  /\ UNCHANGED <<waiting, pulse, devname>>

LoopStep(from, to) ==
  /\ lpc = from /\ lpc' = to
  /\ UNCHANGED <<call, base, quit, waiting, pulse, name>>

(* A mutant: the old name is kept.                                         *)
StreamMovedForgets ==
  /\ LoopStep("moved", "unlock")
  /\ UNCHANGED <<lock, handle, devname, hooked, reports>>

StreamMoved ==
  /\ LoopStep("moved", "unlock")
  /\ devname' = name
  /\ UNCHANGED <<lock, handle, hooked, reports>>

DataEnds(to) ==
  LoopStep("data", to) /\ UNCHANGED <<lock, handle, devname, hooked, reports>>

DataDone  == DataEnds("unlock")
DataFails == DataEnds("report")

(* error_stream_callback tells the caller, then removes both callbacks     *)
(* through stream->handle; libpulse aborts on a NULL.                      *)
Report ==
  /\ LoopStep("report", "unhook")
  /\ reports' = reports + 1
  /\ UNCHANGED <<lock, handle, devname, hooked>>

(* A mutant: the callbacks stay.                                           *)
UnhookNothing ==
  /\ LoopStep("unhook", "unlock")
  /\ UNCHANGED <<lock, handle, devname, hooked, reports>>

Unhook ==
  \/ /\ handle /\ LoopStep("unhook", "unlock")
     /\ hooked' = FALSE
     /\ UNCHANGED <<lock, handle, devname, reports>>
  \/ /\ ~ handle /\ lpc = "unhook"
     /\ lpc' = "crashed" /\ apc' = "crashed"
     /\ UNCHANGED <<code, given, memory, lock, waiting, quit, pulse, audio>>

LoopUnlock ==
  /\ LoopStep("unlock", "poll")
  /\ lock' = "free"
  /\ UNCHANGED <<handle, devname, hooked, reports>>

LoopExit ==
  /\ quit /\ lock = "free"
  /\ LoopStep("poll", "exited")
  /\ UNCHANGED <<lock, handle, devname, hooked, reports>>

Loop ==
  \/ StreamMoved \/ DataDone \/ DataFails \/ Report \/ Unhook
  \/ LoopUnlock \/ LoopExit

ContextAnswers == ContextReady \/ ContextFails
StreamAnswers  == StreamReady \/ StreamFails

(* Condition variables may wake a thread that nobody signalled.            *)
SpuriousWakeup ==
  /\ waiting = "waiting" /\ waiting' = "woken"
  /\ UNCHANGED <<call, memory, lock, loop, pulse, audio>>

World == ContextAnswers \/ StreamAnswers \/ Data \/ Move \/ SpuriousWakeup

-----------------------------------------------------------------------------

Teardown == {"freeHandle", "freeContext", "stopLoop", "joinLoop", "freeBase"}

AppStates ==
  {"connectContext", "startLoop", "contextLoop", "contextWait", "newStream",
   "streamLoop", "streamWait", "unlockError", "error"} \cup Teardown

(* A callback is running.                                                  *)
InCallback == lpc \notin {"none", "poll", "exited"}

TypeOK ==
  /\ lock \in {"free", "app", "loop"} /\ waiting \in {"no", "waiting", "woken"}
  /\ lpc \in {"none", "poll", "data", "moved", "report", "unhook", "unlock",
              "exited", "crashed"}
  /\ (lock = "loop") = InCallback
  /\ quit \in BOOLEAN /\ hooked \in BOOLEAN /\ errno \in BOOLEAN
  /\ context \in {"none", "unconnected", "connecting", "ready", "failed"}
  /\ stream \in {"none", "unconnected", "creating", "ready", "failed",
                 "terminated"}
  /\ name \in 0 .. Moves + 1 /\ reports \in Nat

(* What is left of the backend while the app has a stream that runs, and   *)
(* once it has none: the lock, the thread, the references to the           *)
(* pa_stream and the pa_context, and the memory.                           *)
AllHeld ==
  /\ lock # "app" /\ lpc \notin {"none", "exited"}
  /\ handle /\ context # "none" /\ base = "live"
NothingHeld ==
  /\ lock # "app" /\ lpc \in {"none", "exited"}
  /\ ~ handle /\ context = "none" /\ base # "live"
=============================================================================
