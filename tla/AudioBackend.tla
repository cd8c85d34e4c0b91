---------------------------- MODULE AudioBackend ----------------------------
(***************************************************************************)
(* The Rust wrapper of audiowire/src/audiowire/stream.rs around one stream *)
(* of the backend the library was built with (libaudiowire/meson.build):   *)
(* PulseStream or PortStream.  A task starts the stream, learns the name   *)
(* of its device and stops it, as often as it likes.  Together they are    *)
(* shown to be an AudioStream.                                             *)
(***************************************************************************)
EXTENDS Naturals

CONSTANTS
  Backends,  \* the builds: a subset of {"pulseaudio", "portaudio"}
  Moves      \* bound: how often the audio server moves the stream

ASSUME MovesAssumption == Moves \in Nat
ASSUME BackendsAssumption == Backends \subseteq {"pulseaudio", "portaudio"}

VARIABLES
  backend,  \* the source that was built
  apc,      \* where the app is, in the wrapper or in the backend
  call,     \* the function of the wrapper it is in
  running,  \* BaseStream.running; FALSE when there is no BaseStream
  result,   \* of the last call; "none" before the first
  loaded,   \* the name aw_device_name has returned
  copied,   \* what BaseStream::new found there: "none", "live", "dangling"
  code, given, base, handle, devname,        \* of both backends
  lock, waiting, lpc, quit, context, stream, hooked, errno, name, reports,
  pa, dpc, ready

wrapper == <<call, running, result, loaded, copied>>
shared  == <<apc, code, given, base, handle, devname>>
pulse   == <<lock, waiting, lpc, quit, context, stream, hooked, errno, name,
             reports>>
port    == <<pa, dpc, ready>>
vars    == <<backend, wrapper, shared, pulse, port>>

Pulse == INSTANCE PulseStream
Port  == INSTANCE PortStream

(* meson.build:10-17.                                                      *)
OnPulse == backend = "pulseaudio"
OnPort  == backend = "portaudio"

Init ==
  /\ backend \in Backends
  /\ apc = "start" /\ call = "none" /\ running = FALSE /\ result = "none"
  /\ loaded = 0 /\ copied = "none"
  /\ code = "none" /\ given = FALSE
  /\ base = "none" /\ handle = FALSE /\ devname = 0
  /\ Pulse!Init /\ Port!Init

-----------------------------------------------------------------------------
(* The wrapper.                                                            *)

Calls(which, function) ==
  /\ call' = which /\ apc' = function /\ code' = "none"
  /\ UNCHANGED <<backend, running, result, loaded, copied, given, base, handle,
                 devname, pulse, port>>

(* StreamBuilder::start_record or start_playback.                          *)
StartStream == apc = "start" /\ Calls("start", "aw_start")

(* parse_result_value makes an error of a code other than 0.               *)
StartFailed ==
  /\ apc = "returned" /\ call = "start" /\ code # "ok"
  /\ apc' = "idle" /\ call' = "none" /\ result' = "error"
  /\ UNCHANGED <<backend, running, loaded, copied, code, given, base, handle,
                 devname, pulse, port>>

(* BaseStream::new asks the stream, if there is one, for its name ...      *)
LoadName ==
  /\ apc = "returned" /\ call = "start" /\ code = "ok"
  /\ apc' = IF given THEN "copyName" ELSE "crashed"
  /\ loaded' = devname
  /\ UNCHANGED <<backend, call, running, result, copied, code, given, base,
                 handle, devname, pulse, port>>

(* ... and copies the string, which the loop may have replaced since.      *)
CopyName ==
  /\ apc = "copyName"
  /\ copied' = IF loaded \in {0, name} THEN "live" ELSE "dangling"
  /\ apc' = "idle" /\ call' = "none" /\ running' = TRUE /\ result' = "ok"
  /\ UNCHANGED <<backend, loaded, code, given, base, handle, devname, pulse,
                 port>>

(* The caller has a BaseStream.                                            *)
HasStream == running \/ result = "ok"

(* Stream::stop.                                                           *)
Stop ==
  /\ apc = "idle" /\ HasStream
  /\ \/ running /\ Calls("stop", "aw_stop")
     \/ ~ running /\ result' = "ok"
        /\ UNCHANGED <<backend, shared, call, running, loaded, copied, pulse,
                       port>>

(* A mutant: running is cleared whatever aw_stop says.                     *)
StopReturnsClears ==
  /\ apc = "returned" /\ call = "stop"
  /\ apc' = "idle" /\ call' = "none"
  /\ result' = code /\ running' = FALSE
  /\ UNCHANGED <<backend, loaded, copied, code, given, base, handle, devname,
                 pulse, port>>

(* parse_result_lazy: running is cleared only if aw_stop succeeds.         *)
StopReturns ==
  /\ apc = "returned" /\ call = "stop"
  /\ apc' = "idle" /\ call' = "none"
  /\ result' = code /\ running' = (code # "ok")
  /\ UNCHANGED <<backend, loaded, copied, code, given, base, handle, devname,
                 pulse, port>>

Wrapper == StartStream \/ StartFailed \/ LoadName \/ CopyName \/ StopReturns

-----------------------------------------------------------------------------

PulseStep(A) == OnPulse /\ A /\ UNCHANGED <<backend, wrapper, port>>
PortStep(A)  == OnPort /\ A /\ UNCHANGED <<backend, wrapper, pulse>>

App  == Wrapper \/ PulseStep(Pulse!App) \/ PortStep(Port!App)
Loop == PulseStep(Pulse!Loop) \/ PortStep(Port!Leave)

Next ==
  \/ Wrapper \/ Stop
  \/ PulseStep(Pulse!App \/ Pulse!Loop \/ Pulse!World)
  \/ PortStep(Port!App \/ Port!Leave \/ Port!World)

Spec == Init /\ [][Next]_vars

(* The threads run; the audio server answers a context or a stream that    *)
(* waits for it; the loop sleeps without the lock between two events, so   *)
(* the app gets it sooner or later.  Nobody has to stop a stream.          *)
FairSpec ==
  Spec /\ SF_vars(App) /\ WF_vars(Loop)
       /\ SF_vars(PulseStep(context = "connecting" /\ Pulse!ContextAnswers))
       /\ SF_vars(PulseStep(stream = "creating" /\ Pulse!StreamAnswers))

-----------------------------------------------------------------------------

TypeOK ==
  /\ backend \in {"pulseaudio", "portaudio"}
  /\ apc \in {"start", "aw_start", "aw_stop", "returned", "copyName", "idle",
              "crashed"} \cup Pulse!AppStates \cup Port!AppStates
  /\ call \in {"none", "start", "stop"}
  /\ running \in BOOLEAN /\ given \in BOOLEAN /\ handle \in BOOLEAN
  /\ result \in {"none", "ok", "error"} /\ code \in {"none", "ok", "error"}
  /\ loaded \in 0 .. Moves + 1 /\ devname \in 0 .. Moves + 1
  /\ copied \in {"none", "live", "dangling"}
  /\ base \in {"none", "live", "freed", "twice"}
  /\ Pulse!TypeOK /\ Port!TypeOK

AudioStream ==
  INSTANCE AudioStream
    WITH memory <- base, owned <- running,
         inside <- IF OnPulse THEN Pulse!InCallback ELSE Port!InCallback

(* Either backend, behind the wrapper, is an audio stream: a start gives a *)
(* stream or an error and nothing else, a stop that fails has taken        *)
(* nothing away and may be called again, "Stop is idempotent"              *)
(* (stream.rs:164), the memory is freed once, and no callback of the       *)
(* device is inside it then (pulseaudio.c:110-128, portaudio.c:184-197).   *)
ImplementsAudioStream == AudioStream!Spec

(* The Logger behind userdata is read by value, and so released, on every  *)
(* call of the error callback (handlers.rs:25, stream.rs:259), but it was  *)
(* only retained once: the callback is called at most once.                *)
ReportsOnce == reports <= 1

(* Between two calls the app holds all of the backend or nothing: a stream *)
(* that runs, with its thread, references and memory, or none of them and  *)
(* no lock, after every way a start or a stop can fail                     *)
(* (pulseaudio.c:110-128, 179-224, 249-254, portaudio.c:128-142, 184-197). *)
(* Except: a PaStream that Pa_StartStream fails to start is never closed.  *)
AllOrNothing ==
  call = "none" /\ result # "none" =>
    /\ OnPulse => IF running THEN Pulse!AllHeld ELSE Pulse!NothingHeld
    /\ OnPort  => IF running THEN Port!AllHeld ELSE Port!NothingHeld

(* The handle a failing callback uses is missing only while aw_stop, which *)
(* does not take the lock, tears down that very stream; at no other time,  *)
(* not even while it starts, does a callback abort the program, and no     *)
(* caller is given a NULL for a stream.                                    *)
CrashesOnlyInTeardown ==
  [][apc' = "crashed" => call = "stop" /\ apc \in Pulse!Teardown]_vars

(* The name of the device belongs to libpulse, and BaseStream::new         *)
(* (stream.rs:124-126) copies it without the lock.  It reads freed memory  *)
(* only if the stream moves meanwhile: it was moved after the pointer was  *)
(* loaded, or is being moved; an earlier move does no harm.                *)
NameDanglesOnlyWhileMoving ==
  [][copied' = "dangling" /\ copied = "none"
       => lpc = "moved" \/ devname # loaded]_vars

(* start and stop return, whenever the audio server answers or fails: no   *)
(* signal is lost and nobody waits for a lock that is held for ever.       *)
CallsReturn == call # "none" ~> call = "none" \/ apc = "crashed"
=============================================================================
