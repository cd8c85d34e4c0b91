----------------------------- MODULE PortStream -----------------------------
(***************************************************************************)
(* One stream of libaudiowire/src/portaudio.c, from start_stream to        *)
(* aw_stop, with aw_terminate, which another thread may call meanwhile.    *)
(* AudioBackend calls it as the Rust wrapper does.  PortAudio runs the     *)
(* callback on a thread of its own while its stream is active.             *)
(***************************************************************************)

VARIABLES
  apc,      \* where the app is
  code,     \* what the call returns: paNoError is "ok"; "none": not yet known
  given,    \* start_stream has stored the stream for its caller
  base,     \* the aw_stream and its ring buffer
  handle,   \* stream->handle is not NULL
  devname,  \* base.devname: 0, a name that lives as long as the device list
  pa,       \* the PaStream, which PortAudio keeps: "none", "open", "active"
  dpc,      \* the thread of the device: "idle" or in the callback, "data"
  ready     \* Pa_Initialize was called, and Pa_Terminate was not

call   == <<apc, code, given>>
memory == <<base, handle, devname>>
device == <<pa, dpc, ready>>

Init == pa = "none" /\ dpc = "idle" /\ ready = TRUE

Becomes(pc) == apc' = pc /\ UNCHANGED <<code, given>>

Fails(pc) == apc' = pc /\ code' = "error" /\ UNCHANGED given

-----------------------------------------------------------------------------
(* start_stream.                                                           *)

(* No device has the name that was asked for and enough channels.          *)
DeviceNotFound ==
  /\ apc = "aw_start" /\ Fails("returned")
  /\ UNCHANGED <<memory, device>>

DeviceFound ==
  /\ apc = "aw_start" /\ Becomes("openStream")
  /\ base' = "live" /\ devname' = 0
  /\ UNCHANGED <<handle, device>>

OpenStream ==
  /\ apc = "openStream"
  /\ \/ Becomes("startStream") /\ handle' = TRUE /\ pa' = "open"
     \/ Fails("free") /\ UNCHANGED <<handle, pa>>
  /\ UNCHANGED <<base, devname, dpc, ready>>

(* The callback may run before Pa_StartStream returns.                     *)
StartStream ==
  /\ apc = "startStream"
  /\ \/ Becomes("startReturns") /\ pa' = "active"
     \/ Fails("free") /\ UNCHANGED pa
  /\ UNCHANGED <<memory, dpc, ready>>

StartReturns ==
  /\ apc = "startReturns" /\ apc' = "returned"
  /\ code' = "ok" /\ given' = TRUE
  /\ UNCHANGED <<memory, device>>

(* A failed start frees its memory, but closes no PaStream it has opened.  *)
Free ==
  /\ apc = "free" /\ apc' = "returned"
  /\ base' = IF base = "live" THEN "freed" ELSE "twice"
  /\ devname' = 0
  /\ code' = IF code = "none" THEN "ok" ELSE code
  /\ UNCHANGED <<given, handle, device>>

-----------------------------------------------------------------------------
(* aw_stop.  Every call of PortAudio fails once it is terminated, and what *)
(* Pa_IsStreamActive returns then counts as "active".                      *)

IsStreamActive ==
  /\ apc = "aw_stop"
  /\ Becomes(CASE ~ handle -> "free"
               [] handle /\ (pa = "active" \/ ~ ready) -> "stopStream"
               [] OTHER -> "closeStream")
  /\ UNCHANGED <<memory, device>>

(* A mutant: an error of Pa_StopStream is not the caller's business.       *)
StopStreamUnchecked ==
  /\ apc = "stopStream"
  /\ \/ Becomes("closeStream") /\ ready /\ dpc = "idle" /\ pa' = "open"
     \/ Becomes("free") /\ UNCHANGED pa
  /\ UNCHANGED <<memory, dpc, ready>>

(* Pa_StopStream waits for the callback.                                   *)
StopStream ==
  /\ apc = "stopStream"
  /\ \/ Becomes("closeStream") /\ ready /\ dpc = "idle" /\ pa' = "open"
     \/ Fails("returned") /\ UNCHANGED pa
  /\ UNCHANGED <<memory, dpc, ready>>

CloseStream ==
  /\ apc = "closeStream"
  /\ \/ Becomes("free") /\ ready /\ handle' = FALSE /\ pa' = "none"
     \/ Fails("returned") /\ UNCHANGED <<handle, pa>>
  /\ UNCHANGED <<base, devname, dpc, ready>>

App ==
  \/ DeviceNotFound \/ DeviceFound \/ OpenStream \/ StartStream \/ StartReturns
  \/ IsStreamActive \/ StopStream \/ CloseStream \/ Free

-----------------------------------------------------------------------------
(* The device, and aw_terminate.                                           *)

Enter ==
  /\ pa = "active" /\ dpc = "idle" /\ dpc' = "data"
  /\ UNCHANGED <<call, memory, pa, ready>>

Leave ==
  /\ dpc = "data" /\ dpc' = "idle"
  /\ UNCHANGED <<call, memory, pa, ready>>

(* A device that is unplugged.                                             *)
DeviceEnds ==
  /\ pa = "active" /\ dpc = "idle" /\ pa' = "open"
  /\ UNCHANGED <<call, memory, dpc, ready>>

(* main terminates PortAudio when it is done, whatever its tasks still do. *)
(* Pa_Terminate closes the streams that are open.                          *)
Terminate ==
  /\ given /\ ready /\ dpc = "idle"
  /\ ready' = FALSE /\ pa' = "none"
  /\ UNCHANGED <<call, memory, dpc>>

World == Enter \/ DeviceEnds \/ Terminate

-----------------------------------------------------------------------------

AppStates ==
  {"openStream", "startStream", "startReturns", "free", "stopStream",
   "closeStream"}

InCallback == dpc = "data"

TypeOK ==
  /\ pa \in {"none", "open", "active"} /\ dpc \in {"idle", "data"}
  /\ (dpc = "data" => pa = "active")
  /\ ready \in BOOLEAN

(* What is left of the backend while the app has a stream that runs, and   *)
(* once it has none: no callback, no memory and no PaStream, but for one   *)
(* that Pa_StartStream has failed to start (portaudio.c:132-140): it stays *)
(* open, idle, and no caller has a handle to it.                           *)
AllHeld     == handle /\ base = "live"
NothingHeld ==
  /\ dpc = "idle" /\ base # "live"
  /\ IF given THEN ~ handle /\ pa = "none" ELSE pa = "none" \/ (handle /\ pa = "open")
=============================================================================
