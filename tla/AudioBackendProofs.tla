------------------------- MODULE AudioBackendProofs -------------------------
(***************************************************************************)
(* Theorems about the stream of either backend behind the wrapper, however *)
(* often the audio server moves the stream: it implements AudioStream, a   *)
(* start or a stop leaves all of it or nothing, and its callback is told   *)
(* of an error once.                                                       *)
(***************************************************************************)
EXTENDS AudioBackend, TLAPS

(* Where the app is in the start of a PulseAudio stream.                   *)
Locked   == {"contextLoop", "newStream", "streamLoop", "unlockError"}
Waits    == {"contextWait", "streamWait"}
Failing  == {"unlockError", "error"}
Starts   == {"aw_start", "connectContext", "startLoop", "error", "copyName",
             "openStream", "startStream", "startReturns"}
              \cup Locked \cup Waits
Finishes == Pulse!Teardown \cup {"free"}

(* The wrapper: which call it is in, and what the last one has left.       *)
Called ==
  /\ call = "none" <=> apc \in {"start", "idle"}
  /\ apc \in Starts => call = "start"
  /\ apc \in {"aw_stop", "stopStream", "closeStream", "crashed"} =>
       call = "stop"
  /\ call = "start" => ~ running
  /\ call = "stop" => running
  /\ result = "none" <=> apc = "start" \/ call = "start"
  /\ apc = "start" => ~ running
  /\ running => result # "none"
  /\ apc = "returned" => code # "none"
  /\ apc = "copyName" => code = "ok"
  /\ apc \in {"aw_start", "aw_stop", "stopStream", "closeStream"} =>
       code = "none"
  /\ apc \in Starts \ {"copyName"} => code = "none"
  /\ apc \in Finishes => code = IF call = "start" THEN "error" ELSE "none"

(* The app has a stream that runs, or is about to get it.                  *)
Runs ==
  \/ apc = "idle" /\ running
  \/ apc \in {"aw_stop", "copyName"}
  \/ apc = "returned" /\ (call = "start" <=> code = "ok")

(* It has none, and gets none.                                             *)
Over ==
  \/ apc = "idle" /\ ~ running
  \/ apc = "returned" /\ (call = "start" <=> code # "ok")

(* A PulseAudio stream, by where the app is.                               *)
PulseApp ==
  /\ apc \notin Port!AppStates
  /\ apc \in {"start", "aw_start"} =>
       /\ base = "none" /\ ~ handle /\ ~ given /\ devname = 0
       /\ lpc = "none" /\ context = "none" /\ stream = "none" /\ name = 0
  /\ apc \notin {"start", "aw_start"} /\ ~ Over => base = "live"
  /\ Over => base = "freed" /\ lpc \in {"none", "exited"}
  /\ Runs => given /\ handle /\ lpc # "none"
  /\ given => Runs \/ Over \/ call = "stop"
  /\ call = "stop" => given
  /\ apc = "connectContext" => context = "unconnected"
  /\ apc \in {"connectContext", "startLoop"} => lpc = "none"
  /\ apc \in {"connectContext", "startLoop", "contextLoop", "contextWait",
              "newStream"} =>
       ~ handle /\ ~ hooked /\ reports = 0 /\ stream = "none"
  /\ apc \in {"start", "aw_start"} => ~ hooked /\ reports = 0
  /\ apc \in Waits \cup Locked => lpc # "none"
  /\ apc = "startLoop" \/ apc \in Waits \cup {"contextLoop", "streamLoop"} =>
       context \in {"connecting", "ready", "failed"}
  /\ apc = "newStream" => context = "ready"
  /\ apc \in {"streamLoop", "streamWait"} =>
       handle /\ stream \in {"creating", "ready", "failed"}
  /\ apc = "aw_stop" => lpc # "none"
  /\ call = "stop" /\ apc \in {"freeHandle", "freeContext", "stopLoop"} =>
       lpc # "none"
  /\ apc = "joinLoop" => lpc # "none"
  /\ apc = "freeBase" => lpc \in {"none", "exited"}
  /\ apc \in Pulse!Teardown \ {"freeHandle"} \/ Over => ~ handle
  /\ apc \in {"stopLoop", "joinLoop", "freeBase"} \/ Over =>
       context = "none"
  /\ Runs => context # "none"

(* The lock, the loop and what it may run.                                 *)
PulseLoop ==
  /\ lock = "app" <=> apc \in Locked
  /\ waiting # "no" <=> apc \in Waits
  /\ quit => apc \in {"joinLoop", "freeBase", "crashed"} \/ Over
  /\ lpc = "exited" => quit
  /\ lpc = "crashed" <=> apc = "crashed"
  /\ call = "start" /\ apc \in Failing \cup Pulse!Teardown =>
       /\ stream \notin {"creating", "ready"}
       /\ lpc \in {"none", "poll", "unlock", "exited"}
  /\ lpc \in {"data", "report", "unhook"} =>
       hooked /\ (handle \/ (call = "stop" /\ apc \in Pulse!Teardown))
  /\ apc \in Failing => errno
  /\ context = "failed" => errno
  /\ stream \in {"failed", "unconnected"} => errno
  /\ hooked /\ lpc \notin {"unhook", "crashed"} => reports = 0
  /\ reports <= 1
  /\ base = "live" /\ lpc # "moved" => devname = name

(* What is left untouched by a build with the other backend.               *)
PulseRest ==
  /\ lock = "free" /\ waiting = "no" /\ lpc = "none" /\ ~ quit
  /\ context = "none" /\ stream = "none" /\ ~ errno
  /\ ~ hooked /\ name = 0 /\ reports = 0

(* A PortAudio stream.                                                     *)
PortInv ==
  /\ apc \notin Pulse!AppStates
  /\ apc \in {"start", "aw_start"} =>
       base = "none" /\ ~ handle /\ ~ given /\ pa = "none"
  /\ apc \in {"openStream", "startStream", "startReturns", "stopStream",
              "closeStream", "free"} \/ Runs => base = "live"
  /\ Over => base # "live" /\ base # "twice"
  /\ Runs \/ apc \in {"startStream", "startReturns", "stopStream",
                       "closeStream"} => handle
  /\ apc = "openStream" => pa = "none"
  /\ apc = "startStream" => pa = "open"
  /\ apc = "free" \/ Over =>
       IF given THEN ~ handle /\ pa = "none"
                ELSE pa = "none" \/ (handle /\ pa = "open")
  /\ apc \in {"openStream", "startStream", "startReturns"} => ~ given
  /\ ~ given => ready
  /\ given => base # "none"
  /\ apc \in {"startStream", "closeStream", "free"} \/ Over => pa # "active"
  /\ Runs \/ call = "stop" => given
  /\ apc # "crashed"
  /\ devname = 0

PortRest == pa = "none" /\ dpc = "idle"

(* The inductive invariant: in which call of the wrapper the app may be    *)
(* where, and what each place in a backend knows of its stream.            *)
IInv ==
  /\ TypeOK /\ Called
  /\ OnPulse => PulseApp /\ PulseLoop /\ PortRest
  /\ OnPort  => PulseRest /\ PortInv

-----------------------------------------------------------------------------
(* SMT does not see that a variable set to TRUE or FALSE is a Boolean.     *)

LEMMA FlagsOfPulse ==
  ASSUME TypeOK
  PROVE  /\ Pulse!ConnectContext \/ Pulse!NewStream \/ Pulse!Disconnect =>
              errno' \in BOOLEAN
         /\ Pulse!StopLoop => quit' \in BOOLEAN
         /\ Pulse!Unhook => hooked' \in BOOLEAN
         /\ Pulse!FreeHandle => handle' \in BOOLEAN
BY Zenon DEF TypeOK, Pulse!TypeOK, Pulse!ConnectContext, Pulse!NewStream,
   Pulse!Disconnect, Pulse!StopLoop, Pulse!FreeHandle, Pulse!Unhook,
   Pulse!LoopStep, Pulse!pulse, Pulse!audio

LEMMA FlagsOfPort ==
  ASSUME TypeOK
  PROVE  /\ Port!StartReturns => given' \in BOOLEAN
         /\ Port!OpenStream \/ Port!CloseStream => handle' \in BOOLEAN
         /\ Port!Terminate => ready' \in BOOLEAN
BY Zenon DEF TypeOK, Port!StartReturns, Port!OpenStream, Port!CloseStream,
   Port!Terminate

-----------------------------------------------------------------------------
(* The steps of a PulseAudio stream.                                       *)

LEMMA PulseAppKeeps ==
  ASSUME IInv, OnPulse, UNCHANGED <<backend, wrapper, port>>, Pulse!App
  PROVE  IInv'
<1> USE MovesAssumption
    DEF OnPulse, OnPort, PortRest, wrapper, port, TypeOK, Pulse!TypeOK,
        Port!TypeOK, Called, PulseApp, PulseLoop, Runs, Over, Starts, Failing,
        Finishes, Locked, Waits, Pulse!Teardown, Pulse!AppStates,
        Port!AppStates, Pulse!InCallback, Pulse!call, Pulse!memory,
        Pulse!loop, Pulse!pulse, Pulse!audio, Pulse!Becomes
<1>1. /\ backend = "pulseaudio" /\ Called /\ PulseApp /\ PulseLoop
      /\ PortRest /\ TypeOK /\ UNCHANGED <<backend, wrapper, port>>
  BY DEF IInv
<1>2. SUFFICES TypeOK' /\ PortRest' /\ Called' /\ PulseApp' /\ PulseLoop'
  BY <1>1 DEF IInv
<1>3. CASE Pulse!Create
  BY <1>1, <1>3 DEF Pulse!Create
<1>4. CASE Pulse!ConnectContext
  <2> errno' \in BOOLEAN
    BY <1>1, <1>4, FlagsOfPulse
  <2>1. CASE apc' = "startLoop"
    BY <1>1, <1>4, <2>1 DEF Pulse!ConnectContext
  <2>2. CASE apc' # "startLoop"
    BY <1>1, <1>4, <2>2 DEF Pulse!ConnectContext
  <2>3. QED
    BY <2>1, <2>2
<1>5. CASE Pulse!StartLoop
  BY <1>1, <1>5 DEF Pulse!StartLoop
<1>6. CASE Pulse!ContextLoop
  BY <1>1, <1>6 DEF Pulse!ContextLoop, Pulse!Wait
<1>7. CASE Pulse!ContextWoken
  BY <1>1, <1>7 DEF Pulse!ContextWoken, Pulse!Woken, Pulse!ContextGood
<1>8. CASE Pulse!NewStream
  <2> errno' \in BOOLEAN
    BY <1>1, <1>8, FlagsOfPulse
  <2>1. CASE apc' = "streamLoop"
    BY <1>1, <1>8, <2>1 DEF Pulse!NewStream
  <2>2. CASE apc' # "streamLoop"
    BY <1>1, <1>8, <2>2 DEF Pulse!NewStream
  <2>3. QED
    BY <2>1, <2>2
<1>9. CASE Pulse!StreamLoop
  <2>1. CASE apc' = "returned"
    BY <1>1, <1>9, <2>1 DEF Pulse!StreamLoop, Pulse!Wait
  <2>2. CASE apc' # "returned"
    BY <1>1, <1>9, <2>2 DEF Pulse!StreamLoop, Pulse!Wait
  <2>3. QED
    BY <2>1, <2>2
<1>10. CASE Pulse!StreamWoken
  BY <1>1, <1>10 DEF Pulse!StreamWoken, Pulse!Woken, Pulse!StreamGood
<1>11. CASE Pulse!UnlockError
  BY <1>1, <1>11 DEF Pulse!UnlockError
<1>12. CASE Pulse!Error
  BY <1>1, <1>12 DEF Pulse!Error
<1>13. CASE Pulse!Disconnect
  <2>1. CASE apc' = "freeHandle"
    BY <1>1, <1>13, <2>1 DEF Pulse!Disconnect
  <2>2. CASE apc' # "freeHandle"
    <3>1. /\ apc = "aw_stop" /\ apc' = "returned" /\ code' = "error"
          /\ UNCHANGED <<given, lock, waiting, context, stream>>
          /\ UNCHANGED <<Pulse!memory, Pulse!loop, Pulse!audio>>
      BY <1>13, <2>2 DEF Pulse!Disconnect
    <3>2. errno' = TRUE
      BY <1>13, <2>2, Zenon DEF Pulse!Disconnect, Pulse!Becomes
    <3>3. errno' \in BOOLEAN
      BY <1>1, <1>13, FlagsOfPulse
    <3>4. QED
      BY <1>1, <3>1, <3>2, <3>3
  <2>3. QED
    BY <2>1, <2>2
<1>14. CASE Pulse!FreeHandle
  <2>1. handle' \in BOOLEAN
    BY <1>1, <1>14, FlagsOfPulse
  <2>2. QED
    BY <1>1, <1>14, <2>1 DEF Pulse!FreeHandle
<1>15. CASE Pulse!FreeContext
  BY <1>1, <1>15 DEF Pulse!FreeContext, Pulse!StreamGood
<1>16. CASE Pulse!StopLoop
  <2> quit' \in BOOLEAN
    BY <1>1, <1>16, FlagsOfPulse
  <2>1. CASE apc' = "freeBase"
    BY <1>1, <1>16, <2>1 DEF Pulse!StopLoop
  <2>2. CASE apc' # "freeBase"
    BY <1>1, <1>16, <2>2 DEF Pulse!StopLoop
  <2>3. QED
    BY <2>1, <2>2
<1>17. CASE Pulse!JoinLoop
  BY <1>1, <1>17 DEF Pulse!JoinLoop
<1>18. CASE Pulse!FreeBase
  BY <1>1, <1>18 DEF Pulse!FreeBase
<1>19. QED
  BY <1>3, <1>4, <1>5, <1>6, <1>7, <1>8, <1>9, <1>10, <1>11, <1>12, <1>13,
     <1>14, <1>15, <1>16, <1>17, <1>18 DEF Pulse!App

LEMMA PulseLoopKeeps ==
  ASSUME IInv, OnPulse, UNCHANGED <<backend, wrapper, port>>, Pulse!Loop
  PROVE  IInv'
<1> USE MovesAssumption
    DEF OnPulse, OnPort, PortRest, wrapper, port, TypeOK, Pulse!TypeOK,
        Port!TypeOK, Called, PulseApp, PulseLoop, Runs, Over, Starts, Failing,
        Finishes, Locked, Waits, Pulse!Teardown, Pulse!AppStates,
        Port!AppStates, Pulse!InCallback, Pulse!call, Pulse!memory,
        Pulse!loop, Pulse!pulse, Pulse!audio, Pulse!LoopStep
<1>1. /\ backend = "pulseaudio" /\ Called /\ PulseApp /\ PulseLoop
      /\ PortRest /\ TypeOK /\ UNCHANGED <<backend, wrapper, port>>
  BY DEF IInv
<1>2. SUFFICES TypeOK' /\ PortRest' /\ Called' /\ PulseApp' /\ PulseLoop'
  BY <1>1 DEF IInv
<1>3. CASE Pulse!StreamMoved
  BY <1>1, <1>3 DEF Pulse!StreamMoved
<1>4. CASE Pulse!DataDone
  BY <1>1, <1>4 DEF Pulse!DataDone, Pulse!DataEnds
<1>5. CASE Pulse!DataFails
  BY <1>1, <1>5 DEF Pulse!DataFails, Pulse!DataEnds
<1>6. CASE Pulse!Report
  BY <1>1, <1>6 DEF Pulse!Report
<1>7. CASE Pulse!Unhook
  <2> hooked' \in BOOLEAN
    BY <1>1, <1>7, FlagsOfPulse
  <2>1. CASE handle
    BY <1>1, <1>7, <2>1 DEF Pulse!Unhook
  <2>2. CASE ~ handle
    BY <1>1, <1>7, <2>2 DEF Pulse!Unhook
  <2>3. QED
    BY <2>1, <2>2
<1>8. CASE Pulse!LoopUnlock
  BY <1>1, <1>8 DEF Pulse!LoopUnlock
<1>9. CASE Pulse!LoopExit
  BY <1>1, <1>9 DEF Pulse!LoopExit
<1>10. QED
  BY <1>3, <1>4, <1>5, <1>6, <1>7, <1>8, <1>9 DEF Pulse!Loop

LEMMA PulseWorldKeeps ==
  ASSUME IInv, OnPulse, UNCHANGED <<backend, wrapper, port>>, Pulse!World
  PROVE  IInv'
<1> USE MovesAssumption
    DEF OnPulse, OnPort, PortRest, wrapper, port, TypeOK, Pulse!TypeOK,
        Port!TypeOK, Called, PulseApp, PulseLoop, Runs, Over, Starts, Failing,
        Finishes, Locked, Waits, Pulse!Teardown, Pulse!AppStates,
        Port!AppStates, Pulse!InCallback, Pulse!call, Pulse!memory,
        Pulse!loop, Pulse!pulse, Pulse!audio, Pulse!Dispatch,
        Pulse!Signal
<1>1. /\ backend = "pulseaudio" /\ Called /\ PulseApp /\ PulseLoop
      /\ PortRest /\ TypeOK /\ UNCHANGED <<backend, wrapper, port>>
  BY DEF IInv
<1>2. SUFFICES TypeOK' /\ PortRest' /\ Called' /\ PulseApp' /\ PulseLoop'
  BY <1>1 DEF IInv
<1>3. CASE Pulse!ContextReady
  BY <1>1, <1>3 DEF Pulse!ContextReady
<1>4. CASE Pulse!ContextFails
  BY <1>1, <1>4 DEF Pulse!ContextFails, Pulse!ContextGood, Pulse!StreamGood
<1>5. CASE Pulse!StreamReady
  BY <1>1, <1>5 DEF Pulse!StreamReady
<1>6. CASE Pulse!StreamFails
  BY <1>1, <1>6 DEF Pulse!StreamFails, Pulse!StreamGood
<1>7. CASE Pulse!Data
  BY <1>1, <1>7 DEF Pulse!Data
<1>8. CASE Pulse!Move
  BY <1>1, <1>8 DEF Pulse!Move
<1>9. CASE Pulse!SpuriousWakeup
  BY <1>1, <1>9 DEF Pulse!SpuriousWakeup
<1>10. QED
  BY <1>3, <1>4, <1>5, <1>6, <1>7, <1>8, <1>9 
     DEF Pulse!World, Pulse!ContextAnswers, Pulse!StreamAnswers

-----------------------------------------------------------------------------
(* The steps of a PortAudio stream.                                        *)

LEMMA PortAppKeeps ==
  ASSUME IInv, OnPort, UNCHANGED <<backend, wrapper, pulse>>, Port!App
  PROVE  IInv'
<1> USE MovesAssumption
    DEF OnPulse, OnPort, PulseRest, wrapper, pulse, TypeOK, Pulse!TypeOK,
        Port!TypeOK, Called, PortInv, Runs, Over, Starts, Failing, Finishes,
        Locked, Waits, Pulse!Teardown, Pulse!AppStates, Port!AppStates,
        Pulse!InCallback, Port!call, Port!memory, Port!device, Port!Becomes,
        Port!Fails
<1>1. /\ backend = "portaudio" /\ Called /\ PortInv /\ PulseRest
      /\ TypeOK /\ UNCHANGED <<backend, wrapper, pulse>>
  BY DEF IInv
<1>2. SUFFICES TypeOK' /\ Called' /\ PulseRest' /\ PortInv'
  BY <1>1 DEF IInv
<1>3. CASE Port!DeviceNotFound
  BY <1>1, <1>3 DEF Port!DeviceNotFound
<1>4. CASE Port!DeviceFound
  BY <1>1, <1>4 DEF Port!DeviceFound
<1>5. CASE Port!OpenStream
  <2>1. handle' \in BOOLEAN
    BY <1>1, <1>5, FlagsOfPort
  <2>2. QED
    BY <1>1, <1>5, <2>1 DEF Port!OpenStream
<1>6. CASE Port!StartStream
  BY <1>1, <1>6 DEF Port!StartStream
<1>7. CASE Port!StartReturns
  <2>1. given' \in BOOLEAN
    BY <1>1, <1>7, FlagsOfPort
  <2>2. QED
    BY <1>1, <1>7, <2>1 DEF Port!StartReturns
<1>8. CASE Port!IsStreamActive
  BY <1>1, <1>8 DEF Port!IsStreamActive
<1>9. CASE Port!StopStream
  <2>1. CASE apc' = "closeStream"
    BY <1>1, <1>9, <2>1 DEF Port!StopStream
  <2>2. CASE apc' # "closeStream"
    <3>1. /\ apc = "stopStream" /\ apc' = "returned" /\ code' = "error"
          /\ UNCHANGED <<given, base, handle, devname, pa, dpc, ready>>
      BY <1>9, <2>2 DEF Port!StopStream
    <3>2. QED
      BY <1>1, <3>1
  <2>3. QED
    BY <2>1, <2>2
<1>10. CASE Port!CloseStream
  <2> handle' \in BOOLEAN
    BY <1>1, <1>10, FlagsOfPort
  <2>1. CASE apc' = "free"
    BY <1>1, <1>10, <2>1 DEF Port!CloseStream
  <2>2. CASE apc' # "free"
    <3>1. /\ apc = "closeStream" /\ apc' = "returned" /\ code' = "error"
          /\ UNCHANGED <<given, base, handle, devname, pa, dpc, ready>>
      BY <1>10, <2>2 DEF Port!CloseStream
    <3>2. QED
      BY <1>1, <3>1
  <2>3. QED
    BY <2>1, <2>2
<1>11. CASE Port!Free
  BY <1>1, <1>11 DEF Port!Free
<1>12. QED
  BY <1>3, <1>4, <1>5, <1>6, <1>7, <1>8, <1>9, <1>10, <1>11
     DEF Port!App

LEMMA PortDeviceKeeps ==
  ASSUME IInv, OnPort, UNCHANGED <<backend, wrapper, pulse>>,
         Port!Leave \/ Port!World
  PROVE  IInv'
<1> USE MovesAssumption
    DEF OnPulse, OnPort, PulseRest, wrapper, pulse, TypeOK, Pulse!TypeOK,
        Port!TypeOK, Called, PortInv, Runs, Over, Starts, Failing, Finishes,
        Locked, Waits, Pulse!Teardown, Pulse!AppStates, Port!AppStates,
        Pulse!InCallback, Port!call, Port!memory, Port!device, Port!Becomes,
        Port!Fails
<1>1. /\ backend = "portaudio" /\ Called /\ PortInv /\ PulseRest
      /\ TypeOK /\ UNCHANGED <<backend, wrapper, pulse>>
  BY DEF IInv
<1>2. SUFFICES TypeOK' /\ Called' /\ PulseRest' /\ PortInv'
  BY <1>1 DEF IInv
<1>3. CASE Port!Leave
  BY <1>1, <1>3 DEF Port!Leave
<1>4. CASE Port!Enter
  BY <1>1, <1>4 DEF Port!Enter
<1>5. CASE Port!DeviceEnds
  BY <1>1, <1>5 DEF Port!DeviceEnds
<1>6. CASE Port!Terminate
  <2>1. ready' \in BOOLEAN
    BY <1>1, <1>6, FlagsOfPort
  <2>2. QED
    BY <1>1, <1>6, <2>1 DEF Port!Terminate
<1>7. QED
  BY <1>3, <1>4, <1>5, <1>6 DEF Port!World

-----------------------------------------------------------------------------
(* The steps of the wrapper.                                               *)

LEMMA WrapperKeeps ==
  ASSUME IInv, Wrapper \/ Stop
  PROVE  IInv'
<1> USE MovesAssumption, BackendsAssumption
    DEF OnPulse, OnPort, PulseRest, PortRest, pulse, port, shared, TypeOK,
        Pulse!TypeOK, Port!TypeOK, IInv, Called, PortInv, PulseApp, PulseLoop,
        Runs, Over, Starts, Failing, Finishes, Locked, Waits, Pulse!Teardown,
        Pulse!AppStates, Port!AppStates, Pulse!InCallback, Calls, HasStream
<1>1. CASE StartStream
  BY <1>1 DEF StartStream
<1>2. CASE StartFailed
  BY <1>2 DEF StartFailed
<1>3. CASE LoadName
  BY <1>3 DEF LoadName
<1>4. CASE CopyName
  <2>1. running' = TRUE
    BY <1>4, Zenon DEF CopyName
  <2>2. running' \in BOOLEAN
    BY <2>1, Zenon
  <2>3. QED
    BY <1>4, <2>1, <2>2 DEF CopyName
<1>5. CASE StopReturns
  <2>1. CASE code = "ok"
    <3>1. running' = FALSE
      BY <1>5, <2>1 DEF StopReturns
    <3>2. QED
      BY <1>5, <2>1, <3>1 DEF StopReturns
  <2>2. CASE code # "ok"
    <3>1. running' = TRUE
      BY <1>5, <2>2 DEF StopReturns
    <3>2. QED
      BY <1>5, <2>2, <3>1 DEF StopReturns
  <2>3. QED
    BY <2>1, <2>2
<1>6. CASE Stop
  BY <1>6 DEF Stop
<1>7. QED
  BY <1>1, <1>2, <1>3, <1>4, <1>5, <1>6 DEF Wrapper

-----------------------------------------------------------------------------

LEMMA Initially == Init => IInv
<1> SUFFICES ASSUME Init PROVE IInv
  OBVIOUS
<1>1. /\ running = FALSE /\ given = FALSE /\ handle = FALSE /\ quit = FALSE
      /\ hooked = FALSE /\ errno = FALSE /\ ready = TRUE
  BY Zenon DEF Init, Pulse!Init, Port!Init
<1>2. /\ running \in BOOLEAN /\ given \in BOOLEAN /\ handle \in BOOLEAN
      /\ quit \in BOOLEAN /\ hooked \in BOOLEAN /\ errno \in BOOLEAN
      /\ ready \in BOOLEAN
  BY <1>1, Zenon
<1>3. TypeOK
  BY <1>1, <1>2, MovesAssumption, BackendsAssumption
     DEF Init, Pulse!Init, Port!Init, TypeOK, Pulse!TypeOK, Port!TypeOK,
         Pulse!InCallback
<1>4. Called
  BY <1>1
     DEF Init, Called, Starts, Failing, Finishes, Locked, Waits, Pulse!Teardown
<1>5. PulseApp /\ PulseLoop /\ PortRest
  BY <1>1 DEF Init, Pulse!Init, Port!Init, PortRest, PulseApp, PulseLoop,
     Runs, Over, Failing, Locked, Waits, Pulse!Teardown, Port!AppStates
<1>6. PulseRest /\ PortInv
  BY <1>1 DEF Init, Pulse!Init, Port!Init, PulseRest, PortInv, Runs, Over,
     Pulse!AppStates, Pulse!Teardown
<1>7. QED
  BY <1>3, <1>4, <1>5, <1>6 DEF IInv

LEMMA Unchanged ==
  ASSUME IInv, UNCHANGED vars
  PROVE  IInv'
BY DEF vars, wrapper, shared, pulse, port, OnPulse, OnPort, PulseRest,
       PortRest, TypeOK, Pulse!TypeOK, Port!TypeOK, IInv, Called, PortInv,
       PulseApp, PulseLoop, Runs, Over, Starts, Failing, Finishes, Locked,
       Waits, Pulse!Teardown, Pulse!AppStates, Port!AppStates,
       Pulse!InCallback

LEMMA StepKeeps ==
  ASSUME IInv, [Next]_vars
  PROVE  IInv'
<1>1. CASE Wrapper \/ Stop
  BY <1>1, WrapperKeeps
<1>2. CASE PulseStep(Pulse!App \/ Pulse!Loop \/ Pulse!World)
  BY <1>2, PulseAppKeeps, PulseLoopKeeps, PulseWorldKeeps DEF PulseStep
<1>3. CASE PortStep(Port!App \/ Port!Leave \/ Port!World)
  BY <1>3, PortAppKeeps, PortDeviceKeeps DEF PortStep
<1>4. QED
  BY <1>1, <1>2, <1>3, Unchanged DEF Next

-----------------------------------------------------------------------------
(* Whatever the audio server does and however often the stream moves, all  *)
(* the state of the wrapper and of either backend keeps its type, and the  *)
(* lock belongs to the loop exactly while a callback runs.                 *)
THEOREM BackendTypes == Spec => []TypeOK
<1>1. IInv => TypeOK
  BY DEF IInv
<1>2. QED
  BY Initially, StepKeeps, <1>1, PTL DEF Spec

(* The error callback of a stream is called at most once, so that the      *)
(* Logger it releases on every call (handlers.rs:25, stream.rs:259) is     *)
(* released once.                                                          *)
THEOREM OneReport == Spec => []ReportsOnce
<1>1. IInv => ReportsOnce
  BY BackendsAssumption
     DEF IInv, TypeOK, OnPulse, OnPort, PulseLoop, PulseRest, ReportsOnce
<1>2. QED
  BY Initially, StepKeeps, <1>1, PTL DEF Spec

(* After every call, of whatever outcome, the app has all of a stream that *)
(* runs, or nothing: no thread, no lock, no memory and no handle, but for  *)
(* the idle PaStream of a failed Pa_StartStream (pulseaudio.c:110-128,     *)
(* 179-224, portaudio.c:128-142, 184-197).                                 *)
THEOREM WholeOrNothing == Spec => []AllOrNothing
<1>1. IInv => AllOrNothing
  <2>1. SUFFICES ASSUME IInv, call = "none", result # "none"
                 PROVE  /\ OnPulse => IF running THEN Pulse!AllHeld
                                                 ELSE Pulse!NothingHeld
                        /\ OnPort => IF running THEN Port!AllHeld
                                                ELSE Port!NothingHeld
    BY DEF AllOrNothing
  <2>2. apc = "idle"
    BY <2>1 DEF IInv, Called
  <2>3. CASE OnPulse
    BY <2>1, <2>2, <2>3
       DEF IInv, OnPulse, OnPort, PulseApp, PulseLoop, Runs, Over, Locked,
           Pulse!AllHeld, Pulse!NothingHeld
  <2>4. CASE OnPort
    BY <2>1, <2>2, <2>4
       DEF IInv, OnPulse, OnPort, TypeOK, Port!TypeOK, PortInv, Runs, Over,
           Port!AllHeld, Port!NothingHeld
  <2>5. QED
    BY <2>3, <2>4
<1>2. QED
  BY Initially, StepKeeps, <1>1, PTL DEF Spec

-----------------------------------------------------------------------------
(* The program aborts only in a callback that fails while aw_stop tears    *)
(* the stream down without the lock (pulseaudio.c:110-128, 249-254).       *)

LEMMA CrashOfPulse ==
  ASSUME IInv, OnPulse, Pulse!App \/ Pulse!Loop \/ Pulse!World,
         apc' = "crashed"
  PROVE  call = "stop" /\ apc \in Pulse!Teardown
<1>1. PulseApp /\ PulseLoop /\ TypeOK
  BY DEF IInv
<1>2. ~ Pulse!App
  BY DEF Pulse!App, Pulse!Create, Pulse!ConnectContext, Pulse!StartLoop,
     Pulse!ContextLoop, Pulse!ContextWoken, Pulse!NewStream,
     Pulse!StreamLoop, Pulse!StreamWoken, Pulse!UnlockError, Pulse!Error,
     Pulse!Disconnect, Pulse!FreeHandle, Pulse!FreeContext, Pulse!StopLoop,
     Pulse!JoinLoop, Pulse!FreeBase, Pulse!Wait, Pulse!Woken, Pulse!Becomes
<1>3. apc # "crashed" \/ lpc = "crashed"
  BY <1>1 DEF PulseLoop
<1>4. apc = "crashed" => lock = "loop" /\ waiting = "no"
  BY <1>1, <1>3
     DEF PulseLoop, TypeOK, Pulse!TypeOK, Pulse!InCallback, Waits
<1>5. CASE Pulse!World
  BY <1>3, <1>4, <1>5
     DEF Pulse!World, Pulse!ContextAnswers, Pulse!ContextReady,
         Pulse!ContextFails, Pulse!StreamAnswers, Pulse!StreamReady,
         Pulse!StreamFails, Pulse!Data, Pulse!Move, Pulse!SpuriousWakeup,
         Pulse!Dispatch, Pulse!call
<1>6. CASE Pulse!Loop
  BY <1>1, <1>3, <1>6
     DEF PulseLoop, Pulse!Loop, Pulse!StreamMoved, Pulse!DataDone,
         Pulse!DataFails, Pulse!DataEnds, Pulse!Report, Pulse!Unhook,
         Pulse!LoopUnlock, Pulse!LoopExit, Pulse!LoopStep, Pulse!call
<1>7. QED
  BY <1>2, <1>5, <1>6

(* For every number of moves and both backends: no callback of a running   *)
(* stream aborts the program, nor one of a stream that starts, and no      *)
(* caller is given a NULL for a stream.                                    *)
THEOREM CrashesOnlyWhileStopping == Spec => CrashesOnlyInTeardown
<1> DEFINE Aborts == apc' = "crashed"
                       => call = "stop" /\ apc \in Pulse!Teardown
<1>1. ASSUME IInv, Next PROVE Aborts
  <2> SUFFICES ASSUME apc' = "crashed"
               PROVE  call = "stop" /\ apc \in Pulse!Teardown
    OBVIOUS
  <2>1. Called /\ TypeOK /\ (OnPulse => PulseApp) /\ (OnPort => PortInv)
    BY <1>1 DEF IInv
  <2>2. ~ Wrapper /\ ~ Stop
    BY <2>1, BackendsAssumption
       DEF Wrapper, StartStream, StartFailed, LoadName, CopyName, StopReturns,
           Stop, Calls, shared, Called, TypeOK, OnPulse, OnPort, PulseApp,
           PortInv, Runs
  <2>3. CASE PulseStep(Pulse!App \/ Pulse!Loop \/ Pulse!World)
    BY <1>1, <2>3, CrashOfPulse DEF PulseStep
  <2>4. CASE PortStep(Port!App \/ Port!Leave \/ Port!World)
    BY <2>1, <2>4
       DEF PortStep, PortInv, Port!App, Port!Leave, Port!World,
           Port!DeviceNotFound, Port!DeviceFound, Port!OpenStream,
           Port!StartStream, Port!StartReturns, Port!Free,
           Port!IsStreamActive, Port!StopStream, Port!CloseStream, Port!Enter,
           Port!DeviceEnds, Port!Terminate, Port!Becomes, Port!Fails,
           Port!call
  <2>5. QED
    BY <1>1, <2>2, <2>3, <2>4 DEF Next
<1>2. QED
  BY Initially, StepKeeps, <1>1, PTL DEF Spec, CrashesOnlyInTeardown

(* A device name that is copied while it is freed was moved after it was   *)
(* loaded, or is being moved, for every number of moves                    *)
(* (stream.rs:124-126, pulseaudio.c:61-64).                                *)
THEOREM NameDanglesOnlyInAMove == Spec => NameDanglesOnlyWhileMoving
<1> DEFINE Dangles == copied' = "dangling" /\ copied = "none"
                        => lpc = "moved" \/ devname # loaded
<1>1. ASSUME IInv, Next PROVE Dangles
  <2> SUFFICES ASSUME copied' = "dangling", copied = "none"
               PROVE  lpc = "moved" \/ devname # loaded
    OBVIOUS
  <2>1. CopyName
    BY <1>1 DEF Next, PulseStep, PortStep, wrapper, Wrapper, StartStream,
       StartFailed, LoadName, StopReturns, Stop, Calls
  <2>2. apc = "copyName" /\ loaded # 0 /\ loaded # name
    BY <2>1 DEF CopyName
  <2>3. CASE OnPulse
    BY <1>1, <2>2, <2>3 DEF IInv, OnPulse, PulseApp, PulseLoop, Over
  <2>4. CASE OnPort
    BY <1>1, <2>2, <2>4 DEF IInv, OnPort, PortInv
  <2>5. QED
    BY <1>1, <2>3, <2>4 DEF IInv, TypeOK, OnPulse, OnPort
<1>2. QED
  BY Initially, StepKeeps, <1>1, PTL DEF Spec, NameDanglesOnlyWhileMoving

-----------------------------------------------------------------------------
(* Either backend behind the wrapper implements AudioStream: each step is  *)
(* one of AudioStream or changes nothing that it speaks of.                *)

Stutters == UNCHANGED AudioStream!vars

LEMMA PulseAppRefines ==
  ASSUME IInv, OnPulse, UNCHANGED <<backend, wrapper, port>>, Pulse!App
  PROVE  AudioStream!Allocate \/ AudioStream!Free \/ Stutters
<1>1. Called /\ PulseApp /\ PulseLoop /\ OnPulse'
  BY DEF IInv, OnPulse
<1>2. CASE Pulse!Create
  BY <1>1, <1>2
     DEF Pulse!Create, Called, PulseApp, Starts, AudioStream!Allocate,
         Pulse!InCallback, Pulse!loop, wrapper
<1>3. CASE Pulse!FreeBase
  BY <1>1, <1>3
     DEF Pulse!FreeBase, Called, PulseApp, Over, Port!AppStates,
         AudioStream!Free, Pulse!InCallback, Pulse!loop, wrapper
<1>4. CASE Pulse!StartLoop
  BY <1>1, <1>4
     DEF Pulse!StartLoop, PulseApp, Stutters, AudioStream!vars, wrapper,
         Pulse!InCallback, Pulse!memory
<1>5. ASSUME UNCHANGED <<base, lpc>> PROVE Stutters
  BY <1>1, <1>5 DEF Stutters, AudioStream!vars, wrapper, Pulse!InCallback
<1>6. ASSUME Pulse!App, ~ Pulse!Create, ~ Pulse!FreeBase, ~ Pulse!StartLoop
      PROVE  UNCHANGED <<base, lpc>>
  BY <1>6
     DEF Pulse!App, Pulse!ConnectContext, Pulse!ContextLoop,
         Pulse!ContextWoken, Pulse!NewStream, Pulse!StreamLoop,
         Pulse!StreamWoken, Pulse!UnlockError, Pulse!Error, Pulse!Disconnect,
         Pulse!FreeHandle, Pulse!FreeContext, Pulse!StopLoop, Pulse!JoinLoop,
         Pulse!Wait, Pulse!Woken, Pulse!memory, Pulse!loop
<1>7. QED
  BY <1>2, <1>3, <1>4, <1>5, <1>6

LEMMA PulseLoopRefines ==
  ASSUME IInv, OnPulse, UNCHANGED <<backend, wrapper, port>>,
         Pulse!Loop \/ Pulse!World
  PROVE  AudioStream!Callback \/ Stutters
<1>1. TypeOK /\ Called /\ PulseApp /\ PulseLoop /\ OnPulse'
  BY DEF IInv, OnPulse
<1>2. UNCHANGED base
  BY DEF Pulse!Loop, Pulse!StreamMoved, Pulse!DataDone, Pulse!DataFails,
     Pulse!DataEnds, Pulse!Report, Pulse!Unhook, Pulse!LoopUnlock,
     Pulse!LoopExit, Pulse!LoopStep, Pulse!World, Pulse!ContextAnswers,
     Pulse!ContextReady, Pulse!ContextFails, Pulse!StreamAnswers,
     Pulse!StreamReady, Pulse!StreamFails, Pulse!Data, Pulse!Move,
     Pulse!SpuriousWakeup, Pulse!Dispatch, Pulse!memory
<1>3. ASSUME Pulse!InCallback' = Pulse!InCallback PROVE Stutters
  BY <1>1, <1>2, <1>3 DEF Stutters, AudioStream!vars, wrapper
<1>4. ASSUME Pulse!InCallback' = ~ Pulse!InCallback,
             Pulse!InCallback' => base = "live"
      PROVE  AudioStream!Callback
  BY <1>1, <1>2, <1>4 DEF AudioStream!Callback, wrapper
<1>5. CASE Pulse!World
  <2>1. CASE Pulse!SpuriousWakeup
    BY <1>3, <2>1 DEF Pulse!SpuriousWakeup, Pulse!InCallback, Pulse!loop
  <2>2. CASE ~ Pulse!SpuriousWakeup
    <3>1. lpc = "poll" /\ lpc' \in {"unlock", "data", "moved"}
      BY <1>5, <2>2
         DEF Pulse!World, Pulse!ContextAnswers, Pulse!ContextReady,
             Pulse!ContextFails, Pulse!StreamAnswers, Pulse!StreamReady,
             Pulse!StreamFails, Pulse!Data, Pulse!Move, Pulse!Dispatch
    <3>2. base = "live"
      BY <1>1, <3>1 DEF PulseApp
    <3>3. QED
      BY <1>4, <3>1, <3>2 DEF Pulse!InCallback
  <2>3. QED
    BY <2>1, <2>2
<1>6. CASE Pulse!LoopUnlock
  BY <1>4, <1>6 DEF Pulse!LoopUnlock, Pulse!LoopStep, Pulse!InCallback
<1>7. CASE Pulse!Loop /\ ~ Pulse!LoopUnlock
  BY <1>3, <1>7
     DEF Pulse!Loop, Pulse!StreamMoved, Pulse!DataDone, Pulse!DataFails,
         Pulse!DataEnds, Pulse!Report, Pulse!Unhook, Pulse!LoopExit,
         Pulse!LoopStep, Pulse!InCallback
<1>8. QED
  BY <1>5, <1>6, <1>7

LEMMA PortRefines ==
  ASSUME IInv, OnPort, UNCHANGED <<backend, wrapper, pulse>>,
         Port!App \/ Port!Leave \/ Port!World
  PROVE  \/ AudioStream!Allocate \/ AudioStream!Free \/ AudioStream!Callback
         \/ Stutters
<1>1. /\ TypeOK /\ Called /\ PortInv
      /\ ~ OnPulse /\ ~ OnPulse' /\ UNCHANGED <<running, call, result>>
  BY DEF IInv, OnPulse, OnPort, wrapper
<1>2. CASE Port!DeviceFound
  BY <1>1, <1>2
     DEF Port!DeviceFound, Called, PortInv, Starts, AudioStream!Allocate,
         Port!InCallback, Port!device
<1>3. CASE Port!Free
  BY <1>1, <1>3
     DEF Port!Free, TypeOK, Port!TypeOK, Called, PortInv, Finishes,
         AudioStream!Free, Port!InCallback, Port!device
<1>4. CASE Port!Enter
  BY <1>1, <1>4
     DEF Port!Enter, TypeOK, Port!TypeOK, Called, PortInv, Runs, Over, Starts,
         Locked, Waits, Pulse!AppStates, Pulse!Teardown, Port!AppStates,
         AudioStream!Callback, Port!InCallback, Port!memory
<1>5. CASE Port!Leave
  BY <1>1, <1>5
     DEF Port!Leave, AudioStream!Callback, Port!InCallback, Port!memory
<1>6. ASSUME UNCHANGED <<base, dpc>> PROVE Stutters
  BY <1>1, <1>6 DEF Stutters, AudioStream!vars, Port!InCallback
<1>7. ASSUME ~ Port!DeviceFound, ~ Port!Free, ~ Port!Enter, ~ Port!Leave
      PROVE  UNCHANGED <<base, dpc>>
  BY <1>7
     DEF Port!App, Port!World, Port!DeviceNotFound, Port!OpenStream,
         Port!StartStream, Port!StartReturns, Port!IsStreamActive,
         Port!StopStream, Port!CloseStream, Port!DeviceEnds, Port!Terminate,
         Port!memory, Port!device
<1>8. QED
  BY <1>2, <1>3, <1>4, <1>5, <1>6, <1>7

LEMMA WrapperRefines ==
  ASSUME IInv, Wrapper \/ Stop
  PROVE  AudioStream!Next \/ Stutters
<1>1. /\ TypeOK /\ Called /\ (OnPulse => PulseApp) /\ (OnPort => PortInv)
      /\ OnPulse \/ OnPort
  BY BackendsAssumption DEF IInv, TypeOK, OnPulse, OnPort
<1>2. ASSUME UNCHANGED <<backend, pulse, port>>
      PROVE  UNCHANGED (IF OnPulse THEN Pulse!InCallback ELSE Port!InCallback)
  BY <1>2 DEF OnPulse, Pulse!InCallback, Port!InCallback, pulse, port
<1>3. CASE StartStream
  BY <1>1, <1>2, <1>3
     DEF StartStream, Calls, Called, AudioStream!Next, AudioStream!Start,
         AudioStream!Calls
<1>4. CASE StartFailed
  <2>1. base # "live" /\ ~ running
    BY <1>1, <1>4 DEF StartFailed, Called, PulseApp, PortInv, Over
  <2>2. running' = FALSE
    BY <1>1, <1>4, <2>1 DEF StartFailed, TypeOK
  <2>3. AudioStream!StartFailed
    BY <1>2, <1>4, <2>1, <2>2
       DEF StartFailed, AudioStream!StartFailed, AudioStream!Returns
  <2>4. QED
    BY <2>3 DEF AudioStream!Next
<1>5. CASE LoadName
  BY <1>2, <1>5 DEF LoadName, Stutters, AudioStream!vars
<1>6. CASE CopyName
  <2>1. base = "live" /\ call = "start"
    BY <1>1, <1>6
       DEF CopyName, Called, PulseApp, PortInv, Starts, Runs, Over
  <2>2. running' = TRUE
    BY <1>6, Zenon DEF CopyName
  <2>3. AudioStream!Started
    BY <1>2, <1>6, <2>1, <2>2
       DEF CopyName, AudioStream!Started, AudioStream!Returns
  <2>4. QED
    BY <2>3 DEF AudioStream!Next
<1>7. CASE StopReturns
  <2>1. code \in {"ok", "error"}
    BY <1>1, <1>7 DEF StopReturns, TypeOK, Called
  <2>2. CASE code = "ok"
    <3>1. base = "freed"
      BY <1>1, <1>7, <2>2
         DEF StopReturns, TypeOK, PulseApp, PortInv, Over
    <3>2. running' = FALSE
      BY <1>7, <2>2 DEF StopReturns
    <3>3. AudioStream!Stopped
      BY <1>2, <1>7, <2>2, <3>1, <3>2
         DEF StopReturns, AudioStream!Stopped, AudioStream!Returns
    <3>4. QED
      BY <3>3 DEF AudioStream!Next
  <2>3. CASE code = "error"
    <3>1. base = "live"
      BY <1>1, <1>7, <2>3
         DEF StopReturns, PulseApp, PortInv, Runs, Over
    <3>2. running' = TRUE
      BY <1>7, <2>3 DEF StopReturns
    <3>3. AudioStream!StopFailed
      BY <1>2, <1>7, <2>3, <3>1, <3>2
         DEF StopReturns, AudioStream!StopFailed, AudioStream!Returns
    <3>4. QED
      BY <3>3 DEF AudioStream!Next
  <2>4. QED
    BY <2>1, <2>2, <2>3
<1>8. CASE Stop
  <2>1. CASE running /\ Calls("stop", "aw_stop")
    BY <1>1, <1>2, <1>8, <2>1
       DEF Stop, Calls, Called, AudioStream!Next, AudioStream!Stop,
           AudioStream!Calls
  <2>2. CASE ~ running
    BY <1>2, <1>8, <2>2
       DEF Stop, HasStream, shared, Stutters, AudioStream!vars
  <2>3. QED
    BY <1>8, <2>1, <2>2 DEF Stop
<1>9. QED
  BY <1>3, <1>4, <1>5, <1>6, <1>7, <1>8 DEF Wrapper

(* Either backend, behind the wrapper, is an audio stream: what a caller   *)
(* is told of a start or a stop is what became of the stream, its memory   *)
(* is freed once, and no callback of the device is inside it then          *)
(* (stream.rs:164, pulseaudio.c:110-128, portaudio.c:184-197).             *)
THEOREM BackendIsAudioStream == Spec => ImplementsAudioStream
<1>1. Init => AudioStream!Init
  BY DEF Init, Pulse!Init, Port!Init, AudioStream!Init, OnPulse,
     Pulse!InCallback, Port!InCallback
<1>2. ASSUME IInv, [Next]_vars
      PROVE  [AudioStream!Next]_AudioStream!vars
  <2>1. CASE Wrapper \/ Stop
    BY <1>2, <2>1, WrapperRefines DEF Stutters
  <2>2. CASE PulseStep(Pulse!App \/ Pulse!Loop \/ Pulse!World)
    BY <1>2, <2>2, PulseAppRefines, PulseLoopRefines
       DEF PulseStep, Stutters, AudioStream!Next
  <2>3. CASE PortStep(Port!App \/ Port!Leave \/ Port!World)
    BY <1>2, <2>3, PortRefines DEF PortStep, Stutters, AudioStream!Next
  <2>4. CASE UNCHANGED vars
    BY <2>4 DEF vars, wrapper, shared, pulse, port, AudioStream!vars, OnPulse,
       Pulse!InCallback, Port!InCallback
  <2>5. QED
    BY <1>2, <2>1, <2>2, <2>3, <2>4 DEF Next
<1>3. QED
  BY Initially, StepKeeps, <1>1, <1>2, PTL
     DEF Spec, ImplementsAudioStream, AudioStream!Spec
=============================================================================
