------------------------------ MODULE Session ------------------------------
(***************************************************************************)
(* The server, its clients and the connections between them:               *)
(*                                                                         *)
(*   audiowire/src/bin/server.rs   accept loop, handshake, detached tasks  *)
(*   audiowire/src/bin/client.rs   connect with retries, handshake, joins  *)
(*   audiowire/src/handlers.rs     the record and playback tasks           *)
(*                                                                         *)
(* An END of a connection is one of the two processes that share it.  Each *)
(* end has the two halves of its socket, a record task that owns the write *)
(* half and a playback task that owns the read half; the loop of a task is *)
(* a step per check, peek, read and write.  What a frame holds is left     *)
(* out, but for the codec it is in; the rings and the devices behind them  *)
(* (RingBufSPSC.tla) are a choice at each peek.                            *)
(***************************************************************************)
EXTENDS StreamType, Sequences, FiniteSets

CONSTANTS
  Clients,      \* the client processes
  NoClient,     \* nobody is shaking hands with the server
  ClientTypes,  \* the stream types clients are started with
  ServerTypes,  \* and the server
  Codecs,       \* the values of opus_enabled: a subset of BOOLEAN
  MAX_RETRY,    \* client.rs:19
  Window,       \* bound: frames a connection holds in each direction
  Faults        \* what may fail or happen: "bind", "accept", "start", "codec",
                \* "stop", "device", "crash", "signalClient", "signalServer"

ASSUME TypesAssumption ==
  ClientTypes \subseteq 0 .. 3 /\ ServerTypes \subseteq 0 .. 3
ASSUME NoClientAssumption == NoClient \notin Clients
ASSUME CodecsAssumption == Codecs \subseteq BOOLEAN
ASSUME BoundsAssumption == MAX_RETRY \in Nat /\ Window \in Nat \ {0}

Sides == {"client", "server"}
Ends  == Clients \X Sides

AtClient(c) == <<c, "client">>
AtServer(c) == <<c, "server">>
ServerEnds  == {AtServer(c) : c \in Clients}
Peer(e) == <<e[1], IF e[2] = "client" THEN "server" ELSE "client">>

NoByte == 256

VARIABLES
  stype,    \* server_type
  ctype,    \* client_type of each client
  opus,     \* "!opus_disabled" of each client
  cpc,      \* where main of each client is
  retry,    \* the counter of with_retry
  spc,      \* where main of the server is
  current,  \* the client it is shaking hands with
  queued,   \* connected clients it has not accepted yet
  sterm,    \* the term flag of the server: one for all its tasks
  cterm,    \* the term flag of each client
  reads,    \* ends whose read half is open
  writes,   \* ends whose write half is open
  pipe,     \* what each end has written and its peer has not read
  seen,     \* the byte each end has read in the handshake
  rec,      \* the record task of each end
  play,     \* the playback task of each end
  dead,     \* ends whose audio server or device is gone
  signalled,\* history: who got SIGINT or SIGTERM
  broken    \* history: ends at which a codec has failed

args   == <<stype, ctype, opus>>
mains  == <<cpc, retry, spc, current, queued>>
flags  == <<sterm, cterm>>
socket == <<reads, writes, pipe, seen>>
tasks  == <<rec, play>>
history == <<signalled, broken>>
vars == <<args, mains, flags, socket, tasks, dead, history>>

Hello(byte)  == <<"hello", byte>>
Frame(codec) == <<"frame", codec>>

(* The codec an end encodes and decodes with: the client's own choice, and *)
(* what the server read in the flags.                                      *)
OpusAt(e) == IF e[2] = "client" THEN opus[e[1]] ELSE OpusEnabled(seen[e])

(* What each end runs, from its own type and the byte it has read.         *)
TypeAt(e) == IF e[2] = "client" THEN ctype[e[1]] ELSE stype
PeerTypeAt(e) == IF e[2] = "client" THEN seen[e] ELSE TypeOf(seen[e])
Records(e) == IsSource(TypeAt(e)) /\ IsSink(PeerTypeAt(e))

(* A mutant: the type of the peer is not looked at.                        *)
PlaysUnasked(e) == IsSink(TypeAt(e))
Plays(e) == IsSink(TypeAt(e)) /\ IsSource(PeerTypeAt(e))

Term(e) == IF e[2] = "client" THEN cterm[e[1]] ELSE sterm

Gone(e) == e \notin reads /\ e \notin writes

(* A stream is stopped by its task, or left behind: by a stop that failed  *)
(* or by a process that exits around its tasks.                            *)
Ended   == {"stopped", "leaked", "cancelled"}
Settled == Ended \cup {"none"}

Init ==
  /\ stype \in ServerTypes
  /\ ctype \in [Clients -> ClientTypes]
  /\ opus \in [Clients -> Codecs]
  /\ cpc = [c \in Clients |-> "checkAudio"]
  /\ retry = [c \in Clients |-> 0]
  /\ spc = "checkAudio" /\ current = NoClient /\ queued = {}
  /\ sterm = FALSE /\ cterm = [c \in Clients |-> FALSE]
  /\ reads = {} /\ writes = {}
  /\ pipe = [e \in Ends |-> <<>>]
  /\ seen = [e \in Ends |-> NoByte]
  /\ rec = [e \in Ends |-> "none"] /\ play = [e \in Ends |-> "none"]
  /\ dead = {} /\ signalled = {} /\ broken = {}

-----------------------------------------------------------------------------
(* Sockets and processes.                                                  *)

Send(e, item) == pipe' = [pipe EXCEPT ![e] = Append(@, item)]
Receive(e)    == pipe' = [pipe EXCEPT ![Peer(e)] = Tail(@)]

(* read_exact fails at the end of what the peer wrote, and may fail before *)
(* it when the peer is gone and resets the connection.                     *)
EndOfStream(e) ==
  \/ Peer(e) \notin writes /\ pipe[Peer(e)] = <<>>
  \/ Gone(Peer(e))

Cancelled(task, S) ==
  [e \in Ends |-> IF e \in S /\ task[e] \notin Settled THEN "cancelled"
                  ELSE task[e]]

(* A process that ends at the ends S: its sockets close, and the runtime   *)
(* drops the tasks it still has without stopping their streams.            *)
ExitAt(S) ==
  /\ reads' = reads \ S /\ writes' = writes \ S
  /\ rec' = Cancelled(rec, S) /\ play' = Cancelled(play, S)
  /\ UNCHANGED <<args, sterm, cterm, pipe, seen, dead, history>>

ClientExits(c, how) ==
  /\ cpc' = [cpc EXCEPT ![c] = how]
  /\ ExitAt({AtClient(c)})
  /\ UNCHANGED <<retry, spc, current, queued>>

ClientDies(c) == ClientExits(c, "failed")

Exited(c) == cpc[c] \in {"failed", "done"}

(* run of the client returns, with "?" or at its end, to audio's           *)
(* terminate: it drops the halves of the socket that it has not given to a *)
(* task, and the tasks it has not joined live on until the process exits.  *)
RunReturns(c, how) ==
  LET e == AtClient(c)
  IN /\ cpc' = [cpc EXCEPT ![c] = how]
     /\ reads' = IF play[e] \in Settled THEN reads \ {e} ELSE reads
     /\ writes' = IF rec[e] \in Settled THEN writes \ {e} ELSE writes
     /\ UNCHANGED <<args, retry, spc, current, queued, flags, pipe, seen, tasks,
                    dead, history>>

ClientFails(c)   == RunReturns(c, "failing")
ClientReturns(c) == RunReturns(c, "returning")

(* run of the server returns: the listener is dropped with the connections *)
(* it has not accepted, and the detached tasks live on for a while.        *)
ServerStops ==
  /\ spc' = "terminate" /\ queued' = {}
  /\ reads' = reads \ {AtServer(c) : c \in queued}
  /\ writes' = writes \ {AtServer(c) : c \in queued}
  /\ UNCHANGED <<args, cpc, retry, current, flags, pipe, seen, tasks, dead,
                 history>>

ServerExits ==
  /\ spc' = "exited" /\ current' = NoClient /\ queued' = {}
  /\ ExitAt(ServerEnds)
  /\ UNCHANGED <<cpc, retry>>

-----------------------------------------------------------------------------
(* main of the client.                                                     *)

Goto(c, pc) == cpc' = [cpc EXCEPT ![c] = pc]

(* check_audio starts and stops a stream of each kind before anything      *)
(* else.  If one of the four calls fails, init returns without a terminate.*)
CheckAudioFails == {"start", "stop"} \cap Faults # {}

CheckAudio(c) ==
  /\ cpc[c] = "checkAudio"
  /\ \/ /\ Goto(c, "connect")
        /\ UNCHANGED <<args, retry, spc, current, queued, flags, socket, tasks,
                       dead, history>>
     \/ ctype[c] # 0 /\ CheckAudioFails /\ ClientDies(c)

(* The server has bound its port and still holds the listener.             *)
Listening == spc \notin {"checkAudio", "bind", "terminate", "exited"}

Connect(c) ==
  /\ cpc[c] = "connect" /\ Listening
  /\ Goto(c, "writeFlags")
  /\ queued' = queued \cup {c}
  /\ reads' = reads \cup {AtClient(c), AtServer(c)}
  /\ writes' = writes \cup {AtClient(c), AtServer(c)}
  /\ UNCHANGED <<args, retry, spc, current, flags, pipe, seen, tasks,
                 dead, history>>

(* A mutant: one retry too many.                                           *)
ConnectFailsOneMore(c) ==
  /\ cpc[c] = "connect"
  /\ \/ retry[c] > MAX_RETRY /\ ClientFails(c)
     \/ /\ retry[c] <= MAX_RETRY
        /\ retry' = [retry EXCEPT ![c] = @ + 1]
        /\ UNCHANGED <<args, cpc, spc, current, queued, flags, socket, tasks,
                       dead, history>>

(* with_retry: sleep and try again, MAX_RETRY times.                       *)
ConnectFails(c) ==
  /\ cpc[c] = "connect"
  /\ \/ /\ retry[c] >= MAX_RETRY
        /\ ClientFails(c)
     \/ /\ retry[c] < MAX_RETRY
        /\ retry' = [retry EXCEPT ![c] = @ + 1]
        /\ UNCHANGED <<args, cpc, spc, current, queued, flags, socket, tasks,
                       dead, history>>

(* peer_addr, and the first byte: both fail on a connection that the       *)
(* server has reset.                                                       *)
WriteFlags(c) ==
  /\ cpc[c] = "writeFlags"
  /\ \/ /\ ~ Gone(AtServer(c))
        /\ Goto(c, "readType")
        /\ Send(AtClient(c), Hello(NewStreamFlags(ctype[c], opus[c])))
        /\ UNCHANGED <<args, retry, spc, current, queued, flags, reads, writes,
                       seen, tasks, dead, history>>
     \/ Gone(AtServer(c)) /\ ClientFails(c)

ReadType(c) ==
  LET e == AtClient(c)
  IN /\ cpc[c] = "readType"
     /\ \/ /\ pipe[Peer(e)] # <<>>
           /\ Goto(c, "startRecord")
           /\ seen' = [seen EXCEPT ![e] = Head(pipe[Peer(e)])[2]]
           /\ Receive(e)
           /\ UNCHANGED <<args, retry, spc, current, queued, flags, reads,
                          writes, tasks, dead, history>>
        \/ EndOfStream(e) /\ ClientFails(c)

(* handle_record and handle_playback: start the stream and spawn the task, *)
(* which takes its half of the socket along.                               *)
StartRecord(c) ==
  LET e == AtClient(c)
  IN /\ cpc[c] = "startRecord"
     /\ \/ /\ Goto(c, "startPlayback")
           /\ rec' = [rec EXCEPT ![e] = IF Records(e) THEN "check" ELSE "none"]
           /\ UNCHANGED <<args, retry, spc, current, queued, flags, socket,
                          play, dead, history>>
        \/ Records(e) /\ "start" \in Faults /\ ClientFails(c)

StartPlayback(c) ==
  LET e == AtClient(c)
  IN /\ cpc[c] = "startPlayback"
     /\ \/ /\ Goto(c, "joinRecord")
           /\ play' = [play EXCEPT ![e] = IF Plays(e) THEN "check" ELSE "none"]
           /\ UNCHANGED <<args, retry, spc, current, queued, flags, socket,
                          rec, dead, history>>
        \/ Plays(e) /\ "start" \in Faults /\ ClientFails(c)

(* A mutant: the first task to end takes the client down with it.          *)
JoinRecordOnly(c) ==
  /\ cpc[c] = "joinRecord"
  /\ rec[AtClient(c)] \in Settled
  /\ ClientReturns(c)

(* A mutant: term is raised although no task has ended.                    *)
JoinRecordRaisesTerm(c) ==
  /\ cpc[c] = "joinRecord"
  /\ rec[AtClient(c)] \in Settled
  /\ Goto(c, "joinPlayback")
  /\ cterm' = [cterm EXCEPT ![c] = TRUE]
  /\ UNCHANGED <<args, retry, spc, current, queued, sterm, socket, tasks,
                 dead, history>>

(* The handles are awaited in the order they were pushed, whichever task   *)
(* ends first; each one sets term for the other.                           *)
JoinRecord(c) ==
  /\ cpc[c] = "joinRecord"
  /\ rec[AtClient(c)] \in Settled
  /\ Goto(c, "joinPlayback")
  /\ cterm' = [cterm EXCEPT ![c] = @ \/ rec[AtClient(c)] # "none"]
  /\ UNCHANGED <<args, retry, spc, current, queued, sterm, socket, tasks,
                 dead, history>>

JoinPlayback(c) ==
  /\ cpc[c] = "joinPlayback"
  /\ play[AtClient(c)] \in Settled
  /\ ClientReturns(c)

(* What is left of the tasks ends with the process.                        *)
Terminate(c) ==
  \/ cpc[c] = "failing" /\ ClientExits(c, "failed")
  \/ cpc[c] = "returning" /\ ClientExits(c, "done")

Client(c) ==
  \/ CheckAudio(c) \/ Terminate(c)
  \/ Connect(c) \/ ConnectFails(c) \/ WriteFlags(c) \/ ReadType(c)
  \/ StartRecord(c) \/ StartPlayback(c) \/ JoinRecord(c) \/ JoinPlayback(c)

-----------------------------------------------------------------------------
(* main of the server.  Only the top of the loop looks at term.            *)

ServerCheckAudio ==
  /\ spc = "checkAudio"
  /\ \/ /\ spc' = "bind"
        /\ UNCHANGED <<args, cpc, retry, current, queued, flags, socket, tasks,
                       dead, history>>
     \/ stype # 0 /\ CheckAudioFails /\ ServerStops

(* TcpListener::bind, and handle_signal.                                   *)
Bind ==
  /\ spc = "bind"
  /\ \/ /\ spc' = "check"
        /\ UNCHANGED <<args, cpc, retry, current, queued, flags, socket, tasks,
                       dead, history>>
     \/ "bind" \in Faults /\ ServerStops

CheckTerm ==
  /\ spc = "check"
  /\ \/ sterm /\ ServerStops
     \/ /\ ~ sterm /\ spc' = "accept"
        /\ UNCHANGED <<args, cpc, retry, current, queued, flags, socket, tasks,
                       dead, history>>

Accept ==
  /\ spc = "accept"
  /\ \E c \in queued : current' = c /\ queued' = queued \ {c}
  /\ spc' = "writeType"
  /\ UNCHANGED <<args, cpc, retry, flags, socket, tasks, dead, history>>

(* A mutant: accept without a timeout.                                     *)
AcceptNeverTimesOut == FALSE

AcceptTimeout ==
  /\ spc = "accept" /\ queued = {}
  /\ spc' = "check"
  /\ UNCHANGED <<args, cpc, retry, current, queued, flags, socket, tasks,
                 dead, history>>

AcceptFails == spc = "accept" /\ "accept" \in Faults /\ ServerStops

(* handle_client ends, well or not: it drops the halves it still holds and *)
(* detaches the tasks it has spawned, which keep theirs.                   *)
ReturnFrom(e, keepsRead, keepsWrite) ==
  /\ spc' = "check" /\ current' = NoClient
  /\ reads' = IF keepsRead THEN reads ELSE reads \ {e}
  /\ writes' = IF keepsWrite THEN writes ELSE writes \ {e}
  /\ UNCHANGED <<args, cpc, retry, queued, flags, dead, history>>

WriteType ==
  LET e == AtServer(current)
  IN /\ spc = "writeType"
     /\ \/ /\ ~ Gone(Peer(e))
           /\ spc' = "readFlags"
           /\ Send(e, Hello(stype))
           /\ UNCHANGED <<args, cpc, retry, current, queued, flags, reads,
                          writes, seen, tasks, dead, history>>
        \/ /\ Gone(Peer(e))
           /\ ReturnFrom(e, FALSE, FALSE)
           /\ UNCHANGED <<pipe, seen, tasks>>

(* A mutant: the byte is looked at and left in the connection.             *)
ReadFlagsKeepsByte ==
  LET e == AtServer(current)
  IN /\ spc = "readFlags" /\ pipe[Peer(e)] # <<>>
     /\ spc' = "startPlayback"
     /\ seen' = [seen EXCEPT ![e] = Head(pipe[Peer(e)])[2]]
     /\ UNCHANGED <<args, cpc, retry, current, queued, flags, reads, writes,
                    pipe, tasks, dead, history>>

ReadFlags ==
  LET e == AtServer(current)
  IN /\ spc = "readFlags"
     /\ \/ /\ pipe[Peer(e)] # <<>>
           /\ spc' = "startPlayback"
           /\ seen' = [seen EXCEPT ![e] = Head(pipe[Peer(e)])[2]]
           /\ Receive(e)
           /\ UNCHANGED <<args, cpc, retry, current, queued, flags, reads,
                          writes, tasks, dead, history>>
        \/ /\ EndOfStream(e)
           /\ ReturnFrom(e, FALSE, FALSE)
           /\ UNCHANGED <<pipe, seen, tasks>>

ServerStartPlayback ==
  LET e == AtServer(current)
  IN /\ spc = "startPlayback"
     /\ \/ /\ spc' = "startRecord"
           /\ play' = [play EXCEPT ![e] = IF Plays(e) THEN "check" ELSE "none"]
           /\ UNCHANGED <<args, cpc, retry, current, queued, flags, socket, rec,
                          dead, history>>
        \/ /\ Plays(e) /\ "start" \in Faults
           /\ ReturnFrom(e, FALSE, FALSE)
           /\ UNCHANGED <<pipe, seen, tasks>>

(* A mutant: a failed start closes the whole socket, as if the playback    *)
(* task had not been spawned yet.                                          *)
ServerStartRecordCloses ==
  LET e == AtServer(current)
  IN /\ spc = "startRecord"
     /\ \/ /\ rec' = [rec EXCEPT ![e] = IF Records(e) THEN "check" ELSE "none"]
           /\ ReturnFrom(e, Plays(e), Records(e))
           /\ UNCHANGED <<pipe, seen, play>>
        \/ /\ Records(e) /\ "start" \in Faults
           /\ ReturnFrom(e, FALSE, FALSE)
           /\ UNCHANGED <<pipe, seen, tasks>>

(* If the record stream does not start, the playback task runs on.         *)
ServerStartRecord ==
  LET e == AtServer(current)
  IN /\ spc = "startRecord"
     /\ \/ /\ rec' = [rec EXCEPT ![e] = IF Records(e) THEN "check" ELSE "none"]
           /\ ReturnFrom(e, Plays(e), Records(e))
           /\ UNCHANGED <<pipe, seen, play>>
        \/ /\ Records(e) /\ "start" \in Faults
           /\ ReturnFrom(e, Plays(e), FALSE)
           /\ UNCHANGED <<pipe, seen, tasks>>

ServerTerminate == spc = "terminate" /\ ServerExits

Server ==
  \/ ServerCheckAudio \/ Bind \/ ServerTerminate
  \/ CheckTerm \/ Accept \/ AcceptTimeout \/ AcceptFails
  \/ WriteType \/ ReadFlags \/ ServerStartPlayback \/ ServerStartRecord

-----------------------------------------------------------------------------
(* The record task of an end.                                              *)

RecordAt(e, from, to) == rec[e] = from /\ rec' = [rec EXCEPT ![e] = to]

(* The handler returns: the write half goes with it, which shuts down the  *)
(* connection in this direction.                                           *)
RecordReturns(e, from) ==
  /\ RecordAt(e, from, "stop")
  /\ writes' = writes \ {e}
  /\ UNCHANGED <<args, mains, flags, reads, pipe, seen, play, dead,
                 signalled>>

(* A mutant: term is not looked at.                                        *)
RecordCheckIgnoresTerm(e) ==
  /\ RecordAt(e, "check", "peek")
  /\ UNCHANGED <<args, mains, flags, socket, play, dead, history>>

RecordCheck(e) ==
  \/ Term(e) /\ RecordReturns(e, "check") /\ UNCHANGED broken
  \/ /\ ~ Term(e) /\ RecordAt(e, "check", "peek")
     /\ UNCHANGED <<args, mains, flags, socket, play, dead, history>>

(* A mutant: the buffer is never taken.                                    *)
RecordPeekFullSkips(e) ==
  /\ RecordAt(e, "peek", "check")
  /\ UNCHANGED <<args, mains, flags, socket, play, dead, history>>

(* A buffer has been recorded; the inner loop does not look at term.       *)
RecordPeekFull(e) ==
  /\ RecordAt(e, "peek", "write")
  /\ UNCHANGED <<args, mains, flags, socket, play, dead, history>>

(* None has: sleep for a buffer's time.                                    *)
RecordPeekEmpty(e) ==
  /\ RecordAt(e, "peek", "check")
  /\ UNCHANGED <<args, mains, flags, socket, play, dead, history>>

RecordWrite(e) ==
  /\ RecordAt(e, "write", "peek")
  /\ Len(pipe[e]) < Window
  /\ Send(e, Frame(OpusAt(e)))
  /\ UNCHANGED <<args, mains, flags, reads, writes, seen, play, dead,
                 history>>

(* A mutant: a write that fails is tried again.                            *)
RecordWriteRetries(e) ==
  /\ Gone(Peer(e)) /\ RecordAt(e, "write", "peek")
  /\ UNCHANGED <<args, mains, flags, socket, play, dead, history>>

RecordWriteFails(e) ==
  Gone(Peer(e)) /\ RecordReturns(e, "write") /\ UNCHANGED broken

(* A buffer has been recorded, but its frame is never written.             *)
RecordEncodeFails(e) ==
  /\ "codec" \in Faults /\ OpusAt(e)
  /\ RecordReturns(e, "peek")
  /\ broken' = broken \cup {e}

RecordStop(e) ==
  /\ \/ RecordAt(e, "stop", "stopped")
     \/ "stop" \in Faults /\ RecordAt(e, "stop", "leaked")
  /\ UNCHANGED <<args, mains, flags, socket, play, dead, history>>

Record(e) ==
  \/ RecordCheck(e) \/ RecordPeekFull(e) \/ RecordPeekEmpty(e)
  \/ RecordWrite(e) \/ RecordWriteFails(e) \/ RecordEncodeFails(e)
  \/ RecordStop(e)

-----------------------------------------------------------------------------
(* The playback task of an end.                                            *)

PlayAt(e, from, to) == play[e] = from /\ play' = [play EXCEPT ![e] = to]

PlayReturns(e, from) ==
  /\ PlayAt(e, from, "stop")
  /\ reads' = reads \ {e}
  /\ UNCHANGED <<args, mains, flags, writes, pipe, seen, rec, dead,
                 signalled>>

(* The raw loop peeks before it reads, the opus loop after.                *)
PlayCheck(e) ==
  \/ Term(e) /\ PlayReturns(e, "check") /\ UNCHANGED broken
  \/ /\ ~ Term(e)
     /\ PlayAt(e, "check", IF OpusAt(e) THEN "read" ELSE "peek")
     /\ UNCHANGED <<args, mains, flags, socket, rec, dead, history>>

PlayPeekRoom(e) ==
  /\ PlayAt(e, "peek", "read")
  /\ UNCHANGED <<args, mains, flags, socket, rec, dead, history>>

(* No room: check term and peek again, at once.                            *)
PlayPeekFull(e) ==
  /\ PlayAt(e, "peek", "check")
  /\ UNCHANGED <<args, mains, flags, socket, rec, dead, history>>

(* read_exact waits here for as long as the peer is silent.                *)
PlayRead(e) ==
  /\ PlayAt(e, "read", "check")
  /\ pipe[Peer(e)] # <<>>
  /\ Receive(e)
  /\ UNCHANGED <<args, mains, flags, reads, writes, seen, rec, dead,
                 history>>

(* A mutant: a read that fails is tried again.                             *)
PlayReadRetries(e) ==
  /\ EndOfStream(e) /\ PlayAt(e, "read", "check")
  /\ UNCHANGED <<args, mains, flags, socket, rec, dead, history>>

PlayReadFails(e) ==
  EndOfStream(e) /\ PlayReturns(e, "read") /\ UNCHANGED broken

PlayDecodeFails(e) ==
  /\ "codec" \in Faults /\ OpusAt(e) /\ pipe[Peer(e)] # <<>>
  /\ PlayReturns(e, "read")
  /\ broken' = broken \cup {e}

PlayStop(e) ==
  /\ \/ PlayAt(e, "stop", "stopped")
     \/ "stop" \in Faults /\ PlayAt(e, "stop", "leaked")
  /\ UNCHANGED <<args, mains, flags, socket, rec, dead, history>>

Play(e) ==
  \/ PlayCheck(e) \/ PlayPeekRoom(e) \/ PlayPeekFull(e)
  \/ PlayRead(e) \/ PlayReadFails(e) \/ PlayDecodeFails(e) \/ PlayStop(e)

-----------------------------------------------------------------------------
(* The world: signals, processes that die, devices that go away.           *)

(* SIGINT or SIGTERM, once handle_signal has registered the flag.          *)
SignalClient(c) ==
  /\ "signalClient" \in Faults
  /\ cpc[c] \in {"startRecord", "startPlayback", "joinRecord", "joinPlayback",
                "failing", "returning"}
  /\ cterm' = [cterm EXCEPT ![c] = TRUE]
  /\ signalled' = signalled \cup {c}
  /\ UNCHANGED <<args, mains, sterm, socket, tasks, dead, broken>>

SignalServer ==
  /\ "signalServer" \in Faults
  /\ spc \notin {"checkAudio", "bind", "exited"}
  /\ sterm' = TRUE
  /\ signalled' = signalled \cup {"server"}
  /\ UNCHANGED <<args, mains, cterm, socket, tasks, dead, broken>>

CrashClient(c) == "crash" \in Faults /\ ~ Exited(c) /\ ClientDies(c)
CrashServer    == "crash" \in Faults /\ spc # "exited" /\ ServerExits

(* Nobody is told, or only the log is: the tasks go on, but with a ring    *)
(* that nobody fills or empties any more.                                  *)
DeviceDies(e) ==
  /\ "device" \in Faults /\ e \notin dead
  /\ rec[e] \notin Settled \/ play[e] \notin Settled
  /\ dead' = dead \cup {e}
  /\ UNCHANGED <<args, mains, flags, socket, tasks, history>>

World ==
  \/ \E c \in Clients : SignalClient(c) \/ CrashClient(c)
  \/ SignalServer \/ CrashServer
  \/ \E e \in Ends : DeviceDies(e)

Next ==
  \/ \E c \in Clients : Client(c)
  \/ Server
  \/ \E e \in Ends : Record(e) \/ Play(e)
  \/ World

Spec == Init /\ [][Next]_vars

(* Every process and every task runs; a connection attempt that keeps      *)
(* failing is retried; a device that works records a buffer and plays one  *)
(* now and then, at its own pace.  Only of a dead one it is sure that its  *)
(* ring runs empty: a connection slower than the device keeps the inner    *)
(* loop of a recorder busy (handlers.rs:207-210, 233-241).                 *)
Fairness ==
  /\ \A c \in Clients : WF_vars(Client(c))
  /\ WF_vars(Server)
  /\ \A e \in Ends :
       /\ WF_vars(Record(e)) /\ WF_vars(Play(e))
       /\ SF_vars(e \in dead /\ RecordPeekEmpty(e))
       /\ SF_vars(e \notin dead /\ RecordPeekFull(e))
       /\ SF_vars(e \notin dead /\ PlayPeekRoom(e))

FairSpec == Spec /\ Fairness

-----------------------------------------------------------------------------

RecordStates == {"check", "peek", "write", "stop"} \cup Settled
PlayStates   == {"check", "peek", "read", "stop"} \cup Settled
Items == {Hello(b) : b \in Bytes} \cup {Frame(b) : b \in BOOLEAN}

TypeOK ==
  /\ stype \in ServerTypes
  /\ ctype \in [Clients -> ClientTypes] /\ opus \in [Clients -> Codecs]
  /\ cpc \in [Clients -> {"checkAudio", "connect", "writeFlags", "readType",
                          "startRecord", "startPlayback", "joinRecord",
                          "joinPlayback", "failing", "returning", "failed",
                          "done"}]
  /\ retry \in [Clients -> 0 .. MAX_RETRY]
  /\ spc \in {"checkAudio", "bind", "check", "accept", "writeType",
              "readFlags", "startPlayback", "startRecord", "terminate",
              "exited"}
  /\ current \in Clients \cup {NoClient} /\ queued \subseteq Clients
  /\ sterm \in BOOLEAN /\ cterm \in [Clients -> BOOLEAN]
  /\ reads \subseteq Ends /\ writes \subseteq Ends
  /\ \A e \in Ends : Len(pipe[e]) <= Window + 1
                    /\ \A i \in DOMAIN pipe[e] : pipe[e][i] \in Items
  /\ seen \in [Ends -> Bytes \cup {NoByte}]
  /\ rec \in [Ends -> RecordStates] /\ play \in [Ends -> PlayStates]
  /\ signalled \subseteq Clients \cup {"server"} /\ broken \subseteq Ends
  /\ dead \subseteq Ends

(* Each end decides on its own, from its type and one byte of the other,   *)
(* what to run and in which codec.  They agree: who records has a peer     *)
(* that plays, who plays has a peer that records, in the same codec, once  *)
(* both have read their byte (client.rs:77-90, server.rs:116-136).         *)
PeersAgree ==
  \A e \in Ends : seen[e] # NoByte /\ seen[Peer(e)] # NoByte =>
    /\ Records(e) = Plays(Peer(e))
    /\ OpusAt(e) = OpusAt(Peer(e))

(* The handshake byte and the frames share the connection without a mark:  *)
(* a playback task that reads finds a frame there, in the codec it decodes *)
(* (handlers.rs:117, 138-141), although either side starts to send before  *)
(* the other is ready.                                                     *)
ReadsAreFrames ==
  \A e \in Ends : play[e] = "read" /\ pipe[Peer(e)] # <<>> =>
    Head(pipe[Peer(e)]) = Frame(OpusAt(e))

(* A task ends for a reason of its own session: its process was told to,   *)
(* its peer has let go of the connection, or its codec has failed.  What   *)
(* happens to one client never ends the tasks of another.                  *)
EndsForAReason ==
  /\ \A e \in Ends :
       /\ rec[e] \in Ended \cup {"stop"} =>
            Term(e) \/ Gone(Peer(e)) \/ e \in broken \/ rec[e] = "cancelled"
       /\ play[e] \in Ended \cup {"stop"} =>
            \/ Term(e) \/ Peer(e) \notin writes
            \/ e \in broken \/ play[e] = "cancelled"
  /\ sterm => "server" \in signalled
  /\ \A c \in Clients : cterm[c] =>
       c \in signalled \/ rec[AtClient(c)] \in Ended

(* A client that comes to the end of run has stopped the streams it has    *)
(* started, or tried to: terminate does not pull the audio from under one, *)
(* and none is left to a task that is cancelled with the process           *)
(* (client.rs:43-44, 103-106).                                             *)
NothingLeftRunning ==
  \A c \in Clients : cpc[c] \in {"returning", "done"} =>
    {rec[AtClient(c)], play[AtClient(c)]} \subseteq {"none", "stopped", "leaked"}

(* The half of a socket that a running task needs is open.                 *)
TasksOwnTheirHalf ==
  \A e \in Ends :
    /\ rec[e] \in {"check", "peek", "write"} => e \in writes
    /\ play[e] \in {"check", "peek", "read"} => e \in reads

(* The frames an end has sent and its peer has not read: what is in the    *)
(* connection, but for the byte of the handshake.                          *)
InFlightFrom(e) ==
  IF seen[Peer(e)] = NoByte /\ pipe[e] # <<>> THEN Len(pipe[e]) - 1
  ELSE Len(pipe[e])

CodecName(isOpus) == IF isOpus THEN "opus" ELSE "raw"

TaskOf(state, e) ==
  CASE state = "none" -> "none"
    [] state \in Ended \cup {"stop"} -> "over"
    [] OTHER -> CodecName(OpusAt(e))

Links ==
  INSTANCE AudioLinks
    WITH Links <- Ends, Limit <- Window,
         wanted <- {e \in Ends : IsSource(TypeAt(e)) /\ IsSink(TypeAt(Peer(e)))},
         codec <- [e \in Ends |-> CodecName(opus[e[1]])],
         sender <- [e \in Ends |-> TaskOf(rec[e], e)],
         receiver <- [e \in Ends |-> TaskOf(play[Peer(e)], Peer(e))],
         flight <- [e \in Ends |-> InFlightFrom(e)]

(* From the two command lines to the sound, whatever fails: exactly where  *)
(* one side records and the other plays a task is started, once, and in    *)
(* the codec of the client's choice; the frames of one are what the other  *)
(* receives.  The handshake is no frame and is never taken for one         *)
(* (client.rs:77-106, server.rs:112-151, handlers.rs).                     *)
ImplementsAudioLinks == Links!Spec

-----------------------------------------------------------------------------

(* The main loop of the server looks at term between two clients: it ends, *)
(* provided each client it shakes hands with goes on or goes away.         *)
SignalledServerExits == sterm ~> spc = "exited"

(* A client that is gone leaves no task of the server behind, unless the   *)
(* device of that task is dead: then the task neither writes nor reads,    *)
(* and never learns of it (handlers.rs:115-116, 207).                      *)
GoneClientFreesServer ==
  \A c \in Clients : Exited(c) ~>
    \/ rec[AtServer(c)] \in Settled /\ play[AtServer(c)] \in Settled
    \/ AtServer(c) \in dead

(* A server that is gone takes its clients with it, with the same          *)
(* exception.                                                              *)
GoneServerFreesClients ==
  \A c \in Clients : spc = "exited" ~> Exited(c) \/ AtClient(c) \in dead

(* The peer has stopped reading but holds the connection open to write: a  *)
(* write may wait for ever (handlers.rs:209, 240).                         *)
Abandoned(e) == rec[e] = "write" /\ Peer(e) \notin reads /\ Peer(e) \in writes

(* A client that is told to end does, whatever its own device does, even   *)
(* one that waits for a frame or for its turn to write; unless its server  *)
(* has abandoned it, or has nothing to send any more because its device is *)
(* dead (handlers.rs:117, 138), or the inner loop of its recorder always   *)
(* finds another buffer and so never looks at term (handlers.rs:207-210,   *)
(* 233-241).                                                               *)
SignalledClientExits ==
  \A c \in Clients :
    \/ cterm[c] ~>
         Exited(c) \/ Abandoned(AtClient(c)) \/ AtServer(c) \in dead
    \/ []<><<RecordWrite(AtClient(c))>>_vars

(* What one end records the other plays: frames are read again and again,  *)
(* for as long as both tasks and their devices live (handlers.rs:115-120,  *)
(* 206-212).                                                               *)
SoundArrives ==
  \A e \in Ends :
    <>[](dead = {} /\ rec[e] \notin Settled /\ play[Peer(e)] \notin Settled /\ ~ Term(e)
         /\ ~ Term(Peer(e)))
      => []<><<PlayRead(Peer(e))>>_vars
=============================================================================
