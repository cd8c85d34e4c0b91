--------------------------- MODULE SessionProofs ---------------------------
(***************************************************************************)
(* Theorems about Session for every number of clients, all stream types,   *)
(* retries and frames in flight, whatever fails: no task of a session ends *)
(* without a reason of its own, a running task has the half of the socket  *)
(* it needs, and a client comes to the end of run only when its tasks have *)
(* stopped their streams.                                                  *)
(***************************************************************************)
EXTENDS Session, TLAPS

(* What the steps index and compare.                                       *)
Shape ==
  /\ cpc \in [Clients -> {"checkAudio", "connect", "writeFlags", "readType",
                          "startRecord", "startPlayback", "joinRecord",
                          "joinPlayback", "failing", "returning", "failed",
                          "done"}]
  /\ cterm \in [Clients -> BOOLEAN] /\ sterm \in BOOLEAN
  /\ current \in Clients \cup {NoClient} /\ queued \subseteq Clients
  /\ rec \in [Ends -> RecordStates] /\ play \in [Ends -> PlayStates]

Shaking == {"writeType", "readFlags", "startPlayback", "startRecord"}

(* Who has not connected yet has no task at either end, and the server     *)
(* does not know it; a record task is started once.                        *)
Unknown(c) == cpc[c] \in {"checkAudio", "connect"}

Fresh ==
  /\ spc \in Shaking => current \in Clients
  /\ \A c \in Clients : Unknown(c) =>
       /\ c \notin queued /\ c # current
       /\ rec[AtServer(c)] = "none" /\ play[AtServer(c)] = "none"
       /\ play[AtClient(c)] = "none"
  /\ \A c \in Clients :
       cpc[c] \in {"checkAudio", "connect", "writeFlags", "readType", "startRecord"}
         => rec[AtClient(c)] = "none"

IInv == Shape /\ Fresh /\ EndsForAReason

-----------------------------------------------------------------------------

LEMMA EndFacts ==
  /\ \A c \in Clients : AtClient(c) \in Ends /\ AtServer(c) \in Ends
  /\ \A c, d \in Clients : AtClient(c) # AtServer(d)
  /\ \A c, d \in Clients : AtClient(c) = AtClient(d) => c = d
  /\ \A c, d \in Clients : AtServer(c) = AtServer(d) => c = d
  /\ \A e \in Ends : Peer(e) \in Ends
  /\ \A e \in Ends : \E c \in Clients : e = AtClient(c) \/ e = AtServer(c)
BY DEF Ends, Sides, AtClient, AtServer, Peer

RecordReason(e) == Term(e) \/ Gone(Peer(e)) \/ e \in broken
PlayReason(e)   == Term(e) \/ Peer(e) \notin writes \/ e \in broken

(* A step that takes back no reason: flags are raised, sockets closed.     *)
Monotone ==
  /\ sterm => sterm'
  /\ \A c \in Clients : cterm[c] => cterm'[c]
  /\ reads' \subseteq reads /\ writes' \subseteq writes
  /\ broken \subseteq broken' /\ signalled \subseteq signalled'

(* A task that is over after a step was over before it, or has a reason,   *)
(* and one that has ended stays so; a flag has been raised for a reason.   *)
Justified ==
  /\ \A e \in Ends :
       /\ rec'[e] \in Ended \cup {"stop"} =>
            \/ rec[e] \in Ended \cup {"stop"} /\ rec[e] # "cancelled"
            \/ rec'[e] = "cancelled" \/ RecordReason(e)'
       /\ play'[e] \in Ended \cup {"stop"} =>
            \/ play[e] \in Ended \cup {"stop"} /\ play[e] # "cancelled"
            \/ play'[e] = "cancelled" \/ PlayReason(e)'
  /\ \A c \in Clients :
       rec[AtClient(c)] \in Ended => rec'[AtClient(c)] \in Ended
  /\ sterm' => sterm \/ "server" \in signalled'
  /\ \A c \in Clients : cterm'[c] =>
       cterm[c] \/ c \in signalled' \/ rec'[AtClient(c)] \in Ended

(* Then no reason is missing after it.                                     *)
LEMMA ReasonsStay ==
  ASSUME EndsForAReason, Monotone, Justified
  PROVE  EndsForAReason'
<1>1. ASSUME NEW e \in Ends
      PROVE  /\ RecordReason(e) => RecordReason(e)'
             /\ PlayReason(e) => PlayReason(e)'
  BY EndFacts DEF Monotone, RecordReason, PlayReason, Term, Gone, Ends
<1>2. ASSUME NEW e \in Ends, rec'[e] \in Ended \cup {"stop"}
      PROVE  RecordReason(e)' \/ rec'[e] = "cancelled"
  BY <1>1, <1>2 DEF EndsForAReason, Justified, RecordReason
<1>3. ASSUME NEW e \in Ends, play'[e] \in Ended \cup {"stop"}
      PROVE  PlayReason(e)' \/ play'[e] = "cancelled"
  BY <1>1, <1>3 DEF EndsForAReason, Justified, PlayReason
<1>4. sterm' => "server" \in signalled'
  BY DEF EndsForAReason, Justified, Monotone
<1>5. ASSUME NEW c \in Clients, cterm'[c]
      PROVE  c \in signalled' \/ rec'[AtClient(c)] \in Ended
  BY <1>5, EndFacts DEF EndsForAReason, Justified, Monotone
<1>6. QED
  BY <1>2, <1>3, <1>4, <1>5 DEF EndsForAReason, RecordReason, PlayReason

-----------------------------------------------------------------------------
(* The steps, one by one.  Connect is the only one that opens sockets.     *)

Kept == Shape' /\ Fresh' /\ Monotone /\ Justified

LEMMA ClientExitsKeeps ==
  ASSUME Shape, Fresh, NEW c \in Clients, NEW how \in {"failed", "done"},
         ClientExits(c, how)
  PROVE  Kept
<1> USE DEF ClientExits, ExitAt, Cancelled, args, history, Ended, Settled
<1>1. Shape'
  BY DEF Shape, RecordStates, PlayStates
<1>2. Fresh'
  BY EndFacts DEF Shape, Fresh, Unknown, Shaking
<1>3. Monotone
  BY DEF Monotone
<1>4. Justified
  BY EndFacts DEF Justified, Shape
<1>5. QED
  BY <1>1, <1>2, <1>3, <1>4 DEF Kept

LEMMA RunReturnsKeeps ==
  ASSUME Shape, Fresh, NEW c \in Clients, NEW how \in {"failing", "returning"},
         RunReturns(c, how)
  PROVE  Kept
<1> USE DEF RunReturns, args, flags, tasks, history
<1>1. Shape'
  BY DEF Shape
<1>2. Fresh'
  BY EndFacts DEF Shape, Fresh, Unknown, Shaking
<1>3. Monotone
  BY DEF Monotone
<1>4. Justified
  BY DEF Justified
<1>5. QED
  BY <1>1, <1>2, <1>3, <1>4 DEF Kept

LEMMA ServerStopsKeeps ==
  ASSUME Shape, Fresh, ServerStops
  PROVE  Kept
BY EndFacts DEF ServerStops, args, flags, tasks, history, Kept, Shape, Fresh,
   Unknown, Shaking, Monotone, Justified

LEMMA ServerExitsKeeps ==
  ASSUME Shape, Fresh, ServerExits
  PROVE  Kept
<1> USE DEF ServerExits, ExitAt, Cancelled, args, history, Ended, Settled
<1>1. Shape'
  BY DEF Shape, RecordStates, PlayStates
<1>2. Fresh'
  BY EndFacts, NoClientAssumption DEF Shape, Fresh, Unknown, Shaking
<1>3. Monotone
  BY DEF Monotone
<1>4. Justified
  BY EndFacts DEF Justified, Shape
<1>5. QED
  BY <1>1, <1>2, <1>3, <1>4 DEF Kept

(* A step that leaves the tasks, the flags and the sockets alone.          *)
Quiet == UNCHANGED <<flags, reads, writes, tasks, history>>

LEMMA QuietJustified == Quiet => Monotone /\ Justified
BY DEF Quiet, flags, tasks, history, Monotone, Justified, Term, Ended

LEMMA ClientKeeps ==
  ASSUME Shape, Fresh, NEW c \in Clients,
         \/ CheckAudio(c) \/ Terminate(c) \/ ConnectFails(c) \/ WriteFlags(c)
         \/ ReadType(c) \/ StartRecord(c) \/ StartPlayback(c) \/ JoinRecord(c)
         \/ JoinPlayback(c)
  PROVE  Kept
<1> USE DEF Goto, args, flags, socket, tasks, history
<1>1. CASE ClientDies(c)
  BY <1>1, ClientExitsKeeps DEF ClientDies
<1>2. CASE ClientFails(c) \/ ClientReturns(c)
  BY <1>2, RunReturnsKeeps DEF ClientFails, ClientReturns
<1>3. CASE CheckAudio(c) /\ ~ ClientDies(c)
  BY <1>3, EndFacts, QuietJustified
     DEF CheckAudio, Quiet, Kept, Shape, Fresh, Unknown, Shaking
<1>4. CASE Terminate(c)
  BY <1>4, ClientExitsKeeps DEF Terminate
<1>5. CASE ConnectFails(c) /\ ~ ClientFails(c)
  BY <1>5, EndFacts, QuietJustified
     DEF ConnectFails, Quiet, Kept, Shape, Fresh, Unknown, Shaking
<1>6. CASE WriteFlags(c) /\ ~ ClientFails(c)
  BY <1>6, EndFacts, QuietJustified
     DEF WriteFlags, Quiet, Kept, Shape, Fresh, Unknown, Shaking
<1>7. CASE ReadType(c) /\ ~ ClientFails(c)
  BY <1>7, EndFacts, QuietJustified
     DEF ReadType, Quiet, Kept, Shape, Fresh, Unknown, Shaking
<1>8. CASE StartRecord(c) /\ ~ ClientFails(c)
  <2>1. Shape'
    BY <1>8, EndFacts DEF StartRecord, Shape, RecordStates, Settled, Ended
  <2>2. Fresh'
    BY <1>8, EndFacts DEF StartRecord, Shape, Fresh, Unknown, Shaking
  <2>3. Monotone
    BY <1>8 DEF StartRecord, Monotone
  <2>4. Justified
    BY <1>8, EndFacts DEF StartRecord, Justified, Shape, Fresh, Ended
  <2>5. QED
    BY <2>1, <2>2, <2>3, <2>4 DEF Kept
<1>9. CASE StartPlayback(c) /\ ~ ClientFails(c)
  <2>1. Shape'
    BY <1>9, EndFacts DEF StartPlayback, Shape, PlayStates, Settled, Ended
  <2>2. Fresh'
    BY <1>9, EndFacts DEF StartPlayback, Shape, Fresh, Unknown, Shaking
  <2>3. Monotone
    BY <1>9 DEF StartPlayback, Monotone
  <2>4. Justified
    BY <1>9, EndFacts DEF StartPlayback, Justified, Shape, Ended
  <2>5. QED
    BY <2>1, <2>2, <2>3, <2>4 DEF Kept
<1>10. CASE JoinRecord(c)
  <2>1. Shape' /\ Monotone
    BY <1>10 DEF JoinRecord, Shape, Monotone
  <2>2. Fresh'
    BY <1>10, EndFacts DEF JoinRecord, Shape, Fresh, Unknown, Shaking
  <2>3. Justified
    BY <1>10, EndFacts DEF JoinRecord, Justified, Shape, Settled
  <2>4. QED
    BY <2>1, <2>2, <2>3 DEF Kept
<1>11. CASE JoinPlayback(c)
  BY <1>11, <1>2 DEF JoinPlayback
<1>12. QED
  BY <1>1, <1>2, <1>3, <1>4, <1>5, <1>6, <1>7, <1>8, <1>9, <1>10, <1>11

-----------------------------------------------------------------------------

LEMMA ReturnFromKeeps ==
  ASSUME Shape, Fresh, spc \in Shaking, NEW r \in BOOLEAN, NEW w \in BOOLEAN,
         ReturnFrom(AtServer(current), r, w), UNCHANGED <<pipe, seen, tasks>>
  PROVE  Kept
<1> USE DEF ReturnFrom, args, flags, tasks, history
<1>1. Shape'
  BY DEF Shape
<1>2. Fresh'
  BY NoClientAssumption DEF Shape, Fresh, Unknown, Shaking
<1>3. Monotone
  BY DEF Monotone
<1>4. Justified
  BY DEF Justified, Ended
<1>5. QED
  BY <1>1, <1>2, <1>3, <1>4 DEF Kept

LEMMA HandshakeKeeps ==
  ASSUME Shape, Fresh,
         \/ WriteType \/ ReadFlags \/ ServerStartPlayback \/ ServerStartRecord
  PROVE  Kept
<1> DEFINE e == AtServer(current)
<1> USE DEF args, flags, socket, tasks, history
<1>1. spc \in Shaking /\ current \in Clients /\ e \in Ends
  BY EndFacts DEF WriteType, ReadFlags, ServerStartPlayback,
     ServerStartRecord, Fresh, Shaking
<1>2. ASSUME \E r, w \in BOOLEAN : ReturnFrom(e, r, w),
             UNCHANGED <<pipe, seen, tasks>>
      PROVE  Kept
  BY <1>1, <1>2, ReturnFromKeeps
<1>3. CASE WriteType
  <2>1. CASE ReturnFrom(e, FALSE, FALSE) /\ UNCHANGED <<pipe, seen, tasks>>
    BY <2>1, <1>2
  <2>2. CASE spc' = "readFlags"
    <3>1. UNCHANGED <<cpc, current, queued, reads, writes, flags, tasks, history>>
      BY <1>3, <2>2 DEF WriteType, ReturnFrom
    <3>2. QED
      BY <1>1, <2>2, <3>1, QuietJustified
         DEF Quiet, Kept, Shape, Fresh, Unknown, Shaking
  <2>3. QED
    BY <1>3, <2>1, <2>2 DEF WriteType
<1>4. CASE ReadFlags
  <2>1. CASE ReturnFrom(e, FALSE, FALSE) /\ UNCHANGED <<pipe, seen, tasks>>
    BY <2>1, <1>2
  <2>2. CASE spc' = "startPlayback"
    <3>1. UNCHANGED <<cpc, current, queued, reads, writes, flags, tasks, history>>
      BY <1>4, <2>2 DEF ReadFlags, ReturnFrom
    <3>2. QED
      BY <1>1, <2>2, <3>1, QuietJustified
         DEF Quiet, Kept, Shape, Fresh, Unknown, Shaking
  <2>3. QED
    BY <1>4, <2>1, <2>2 DEF ReadFlags
<1>5. CASE ServerStartPlayback
  <2>1. CASE ReturnFrom(e, FALSE, FALSE) /\ UNCHANGED <<pipe, seen, tasks>>
    BY <2>1, <1>2
  <2>2. CASE spc' = "startRecord"
    <3>1. /\ play' = [play EXCEPT ![e] = IF Plays(e) THEN "check" ELSE "none"]
          /\ UNCHANGED <<cpc, current, queued, reads, writes, flags, rec, history>>
      BY <1>5, <2>2 DEF ServerStartPlayback, ReturnFrom
    <3>2. Shape' /\ Monotone
      BY <1>1, <3>1 DEF Shape, PlayStates, Settled, Ended, Monotone
    <3>3. Fresh'
      BY <1>1, <2>2, <3>1, EndFacts DEF Shape, Fresh, Unknown, Shaking
    <3>4. Justified
      BY <1>1, <3>1, EndFacts DEF Justified, Shape, Ended
    <3>5. QED
      BY <3>2, <3>3, <3>4 DEF Kept
  <2>3. QED
    BY <1>5, <2>1, <2>2 DEF ServerStartPlayback
<1>6. CASE ServerStartRecord
  <2>1. Plays(e) \in BOOLEAN /\ Records(e) \in BOOLEAN
    BY DEF Plays, Records
  <2>2. CASE ReturnFrom(e, Plays(e), FALSE) /\ UNCHANGED <<pipe, seen, tasks>>
    BY <2>1, <2>2, <1>2
  <2>3. CASE /\ rec' = [rec EXCEPT ![e] = IF Records(e) THEN "check" ELSE "none"]
             /\ ReturnFrom(e, Plays(e), Records(e))
             /\ UNCHANGED <<pipe, seen, play>>
    <3>1. Shape' /\ Monotone
      BY <1>1, <2>3 DEF ReturnFrom, Shape, RecordStates, Settled, Ended, Monotone
    <3>2. Fresh'
      BY <1>1, <2>3, EndFacts, NoClientAssumption
         DEF ReturnFrom, Shape, Fresh, Unknown, Shaking
    <3>3. Justified
      BY <1>1, <2>3, EndFacts DEF ReturnFrom, Justified, Shape, Ended
    <3>4. QED
      BY <3>1, <3>2, <3>3 DEF Kept
  <2>4. QED
    BY <1>6, <2>2, <2>3 DEF ServerStartRecord
<1>7. QED
  BY <1>3, <1>4, <1>5, <1>6

LEMMA ServerKeeps ==
  ASSUME Shape, Fresh, Server
  PROVE  Kept
<1> USE DEF args, flags, socket, tasks, history
<1>1. CASE ServerStops
  BY <1>1, ServerStopsKeeps
<1>2. CASE (ServerCheckAudio \/ Bind \/ CheckTerm \/ AcceptTimeout) /\ ~ ServerStops
  <2>1. /\ UNCHANGED <<cpc, current, queued, reads, writes, flags, tasks, history>>
        /\ spc' \notin Shaking
    BY <1>2 DEF ServerCheckAudio, Bind, CheckTerm, AcceptTimeout, Shaking
  <2>2. QED
    BY <2>1, QuietJustified DEF Quiet, Kept, Shape, Fresh, Unknown
<1>3. CASE Accept
  <2>1. /\ UNCHANGED <<cpc, reads, writes, flags, tasks, history>>
        /\ \E c \in queued : current' = c /\ queued' = queued \ {c}
    BY <1>3 DEF Accept
  <2>2. Shape' /\ Fresh'
    BY <2>1 DEF Shape, Fresh, Unknown
  <2>3. QED
    BY <2>1, <2>2, QuietJustified DEF Quiet, Kept
<1>4. CASE AcceptFails
  BY <1>4, <1>1 DEF AcceptFails
<1>5. CASE WriteType \/ ReadFlags \/ ServerStartPlayback \/ ServerStartRecord
  BY <1>5, HandshakeKeeps
<1>6. CASE ServerTerminate
  BY <1>6, ServerExitsKeeps DEF ServerTerminate
<1>7. QED
  BY <1>1, <1>2, <1>3, <1>4, <1>5, <1>6 DEF Server

-----------------------------------------------------------------------------

LEMMA RecordKeeps ==
  ASSUME Shape, Fresh, NEW e \in Ends, Record(e)
  PROVE  Kept
<1> USE DEF args, mains, flags, socket, tasks, history
<1>1. ASSUME NEW from \in {"check", "peek", "write", "stop"},
             NEW to \in {"check", "peek", "write", "stopped", "leaked"},
             RecordAt(e, from, to),
             to \in Ended => rec[e] = "stop",
             UNCHANGED <<mains, flags, reads, writes, play, history>>
      PROVE  Kept
  <2>1. Shape' /\ Monotone
    BY <1>1 DEF RecordAt, Shape, RecordStates, Settled, Ended, Monotone
  <2>2. Fresh'
    BY <1>1, EndFacts DEF RecordAt, Shape, Fresh, Unknown
  <2>3. Justified
    BY <1>1, EndFacts DEF RecordAt, Justified, Shape, Ended
  <2>4. QED
    BY <2>1, <2>2, <2>3 DEF Kept
<1>2. ASSUME NEW from \in {"check", "peek", "write"}, RecordReturns(e, from),
             broken \subseteq broken', RecordReason(e)'
      PROVE  Kept
  <2>1. Shape' /\ Monotone
    BY <1>2 DEF RecordReturns, RecordAt, Shape, RecordStates, Monotone
  <2>2. Fresh'
    BY <1>2, EndFacts DEF RecordReturns, RecordAt, Shape, Fresh, Unknown
  <2>3. Justified
    BY <1>2, EndFacts DEF RecordReturns, RecordAt, Justified, Shape, Ended
  <2>4. QED
    BY <2>1, <2>2, <2>3 DEF Kept
<1>3. CASE RecordCheck(e)
  BY <1>3, <1>1, <1>2 DEF RecordCheck, RecordReturns, RecordReason, Term, Ended
<1>4. CASE RecordPeekFull(e) \/ RecordPeekEmpty(e) \/ RecordWrite(e)
  BY <1>4, <1>1 DEF RecordPeekFull, RecordPeekEmpty, RecordWrite, Ended
<1>5. CASE RecordWriteFails(e)
  BY <1>5, <1>2 DEF RecordWriteFails, RecordReturns, RecordReason, Gone
<1>6. CASE RecordEncodeFails(e)
  BY <1>6, <1>2 DEF RecordEncodeFails, RecordReason
<1>7. CASE RecordStop(e)
  BY <1>7, <1>1 DEF RecordStop, RecordAt
<1>8. QED
  BY <1>3, <1>4, <1>5, <1>6, <1>7 DEF Record

LEMMA PlayKeeps ==
  ASSUME Shape, Fresh, NEW e \in Ends, Play(e)
  PROVE  Kept
<1> USE DEF args, mains, flags, socket, tasks, history
<1>1. ASSUME NEW from \in {"check", "peek", "read", "stop"},
             NEW to \in {"check", "peek", "read", "stopped", "leaked"},
             PlayAt(e, from, to),
             to \in Ended => play[e] = "stop",
             UNCHANGED <<mains, flags, reads, writes, rec, history>>
      PROVE  Kept
  <2>1. Shape' /\ Monotone
    BY <1>1 DEF PlayAt, Shape, PlayStates, Settled, Ended, Monotone
  <2>2. Fresh'
    BY <1>1, EndFacts DEF PlayAt, Shape, Fresh, Unknown
  <2>3. Justified
    BY <1>1 DEF PlayAt, Justified, Shape, Ended
  <2>4. QED
    BY <2>1, <2>2, <2>3 DEF Kept
<1>2. ASSUME NEW from \in {"check", "read"}, PlayReturns(e, from),
             broken \subseteq broken', PlayReason(e)'
      PROVE  Kept
  <2>1. Shape' /\ Monotone
    BY <1>2 DEF PlayReturns, PlayAt, Shape, PlayStates, Monotone
  <2>2. Fresh'
    BY <1>2, EndFacts DEF PlayReturns, PlayAt, Shape, Fresh, Unknown
  <2>3. Justified
    BY <1>2 DEF PlayReturns, PlayAt, Justified, Shape, Ended
  <2>4. QED
    BY <2>1, <2>2, <2>3 DEF Kept
<1>3. CASE PlayCheck(e)
  BY <1>3, <1>1, <1>2 DEF PlayCheck, PlayReturns, PlayReason, Term, Ended
<1>4. CASE PlayPeekRoom(e) \/ PlayPeekFull(e) \/ PlayRead(e)
  BY <1>4, <1>1 DEF PlayPeekRoom, PlayPeekFull, PlayRead, Ended
<1>5. CASE PlayReadFails(e)
  BY <1>5, <1>2 DEF PlayReadFails, PlayReturns, PlayReason, EndOfStream, Gone
<1>6. CASE PlayDecodeFails(e)
  BY <1>6, <1>2 DEF PlayDecodeFails, PlayReason
<1>7. CASE PlayStop(e)
  BY <1>7, <1>1 DEF PlayStop, PlayAt
<1>8. QED
  BY <1>3, <1>4, <1>5, <1>6, <1>7 DEF Play

LEMMA WorldKeeps ==
  ASSUME Shape, Fresh, World
  PROVE  Kept
<1> USE DEF args, mains, flags, socket, tasks, history
<1>1. ASSUME NEW c \in Clients, SignalClient(c)
      PROVE  Kept
  BY <1>1 DEF SignalClient, Kept, Shape, Fresh, Unknown, Monotone, Justified, Ended
<1>2. ASSUME NEW c \in Clients, CrashClient(c)
      PROVE  Kept
  BY <1>2, ClientExitsKeeps DEF CrashClient, ClientDies
<1>3. CASE SignalServer
  BY <1>3 DEF SignalServer, Kept, Shape, Fresh, Unknown, Monotone, Justified, Ended
<1>4. CASE CrashServer
  BY <1>4, ServerExitsKeeps DEF CrashServer
<1>5. ASSUME NEW e \in Ends, DeviceDies(e)
      PROVE  Kept
  BY <1>5, QuietJustified DEF DeviceDies, Quiet, Kept, Shape, Fresh, Unknown
<1>6. QED
  BY <1>1, <1>2, <1>3, <1>4, <1>5 DEF World

-----------------------------------------------------------------------------

LEMMA ConnectKeeps ==
  ASSUME IInv, NEW c \in Clients, Connect(c)
  PROVE  IInv'
<1> USE DEF args, flags, tasks, history
<1>1. /\ cpc[c] = "connect" /\ cpc' = [cpc EXCEPT ![c] = "writeFlags"]
      /\ queued' = queued \cup {c} /\ spc' = spc /\ current' = current
      /\ reads' = reads \cup {AtClient(c), AtServer(c)}
      /\ writes' = writes \cup {AtClient(c), AtServer(c)}
      /\ UNCHANGED <<sterm, cterm, rec, play, signalled, broken>>
  BY DEF Connect, Goto
<1>2. Shape' /\ Fresh'
  BY <1>1 DEF IInv, Shape, Fresh, Unknown
<1>3. \A e \in {AtClient(c), AtServer(c)} : rec[e] = "none" /\ play[e] = "none"
  BY <1>1 DEF IInv, Fresh, Unknown
<1>4. ASSUME NEW e \in Ends, e \notin {AtClient(c), AtServer(c)}
      PROVE  /\ Gone(Peer(e)) => Gone(Peer(e))'
             /\ Peer(e) \notin writes => Peer(e) \notin writes'
             /\ Term(e)' = Term(e)
  BY <1>1, <1>4 DEF Gone, Peer, Term, Ends, Sides, AtClient, AtServer
<1>5. EndsForAReason'
  <2>1. ASSUME NEW e \in Ends, rec'[e] \in Ended \cup {"stop"}
        PROVE  Term(e)' \/ Gone(Peer(e))' \/ e \in broken' \/ rec'[e] = "cancelled"
    BY <1>1, <1>3, <1>4, <2>1 DEF IInv, EndsForAReason, Ended
  <2>2. ASSUME NEW e \in Ends, play'[e] \in Ended \cup {"stop"}
        PROVE  \/ Term(e)' \/ Peer(e) \notin writes'
               \/ e \in broken' \/ play'[e] = "cancelled"
    BY <1>1, <1>3, <1>4, <2>2 DEF IInv, EndsForAReason, Ended
  <2>3. QED
    BY <1>1, <2>1, <2>2 DEF IInv, EndsForAReason
<1>6. QED
  BY <1>2, <1>5 DEF IInv

LEMMA Initially == Init => IInv
BY NoClientAssumption, EndFacts
   DEF Init, IInv, Shape, RecordStates, PlayStates, Settled, Ended, Fresh,
   Unknown, Shaking, EndsForAReason

LEMMA StepKeeps == IInv /\ [Next]_vars => IInv'
<1> SUFFICES ASSUME IInv, [Next]_vars PROVE IInv'
  OBVIOUS
<1>1. Kept => IInv'
  BY ReasonsStay DEF Kept, IInv
<1>2. CASE UNCHANGED vars
  BY <1>2 DEF vars, args, mains, flags, socket, tasks, history, IInv, Shape,
     Fresh, Unknown, EndsForAReason, Term, Gone
<1>3. ASSUME NEW c \in Clients, Client(c)
      PROVE  IInv'
  BY <1>1, <1>3, ClientKeeps, ConnectKeeps DEF Client, IInv
<1>4. CASE Server
  BY <1>1, <1>4, ServerKeeps DEF IInv
<1>5. ASSUME NEW e \in Ends, Record(e) \/ Play(e)
      PROVE  IInv'
  BY <1>1, <1>5, RecordKeeps, PlayKeeps DEF IInv
<1>6. CASE World
  BY <1>1, <1>6, WorldKeeps DEF IInv
<1>7. QED
  BY <1>2, <1>3, <1>4, <1>5, <1>6 DEF Next

(* However many clients there are and whatever happens to them, a task     *)
(* ends for a reason of its own session, and a term flag is raised for one *)
(* (handlers.rs:115, 206, client.rs:103-106, server.rs:71).                 *)
THEOREM TasksEndForAReason == Spec => []EndsForAReason
<1>1. IInv => EndsForAReason
  BY DEF IInv
<1>2. QED
  BY Initially, StepKeeps, <1>1, PTL DEF Spec

-----------------------------------------------------------------------------
(* Which end has which half of a socket, and who is still running.         *)

BeforeRecord   == {"writeFlags", "readType", "startRecord"}
BeforePlayback == BeforeRecord \cup {"startPlayback"}

(* Until it starts a task, main of the client has the half it will give.   *)
ClientHolds ==
  \A c \in Clients :
    /\ cpc[c] \in BeforeRecord => AtClient(c) \in writes
    /\ cpc[c] \in BeforePlayback =>
         AtClient(c) \in reads /\ play[AtClient(c)] = "none"

(* So has the server of the clients it has not accepted, and of the one it *)
(* shakes hands with.                                                      *)
ServerHolds ==
  /\ \A c \in queued :
       /\ AtServer(c) \in reads /\ AtServer(c) \in writes
       /\ rec[AtServer(c)] = "none" /\ play[AtServer(c)] = "none"
  /\ spc \in Shaking =>
       /\ current \notin queued
       /\ AtServer(current) \in writes /\ rec[AtServer(current)] = "none"
       /\ spc # "startRecord" =>
            AtServer(current) \in reads /\ play[AtServer(current)] = "none"
       /\ spc = "startRecord" /\ play[AtServer(current)] \notin Settled
            => Plays(AtServer(current))

(* A task is joined when it has come to its end; only a process that fails *)
(* cancels one.                                                            *)
Joined ==
  \A c \in Clients :
    /\ "cancelled" \in {rec[AtClient(c)], play[AtClient(c)]} =>
         cpc[c] = "failed"
    /\ cpc[c] \in {"joinPlayback", "returning", "done"} =>
         rec[AtClient(c)] \in Settled
    /\ cpc[c] \in {"returning", "done"} => play[AtClient(c)] \in Settled

Owned ==
  /\ DOMAIN seen = Ends
  /\ TasksOwnTheirHalf /\ ClientHolds /\ ServerHolds /\ Joined

LEMMA UntouchedOwned ==
  ASSUME Owned, UNCHANGED <<args, cpc, spc, current, queued, socket, tasks>>
  PROVE  Owned'
BY DEF args, socket, tasks, Owned, TasksOwnTheirHalf, ClientHolds, ServerHolds,
   Plays, TypeAt, PeerTypeAt, Joined

-----------------------------------------------------------------------------
(* Steps of main of a client.                                              *)

LEMMA ClientExitsOwned ==
  ASSUME Shape, Fresh, Owned, NEW c \in Clients, NEW how \in {"failed", "done"},
         ClientExits(c, how), how = "failed" \/ cpc[c] = "returning"
  PROVE  Owned'
<1> USE EndFacts
        DEF ClientExits, ExitAt, Cancelled, Ended, Settled, Shape, Owned
<1>1. TasksOwnTheirHalf'
  BY DEF TasksOwnTheirHalf
<1>2. ClientHolds'
  BY DEF ClientHolds, BeforeRecord, BeforePlayback
<1>3. ServerHolds'
  BY DEF ServerHolds, Fresh, Shaking, Plays, TypeAt, PeerTypeAt, args
<1>4. Joined'
  BY DEF Joined
<1>5. QED
  BY <1>1, <1>2, <1>3, <1>4

LEMMA RunReturnsOwned ==
  ASSUME Shape, Fresh, Owned, NEW c \in Clients,
         NEW how \in {"failing", "returning"}, RunReturns(c, how), ~ Exited(c),
         how = "returning" =>
           cpc[c] = "joinPlayback" /\ play[AtClient(c)] \in Settled
  PROVE  Owned'
<1> USE EndFacts DEF RunReturns, tasks, args, Ended, Settled, Shape, Owned
<1>1. TasksOwnTheirHalf'
  BY DEF TasksOwnTheirHalf
<1>2. ClientHolds'
  BY DEF ClientHolds, BeforeRecord, BeforePlayback
<1>3. ServerHolds'
  BY DEF ServerHolds, Fresh, Shaking, Plays, TypeAt, PeerTypeAt
<1>4. Joined'
  BY DEF Joined, Exited
<1>5. QED
  BY <1>1, <1>2, <1>3, <1>4

(* What the server has read in a handshake it keeps.                       *)
ServerKeepsSeen ==
  /\ DOMAIN seen' = Ends
  /\ \A d \in Clients : seen'[AtServer(d)] = seen[AtServer(d)]

(* Main goes on: no half is dropped and no task starts.                    *)
LEMMA GotoOwned ==
  ASSUME Shape, Fresh, Owned, NEW c \in Clients, NEW pc, ~ Exited(c),
         cpc' = [cpc EXCEPT ![c] = pc],
         pc \in BeforePlayback => cpc[c] \in BeforePlayback,
         pc \in BeforeRecord => cpc[c] \in BeforeRecord,
         pc \notin {"returning", "done"},
         pc = "joinPlayback" => rec[AtClient(c)] \in Settled,
         UNCHANGED <<args, spc, current, queued, reads, writes, tasks>>,
         ServerKeepsSeen
  PROVE  Owned'
<1> USE EndFacts DEF tasks, args, Shape, Owned, ServerKeepsSeen
<1>1. TasksOwnTheirHalf'
  BY DEF TasksOwnTheirHalf
<1>2. ClientHolds'
  BY DEF ClientHolds
<1>3. ServerHolds'
  BY DEF ServerHolds, Fresh, Shaking, Plays, TypeAt, PeerTypeAt, AtServer
<1>4. Joined'
  BY DEF Joined, Exited
<1>5. QED
  BY <1>1, <1>2, <1>3, <1>4

LEMMA ConnectOwned ==
  ASSUME Shape, Fresh, Owned, NEW c \in Clients, Connect(c)
  PROVE  Owned'
<1> USE EndFacts DEF Connect, Goto, tasks, args, Shape, Owned
<1>1. TasksOwnTheirHalf'
  BY DEF TasksOwnTheirHalf
<1>2. ClientHolds'
  BY DEF ClientHolds, BeforeRecord, BeforePlayback, Fresh, Unknown
<1>3. ServerHolds'
  BY DEF ServerHolds, Fresh, Unknown, Shaking, Plays, TypeAt, PeerTypeAt
<1>4. Joined'
  BY DEF Joined
<1>5. QED
  BY <1>1, <1>2, <1>3, <1>4

(* A task of the client starts with the half main has held for it.         *)
LEMMA StartOwned ==
  ASSUME Shape, Fresh, Owned, NEW c \in Clients,
         (StartRecord(c) \/ StartPlayback(c)) /\ ~ ClientFails(c)
  PROVE  Owned'
<1> USE EndFacts
        DEF StartRecord, StartPlayback, Goto, socket, args, Shape, Owned
<1>1. TasksOwnTheirHalf'
  BY DEF TasksOwnTheirHalf, ClientHolds, BeforeRecord, BeforePlayback
<1>2. ClientHolds'
  BY DEF ClientHolds, BeforeRecord, BeforePlayback
<1>3. ServerHolds'
  BY DEF ServerHolds, Fresh, Shaking, Plays, TypeAt, PeerTypeAt
<1>4. Joined'
  BY DEF Joined
<1>5. QED
  BY <1>1, <1>2, <1>3, <1>4

LEMMA ClientOwned ==
  ASSUME Shape, Fresh, Owned, NEW c \in Clients, Client(c)
  PROVE  Owned'
<1>1. CASE ClientDies(c)
  BY <1>1, ClientExitsOwned DEF ClientDies
<1>2. CASE ClientFails(c) /\ ~ Exited(c)
  BY <1>2, RunReturnsOwned DEF ClientFails
<1>3. CASE Terminate(c)
  BY <1>3, ClientExitsOwned DEF Terminate
<1>4. CASE JoinPlayback(c)
  BY <1>4, RunReturnsOwned DEF JoinPlayback, ClientReturns, Exited
<1>5. CASE Connect(c)
  BY <1>5, ConnectOwned
<1>6. CASE (StartRecord(c) \/ StartPlayback(c)) /\ ~ ClientFails(c)
  BY <1>6, StartOwned
<1>7. CASE CheckAudio(c) /\ ~ ClientDies(c)
  <2>1. UNCHANGED <<args, spc, current, queued, reads, writes, tasks, seen>>
    BY <1>7 DEF CheckAudio, socket
  <2>2. ServerKeepsSeen
    BY <2>1 DEF ServerKeepsSeen, Owned
  <2>3. QED
    BY <1>7, <2>1, <2>2, GotoOwned
       DEF CheckAudio, Goto, Exited, BeforePlayback, BeforeRecord
<1>8. CASE ConnectFails(c) /\ ~ ClientFails(c)
  <2>1. UNCHANGED <<args, cpc, spc, current, queued, socket, tasks>>
    BY <1>8 DEF ConnectFails
  <2>2. QED
    BY <2>1, UntouchedOwned
<1>9. CASE WriteFlags(c) /\ ~ ClientFails(c)
  <2>1. UNCHANGED <<args, spc, current, queued, reads, writes, tasks, seen>>
    BY <1>9 DEF WriteFlags
  <2>2. ServerKeepsSeen
    BY <2>1 DEF ServerKeepsSeen, Owned
  <2>3. QED
    BY <1>9, <2>1, <2>2, GotoOwned
       DEF WriteFlags, Goto, Exited, BeforePlayback, BeforeRecord
<1>10. CASE ReadType(c) /\ ~ ClientFails(c)
  <2>1. /\ cpc[c] = "readType" /\ cpc' = [cpc EXCEPT ![c] = "startRecord"]
        /\ UNCHANGED <<args, spc, current, queued, reads, writes, tasks>>
    BY <1>10 DEF ReadType, Goto
  <2>2. ServerKeepsSeen
    <3>1. \E b : seen' = [seen EXCEPT ![AtClient(c)] = b]
      BY <1>10 DEF ReadType
    <3>2. QED
      BY <3>1, EndFacts DEF ServerKeepsSeen, Owned
  <2>3. QED
    BY <2>1, <2>2, GotoOwned DEF Exited, BeforePlayback, BeforeRecord
<1>11. CASE JoinRecord(c)
  <2>1. UNCHANGED <<args, spc, current, queued, reads, writes, tasks, seen>>
    BY <1>11 DEF JoinRecord, socket
  <2>2. ServerKeepsSeen
    BY <2>1 DEF ServerKeepsSeen, Owned
  <2>3. QED
    BY <1>11, <2>1, <2>2, GotoOwned
       DEF JoinRecord, Goto, Exited, BeforePlayback, BeforeRecord
<1>12. ~ Exited(c)
  BY DEF Client, CheckAudio, Terminate, Connect, ConnectFails, WriteFlags,
     ReadType, StartRecord, StartPlayback, JoinRecord, JoinPlayback, Exited
<1>13. QED
  BY <1>1, <1>2, <1>3, <1>4, <1>5, <1>6, <1>7, <1>8, <1>9, <1>10, <1>11, <1>12
     DEF Client

-----------------------------------------------------------------------------
(* Steps of main of the server.                                            *)

LEMMA ServerStopsOwned ==
  ASSUME Shape, Owned, ServerStops
  PROVE  Owned'
<1> USE EndFacts DEF ServerStops, tasks, args, Shape, Owned
<1>1. TasksOwnTheirHalf'
  BY DEF TasksOwnTheirHalf, ServerHolds
<1>2. ClientHolds' /\ ServerHolds' /\ Joined'
  BY DEF ClientHolds, ServerHolds, Shaking, Joined
<1>3. QED
  BY <1>1, <1>2

LEMMA ServerExitsOwned ==
  ASSUME Shape, Owned, ServerExits
  PROVE  Owned'
<1> USE EndFacts DEF ServerExits, ExitAt, ServerEnds, Cancelled, Ended, Settled,
        Shape, Owned
<1>1. TasksOwnTheirHalf'
  BY DEF TasksOwnTheirHalf
<1>2. ClientHolds'
  BY DEF ClientHolds
<1>3. ServerHolds'
  BY DEF ServerHolds, Shaking
<1>4. Joined'
  BY DEF Joined
<1>5. QED
  BY <1>1, <1>2, <1>3, <1>4

(* handle_client keeps the half of a task that runs.                       *)
LEMMA ReturnFromOwned ==
  ASSUME Shape, Fresh, Owned, spc \in Shaking,
         NEW r \in BOOLEAN, NEW w \in BOOLEAN,
         ReturnFrom(AtServer(current), r, w), UNCHANGED <<pipe, seen, play>>,
         \/ rec' = rec
         \/ w /\ rec' = [rec EXCEPT ![AtServer(current)] = "check"],
         play[AtServer(current)] \in Settled \/ r
  PROVE  Owned'
<1> USE EndFacts DEF ReturnFrom, args, Shape, Owned, Ended, Settled
<1>1. current \in Clients /\ AtServer(current) \in writes
  BY DEF Fresh, ServerHolds
<1>2. TasksOwnTheirHalf'
  BY <1>1 DEF TasksOwnTheirHalf, ServerHolds
<1>3. ClientHolds'
  BY <1>1 DEF ClientHolds
<1>4. ServerHolds'
  BY <1>1 DEF ServerHolds, Shaking
<1>5. Joined'
  BY <1>1 DEF Joined
<1>6. QED
  BY <1>2, <1>3, <1>4, <1>5

LEMMA HandshakeOwned ==
  ASSUME Shape, Fresh, Owned,
         \/ WriteType \/ ReadFlags \/ ServerStartPlayback \/ ServerStartRecord
  PROVE  Owned'
<1> DEFINE e == AtServer(current)
<1>1. spc \in Shaking /\ current \in Clients /\ e \in Ends
  BY EndFacts DEF WriteType, ReadFlags, ServerStartPlayback,
     ServerStartRecord, Fresh, Shaking
<1>2. ASSUME NEW r \in BOOLEAN, ReturnFrom(e, r, FALSE),
             UNCHANGED <<pipe, seen, tasks>>, play[e] \in Settled \/ r
      PROVE  Owned'
  BY <1>1, <1>2, ReturnFromOwned DEF tasks
<1>3. CASE (WriteType \/ ReadFlags) /\ spc' \in {"readFlags", "startPlayback"}
  <2>1. /\ spc \in {"writeType", "readFlags"}
        /\ UNCHANGED <<stype, cpc, current, queued, reads, writes, rec, play>>
        /\ DOMAIN seen' = Ends
    BY <1>3 DEF WriteType, ReadFlags, ReturnFrom, args, tasks, Owned
  <2>2. ServerHolds'
    BY <1>3, <2>1 DEF Owned, ServerHolds, Shaking
  <2>3. QED
    BY <2>1, <2>2 DEF Owned, TasksOwnTheirHalf, ClientHolds, Joined
<1>4. CASE ServerStartPlayback /\ spc' = "startRecord"
  <2>1. /\ spc = "startPlayback"
        /\ UNCHANGED <<stype, seen, cpc, current, queued, reads, writes, rec>>
        /\ play' = [play EXCEPT ![e] = IF Plays(e) THEN "check" ELSE "none"]
    BY <1>4 DEF ServerStartPlayback, ReturnFrom, args, socket
  <2>2. /\ e \in reads /\ e \in writes /\ current \notin queued
        /\ rec[e] = "none" /\ play[e] = "none"
    BY <2>1 DEF Owned, ServerHolds, Shaking
  <2>3. TasksOwnTheirHalf'
    BY <1>1, <2>1, <2>2 DEF Owned, TasksOwnTheirHalf, Shape
  <2>4. ClientHolds'
    BY <1>1, <2>1, EndFacts DEF Owned, ClientHolds, Shape
  <2>5. ServerHolds'
    <3>1. Plays(e)' = Plays(e)
      BY <1>1, <2>1 DEF Plays, TypeAt, PeerTypeAt, AtServer
    <3>2. \A c \in queued : AtServer(c) # e
      BY <1>1, <2>2, EndFacts DEF Shape
    <3>3. play[e]' \notin Settled => Plays(e)'
      BY <1>1, <2>1, <3>1 DEF Shape, Settled
    <3>4. QED
      BY <1>1, <1>4, <2>1, <2>2, <3>2, <3>3, EndFacts
         DEF Owned, ServerHolds, Shape
  <2>6. Joined'
    BY <1>1, <2>1, EndFacts DEF Owned, Joined, Shape, Settled, Ended
  <2>7. QED
    BY <2>1, <2>3, <2>4, <2>5, <2>6 DEF Owned
<1>5. CASE WriteType \/ ReadFlags \/ ServerStartPlayback
  <2>1. CASE ReturnFrom(e, FALSE, FALSE) /\ UNCHANGED <<pipe, seen, tasks>>
    <3>1. play[e] \in Settled
      BY <1>1, <1>5 DEF Owned, ServerHolds, WriteType, ReadFlags,
         ServerStartPlayback, Settled
    <3>2. QED
      BY <1>2, <2>1, <3>1
  <2>2. QED
    BY <1>3, <1>4, <1>5, <2>1 DEF WriteType, ReadFlags, ServerStartPlayback
<1>6. CASE ServerStartRecord
  <2>1. Plays(e) \in BOOLEAN /\ Records(e) \in BOOLEAN
    BY DEF Plays, Records
  <2>2. play[e] \in Settled \/ Plays(e)
    BY <1>6 DEF ServerStartRecord, Owned, ServerHolds, Shaking
  <2>3. CASE ReturnFrom(e, Plays(e), FALSE) /\ UNCHANGED <<pipe, seen, tasks>>
    BY <1>2, <2>1, <2>2, <2>3
  <2>4. CASE /\ rec' = [rec EXCEPT ![e] = IF Records(e) THEN "check" ELSE "none"]
             /\ ReturnFrom(e, Plays(e), Records(e))
             /\ UNCHANGED <<pipe, seen, play>>
    <3>1. \/ rec' = rec
          \/ Records(e) /\ rec' = [rec EXCEPT ![e] = "check"]
      BY <1>1, <1>6, <2>4
         DEF ServerStartRecord, Owned, ServerHolds, Shaking, Shape
    <3>2. QED
      BY <1>1, <2>1, <2>2, <2>4, <3>1, ReturnFromOwned
  <2>5. QED
    BY <1>6, <2>3, <2>4 DEF ServerStartRecord
<1>7. QED
  BY <1>5, <1>6

LEMMA ServerOwned ==
  ASSUME Shape, Fresh, Owned, Server
  PROVE  Owned'
<1>1. CASE ServerStops
  BY <1>1, ServerStopsOwned
<1>2. CASE (ServerCheckAudio \/ Bind \/ CheckTerm \/ AcceptTimeout) /\ ~ ServerStops
  <2>1. /\ spc' \notin Shaking
        /\ UNCHANGED <<args, cpc, current, queued, reads, writes, seen, tasks>>
    BY <1>2 DEF ServerCheckAudio, Bind, CheckTerm, AcceptTimeout, socket,
       Shaking
  <2>2. QED
    BY <2>1 DEF tasks, args, Owned, TasksOwnTheirHalf, ClientHolds,
       ServerHolds, Joined
<1>3. CASE Accept
  <2>1. /\ spc' = "writeType"
        /\ \E c \in queued : current' = c /\ queued' = queued \ {c}
        /\ UNCHANGED <<args, cpc, reads, writes, seen, tasks>>
    BY <1>3 DEF Accept, socket
  <2>2. ServerHolds'
    BY <2>1 DEF tasks, Owned, ServerHolds, Shaking
  <2>3. QED
    BY <2>1, <2>2 DEF tasks, Owned, TasksOwnTheirHalf, ClientHolds, Joined
<1>4. CASE ServerTerminate
  BY <1>4, ServerExitsOwned DEF ServerTerminate
<1>5. CASE WriteType \/ ReadFlags \/ ServerStartPlayback \/ ServerStartRecord
  BY <1>5, HandshakeOwned
<1>6. QED
  BY <1>1, <1>2, <1>3, <1>4, <1>5 DEF Server, AcceptFails

-----------------------------------------------------------------------------
(* Steps of the tasks.                                                     *)

LEMMA RecordOwned ==
  ASSUME Shape, Fresh, Owned, NEW e \in Ends, Record(e)
  PROVE  Owned'
<1>1. /\ rec[e] \notin Settled
      /\ \E to \in {"check", "peek", "write", "stop", "stopped", "leaked"} :
           /\ rec' = [rec EXCEPT ![e] = to]
           /\ to \in {"check", "peek", "write"} =>
                writes' = writes /\ rec[e] \in {"check", "peek", "write"}
           /\ writes' \in {writes, writes \ {e}}
      /\ UNCHANGED <<args, mains, reads, seen, play>>
  BY DEF Record, RecordCheck, RecordPeekFull, RecordPeekEmpty, RecordWrite,
     RecordWriteFails, RecordEncodeFails, RecordStop, RecordReturns, RecordAt,
     Settled, Ended, socket
<1> USE <1>1, EndFacts DEF mains, args, Shape, Owned
<1>2. TasksOwnTheirHalf'
  BY DEF TasksOwnTheirHalf
<1>3. ClientHolds'
  BY DEF ClientHolds, Fresh, BeforeRecord, Settled
<1>4. ServerHolds'
  BY DEF ServerHolds, Fresh, Shaking, Settled, Plays, TypeAt, PeerTypeAt
<1>5. Joined'
  BY DEF Joined, Settled, Ended
<1>6. QED
  BY <1>2, <1>3, <1>4, <1>5

LEMMA PlayOwned ==
  ASSUME Shape, Fresh, Owned, NEW e \in Ends, Play(e)
  PROVE  Owned'
<1>1. /\ play[e] \notin Settled
      /\ \E to \in {"check", "peek", "read", "stop", "stopped", "leaked"} :
           /\ play' = [play EXCEPT ![e] = to]
           /\ to \in {"check", "peek", "read"} =>
                reads' = reads /\ play[e] \in {"check", "peek", "read"}
           /\ reads' \in {reads, reads \ {e}}
      /\ UNCHANGED <<args, mains, writes, seen, rec>>
  BY DEF Play, PlayCheck, PlayPeekRoom, PlayPeekFull, PlayRead, PlayReadFails,
     PlayDecodeFails, PlayStop, PlayReturns, PlayAt, Settled, Ended, socket
<1> USE <1>1, EndFacts DEF mains, args, Shape, Owned
<1>2. TasksOwnTheirHalf'
  BY DEF TasksOwnTheirHalf
<1>3. ClientHolds'
  BY DEF ClientHolds, BeforePlayback, BeforeRecord, Settled
<1>4. ServerHolds'
  BY DEF ServerHolds, Fresh, Shaking, Settled, Plays, TypeAt, PeerTypeAt
<1>5. Joined'
  BY DEF Joined, Settled, Ended
<1>6. QED
  BY <1>2, <1>3, <1>4, <1>5

LEMMA WorldOwned ==
  ASSUME Shape, Fresh, Owned, World
  PROVE  Owned'
<1>1. ASSUME NEW c \in Clients, CrashClient(c)
      PROVE  Owned'
  BY <1>1, ClientExitsOwned DEF CrashClient, ClientDies
<1>2. CASE CrashServer
  BY <1>2, ServerExitsOwned DEF CrashServer
<1>3. CASE UNCHANGED <<args, mains, socket, tasks>>
  BY <1>3, UntouchedOwned DEF mains
<1>4. QED
  BY <1>1, <1>2, <1>3 DEF World, SignalClient, SignalServer, DeviceDies

-----------------------------------------------------------------------------

OwnedIInv == IInv /\ Owned

LEMMA OwnedInitially == Init => OwnedIInv
BY Initially, NoClientAssumption, EndFacts
   DEF Init, OwnedIInv, Owned, TasksOwnTheirHalf, ClientHolds, BeforeRecord,
   BeforePlayback, ServerHolds, Shaking, Joined, Settled

LEMMA OwnedStepKeeps == OwnedIInv /\ [Next]_vars => OwnedIInv'
<1> SUFFICES ASSUME OwnedIInv, [Next]_vars PROVE Owned'
  BY StepKeeps DEF OwnedIInv
<1>1. Shape /\ Fresh /\ Owned
  BY DEF OwnedIInv, IInv
<1>2. CASE UNCHANGED vars
  BY <1>1, <1>2, UntouchedOwned DEF vars, mains
<1>3. CASE Next
  BY <1>1, <1>3, ClientOwned, ServerOwned, RecordOwned, PlayOwned, WorldOwned
     DEF Next
<1>4. QED
  BY <1>2, <1>3

(* However many clients there are and whatever fails, the half of a socket *)
(* that a running task reads from or writes to is open: whoever lets go of *)
(* halves, a client that fails, a server that returns from a handshake or  *)
(* stops to listen, lets go of no half that a task still uses              *)
(* (client.rs:77-90, server.rs:116-136, handlers.rs:63-70, 85-91).        *)
THEOREM RunningTasksOwnTheirHalf == Spec => []TasksOwnTheirHalf
<1>1. OwnedIInv => TasksOwnTheirHalf
  BY DEF OwnedIInv, Owned
<1>2. QED
  BY OwnedInitially, OwnedStepKeeps, <1>1, PTL DEF Spec

(* A client that comes to the end of run has joined both its tasks: none   *)
(* of its streams runs on, and none is dropped with the process            *)
(* (client.rs:43-44, 103-106).                                             *)
THEOREM ClientsLeaveNothingRunning == Spec => []NothingLeftRunning
<1>1. OwnedIInv => NothingLeftRunning
  BY EndFacts DEF OwnedIInv, Owned, Joined, NothingLeftRunning, Settled, Ended
<1>2. QED
  BY OwnedInitially, OwnedStepKeeps, <1>1, PTL DEF Spec
=============================================================================
