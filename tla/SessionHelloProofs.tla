------------------------- MODULE SessionHelloProofs -------------------------
(***************************************************************************)
(* The connection carries one byte and then frames, in both directions,    *)
(* for every number of clients, all stream types and codecs, whatever      *)
(* fails: so the two ends agree on what they run, a playback task reads    *)
(* what it can decode, and the sessions are the links of AudioLinks.       *)
(***************************************************************************)
EXTENDS SessionProofs, SequenceTheorems

HelloOf(e) ==
  IF e[2] = "client" THEN NewStreamFlags(ctype[e[1]], opus[e[1]]) ELSE stype

(* An end has sent its byte: it is in the connection, or the peer has it.  *)
Spoken(e) == pipe[e] # <<>> \/ seen[Peer(e)] # NoByte

Started(e) ==
  rec[e] \in {"check", "peek", "write"} \/ play[e] \in {"check", "peek", "read"}

(* What an end has sent and its peer has not read: the byte, if the peer   *)
(* has not read that, and frames, if the end has read the byte of the peer.*)
Content(e) ==
  /\ seen[Peer(e)] # NoByte => seen[Peer(e)] = HelloOf(e)
  /\ seen[e] = NoByte =>
       \/ pipe[e] = <<>>
       \/ seen[Peer(e)] = NoByte /\ Len(pipe[e]) = 1
  /\ \A i \in 1 .. Len(pipe[e]) :
       pipe[e][i] = IF i = 1 /\ seen[Peer(e)] = NoByte THEN Hello(HelloOf(e))
                    ELSE Frame(OpusAt(e))

Contents == \A e \in Ends : Content(e)

Values ==
  /\ stype \in ServerTypes
  /\ ctype \in [Clients -> ClientTypes] /\ opus \in [Clients -> Codecs]
  /\ pipe \in [Ends -> Seq({"hello", "frame"} \X (Bytes \cup BOOLEAN))]
  /\ seen \in [Ends -> Bytes \cup {NoByte}]

(* How far each client is in the handshake.                                *)
Unspoken == {"checkAudio", "connect", "writeFlags"}
Starting == {"startRecord", "startPlayback"}

ClientSpeech ==
  \A c \in Clients :
    /\ cpc[c] \in Unspoken => ~ Spoken(AtClient(c))
    /\ cpc[c] \in Starting \cup {"readType"} => Spoken(AtClient(c))
    /\ cpc[c] \in Unspoken \cup {"readType"} => seen[AtClient(c)] = NoByte
    /\ cpc[c] \in Starting => seen[AtClient(c)] # NoByte

(* And the server, with the client it shakes hands with.                   *)
Unheard(c) == Unknown(c) \/ c \in queued

ServerSpeech ==
  /\ \A c \in Clients : Unheard(c) =>
       ~ Spoken(AtServer(c)) /\ seen[AtServer(c)] = NoByte
  /\ spc \in Shaking =>
       /\ ~ Unheard(current)
       /\ Spoken(AtServer(current)) <=> spc # "writeType"
       /\ seen[AtServer(current)] = NoByte <=> spc \in {"writeType", "readFlags"}

(* A task runs at an end that is done with the handshake.                  *)
TaskSpeech ==
  \A e \in Ends : Started(e) => seen[e] # NoByte /\ Spoken(e)

Speech == Values /\ Contents /\ ClientSpeech /\ ServerSpeech /\ TaskSpeech

-----------------------------------------------------------------------------

(* What the bits of the byte say, whatever the codec bit is.               *)
LEMMA FlagFacts ==
  ASSUME NEW type \in 0 .. 3, NEW b \in BOOLEAN
  PROVE  /\ NewStreamFlags(type, b) \in Bytes /\ type \in Bytes
         /\ IsSource(NewStreamFlags(type, b)) = IsSource(type)
         /\ IsSink(NewStreamFlags(type, b)) = IsSink(type)
         /\ OpusEnabled(NewStreamFlags(type, b)) = b
<1>1. 2 ^ 0 = 1 /\ 2 ^ 1 = 2 /\ 2 ^ 2 = 4
  OBVIOUS
<1>2. QED
  BY <1>1 DEF NewStreamFlags, IsSource, IsSink, OpusEnabled, HasBit, Bytes

LEMMA HelloIsByte ==
  ASSUME Values, NEW e \in Ends
  PROVE  HelloOf(e) \in Bytes /\ HelloOf(e) # NoByte
<1>1. stype \in 0 .. 3
  BY TypesAssumption DEF Values
<1>2. ctype[e[1]] \in 0 .. 3 /\ opus[e[1]] \in BOOLEAN
  BY TypesAssumption, CodecsAssumption DEF Values, Ends
<1>3. HelloOf(e) \in Bytes
  BY <1>1, <1>2, FlagFacts DEF HelloOf
<1>4. QED
  BY <1>3 DEF Bytes, NoByte

LEMMA CodecIsBoolean ==
  ASSUME Values, NEW e \in Ends
  PROVE  OpusAt(e) \in BOOLEAN
BY CodecsAssumption DEF Values, OpusAt, OpusEnabled, HasBit, Ends

LEMMA PeerFacts ==
  /\ \A e \in Ends : Peer(e) \in Ends /\ Peer(e) # e /\ Peer(Peer(e)) = e
  /\ \A c \in Clients : /\ Peer(AtClient(c)) = AtServer(c)
                        /\ Peer(AtServer(c)) = AtClient(c)
BY DEF Ends, Sides, AtClient, AtServer, Peer

(* The connections of another client do not matter.                        *)
LEMMA ContentStays ==
  ASSUME NEW e \in Ends, Content(e), UNCHANGED args,
         pipe'[e] = pipe[e], seen'[e] = seen[e], seen'[Peer(e)] = seen[Peer(e)]
  PROVE  Content(e)'
BY DEF Content, HelloOf, OpusAt, args

LEMMA Sends ==
  ASSUME Values, Contents, NEW e \in Ends, NEW item, Send(e, item),
         UNCHANGED <<args, seen>>,
         \/ item = Hello(HelloOf(e)) /\ ~ Spoken(e) /\ seen[e] = NoByte
         \/ item = Frame(OpusAt(e)) /\ Spoken(e) /\ seen[e] # NoByte
  PROVE  /\ Values' /\ Contents' /\ Spoken(e)'
         /\ \A d \in Ends \ {e} : Spoken(d)' = Spoken(d)
<1>1. item \in {"hello", "frame"} \X (Bytes \cup BOOLEAN)
  BY HelloIsByte, CodecIsBoolean DEF Hello, Frame
<1>2. Values'
  BY <1>1 DEF Values, Send, args
<1>3. /\ pipe'[e] = Append(pipe[e], item)
      /\ \A d \in Ends \ {e} : pipe'[d] = pipe[d]
  BY DEF Values, Send
<1>4. Len(pipe'[e]) = Len(pipe[e]) + 1 /\ Len(pipe[e]) \in Nat
  BY <1>1, <1>3 DEF Values
<1>5. \A i \in 1 .. Len(pipe'[e]) :
        pipe'[e][i] = IF i = Len(pipe[e]) + 1 THEN item ELSE pipe[e][i]
  BY <1>1, <1>3, <1>4 DEF Values
<1>6. Content(e)'
  <2>1. HelloOf(e)' = HelloOf(e) /\ OpusAt(e)' = OpusAt(e) /\ Content(e)
    BY DEF HelloOf, OpusAt, args, Contents
  <2>2. pipe[e] = <<>> <=> Len(pipe[e]) = 0
    BY DEF Values
  <2>3. QED
    BY <1>4, <1>5, <2>1, <2>2 DEF Content, Spoken
<1>7. Contents'
  BY <1>3, <1>6, ContentStays DEF Contents
<1>8. Spoken(e)' /\ \A d \in Ends \ {e} : Spoken(d)' = Spoken(d)
  <2>1. pipe'[e] # <<>>
    BY <1>2, <1>4, EmptySeq DEF Values
  <2>2. QED
    BY <1>3, <2>1 DEF Spoken
<1>9. QED
  BY <1>2, <1>7, <1>8

LEMMA Receives ==
  ASSUME Values, Contents, NEW e \in Ends, pipe[Peer(e)] # <<>>, Receive(e),
         UNCHANGED args,
         \/ /\ seen[e] = NoByte
            /\ seen' = [seen EXCEPT ![e] = Head(pipe[Peer(e)])[2]]
         \/ seen[e] # NoByte /\ seen' = seen
  PROVE  /\ Values' /\ Contents' /\ seen'[e] # NoByte
         /\ \A d \in Ends : Spoken(d)' = Spoken(d)
         /\ \A d \in Ends \ {e} : seen'[d] = seen[d]
<1> DEFINE p == Peer(e)
<1>1. p \in Ends /\ p # e /\ Peer(p) = e
  BY PeerFacts
<1>2. /\ pipe'[p] = Tail(pipe[p])
      /\ \A d \in Ends \ {p} : pipe'[d] = pipe[d]
      /\ \A d \in Ends \ {e} : seen'[d] = seen[d]
  BY <1>1 DEF Values, Receive
<1>3. /\ Len(pipe[p]) \in Nat \ {0} /\ Len(pipe'[p]) = Len(pipe[p]) - 1
      /\ \A i \in 1 .. Len(pipe'[p]) : pipe'[p][i] = pipe[p][i + 1]
      /\ Head(pipe[p]) = pipe[p][1]
  BY <1>1, <1>2 DEF Values
<1>4. Content(p) /\ Content(e)
  BY <1>1 DEF Contents
<1>5. seen'[e] = HelloOf(p)
  <2>1. CASE seen[e] # NoByte
    BY <1>1, <1>4, <2>1 DEF Content
  <2>2. CASE seen[e] = NoByte
    <3>1. Head(pipe[p]) = Hello(HelloOf(p))
      BY <1>1, <1>3, <1>4, <2>2 DEF Content
    <3>2. QED
      BY <2>2, <3>1 DEF Values, Hello
  <2>3. QED
    BY <2>1, <2>2
<1>6. seen'[e] \in Bytes /\ seen'[e] # NoByte
  BY <1>1, <1>5, HelloIsByte
<1>7. Values'
  <2>1. pipe'[p] \in Seq({"hello", "frame"} \X (Bytes \cup BOOLEAN))
    BY <1>1, <1>2 DEF Values
  <2>2. QED
    BY <1>6, <2>1 DEF Values, Receive, args
<1>8. Content(p)'
  <2>1. HelloOf(p)' = HelloOf(p) /\ OpusAt(p)' = OpusAt(p)
    BY <1>1, <1>2 DEF HelloOf, OpusAt, args
  <2>2. seen'[p] = NoByte => pipe'[p] = <<>>
    <3>1. SUFFICES ASSUME seen'[p] = NoByte
                   PROVE  Len(pipe'[p]) = 0
      BY <1>1, <1>7, EmptySeq DEF Values
    <3>2. seen[p] = NoByte
      BY <1>1, <1>2, <3>1
    <3>3. QED
      BY <1>1, <1>3, <1>4, <3>2 DEF Content
  <2>3. QED
    BY <1>1, <1>3, <1>4, <1>5, <1>6, <2>1, <2>2 DEF Content
<1>9. Content(e)'
  <2>1. CASE seen' = seen
    BY <1>1, <1>2, <1>4, <2>1, ContentStays
  <2>2. CASE seen[e] = NoByte
    BY <1>1, <1>2, <1>4, <1>6, <2>2 DEF Content, HelloOf, args
  <2>3. QED
    BY <2>1, <2>2
<1>10. Contents'
  <2>1. ASSUME NEW d \in Ends \ {e, p}
        PROVE  Content(d)'
    <3>1. Peer(d) \in Ends \ {e}
      BY PeerFacts, <2>1
    <3>2. QED
      BY <1>2, <2>1, <3>1, ContentStays DEF Contents
  <2>2. QED
    BY <1>8, <1>9, <2>1 DEF Contents
<1>11. ASSUME NEW d \in Ends
       PROVE  Spoken(d)' = Spoken(d)
  <2>1. CASE d = p
    BY <1>1, <1>6, <2>1 DEF Spoken
  <2>2. CASE d # p
    <3>1. Peer(d) \in Ends \ {e}
      BY PeerFacts, <2>2
    <3>2. QED
      BY <1>2, <2>2, <3>1 DEF Spoken
  <2>3. QED
    BY <2>1, <2>2
<1>12. QED
  BY <1>2, <1>6, <1>7, <1>10, <1>11

-----------------------------------------------------------------------------

(* A step that sends and receives nothing, and takes nobody back in the    *)
(* handshake.                                                              *)
Silent ==
  /\ UNCHANGED <<args, pipe, seen>>
  /\ \A c \in Clients :
       /\ cpc'[c] \in Unspoken => cpc[c] \in Unspoken
       /\ cpc'[c] = "readType" => cpc[c] = "readType"
       /\ cpc'[c] \in Starting => cpc[c] \in Starting
       /\ Unheard(c)' => Unheard(c)
  /\ spc' \in Shaking =>
       \/ spc' = "writeType" /\ current' \in queued /\ ~ Unheard(current)'
       \/ spc' = spc /\ current' = current
       \/ spc = "startPlayback" /\ spc' = "startRecord" /\ current' = current
  /\ \A e \in Ends :
       Started(e)' => Started(e) \/ (seen[e] # NoByte /\ Spoken(e))

LEMMA SilentSpeech ==
  ASSUME Shape, Fresh, Speech, Silent
  PROVE  Speech'
<1>1. Values' /\ \A e \in Ends : Content(e)' /\ Spoken(e)' = Spoken(e)
  BY PeerFacts, ContentStays DEF Speech, Silent, Values, Contents, Spoken, args
<1>2. ClientSpeech'
  BY <1>1, EndFacts DEF Speech, Silent, ClientSpeech
<1>3. ServerSpeech'
  <2>1. \A c \in Clients : Unheard(c)' =>
          ~ Spoken(AtServer(c))' /\ seen'[AtServer(c)] = NoByte
    BY <1>1, EndFacts DEF Speech, Silent, ServerSpeech
  <2>2. ASSUME spc' \in Shaking
        PROVE  /\ ~ Unheard(current)'
               /\ Spoken(AtServer(current))' <=> spc' # "writeType"
               /\ seen'[AtServer(current')] = NoByte <=>
                    spc' \in {"writeType", "readFlags"}
    <3>1. Spoken(AtServer(current))' = (Spoken(AtServer(current')))
      BY DEF Silent, Spoken
    <3>2. current' \in Clients /\ ~ Unheard(current)'
      <4>1. CASE current' = current /\ spc \in Shaking
        BY <4>1 DEF Shape, Fresh, Speech, Silent, ServerSpeech, Unheard, Unknown
      <4>2. QED
        BY <2>2, <4>1 DEF Shape, Silent, Shaking
    <3>3. QED
      BY <2>2, <3>1, <3>2 DEF Shape, Speech, Silent, ServerSpeech, Shaking, Unheard
  <2>3. QED
    BY <2>1, <2>2 DEF ServerSpeech
<1>4. TaskSpeech'
  BY <1>1 DEF Speech, Silent, TaskSpeech
<1>5. QED
  BY <1>1, <1>2, <1>3, <1>4 DEF Speech, Contents

(* A process that ends, or returns, is silent.                             *)
LEMMA ClientExitsSilent ==
  ASSUME Shape, NEW c \in Clients, NEW how \in {"failed", "done"},
         ClientExits(c, how)
  PROVE  Silent
BY DEF ClientExits, ExitAt, Cancelled, Settled, Ended, Shape, Silent, Started,
   Unspoken, Starting, Unheard, Unknown, args

LEMMA RunReturnsSilent ==
  ASSUME Shape, NEW c \in Clients, NEW how \in {"failing", "returning"},
         RunReturns(c, how)
  PROVE  Silent
BY DEF RunReturns, Shape, Silent, Started, Unspoken, Starting, Unheard,
   Unknown, args, tasks

LEMMA ServerStopsSilent ==
  ASSUME Shape, ServerStops
  PROVE  Silent
BY DEF ServerStops, Shape, Silent, Started, Shaking, Unheard, Unknown, args,
   tasks

LEMMA ServerExitsSilent ==
  ASSUME Shape, ServerExits
  PROVE  Silent
BY DEF ServerExits, ExitAt, Cancelled, Settled, Ended, Shape, Silent, Started,
   Shaking, Unheard, Unknown, args

LEMMA ReturnFromSilent ==
  ASSUME Shape, Speech, NEW e, NEW r \in BOOLEAN, NEW w \in BOOLEAN,
         ReturnFrom(e, r, w), UNCHANGED <<pipe, seen, play>>,
         \A d \in Ends : rec'[d] = rec[d] \/ (seen[d] # NoByte /\ Spoken(d))
  PROVE  Silent
BY DEF ReturnFrom, Shape, Silent, Started, Shaking, Unheard, Unknown, args

-----------------------------------------------------------------------------
(* The steps of the handshake.                                             *)

LEMMA WriteFlagsSpeech ==
  ASSUME Shape, Fresh, Speech, NEW c \in Clients, WriteFlags(c), ~ ClientFails(c)
  PROVE  Speech'
<1> DEFINE e == AtClient(c)
<1>1. /\ cpc[c] = "writeFlags" /\ cpc' = [cpc EXCEPT ![c] = "readType"]
      /\ Send(e, Hello(HelloOf(e)))
      /\ UNCHANGED <<args, spc, current, queued, seen, rec, play>>
  BY DEF WriteFlags, Goto, HelloOf, AtClient, tasks
<1>2. e \in Ends /\ ~ Spoken(e) /\ seen[e] = NoByte
  BY <1>1, EndFacts DEF Speech, ClientSpeech, Unspoken
<1>3. /\ Values' /\ Contents' /\ Spoken(e)'
      /\ \A d \in Ends \ {e} : Spoken(d)' = Spoken(d)
  BY <1>1, <1>2, Sends DEF Speech
<1>4. ClientSpeech'
  BY <1>1, <1>2, <1>3, EndFacts
     DEF Shape, Speech, ClientSpeech, Unspoken, Starting
<1>5. ServerSpeech'
  <2>1. \A d \in Clients : Spoken(AtServer(d))' = Spoken(AtServer(d))
    BY <1>3, EndFacts
  <2>2. \A d \in Clients : Unheard(d)' <=> Unheard(d)
    BY <1>1 DEF Unheard, Unknown, Shape
  <2>3. QED
    BY <1>1, <2>1, <2>2 DEF Fresh, Speech, ServerSpeech
<1>6. TaskSpeech'
  BY <1>1, <1>2, <1>3 DEF Speech, TaskSpeech, Started
<1>7. QED
  BY <1>3, <1>4, <1>5, <1>6 DEF Speech

LEMMA ReadTypeSpeech ==
  ASSUME Shape, Fresh, Speech, NEW c \in Clients, ReadType(c), ~ ClientFails(c)
  PROVE  Speech'
<1> DEFINE e == AtClient(c)
<1>1. /\ cpc[c] = "readType" /\ cpc' = [cpc EXCEPT ![c] = "startRecord"]
      /\ pipe[Peer(e)] # <<>> /\ Receive(e)
      /\ seen' = [seen EXCEPT ![e] = Head(pipe[Peer(e)])[2]]
      /\ UNCHANGED <<args, spc, current, queued, rec, play>>
  BY DEF ReadType, Goto, tasks
<1>2. e \in Ends /\ Spoken(e) /\ seen[e] = NoByte
  BY <1>1, EndFacts DEF Speech, ClientSpeech
<1>3. /\ Values' /\ Contents' /\ seen'[e] # NoByte
      /\ \A d \in Ends : Spoken(d)' = Spoken(d)
      /\ \A d \in Ends \ {e} : seen'[d] = seen[d]
  BY <1>1, <1>2, Receives DEF Speech
<1>4. ClientSpeech'
  BY <1>1, <1>2, <1>3, EndFacts
     DEF Shape, Speech, ClientSpeech, Unspoken, Starting
<1>5. ServerSpeech'
  <2>1. \A d \in Clients : /\ Spoken(AtServer(d))' = Spoken(AtServer(d))
                           /\ seen'[AtServer(d)] = seen[AtServer(d)]
    BY <1>3, EndFacts
  <2>2. \A d \in Clients : Unheard(d)' <=> Unheard(d)
    BY <1>1 DEF Unheard, Unknown, Shape
  <2>3. QED
    BY <1>1, <2>1, <2>2 DEF Fresh, Speech, ServerSpeech
<1>6. TaskSpeech'
  BY <1>1, <1>2, <1>3 DEF Speech, TaskSpeech, Started
<1>7. QED
  BY <1>3, <1>4, <1>5, <1>6 DEF Speech

LEMMA WriteTypeSpeech ==
  ASSUME Shape, Fresh, Speech, WriteType, spc' = "readFlags"
  PROVE  Speech'
<1> DEFINE e == AtServer(current)
<1>1. /\ spc = "writeType" /\ Send(e, Hello(HelloOf(e)))
      /\ UNCHANGED <<args, cpc, current, queued, seen, rec, play>>
  BY DEF WriteType, ReturnFrom, HelloOf, AtServer, tasks
<1>2. /\ current \in Clients /\ e \in Ends /\ ~ Spoken(e) /\ seen[e] = NoByte
      /\ ~ Unheard(current)
  BY <1>1, EndFacts DEF Fresh, Speech, ServerSpeech, Shaking
<1>3. /\ Values' /\ Contents' /\ Spoken(e)'
      /\ \A d \in Ends \ {e} : Spoken(d)' = Spoken(d)
  BY <1>1, <1>2, Sends DEF Speech
<1>4. ClientSpeech'
  <2>1. \A d \in Clients : Spoken(AtClient(d))' = Spoken(AtClient(d))
    BY <1>2, <1>3, EndFacts
  <2>2. QED
    BY <1>1, <2>1 DEF Speech, ClientSpeech
<1>5. ServerSpeech'
  <2>1. \A d \in Clients : Unheard(d)' <=> Unheard(d)
    BY <1>1 DEF Unheard, Unknown
  <2>2. Spoken(AtServer(current))' = Spoken(e)'
    BY <1>1
  <2>3. QED
    BY <1>1, <1>2, <1>3, <2>1, <2>2, EndFacts DEF Speech, ServerSpeech
<1>6. TaskSpeech'
  BY <1>1, <1>2, <1>3 DEF Speech, TaskSpeech, Started
<1>7. QED
  BY <1>3, <1>4, <1>5, <1>6 DEF Speech

LEMMA ReadFlagsSpeech ==
  ASSUME Shape, Fresh, Speech, ReadFlags, spc' = "startPlayback"
  PROVE  Speech'
<1> DEFINE e == AtServer(current)
<1>1. /\ spc = "readFlags" /\ pipe[Peer(e)] # <<>> /\ Receive(e)
      /\ seen' = [seen EXCEPT ![e] = Head(pipe[Peer(e)])[2]]
      /\ UNCHANGED <<args, cpc, current, queued, rec, play>>
  BY DEF ReadFlags, ReturnFrom, tasks
<1>2. /\ current \in Clients /\ e \in Ends /\ Spoken(e) /\ seen[e] = NoByte
      /\ ~ Unheard(current)
  BY <1>1, EndFacts DEF Fresh, Speech, ServerSpeech, Shaking
<1>3. /\ Values' /\ Contents' /\ seen'[e] # NoByte
      /\ \A d \in Ends : Spoken(d)' = Spoken(d)
      /\ \A d \in Ends \ {e} : seen'[d] = seen[d]
  BY <1>1, <1>2, Receives DEF Speech
<1>4. ClientSpeech'
  <2>1. \A d \in Clients : /\ Spoken(AtClient(d))' = Spoken(AtClient(d))
                           /\ seen'[AtClient(d)] = seen[AtClient(d)]
    BY <1>2, <1>3, EndFacts
  <2>2. QED
    BY <1>1, <2>1 DEF Speech, ClientSpeech
<1>5. ServerSpeech'
  <2>1. \A d \in Clients : Unheard(d)' <=> Unheard(d)
    BY <1>1 DEF Unheard, Unknown
  <2>2. Spoken(AtServer(current))' = Spoken(e)'
    BY <1>1
  <2>3. QED
    BY <1>1, <1>2, <1>3, <2>1, <2>2, EndFacts DEF Speech, ServerSpeech
<1>6. TaskSpeech'
  BY <1>1, <1>2, <1>3 DEF Speech, TaskSpeech, Started
<1>7. QED
  BY <1>3, <1>4, <1>5, <1>6 DEF Speech

-----------------------------------------------------------------------------
(* The steps that send and receive frames.                                 *)

LEMMA RecordWriteSpeech ==
  ASSUME Shape, Fresh, Speech, NEW e \in Ends, RecordWrite(e)
  PROVE  Speech'
<1>1. /\ rec[e] = "write" /\ rec' = [rec EXCEPT ![e] = "peek"]
      /\ Send(e, Frame(OpusAt(e)))
      /\ UNCHANGED <<args, cpc, spc, current, queued, seen, play>>
  BY DEF RecordWrite, RecordAt, mains
<1>2. Spoken(e) /\ seen[e] # NoByte
  BY <1>1 DEF Speech, TaskSpeech, Started
<1>3. Values' /\ Contents' /\ \A d \in Ends : Spoken(d)' <=> Spoken(d)
  BY <1>1, <1>2, Sends DEF Speech
<1>4. ClientSpeech' /\ ServerSpeech'
  <2>1. \A d \in Clients : Unheard(d)' <=> Unheard(d)
    BY <1>1 DEF Unheard, Unknown
  <2>2. QED
    BY <1>1, <1>3, <2>1, EndFacts
       DEF Fresh, Speech, ClientSpeech, ServerSpeech
<1>5. TaskSpeech'
  BY <1>1, <1>2, <1>3 DEF Shape, Speech, TaskSpeech, Started
<1>6. QED
  BY <1>3, <1>4, <1>5 DEF Speech

LEMMA PlayReadSpeech ==
  ASSUME Shape, Fresh, Speech, NEW e \in Ends, PlayRead(e)
  PROVE  Speech'
<1>1. /\ play[e] = "read" /\ play' = [play EXCEPT ![e] = "check"]
      /\ pipe[Peer(e)] # <<>> /\ Receive(e)
      /\ UNCHANGED <<args, cpc, spc, current, queued, seen, rec>>
  BY DEF PlayRead, PlayAt, mains
<1>2. Spoken(e) /\ seen[e] # NoByte
  BY <1>1 DEF Speech, TaskSpeech, Started
<1>3. Values' /\ Contents' /\ \A d \in Ends : Spoken(d)' = Spoken(d)
  BY <1>1, <1>2, Receives DEF Speech
<1>4. ClientSpeech' /\ ServerSpeech'
  <2>1. \A d \in Clients : Unheard(d)' <=> Unheard(d)
    BY <1>1 DEF Unheard, Unknown
  <2>2. QED
    BY <1>1, <1>3, <2>1, EndFacts
       DEF Fresh, Speech, ClientSpeech, ServerSpeech
<1>5. TaskSpeech'
  BY <1>1, <1>2, <1>3 DEF Shape, Speech, TaskSpeech, Started
<1>6. QED
  BY <1>3, <1>4, <1>5 DEF Speech

-----------------------------------------------------------------------------
(* All steps.                                                              *)

LEMMA ClientsSpeech ==
  ASSUME Shape, Fresh, Speech, NEW c \in Clients, Client(c)
  PROVE  Speech'
<1>1. CASE ClientDies(c)
  BY <1>1, ClientExitsSilent, SilentSpeech DEF ClientDies
<1>2. CASE ClientFails(c) \/ ClientReturns(c)
  BY <1>2, RunReturnsSilent, SilentSpeech DEF ClientFails, ClientReturns
<1>3. CASE Terminate(c)
  BY <1>3, ClientExitsSilent, SilentSpeech DEF Terminate
<1>4. CASE (CheckAudio(c) \/ ConnectFails(c)) /\ ~ (ClientDies(c) \/ ClientFails(c))
  <2>1. Silent
    BY <1>4 DEF CheckAudio, ConnectFails, Goto, Shape, Silent, Started,
       Unspoken, Starting, Unheard, Unknown, args, tasks, socket
  <2>2. QED
    BY <2>1, SilentSpeech
<1>5. CASE Connect(c)
  <2>1. Silent
    BY <1>5 DEF Connect, Goto, Shape, Silent, Started, Unspoken, Starting,
       Unheard, Unknown, args, tasks
  <2>2. QED
    BY <2>1, SilentSpeech
<1>6. CASE WriteFlags(c) /\ ~ ClientFails(c)
  BY <1>6, WriteFlagsSpeech
<1>7. CASE ReadType(c) /\ ~ ClientFails(c)
  BY <1>7, ReadTypeSpeech
<1>8. CASE (StartRecord(c) \/ StartPlayback(c)) /\ ~ ClientFails(c)
  <2>1. Spoken(AtClient(c)) /\ seen[AtClient(c)] # NoByte
    BY <1>8 DEF StartRecord, StartPlayback, Speech, ClientSpeech, Starting
  <2>2. Silent
    BY <1>8, <2>1, EndFacts
       DEF StartRecord, StartPlayback, Goto, Shape, Silent, Started, Unspoken,
       Starting, Unheard, Unknown, args, socket
  <2>3. QED
    BY <2>2, SilentSpeech
<1>9. CASE JoinRecord(c)
  <2>1. Silent
    BY <1>9 DEF JoinRecord, Goto, Shape, Silent, Started, Unspoken, Starting,
       Unheard, Unknown, args, tasks, socket
  <2>2. QED
    BY <2>1, SilentSpeech
<1>10. CASE JoinPlayback(c)
  BY <1>2, <1>10 DEF JoinPlayback
<1>11. QED
  BY <1>1, <1>2, <1>3, <1>4, <1>5, <1>6, <1>7, <1>8, <1>9, <1>10 DEF Client

LEMMA ServersSpeech ==
  ASSUME Shape, Fresh, Speech, Server
  PROVE  Speech'
<1>1. CASE ServerStops
  BY <1>1, ServerStopsSilent, SilentSpeech
<1>2. CASE ServerTerminate
  BY <1>2, ServerExitsSilent, SilentSpeech DEF ServerTerminate
<1>3. CASE (ServerCheckAudio \/ Bind \/ CheckTerm \/ AcceptTimeout) /\ ~ ServerStops
  <2>1. Silent
    BY <1>3 DEF ServerCheckAudio, Bind, CheckTerm, AcceptTimeout, Silent,
       Started, Shaking, Unheard, Unknown, args, tasks, socket
  <2>2. QED
    BY <2>1, SilentSpeech
<1>4. CASE Accept
  <2>1. Silent
    BY <1>4 DEF Accept, Shape, Fresh, Silent, Started, Shaking, Unheard,
       Unknown, args, tasks, socket
  <2>2. QED
    BY <2>1, SilentSpeech
<1>5. ASSUME NEW r \in BOOLEAN, NEW w \in BOOLEAN,
             ReturnFrom(AtServer(current), r, w), UNCHANGED <<pipe, seen, play>>,
             \A d \in Ends : rec'[d] = rec[d] \/ (seen[d] # NoByte /\ Spoken(d))
      PROVE  Speech'
  BY <1>5, ReturnFromSilent, SilentSpeech
<1>6. CASE WriteType
  BY <1>5, <1>6, WriteTypeSpeech DEF WriteType, tasks
<1>7. CASE ReadFlags
  BY <1>5, <1>7, ReadFlagsSpeech DEF ReadFlags, tasks
<1>8. CASE ServerStartPlayback
  <2>1. /\ current \in Clients /\ Spoken(AtServer(current))
        /\ seen[AtServer(current)] # NoByte
    BY <1>8 DEF ServerStartPlayback, Fresh, Speech, ServerSpeech, Shaking
  <2>2. CASE spc' = "startRecord"
    <3>1. Silent
      BY <1>8, <2>1, <2>2, EndFacts
         DEF ServerStartPlayback, ReturnFrom, Shape, Silent, Started, Shaking,
         Unheard, Unknown, args, socket
    <3>2. QED
      BY <3>1, SilentSpeech
  <2>3. QED
    BY <1>5, <1>8, <2>2 DEF ServerStartPlayback, tasks
<1>9. CASE ServerStartRecord
  <2>1. /\ current \in Clients /\ Spoken(AtServer(current))
        /\ seen[AtServer(current)] # NoByte
    BY <1>9 DEF ServerStartRecord, Fresh, Speech, ServerSpeech, Shaking
  <2>2. /\ Plays(AtServer(current)) \in BOOLEAN
        /\ Records(AtServer(current)) \in BOOLEAN
    BY DEF Plays, Records
  <2>3. \A d \in Ends : rec'[d] = rec[d] \/ (seen[d] # NoByte /\ Spoken(d))
    BY <1>9, <2>1, EndFacts DEF ServerStartRecord, Shape, tasks
  <2>4. QED
    BY <1>5, <1>9, <2>2, <2>3 DEF ServerStartRecord, tasks
<1>10. QED
  BY <1>1, <1>2, <1>3, <1>4, <1>6, <1>7, <1>8, <1>9 DEF Server, AcceptFails

LEMMA TasksSpeech ==
  ASSUME Shape, Fresh, Speech, NEW e \in Ends, Record(e) \/ Play(e)
  PROVE  Speech'
<1>1. CASE RecordWrite(e)
  BY <1>1, RecordWriteSpeech
<1>2. CASE PlayRead(e)
  BY <1>2, PlayReadSpeech
<1>3. ASSUME NEW from \in {"check", "peek", "write", "stop"}, NEW to,
             RecordAt(e, from, to),
             to \in {"check", "peek", "write"} => from # "stop",
             UNCHANGED <<args, mains, pipe, seen, play>>
      PROVE  Speech'
  <2>1. Silent
    BY <1>3 DEF RecordAt, Shape, Silent, Started, Unheard, Unknown, mains
  <2>2. QED
    BY <2>1, SilentSpeech
<1>4. ASSUME NEW from \in {"check", "peek", "read", "stop"}, NEW to,
             PlayAt(e, from, to),
             to \in {"check", "peek", "read"} => from # "stop",
             UNCHANGED <<args, mains, pipe, seen, rec>>
      PROVE  Speech'
  <2>1. Silent
    BY <1>4 DEF PlayAt, Shape, Silent, Started, Unheard, Unknown, mains
  <2>2. QED
    BY <2>1, SilentSpeech
<1>5. CASE RecordCheck(e) \/ RecordPeekFull(e) \/ RecordPeekEmpty(e)
  BY <1>3, <1>5 DEF RecordCheck, RecordPeekFull, RecordPeekEmpty,
     RecordReturns, socket
<1>6. CASE RecordWriteFails(e) \/ RecordEncodeFails(e) \/ RecordStop(e)
  BY <1>3, <1>6 DEF RecordWriteFails, RecordEncodeFails, RecordStop,
     RecordReturns, socket
<1>7. CASE PlayCheck(e) \/ PlayPeekRoom(e) \/ PlayPeekFull(e)
  BY <1>4, <1>7 DEF PlayCheck, PlayPeekRoom, PlayPeekFull, PlayReturns, socket
<1>8. CASE PlayReadFails(e) \/ PlayDecodeFails(e) \/ PlayStop(e)
  BY <1>4, <1>8 DEF PlayReadFails, PlayDecodeFails, PlayStop, PlayReturns, socket
<1>9. QED
  BY <1>1, <1>2, <1>5, <1>6, <1>7, <1>8 DEF Record, Play

LEMMA WorldSpeech ==
  ASSUME Shape, Fresh, Speech, World
  PROVE  Speech'
<1>1. ASSUME NEW c \in Clients, CrashClient(c)
      PROVE  Speech'
  BY <1>1, ClientExitsSilent, SilentSpeech DEF CrashClient, ClientDies
<1>2. CASE CrashServer
  BY <1>2, ServerExitsSilent, SilentSpeech DEF CrashServer
<1>3. CASE UNCHANGED <<args, mains, socket, tasks>>
  <2>1. Silent
    BY <1>3 DEF mains, socket, tasks, Silent, Started, Unheard, Unknown
  <2>2. QED
    BY <2>1, SilentSpeech
<1>4. QED
  BY <1>1, <1>2, <1>3 DEF World, SignalClient, SignalServer, DeviceDies

SpeechIInv == IInv /\ Speech

LEMMA SpeechInitially == Init => SpeechIInv
BY Initially, NoClientAssumption, EndFacts, PeerFacts
   DEF Init, SpeechIInv, Speech, Values, Contents, Content, ClientSpeech,
   ServerSpeech, TaskSpeech, Spoken, Started, Unspoken, Starting, Unheard,
   Unknown, Shaking, NoByte

LEMMA SpeechStepKeeps == SpeechIInv /\ [Next]_vars => SpeechIInv'
<1> SUFFICES ASSUME SpeechIInv, [Next]_vars PROVE Speech'
  BY StepKeeps DEF SpeechIInv
<1>1. Shape /\ Fresh /\ Speech
  BY DEF SpeechIInv, IInv
<1>2. CASE UNCHANGED vars
  <2>1. Silent
    BY <1>2 DEF vars, mains, socket, tasks, Silent, Started, Unheard, Unknown
  <2>2. QED
    BY <1>1, <2>1, SilentSpeech
<1>3. CASE Next
  BY <1>1, <1>3, ClientsSpeech, ServersSpeech, TasksSpeech, WorldSpeech DEF Next
<1>4. QED
  BY <1>2, <1>3

-----------------------------------------------------------------------------

(* What an end has read tells it what was asked for on the command lines.  *)
Asked(e) == IsSource(TypeAt(e)) /\ IsSink(TypeAt(Peer(e)))

LEMMA SeenTells ==
  ASSUME Values, Contents, NEW e \in Ends, seen[e] # NoByte
  PROVE  /\ OpusAt(e) = opus[e[1]]
         /\ Records(e) = Asked(e) /\ Plays(e) = Asked(Peer(e))
<1>1. seen[e] = HelloOf(Peer(e)) /\ Peer(Peer(e)) = e
  BY PeerFacts DEF Contents, Content
<1>2. PICK c \in Clients : e = AtClient(c) \/ e = AtServer(c)
  BY EndFacts
<1>3. stype \in 0 .. 3 /\ ctype[c] \in 0 .. 3 /\ opus[c] \in BOOLEAN
  BY TypesAssumption, CodecsAssumption DEF Values
<1>4. LET flags_c == NewStreamFlags(ctype[c], opus[c])
      IN  /\ IsSource(flags_c) = IsSource(ctype[c])
          /\ IsSink(flags_c) = IsSink(ctype[c])
          /\ OpusEnabled(flags_c) = opus[c]
  BY <1>3, FlagFacts
<1>5. CASE e = AtClient(c)
  <2>1. /\ e[1] = c /\ e[2] = "client"
        /\ Peer(e)[1] = c /\ Peer(e)[2] = "server"
    BY <1>5 DEF AtClient, Peer
  <2>2. seen[e] = stype
    BY <1>1, <2>1 DEF HelloOf
  <2>3. QED
    BY <1>1, <2>1, <2>2
       DEF OpusAt, Records, Plays, Asked, TypeAt, PeerTypeAt
<1>6. CASE e = AtServer(c)
  <2>1. /\ e[1] = c /\ e[2] = "server"
        /\ Peer(e)[1] = c /\ Peer(e)[2] = "client"
    BY <1>6 DEF AtServer, Peer
  <2>2. seen[e] = NewStreamFlags(ctype[c], opus[c])
    BY <1>1, <2>1 DEF HelloOf
  <2>3. QED
    BY <1>1, <1>4, <2>1, <2>2
       DEF OpusAt, Records, Plays, Asked, TypeAt, PeerTypeAt, TypeOf
<1>7. QED
  BY <1>2, <1>5, <1>6

LEMMA CodecsAgree ==
  ASSUME Values, Contents, NEW e \in Ends, seen[e] # NoByte, seen[Peer(e)] # NoByte
  PROVE  OpusAt(e) = OpusAt(Peer(e)) /\ Records(e) = Plays(Peer(e))
<1>1. Peer(e) \in Ends /\ Peer(Peer(e)) = e /\ Peer(e)[1] = e[1]
  BY PeerFacts DEF Peer
<1>2. QED
  BY <1>1, SeenTells

(* Each end decides on its own, from its type and one byte of the other,   *)
(* what to run and in which codec; they agree, whatever the types, the     *)
(* number of clients and the frames in flight (client.rs:77-90,            *)
(* server.rs:116-136).                                                     *)
THEOREM EndsAgree == Spec => []PeersAgree
<1>1. SpeechIInv => PeersAgree
  BY CodecsAgree DEF SpeechIInv, Speech, PeersAgree
<1>2. QED
  BY SpeechInitially, SpeechStepKeeps, <1>1, PTL DEF Spec

(* A playback task never takes the byte of the handshake for a frame, nor  *)
(* a frame in one codec for one in the other, although the connection has  *)
(* no mark between them and either end may start to send before the other  *)
(* is ready (handlers.rs:117, 138-141).                                    *)
THEOREM PlayersReadFrames == Spec => []ReadsAreFrames
<1>1. ASSUME SpeechIInv, NEW e \in Ends, play[e] = "read", pipe[Peer(e)] # <<>>
      PROVE  Head(pipe[Peer(e)]) = Frame(OpusAt(e))
  <2>1. Values /\ Contents /\ Peer(e) \in Ends /\ Peer(Peer(e)) = e
    BY <1>1, PeerFacts DEF SpeechIInv, Speech
  <2>2. seen[e] # NoByte
    BY <1>1 DEF SpeechIInv, Speech, TaskSpeech, Started
  <2>3. seen[Peer(e)] # NoByte
    BY <1>1, <2>1, <2>2 DEF Contents, Content
  <2>4. /\ Head(pipe[Peer(e)]) = pipe[Peer(e)][1]
        /\ 1 \in 1 .. Len(pipe[Peer(e)])
    BY <1>1, <2>1, EmptySeq DEF Values
  <2>5. QED
    BY <2>1, <2>2, <2>3, <2>4, CodecsAgree DEF Contents, Content
<1>2. SpeechIInv => ReadsAreFrames
  BY <1>1 DEF ReadsAreFrames
<1>3. QED
  BY SpeechInitially, SpeechStepKeeps, <1>2, PTL DEF Spec

-----------------------------------------------------------------------------
(* The rest of the types, and the frames in flight.                        *)

Small ==
  /\ retry \in [Clients -> 0 .. MAX_RETRY]
  /\ spc \in {"checkAudio", "bind", "check", "accept", "writeType",
              "readFlags", "startPlayback", "startRecord", "terminate",
              "exited"}
  /\ reads \subseteq Ends /\ writes \subseteq Ends
  /\ signalled \subseteq Clients \cup {"server"} /\ broken \subseteq Ends
  /\ dead \subseteq Ends

InFlight == \A e \in Ends : Len(pipe[e]) <= Window + 1

LEMMA SmallKept == Shape /\ Small /\ [Next]_vars => Small'
<1> SUFFICES ASSUME Shape, Small, [Next]_vars PROVE Small'
  OBVIOUS
<1> USE DEF Small, args, mains, flags, socket, history
<1>1. CASE UNCHANGED vars
  BY <1>1 DEF vars
<1>2. ASSUME NEW c \in Clients, NEW how, ClientExits(c, how)
      PROVE  Small'
  BY <1>2 DEF ClientExits, ExitAt
<1>3. ASSUME NEW c \in Clients, NEW how, RunReturns(c, how)
      PROVE  Small'
  BY <1>3 DEF RunReturns
<1>4. CASE ServerStops
  BY <1>4 DEF ServerStops
<1>5. CASE ServerExits
  BY <1>5 DEF ServerExits, ExitAt
<1>6. ASSUME NEW c \in Clients, Client(c)
      PROVE  Small'
  <2>1. CASE Connect(c)
    BY <2>1, EndFacts DEF Connect
  <2>2. CASE ConnectFails(c)
    BY <1>3, <2>2, BoundsAssumption DEF ConnectFails, ClientFails
  <2>3. CASE CheckAudio(c) \/ Terminate(c)
    BY <1>2, <2>3 DEF CheckAudio, Terminate, ClientDies
  <2>4. CASE WriteFlags(c) \/ ReadType(c)
    BY <1>3, <2>4 DEF WriteFlags, ReadType, ClientFails
  <2>5. CASE StartRecord(c) \/ StartPlayback(c) \/ JoinRecord(c) \/ JoinPlayback(c)
    BY <1>3, <2>5
       DEF StartRecord, StartPlayback, JoinRecord, JoinPlayback, ClientFails,
       ClientReturns
  <2>6. QED
    BY <1>6, <2>1, <2>2, <2>3, <2>4, <2>5 DEF Client
<1>7. CASE Server
  <2>1. CASE ServerCheckAudio \/ Bind \/ CheckTerm \/ AcceptTimeout \/ AcceptFails
    BY <1>4, <2>1
       DEF ServerCheckAudio, Bind, CheckTerm, AcceptTimeout, AcceptFails
  <2>2. CASE Accept \/ ServerTerminate
    BY <1>5, <2>2 DEF Accept, ServerTerminate
  <2>3. CASE WriteType \/ ReadFlags \/ ServerStartPlayback \/ ServerStartRecord
    BY <2>3 DEF WriteType, ReadFlags, ServerStartPlayback, ServerStartRecord,
       ReturnFrom
  <2>4. QED
    BY <1>7, <2>1, <2>2, <2>3 DEF Server
<1>8. ASSUME NEW e \in Ends, Record(e)
      PROVE  Small'
  BY <1>8 DEF Record, RecordCheck, RecordPeekFull, RecordPeekEmpty,
     RecordWrite, RecordWriteFails, RecordEncodeFails, RecordStop, RecordReturns
<1>9. ASSUME NEW e \in Ends, Play(e)
      PROVE  Small'
  BY <1>9 DEF Play, PlayCheck, PlayPeekRoom, PlayPeekFull, PlayRead,
     PlayReadFails, PlayDecodeFails, PlayStop, PlayReturns
<1>10. CASE World
  BY <1>2, <1>5, <1>10
     DEF World, SignalClient, CrashClient, ClientDies, SignalServer,
     CrashServer, DeviceDies
<1>11. QED
  BY <1>1, <1>6, <1>7, <1>8, <1>9, <1>10 DEF Next

(* Few steps touch a connection: main sends its byte into an empty one, a  *)
(* record task sends into one that is not full, and both take from one.    *)
LEMMA PipeSteps ==
  ASSUME Shape, Fresh, Speech, [Next]_vars
  PROVE  \/ pipe' = pipe
         \/ \E e \in Ends :
              \/ /\ Send(e, Hello(HelloOf(e))) \/ Send(e, Frame(OpusAt(e)))
                 /\ pipe[e] = <<>> \/ Len(pipe[e]) < Window
              \/ Receive(e) /\ pipe[Peer(e)] # <<>>
<1> USE DEF socket
<1>1. CASE UNCHANGED vars
  BY <1>1 DEF vars
<1>2. ASSUME NEW c \in Clients, WriteFlags(c), pipe' # pipe
      PROVE  /\ AtClient(c) \in Ends /\ pipe[AtClient(c)] = <<>>
             /\ Send(AtClient(c), Hello(HelloOf(AtClient(c))))
  BY <1>2, EndFacts DEF WriteFlags, ClientFails, RunReturns, Speech,
     ClientSpeech, Unspoken, Spoken, HelloOf, AtClient
<1>3. ASSUME NEW c \in Clients, ReadType(c), pipe' # pipe
      PROVE  /\ AtClient(c) \in Ends /\ Receive(AtClient(c))
             /\ pipe[Peer(AtClient(c))] # <<>>
  BY <1>3, EndFacts DEF ReadType, ClientFails, RunReturns
<1>4. ASSUME NEW c \in Clients, Client(c), ~ WriteFlags(c), ~ ReadType(c)
      PROVE  pipe' = pipe
  BY <1>4 DEF Client, CheckAudio, Terminate, Connect, ConnectFails,
     StartRecord, StartPlayback, JoinRecord, JoinPlayback, ClientDies,
     ClientFails, ClientReturns, ClientExits, ExitAt, RunReturns
<1>5. ASSUME WriteType, pipe' # pipe
      PROVE  /\ AtServer(current) \in Ends /\ pipe[AtServer(current)] = <<>>
             /\ Send(AtServer(current), Hello(HelloOf(AtServer(current))))
  BY <1>5, EndFacts DEF WriteType, Fresh, Shaking, Speech, ServerSpeech,
     Spoken, HelloOf, AtServer
<1>6. ASSUME ReadFlags, pipe' # pipe
      PROVE  /\ AtServer(current) \in Ends /\ Receive(AtServer(current))
             /\ pipe[Peer(AtServer(current))] # <<>>
  BY <1>6, EndFacts DEF ReadFlags, Fresh, Shaking
<1>7. ASSUME Server, ~ WriteType, ~ ReadFlags
      PROVE  pipe' = pipe
  BY <1>7 DEF Server, ServerCheckAudio, Bind, ServerTerminate, CheckTerm,
     Accept, AcceptTimeout, AcceptFails, ServerStartPlayback,
     ServerStartRecord, ServerStops, ServerExits, ExitAt
<1>8. ASSUME NEW e \in Ends, Record(e), pipe' # pipe
      PROVE  Send(e, Frame(OpusAt(e))) /\ Len(pipe[e]) < Window
  BY <1>8 DEF Record, RecordCheck, RecordPeekFull, RecordPeekEmpty,
     RecordWrite, RecordWriteFails, RecordEncodeFails, RecordStop, RecordReturns
<1>9. ASSUME NEW e \in Ends, Play(e), pipe' # pipe
      PROVE  Receive(e) /\ pipe[Peer(e)] # <<>>
  BY <1>9 DEF Play, PlayCheck, PlayPeekRoom, PlayPeekFull, PlayRead,
     PlayReadFails, PlayDecodeFails, PlayStop, PlayReturns
<1>10. CASE World
  BY <1>10 DEF World, SignalClient, CrashClient, ClientDies, SignalServer,
     CrashServer, DeviceDies, ClientExits, ServerExits, ExitAt
<1>11. QED
  BY <1>1, <1>2, <1>3, <1>4, <1>5, <1>6, <1>7, <1>8, <1>9, <1>10 DEF Next

LEMMA InFlightKept ==
  ASSUME Shape, Fresh, Speech, InFlight, [Next]_vars
  PROVE  InFlight'
<1>1. Window \in Nat \ {0}
  BY BoundsAssumption
<1>2. CASE pipe' = pipe
  BY <1>2 DEF InFlight
<1>3. ASSUME NEW e \in Ends, NEW item \in {"hello", "frame"} \X (Bytes \cup BOOLEAN),
             Send(e, item), pipe[e] = <<>> \/ Len(pipe[e]) < Window
      PROVE  InFlight'
  <2>1. pipe'[e] = Append(pipe[e], item) /\ \A d \in Ends \ {e} : pipe'[d] = pipe[d]
    BY <1>3 DEF Send, Speech, Values
  <2>2. Len(pipe'[e]) = Len(pipe[e]) + 1 /\ Len(pipe[e]) \in Nat
    BY <2>1 DEF Speech, Values
  <2>3. Len(pipe[e]) < Window
    BY <1>1, <1>3
  <2>4. QED
    BY <1>1, <2>1, <2>2, <2>3 DEF InFlight
<1>4. ASSUME NEW e \in Ends, Receive(e), pipe[Peer(e)] # <<>>
      PROVE  InFlight'
  <2>1. /\ Peer(e) \in Ends /\ pipe'[Peer(e)] = Tail(pipe[Peer(e)])
        /\ \A d \in Ends \ {Peer(e)} : pipe'[d] = pipe[d]
    BY <1>4, PeerFacts DEF Receive, Speech, Values
  <2>2. /\ Len(pipe'[Peer(e)]) = Len(pipe[Peer(e)]) - 1
        /\ Len(pipe[Peer(e)]) \in Nat
    BY <1>4, <2>1 DEF Speech, Values
  <2>3. Len(pipe'[Peer(e)]) <= Window + 1
    BY <1>1, <2>1, <2>2 DEF InFlight
  <2>4. ASSUME NEW d \in Ends
        PROVE  Len(pipe'[d]) <= Window + 1
    <3>1. CASE d = Peer(e)
      BY <2>3, <3>1
    <3>2. CASE d # Peer(e)
      BY <2>1, <3>2 DEF InFlight
    <3>3. QED
      BY <3>1, <3>2
  <2>5. QED
    BY <2>4 DEF InFlight
<1>5. \A e \in Ends :
        /\ Hello(HelloOf(e)) \in {"hello", "frame"} \X (Bytes \cup BOOLEAN)
        /\ Frame(OpusAt(e)) \in {"hello", "frame"} \X (Bytes \cup BOOLEAN)
  BY HelloIsByte, CodecIsBoolean DEF Speech, Hello, Frame
<1>6. QED
  BY <1>2, <1>3, <1>4, <1>5, PipeSteps

TypedIInv == SpeechIInv /\ Small /\ InFlight

(* Every variable has the values its comment gives it, the retries stay    *)
(* below MAX_RETRY and a connection holds no more than its window and the  *)
(* byte (client.rs:19, handlers.rs:209-240).                               *)
THEOREM SessionTypes == Spec => []TypeOK
<1>1. Init => TypedIInv
  BY SpeechInitially, BoundsAssumption
     DEF Init, TypedIInv, Small, InFlight
<1>2. TypedIInv /\ [Next]_vars => TypedIInv'
  BY SpeechStepKeeps, SmallKept, InFlightKept DEF TypedIInv, SpeechIInv, IInv
<1>3. TypedIInv => TypeOK
  <2>1. ASSUME TypedIInv, NEW e \in Ends, NEW i \in DOMAIN pipe[e]
        PROVE  pipe[e][i] \in Items
    <3>1. Values /\ Content(e) /\ i \in 1 .. Len(pipe[e])
      BY <2>1 DEF TypedIInv, SpeechIInv, Speech, Contents, Values
    <3>2. HelloOf(e) \in Bytes /\ OpusAt(e) \in BOOLEAN
      BY <3>1, HelloIsByte, CodecIsBoolean
    <3>3. QED
      BY <3>1, <3>2 DEF Content, Items
  <2>2. QED
    BY <2>1 DEF TypedIInv, SpeechIInv, IInv, Shape, Speech, Values, Small,
       InFlight, TypeOK
<1>4. QED
  BY <1>1, <1>2, <1>3, PTL DEF Spec

-----------------------------------------------------------------------------
(* From the command lines to the sound: the steps of AudioLinks.           *)

LinksIInv == SpeechIInv /\ Owned

Senders   == [e \in Ends |-> TaskOf(rec[e], e)]
Receivers == [e \in Ends |-> TaskOf(play[Peer(e)], Peer(e))]
Flights   == [e \in Ends |-> InFlightFrom(e)]
AskedFor  == {e \in Ends : Asked(e)}
CodecOf   == [e \in Ends |-> CodecName(opus[e[1]])]

Over == Ended \cup {"stop"}

(* A task that runs has the codec of the command line of its client.       *)
TaskIs(state, e) ==
  IF state = "none" THEN "none"
  ELSE IF state \in Over THEN "over" ELSE CodecOf[e]

TasksCoded ==
  \A e \in Ends :
    Senders[e] = TaskIs(rec[e], e) /\ Receivers[Peer(e)] = TaskIs(play[e], e)

LEMMA TasksHaveTheirCodec == LinksIInv => TasksCoded
<1> SUFFICES ASSUME LinksIInv, NEW e \in Ends
             PROVE  /\ Senders[e] = TaskIs(rec[e], e)
                    /\ Receivers[Peer(e)] = TaskIs(play[e], e)
  BY DEF TasksCoded
<1>1. /\ Values /\ Contents /\ TaskSpeech
      /\ rec[e] \in RecordStates /\ play[e] \in PlayStates
      /\ Peer(e) \in Ends /\ Peer(Peer(e)) = e
  BY PeerFacts DEF LinksIInv, SpeechIInv, IInv, Shape, Speech
<1>2. Started(e) => OpusAt(e) = opus[e[1]]
  BY <1>1, SeenTells DEF TaskSpeech
<1>3. Senders[e] = TaskIs(rec[e], e)
  BY <1>1, <1>2 DEF Senders, TaskOf, TaskIs, Over, CodecOf, Started,
     RecordStates, Settled, Ended
<1>4. Receivers[Peer(e)] = TaskIs(play[e], e)
  BY <1>1, <1>2 DEF Receivers, TaskOf, TaskIs, Over, CodecOf, Started,
     PlayStates, Settled, Ended
<1>5. QED
  BY <1>3, <1>4

(* A task goes on, or comes to its end and stays there.                    *)
GoesOn(old, new) ==
  \/ new = old
  \/ old # "none" /\ new # "none" /\ (old \in Over => new \in Over)

TasksGoOn ==
  \A e \in Ends : GoesOn(rec[e], rec'[e]) /\ GoesOn(play[e], play'[e])

FlightsStay == \A e \in Ends : InFlightFrom(e)' = InFlightFrom(e)

LEMMA UntouchedFlights == UNCHANGED <<pipe, seen>> => FlightsStay
BY DEF FlightsStay, InFlightFrom

LEMMA CodedTasks ==
  ASSUME TasksCoded, TasksCoded', UNCHANGED args
  PROVE  /\ AskedFor' = AskedFor /\ CodecOf' = CodecOf
         /\ \A e \in Ends :
              /\ CodecOf[e] \in {"raw", "opus"} /\ CodecOf[Peer(e)] = CodecOf[e]
              /\ Senders[e] = TaskIs(rec[e], e)
              /\ Senders'[e] = TaskIs(rec'[e], e)
              /\ Receivers[e] = TaskIs(play[Peer(e)], e)
              /\ Receivers'[e] = TaskIs(play'[Peer(e)], e)
<1>1. AskedFor' = AskedFor /\ CodecOf' = CodecOf
  BY DEF args, AskedFor, Asked, TypeAt, CodecOf
<1>2. ASSUME NEW e \in Ends
      PROVE  CodecOf[e] \in {"raw", "opus"} /\ CodecOf[Peer(e)] = CodecOf[e]
  BY PeerFacts DEF CodecOf, CodecName, Peer
<1>3. ASSUME NEW e \in Ends
      PROVE  /\ Senders[e] = TaskIs(rec[e], e)
             /\ Senders'[e] = TaskIs(rec'[e], e)
  BY <1>1 DEF TasksCoded, TaskIs
<1>4. ASSUME NEW e \in Ends
      PROVE  /\ Receivers[e] = TaskIs(play[Peer(e)], e)
             /\ Receivers'[e] = TaskIs(play'[Peer(e)], e)
  <2>1. Peer(e) \in Ends /\ Peer(Peer(e)) = e
    BY PeerFacts
  <2>2. QED
    BY <1>1, <1>2, <2>1 DEF TasksCoded, TaskIs
<1>5. QED
  BY <1>1, <1>2, <1>3, <1>4

LEMMA GoingOnIsEnd ==
  ASSUME TasksCoded, TasksCoded', UNCHANGED args, TasksGoOn, FlightsStay
  PROVE  Links!Next
<1>1. ASSUME NEW e \in Ends
      PROVE  /\ Links!EndsOrNot(Senders[e], Senders'[e])
             /\ Links!EndsOrNot(Receivers[e], Receivers'[e])
             /\ Senders'[e] \in Links!Tasks /\ Receivers'[e] \in Links!Tasks
  <2>1. "none" \notin Over
    BY DEF Over, Ended
  <2>2. QED
    BY <2>1, PeerFacts, CodedTasks
       DEF TasksGoOn, GoesOn, TaskIs, Links!EndsOrNot, Links!Tasks
<1>2. AskedFor' = AskedFor /\ CodecOf' = CodecOf /\ Flights' = Flights
  BY CodedTasks DEF Flights, FlightsStay
<1>3. Links!End
  BY <1>1, <1>2 DEF Links!End, Senders, Receivers, AskedFor, Asked, CodecOf,
     Flights
<1>4. QED
  BY <1>3 DEF Links!Next

(* A step that leaves the connections alone and starts no task.            *)
LEMMA NoStart ==
  ASSUME TasksCoded, TasksCoded', TasksGoOn, UNCHANGED <<args, pipe, seen>>
  PROVE  Links!Next
BY UntouchedFlights, GoingOnIsEnd

(* A process that ends cancels tasks and starts none.                      *)
LEMMA ExitsGoOn ==
  ASSUME NEW S, ExitAt(S)
  PROVE  TasksGoOn /\ UNCHANGED <<args, pipe, seen>>
BY DEF ExitAt, Cancelled, Settled, Ended, Over, TasksGoOn, GoesOn

LEMMA RecordStarts ==
  ASSUME LinksIInv, TasksCoded, TasksCoded', UNCHANGED <<args, pipe, seen, play>>,
         NEW e \in Ends, rec[e] = "none", seen[e] # NoByte,
         rec' = [rec EXCEPT ![e] = IF Records(e) THEN "check" ELSE "none"]
  PROVE  Links!Next
<1>1. rec \in [Ends -> RecordStates] /\ Records(e) = Asked(e)
  BY SeenTells DEF LinksIInv, SpeechIInv, IInv, Shape, Speech
<1>2. CASE ~ Records(e)
  BY <1>1, <1>2, NoStart DEF TasksGoOn, GoesOn
<1>3. CASE Records(e)
  <2>1. e \in AskedFor /\ Senders[e] = "none"
    BY <1>1, <1>3, CodedTasks DEF AskedFor, TaskIs
  <2>2. Senders' = [Senders EXCEPT ![e] = CodecOf[e]]
    <3>1. "check" \notin Over
      BY DEF Over, Ended
    <3>2. Senders'[e] = CodecOf[e] /\ \A d \in Ends \ {e} : Senders'[d] = Senders[d]
      BY <1>1, <1>3, <3>1, CodedTasks DEF TaskIs
    <3>3. QED
      BY <3>2 DEF Senders
  <2>3. Receivers' = Receivers
    BY CodedTasks DEF Receivers
  <2>4. UNCHANGED <<AskedFor, CodecOf, Flights>>
    BY CodedTasks, UntouchedFlights DEF Flights, FlightsStay
  <2>5. Links!StartSender(e)
    BY <2>1, <2>2, <2>3, <2>4 DEF Links!StartSender, Senders, Receivers,
       AskedFor, Asked, CodecOf, Flights
  <2>6. QED
    BY <2>5 DEF Links!Next
<1>4. QED
  BY <1>2, <1>3

LEMMA PlaybackStarts ==
  ASSUME LinksIInv, TasksCoded, TasksCoded', UNCHANGED <<args, pipe, seen, rec>>,
         NEW e \in Ends, play[e] = "none", seen[e] # NoByte,
         play' = [play EXCEPT ![e] = IF Plays(e) THEN "check" ELSE "none"]
  PROVE  Links!Next
<1> DEFINE l == Peer(e)
<1>1. play \in [Ends -> PlayStates] /\ Plays(e) = Asked(l)
  BY SeenTells DEF LinksIInv, SpeechIInv, IInv, Shape, Speech
<1>2. l \in Ends /\ Peer(l) = e /\ \A d \in Ends \ {l} : Peer(d) # e
  BY PeerFacts
<1>3. CASE ~ Plays(e)
  BY <1>1, <1>3, NoStart DEF TasksGoOn, GoesOn
<1>4. CASE Plays(e)
  <2>1. l \in AskedFor /\ Receivers[l] = "none"
    BY <1>1, <1>2, <1>4, CodedTasks DEF AskedFor, TaskIs
  <2>2. Receivers' = [Receivers EXCEPT ![l] = CodecOf[l]]
    <3>1. "check" \notin Over
      BY DEF Over, Ended
    <3>2. /\ Receivers'[l] = CodecOf[l]
          /\ \A d \in Ends \ {l} : Receivers'[d] = Receivers[d]
      BY <1>1, <1>2, <1>4, <3>1, CodedTasks, PeerFacts DEF TaskIs
    <3>3. QED
      BY <3>2 DEF Receivers
  <2>3. Senders' = Senders
    BY CodedTasks DEF Senders
  <2>4. UNCHANGED <<AskedFor, CodecOf, Flights>>
    BY CodedTasks, UntouchedFlights DEF Flights, FlightsStay
  <2>5. Links!StartReceiver(l)
    BY <2>1, <2>2, <2>3, <2>4 DEF Links!StartReceiver, Senders, Receivers,
       AskedFor, Asked, CodecOf, Flights
  <2>6. QED
    BY <1>2, <2>5 DEF Links!Next
<1>5. QED
  BY <1>3, <1>4

(* The byte of the handshake is no frame.                                  *)
LEMMA HelloSent ==
  ASSUME Values, NEW e \in Ends, NEW item, Send(e, item), seen' = seen,
         ~ Spoken(e), Values'
  PROVE  FlightsStay
<1>1. pipe'[e] = Append(pipe[e], item) /\ \A d \in Ends \ {e} : pipe'[d] = pipe[d]
  BY DEF Values, Send
<1>2. Len(pipe'[e]) = 1 /\ Len(pipe[e]) = 0 /\ pipe'[e] # <<>>
  BY <1>1, EmptySeq DEF Values, Spoken
<1>3. InFlightFrom(e)' = InFlightFrom(e)
  BY <1>2 DEF InFlightFrom, Spoken
<1>4. QED
  BY <1>1, <1>3 DEF FlightsStay, InFlightFrom

LEMMA HelloRead ==
  ASSUME Values, Values', NEW e \in Ends, pipe[Peer(e)] # <<>>, Receive(e),
         seen[e] = NoByte, seen'[e] # NoByte,
         \A d \in Ends \ {e} : seen'[d] = seen[d]
  PROVE  FlightsStay
<1>1. Peer(e) \in Ends /\ Peer(e) # e /\ Peer(Peer(e)) = e
  BY PeerFacts
<1>2. /\ pipe'[Peer(e)] = Tail(pipe[Peer(e)])
      /\ \A d \in Ends \ {Peer(e)} : pipe'[d] = pipe[d]
  BY <1>1 DEF Values, Receive
<1>3. Len(pipe'[Peer(e)]) = Len(pipe[Peer(e)]) - 1
  BY <1>1, <1>2 DEF Values
<1>4. InFlightFrom(Peer(e))' = InFlightFrom(Peer(e))
  BY <1>1, <1>3 DEF InFlightFrom
<1>5. ASSUME NEW d \in Ends, d # Peer(e)
      PROVE  InFlightFrom(d)' = InFlightFrom(d)
  <2>1. Peer(d) \in Ends \ {e}
    BY PeerFacts, <1>5
  <2>2. QED
    BY <1>2, <1>5, <2>1 DEF InFlightFrom
<1>6. QED
  BY <1>4, <1>5 DEF FlightsStay

LEMMA FrameSent ==
  ASSUME Values, Values', NEW e \in Ends, Send(e, Frame(OpusAt(e))),
         seen' = seen, Spoken(e)
  PROVE  /\ Flights' = [Flights EXCEPT ![e] = @ + 1]
         /\ Flights[e] <= Len(pipe[e])
<1>1. /\ pipe'[e] = Append(pipe[e], Frame(OpusAt(e)))
      /\ \A d \in Ends \ {e} : pipe'[d] = pipe[d]
  BY DEF Values, Send
<1>2. Frame(OpusAt(e)) \in {"hello", "frame"} \X (Bytes \cup BOOLEAN)
  BY CodecIsBoolean DEF Frame
<1>3. Len(pipe'[e]) = Len(pipe[e]) + 1 /\ Len(pipe[e]) \in Nat
  BY <1>1, <1>2 DEF Values
<1>4. pipe'[e] # <<>>
  BY <1>3, EmptySeq DEF Values
<1>5. InFlightFrom(e)' = InFlightFrom(e) + 1 /\ InFlightFrom(e) <= Len(pipe[e])
  BY <1>3, <1>4 DEF InFlightFrom, Spoken
<1>6. \A d \in Ends \ {e} : InFlightFrom(d)' = InFlightFrom(d)
  BY <1>1 DEF InFlightFrom
<1>7. QED
  BY <1>5, <1>6 DEF Flights

LEMMA FrameRead ==
  ASSUME Values, Values', NEW e \in Ends, pipe[Peer(e)] # <<>>, Receive(e),
         seen' = seen, seen[e] # NoByte
  PROVE  /\ Flights' = [Flights EXCEPT ![Peer(e)] = @ - 1]
         /\ Flights[Peer(e)] > 0
<1>1. Peer(e) \in Ends /\ Peer(e) # e /\ Peer(Peer(e)) = e
  BY PeerFacts
<1>2. /\ pipe'[Peer(e)] = Tail(pipe[Peer(e)])
      /\ \A d \in Ends \ {Peer(e)} : pipe'[d] = pipe[d]
  BY <1>1 DEF Values, Receive
<1>3. /\ Len(pipe'[Peer(e)]) = Len(pipe[Peer(e)]) - 1
      /\ Len(pipe[Peer(e)]) \in Nat /\ Len(pipe[Peer(e)]) > 0
  BY <1>1, <1>2, EmptySeq DEF Values
<1>4. /\ InFlightFrom(Peer(e)) = Len(pipe[Peer(e)])
      /\ InFlightFrom(Peer(e))' = Len(pipe'[Peer(e)])
  BY <1>1 DEF InFlightFrom
<1>5. \A d \in Ends \ {Peer(e)} : InFlightFrom(d)' = InFlightFrom(d)
  BY <1>2 DEF InFlightFrom
<1>6. QED
  BY <1>1, <1>3, <1>4, <1>5 DEF Flights

(* The two steps that move a frame.                                        *)
LEMMA RecordWriteLinks ==
  ASSUME LinksIInv, LinksIInv', TasksCoded, TasksCoded', NEW e \in Ends,
         RecordWrite(e)
  PROVE  Links!Next
<1>1. /\ rec[e] = "write" /\ rec' = [rec EXCEPT ![e] = "peek"]
      /\ Len(pipe[e]) < Window /\ Send(e, Frame(OpusAt(e)))
      /\ UNCHANGED <<args, seen, play>>
  BY DEF RecordWrite, RecordAt
<1>2. /\ Values /\ Values' /\ Spoken(e) /\ rec \in [Ends -> RecordStates]
  BY <1>1 DEF LinksIInv, SpeechIInv, IInv, Shape, Speech, TaskSpeech, Started
<1>3. Flights' = [Flights EXCEPT ![e] = @ + 1] /\ Flights[e] < Window
  <2>1. /\ Flights' = [Flights EXCEPT ![e] = @ + 1]
        /\ Flights[e] <= Len(pipe[e])
    BY <1>1, <1>2, FrameSent
  <2>2. Len(pipe[e]) \in Nat /\ Flights[e] \in Int
    BY <1>2 DEF Values, Flights, InFlightFrom
  <2>3. QED
    BY <1>1, <2>1, <2>2, BoundsAssumption
<1>4. /\ Senders[e] = CodecOf[e]
      /\ UNCHANGED <<Senders, Receivers, AskedFor, CodecOf>>
  <2>1. {"write", "peek"} \cap Over = {}
    BY DEF Over, Ended
  <2>2. \A d \in Ends : Senders'[d] = Senders[d] /\ Receivers'[d] = Receivers[d]
    BY <1>1, <1>2, <2>1, CodedTasks DEF TaskIs
  <2>3. Senders' = Senders /\ Receivers' = Receivers
    BY <2>2 DEF Senders, Receivers
  <2>4. QED
    BY <1>1, <2>1, <2>3, CodedTasks DEF TaskIs
<1>5. Links!Send(e)
  BY <1>3, <1>4 DEF Links!Send, Senders, Receivers, AskedFor, Asked, CodecOf,
     Flights
<1>6. QED
  BY <1>5 DEF Links!Next

LEMMA PlayReadLinks ==
  ASSUME LinksIInv, LinksIInv', TasksCoded, TasksCoded', NEW e \in Ends,
         PlayRead(e)
  PROVE  Links!Next
<1> DEFINE l == Peer(e)
<1>1. /\ play[e] = "read" /\ play' = [play EXCEPT ![e] = "check"]
      /\ pipe[l] # <<>> /\ Receive(e)
      /\ UNCHANGED <<args, seen, rec>>
  BY DEF PlayRead, PlayAt
<1>2. /\ Values /\ Values' /\ seen[e] # NoByte /\ play \in [Ends -> PlayStates]
  BY <1>1 DEF LinksIInv, SpeechIInv, IInv, Shape, Speech, TaskSpeech, Started
<1>3. l \in Ends /\ Peer(l) = e
  BY PeerFacts
<1>4. Flights' = [Flights EXCEPT ![l] = @ - 1] /\ Flights[l] > 0
  BY <1>1, <1>2, FrameRead
<1>5. /\ Receivers[l] = CodecOf[l]
      /\ UNCHANGED <<Senders, Receivers, AskedFor, CodecOf>>
  <2>1. {"read", "check"} \cap Over = {}
    BY DEF Over, Ended
  <2>2. \A d \in Ends : Senders'[d] = Senders[d] /\ Receivers'[d] = Receivers[d]
    BY <1>1, <1>2, <2>1, CodedTasks, PeerFacts DEF TaskIs
  <2>3. Senders' = Senders /\ Receivers' = Receivers
    BY <2>2 DEF Senders, Receivers
  <2>4. QED
    BY <1>1, <1>3, <2>1, <2>3, CodedTasks DEF TaskIs
<1>6. Links!Receive(l)
  BY <1>4, <1>5 DEF Links!Receive, Senders, Receivers, AskedFor, Asked,
     CodecOf, Flights
<1>7. QED
  BY <1>3, <1>6 DEF Links!Next

-----------------------------------------------------------------------------
(* All steps, as steps of AudioLinks.                                      *)

LEMMA ClientLinks ==
  ASSUME LinksIInv, LinksIInv', TasksCoded, TasksCoded', NEW c \in Clients,
         Client(c)
  PROVE  Links!Next
<1> DEFINE e == AtClient(c)
<1>1. e \in Ends /\ Values /\ Values'
  BY EndFacts DEF LinksIInv, SpeechIInv, Speech
<1>2. ASSUME NEW how, ClientExits(c, how)
      PROVE  Links!Next
  BY <1>2, ExitsGoOn, NoStart DEF ClientExits
<1>3. CASE UNCHANGED <<args, pipe, seen, tasks>>
  BY <1>3, NoStart DEF tasks, TasksGoOn, GoesOn
<1>4. CASE CheckAudio(c) \/ Terminate(c)
  BY <1>2, <1>3, <1>4 DEF CheckAudio, Terminate, ClientDies, socket
<1>5. CASE ClientFails(c) \/ ClientReturns(c)
  BY <1>3, <1>5 DEF ClientFails, ClientReturns, RunReturns
<1>6. CASE Connect(c) \/ ConnectFails(c) \/ JoinRecord(c) \/ JoinPlayback(c)
  BY <1>3, <1>5, <1>6 DEF Connect, ConnectFails, JoinRecord, JoinPlayback, socket
<1>7. CASE WriteFlags(c) /\ ~ ClientFails(c)
  <2>1. /\ \E item : Send(e, item)
        /\ UNCHANGED <<args, seen, tasks>> /\ ~ Spoken(e)
    BY <1>7 DEF WriteFlags, LinksIInv, SpeechIInv, Speech, ClientSpeech, Unspoken
  <2>2. FlightsStay
    BY <1>1, <2>1, HelloSent
  <2>3. QED
    BY <2>1, <2>2, GoingOnIsEnd DEF tasks, TasksGoOn, GoesOn
<1>8. CASE ReadType(c) /\ ~ ClientFails(c)
  <2>1. /\ pipe[Peer(e)] # <<>> /\ Receive(e) /\ UNCHANGED <<args, tasks>>
        /\ cpc[c] = "readType" /\ cpc' = [cpc EXCEPT ![c] = "startRecord"]
        /\ \E b : seen' = [seen EXCEPT ![e] = b]
    BY <1>8 DEF ReadType, Goto
  <2>2. seen[e] = NoByte /\ seen'[e] # NoByte
    BY <2>1 DEF LinksIInv, SpeechIInv, IInv, Shape, Speech, ClientSpeech, Starting
  <2>3. FlightsStay
    BY <1>1, <2>1, <2>2, HelloRead DEF Values
  <2>4. QED
    BY <2>1, <2>3, GoingOnIsEnd DEF tasks, TasksGoOn, GoesOn
<1>9. CASE StartRecord(c) /\ ~ ClientFails(c)
  <2>1. rec[e] = "none" /\ seen[e] # NoByte
    BY <1>9 DEF StartRecord, LinksIInv, SpeechIInv, IInv, Fresh, Speech,
       ClientSpeech, Starting
  <2>2. QED
    BY <1>1, <1>9, <2>1, RecordStarts DEF StartRecord, socket
<1>10. CASE StartPlayback(c) /\ ~ ClientFails(c)
  <2>1. play[e] = "none" /\ seen[e] # NoByte
    BY <1>10 DEF StartPlayback, LinksIInv, SpeechIInv, Owned, ClientHolds,
       BeforePlayback, Speech, ClientSpeech, Starting
  <2>2. QED
    BY <1>1, <1>10, <2>1, PlaybackStarts DEF StartPlayback, socket
<1>11. QED
  BY <1>4, <1>5, <1>6, <1>7, <1>8, <1>9, <1>10 DEF Client

LEMMA ServerLinks ==
  ASSUME LinksIInv, LinksIInv', TasksCoded, TasksCoded', Server
  PROVE  Links!Next
<1> DEFINE e == AtServer(current)
<1>1. Values /\ Values' /\ (spc \in Shaking => current \in Clients /\ e \in Ends)
  BY EndFacts DEF LinksIInv, SpeechIInv, IInv, Fresh, Speech
<1>2. CASE UNCHANGED <<args, pipe, seen, tasks>>
  BY <1>2, NoStart DEF tasks, TasksGoOn, GoesOn
<1>3. CASE ServerStops
  BY <1>2, <1>3 DEF ServerStops
<1>4. CASE ServerCheckAudio \/ Bind \/ CheckTerm \/ Accept \/ AcceptTimeout \/ AcceptFails
  BY <1>2, <1>3, <1>4 DEF ServerCheckAudio, Bind, CheckTerm, Accept,
     AcceptTimeout, AcceptFails, socket
<1>5. CASE ServerTerminate
  BY <1>5, ExitsGoOn, NoStart DEF ServerTerminate, ServerExits
<1>6. ASSUME NEW r, NEW w, ReturnFrom(e, r, w), UNCHANGED <<pipe, seen, tasks>>
      PROVE  Links!Next
  BY <1>2, <1>6 DEF ReturnFrom
<1>7. CASE WriteType
  <2>1. CASE ReturnFrom(e, FALSE, FALSE) /\ UNCHANGED <<pipe, seen, tasks>>
    BY <1>6, <2>1
  <2>2. CASE (\E item : Send(e, item)) /\ UNCHANGED <<args, seen, tasks>>
    <3>1. e \in Ends /\ ~ Spoken(e)
      BY <1>1, <1>7 DEF WriteType, LinksIInv, SpeechIInv, Speech,
         ServerSpeech, Shaking
    <3>2. FlightsStay
      BY <1>1, <2>2, <3>1, HelloSent
    <3>3. QED
      BY <2>2, <3>2, GoingOnIsEnd DEF tasks, TasksGoOn, GoesOn
  <2>3. QED
    BY <1>7, <2>1, <2>2 DEF WriteType
<1>8. CASE ReadFlags
  <2>1. CASE ReturnFrom(e, FALSE, FALSE) /\ UNCHANGED <<pipe, seen, tasks>>
    BY <1>6, <2>1
  <2>2. CASE /\ pipe[Peer(e)] # <<>> /\ Receive(e)
             /\ UNCHANGED <<args, tasks, current>>
             /\ spc' = "startPlayback" /\ \E b : seen' = [seen EXCEPT ![e] = b]
    <3>1. e \in Ends /\ seen[e] = NoByte /\ seen'[e] # NoByte
      BY <1>1, <1>8, <2>2 DEF ReadFlags, LinksIInv, SpeechIInv, Speech,
         ServerSpeech, Shaking
    <3>2. FlightsStay
      BY <1>1, <2>2, <3>1, HelloRead DEF Values
    <3>3. QED
      BY <2>2, <3>2, GoingOnIsEnd DEF tasks, TasksGoOn, GoesOn
  <2>3. QED
    BY <1>8, <2>1, <2>2 DEF ReadFlags
<1>9. CASE ServerStartPlayback
  <2>1. e \in Ends /\ play[e] = "none" /\ seen[e] # NoByte
    BY <1>1, <1>9 DEF ServerStartPlayback, LinksIInv, SpeechIInv, Owned,
       ServerHolds, Speech, ServerSpeech, Shaking
  <2>2. QED
    BY <1>6, <1>9, <2>1, PlaybackStarts DEF ServerStartPlayback, socket
<1>10. CASE ServerStartRecord
  <2>1. e \in Ends /\ rec[e] = "none" /\ seen[e] # NoByte
    BY <1>1, <1>10 DEF ServerStartRecord, LinksIInv, SpeechIInv, Owned,
       ServerHolds, Speech, ServerSpeech, Shaking
  <2>2. QED
    BY <1>6, <1>10, <2>1, RecordStarts DEF ServerStartRecord, ReturnFrom
<1>11. QED
  BY <1>4, <1>5, <1>7, <1>8, <1>9, <1>10 DEF Server

LEMMA TaskLinks ==
  ASSUME LinksIInv, LinksIInv', TasksCoded, TasksCoded', NEW e \in Ends,
         Record(e) \/ Play(e)
  PROVE  Links!Next
<1>1. /\ rec \in [Ends -> RecordStates] /\ play \in [Ends -> PlayStates]
      /\ "stop" \in Over /\ Ended \subseteq Over
      /\ {"none", "check", "peek", "write", "read"} \cap Over = {}
  BY DEF LinksIInv, SpeechIInv, IInv, Shape, Over, Ended
<1>2. ASSUME NEW from \in {"check", "peek", "write", "stop"}, NEW to,
             RecordAt(e, from, to), to # "none", from = "stop" => to \in Ended,
             UNCHANGED <<args, pipe, seen, play>>
      PROVE  Links!Next
  BY <1>1, <1>2, NoStart DEF RecordAt, TasksGoOn, GoesOn
<1>3. ASSUME NEW from \in {"check", "peek", "read", "stop"}, NEW to,
             PlayAt(e, from, to), to # "none", from = "stop" => to \in Ended,
             UNCHANGED <<args, pipe, seen, rec>>
      PROVE  Links!Next
  BY <1>1, <1>3, NoStart DEF PlayAt, TasksGoOn, GoesOn
<1>4. CASE RecordCheck(e) \/ RecordPeekFull(e) \/ RecordPeekEmpty(e)
  BY <1>2, <1>4 DEF RecordCheck, RecordPeekFull, RecordPeekEmpty,
     RecordReturns, socket
<1>5. CASE RecordWriteFails(e) \/ RecordEncodeFails(e) \/ RecordStop(e)
  BY <1>2, <1>5 DEF RecordWriteFails, RecordEncodeFails, RecordStop,
     RecordReturns, Ended, socket
<1>6. CASE PlayCheck(e) \/ PlayPeekRoom(e) \/ PlayPeekFull(e)
  BY <1>3, <1>6 DEF PlayCheck, PlayPeekRoom, PlayPeekFull, PlayReturns, socket
<1>7. CASE PlayReadFails(e) \/ PlayDecodeFails(e) \/ PlayStop(e)
  BY <1>3, <1>7 DEF PlayReadFails, PlayDecodeFails, PlayStop, PlayReturns,
     Ended, socket
<1>8. QED
  BY <1>4, <1>5, <1>6, <1>7, RecordWriteLinks, PlayReadLinks DEF Record, Play

LEMMA WorldLinks ==
  ASSUME TasksCoded, TasksCoded', World
  PROVE  Links!Next
<1>1. ASSUME NEW c \in Clients, CrashClient(c)
      PROVE  Links!Next
  BY <1>1, ExitsGoOn, NoStart DEF CrashClient, ClientDies, ClientExits
<1>2. CASE CrashServer
  BY <1>2, ExitsGoOn, NoStart DEF CrashServer, ServerExits
<1>3. CASE UNCHANGED <<args, socket, tasks>>
  BY <1>3, NoStart DEF socket, tasks, TasksGoOn, GoesOn
<1>4. QED
  BY <1>1, <1>2, <1>3 DEF World, SignalClient, SignalServer, DeviceDies

(* The sessions are the links that the command lines ask for, however many *)
(* clients there are, however many frames a connection holds and whatever  *)
(* fails: a task is started exactly where one side records and the other   *)
(* plays, once, in the codec of the client's choice, and what one sends    *)
(* the other receives, frame by frame; the handshake is no part of it      *)
(* (client.rs:77-106, server.rs:112-151, handlers.rs).                     *)
THEOREM SessionIsLinks == Spec => ImplementsAudioLinks
<1>1. Init => Links!Init
  <2>1. ASSUME Init, NEW e \in Ends
        PROVE  /\ Senders[e] = "none" /\ Receivers[e] = "none"
               /\ Flights[e] = 0 /\ CodecOf[e] \in {"raw", "opus"}
    <3>1. /\ Peer(e) \in Ends /\ rec[e] = "none" /\ play[Peer(e)] = "none"
          /\ pipe[e] = <<>>
      BY <2>1, PeerFacts DEF Init
    <3>2. QED
      BY <3>1 DEF Senders, Receivers, Flights, InFlightFrom, CodecOf, CodecName,
         TaskOf, Ended
  <2>2. QED
    BY <2>1 DEF Links!Init, Senders, Receivers, Flights, CodecOf
<1>2. Init => LinksIInv
  BY SpeechInitially, OwnedInitially DEF LinksIInv, OwnedIInv
<1>3. LinksIInv /\ [Next]_vars => LinksIInv'
  BY SpeechStepKeeps, OwnedStepKeeps DEF LinksIInv, OwnedIInv, SpeechIInv
<1>4. LinksIInv /\ LinksIInv' /\ TasksCoded /\ TasksCoded' /\ [Next]_vars
        => [Links!Next]_<<AskedFor, CodecOf, Senders, Receivers, Flights>>
  <2>1. SUFFICES ASSUME LinksIInv, LinksIInv', TasksCoded, TasksCoded', [Next]_vars
                 PROVE  Links!Next
    OBVIOUS
  <2>2. CASE UNCHANGED vars
    BY <2>1, <2>2, NoStart DEF vars, socket, tasks, TasksGoOn, GoesOn
  <2>3. QED
    BY <2>1, <2>2, ClientLinks, ServerLinks, TaskLinks, WorldLinks DEF Next
<1>5. QED
  BY <1>1, <1>2, <1>3, <1>4, TasksHaveTheirCodec, PTL
     DEF Spec, ImplementsAudioLinks, Links!Spec, AskedFor, Asked, CodecOf,
     Senders, Receivers, Flights
=============================================================================
