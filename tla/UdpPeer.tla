------------------------------ MODULE UdpPeer ------------------------------
(***************************************************************************)
(* The UDP peer of audiowire/src/peer.rs, read by the playback loops of    *)
(* audiowire/src/handlers.rs:                                              *)
(*                                                                         *)
(*   writer    UdpPeerWriteHalf: one datagram per frame                    *)
(*   network   loses, repeats and reorders datagrams                       *)
(*   producer  UdpPeerProducer: puts what arrives into the backlog, a      *)
(*             bounded channel, and may be dropped at any time             *)
(*   reader    UdpPeerReadHalf::read_exact, one step per wait, called by   *)
(*             the raw loop, the opus loop, or with sizes of no relation   *)
(*             to the datagrams                                            *)
(*                                                                         *)
(* A byte is a pair of its frame and its place in it.                      *)
(***************************************************************************)
EXTENDS Integers, Sequences

CONSTANTS
  Frames,    \* the frames a record task sends
  Size,      \* the bytes of each frame, its head included
  HeadSize,  \* size_of::<u16>(), the head of an opus frame
  Requests,  \* the sizes a reader of no protocol asks for
  Backlog,   \* the capacity of the channel
  Modes      \* how the reader calls read_exact: "opus", "raw", "mixed"

ASSUME SizeAssumption ==
  HeadSize \in Nat \ {0} /\ \A f \in Frames : Size[f] \in Nat /\ Size[f] > HeadSize
ASSUME BacklogAssumption == Backlog \in Nat \ {0}
ASSUME RequestsAssumption == Requests \subseteq Nat
ASSUME ModesAssumption == Modes \subseteq {"opus", "raw", "mixed"}

VARIABLES
  mode,      \* how the reader calls read_exact
  raw,       \* the frame whose size every raw frame has
  network,   \* datagrams on their way
  backlog,   \* the channel between producer and reader
  closed,    \* the producer was dropped
  leftover,  \* what the last read left of its datagram; <<>> is None
  rpc,       \* where the reader is
  part,      \* what it reads: the head of a frame, its body, or all of it
  buf,       \* the buffer of the call
  off,       \* how far the call believes to have filled it
  head,      \* the head it read last
  due,       \* history: the bytes the call has taken from the peer
  misplaced  \* history: the call copied the leftover to the wrong place

reader  == <<leftover, rpc, part, buf, off, head>>
history == <<due, misplaced>>
vars == <<mode, raw, network, backlog, closed, reader, history>>

Datagram(f) == [i \in 1 .. Size[f] |-> <<f, i>>]
HeadOf(f)   == SubSeq(Datagram(f), 1, HeadSize)
BodyOf(f)   == SubSeq(Datagram(f), HeadSize + 1, Size[f])

(* What a buffer holds where nothing was copied to.                        *)
Stale == <<"stale">>

Blank(n) == [i \in 1 .. n |-> Stale]

(* "buf[at..at + len].clone_from_slice(src)".                              *)
Copied(b, at, src) ==
  [i \in DOMAIN b |-> IF i \in at + 1 .. at + Len(src) THEN src[i - at] ELSE b[i]]

From(s, n) == SubSeq(s, n + 1, Len(s))

Init ==
  /\ mode \in Modes /\ raw \in Frames
  /\ network = {} /\ backlog = <<>> /\ closed = FALSE
  /\ leftover = <<>> /\ rpc = "next"
  /\ part = IF mode = "opus" THEN "head" ELSE "all"
  /\ buf = <<>> /\ off = 0 /\ head = <<>>
  /\ due = <<>> /\ misplaced = FALSE

-----------------------------------------------------------------------------
(* Writer, network and producer.                                           *)

(* Without a codec every frame is one buffer of the device.  A send that   *)
(* fails puts nothing on the network: its task ends, another may send.     *)
WriteAll(f) ==
  /\ mode = "raw" => Size[f] = Size[raw]
  /\ network' \in {network, network \cup {f}}
  /\ UNCHANGED <<mode, raw, backlog, closed, reader, history>>

Lose(f) ==
  /\ network' = network \ {f}
  /\ UNCHANGED <<mode, raw, backlog, closed, reader, history>>

(* UdpPeerProducer::send waits while the channel is full.  A datagram may  *)
(* arrive again, and before those that were sent earlier.                  *)
Produce(f) ==
  /\ f \in network /\ ~ closed /\ Len(backlog) < Backlog
  /\ network' \in {network, network \ {f}}
  /\ backlog' = Append(backlog, Datagram(f))
  /\ UNCHANGED <<mode, raw, closed, reader, history>>

DropProducer ==
  /\ ~ closed /\ closed' = TRUE
  /\ UNCHANGED <<mode, raw, network, backlog, reader, history>>

-----------------------------------------------------------------------------
(* read_exact.                                                             *)

Returned(pos, n) == IF pos < n THEN "recv" ELSE "got"

(* The sizes the caller may ask for.  The length of a body is in its head; *)
(* a head of something else reads as any length.                           *)
Lengths ==
  CASE part = "head" -> {HeadSize}
    [] part = "body" -> IF \E f \in Frames : head = HeadOf(f)
                        THEN {Len(BodyOf(f)) : f \in {g \in Frames : head = HeadOf(g)}}
                        ELSE Requests
    [] part = "all"  -> IF mode = "raw" THEN {Size[raw]} ELSE Requests

(* A mutant: what was left over is read again.                             *)
ReadLeftoverKeeps(n) ==
  /\ leftover # <<>> /\ n <= Len(leftover)
  /\ buf' = SubSeq(leftover, 1, n) /\ leftover' = leftover
  /\ off' = n /\ misplaced' = FALSE

(* A mutant: the call counts all of the leftover, not what fits.           *)
ReadLeftoverCountsAll(n) ==
  /\ leftover # <<>> /\ n <= Len(leftover)
  /\ buf' = SubSeq(leftover, 1, n)
  /\ leftover' = From(leftover, n)
  /\ off' = Len(leftover) /\ misplaced' = FALSE

(* The leftover of the last call comes first.                              *)
ReadLeftover(n) ==
  /\ leftover # <<>>
  /\ \/ /\ n <= Len(leftover)
        /\ buf' = SubSeq(leftover, 1, n) /\ leftover' = From(leftover, n)
        /\ off' = n /\ misplaced' = FALSE
     \/ /\ n > Len(leftover)
        /\ buf' = Copied(Blank(n), 0, leftover) /\ leftover' = <<>>
        /\ off' = n - Len(leftover)
        /\ misplaced' = (n # 2 * Len(leftover))

ReadNoLeftover(n) ==
  /\ leftover = <<>>
  /\ buf' = Blank(n) /\ off' = 0
  /\ misplaced' = FALSE
  /\ UNCHANGED leftover

ReadExact(n) ==
  /\ rpc = "next"
  /\ ReadLeftover(n) \/ ReadNoLeftover(n)
  /\ due' = leftover
  /\ rpc' = Returned(off', n)
  /\ UNCHANGED <<mode, raw, network, backlog, closed, part, head>>

(* A datagram is received and removed from the channel.                    *)
Received ==
  /\ rpc = "recv" /\ backlog # <<>>
  /\ backlog' = Tail(backlog)
  /\ due' = due \o Head(backlog)
  /\ UNCHANGED <<mode, raw, network, closed, part, head>>

Remaining == Len(buf) - off

(* A mutant: the bytes past the request are thrown away.                   *)
RecvEnoughDropsRest ==
  /\ Received /\ Len(Head(backlog)) >= Remaining
  /\ buf' = Copied(buf, off, SubSeq(Head(backlog), 1, Remaining))
  /\ off' = off + Remaining
  /\ rpc' = "got"
  /\ UNCHANGED <<leftover, misplaced>>

(* It has the bytes the call still lacks, or more.                         *)
RecvEnough ==
  /\ Received /\ Len(Head(backlog)) >= Remaining
  /\ buf' = Copied(buf, off, SubSeq(Head(backlog), 1, Remaining))
  /\ leftover' = From(Head(backlog), Remaining)
  /\ off' = off + Remaining
  /\ rpc' = "got"
  /\ UNCHANGED misplaced

(* It has fewer: the slice copied to is as long as what will be lacking    *)
(* then, and clone_from_slice panics on a slice of another length.         *)
RecvShort ==
  /\ Received /\ Len(Head(backlog)) < Remaining
  /\ \/ /\ Remaining - Len(Head(backlog)) = Len(Head(backlog))
        /\ buf' = Copied(buf, off, Head(backlog))
        /\ off' = off + Len(Head(backlog)) /\ UNCHANGED rpc
     \/ /\ Remaining - Len(Head(backlog)) # Len(Head(backlog))
        /\ rpc' = "panicked" /\ UNCHANGED <<buf, off>>
  /\ UNCHANGED <<leftover, misplaced>>

(* A mutant: the channel ends at once when the producer is gone.           *)
RecvClosedAtOnce ==
  /\ rpc = "recv" /\ closed
  /\ rpc' = "ended"
  /\ UNCHANGED <<mode, raw, network, backlog, closed, leftover, part, buf, off,
                 head, history>>

(* A mutant: the end of the channel is waited for like a datagram.         *)
RecvNeverCloses == FALSE

(* The producer is gone and the channel drained: UnexpectedEof.            *)
RecvClosed ==
  /\ rpc = "recv" /\ closed /\ backlog = <<>>
  /\ rpc' = "ended"
  /\ UNCHANGED <<mode, raw, network, backlog, closed, leftover, part, buf, off,
                 head, history>>

-----------------------------------------------------------------------------
(* The loops of handlers.rs around it: an opus frame is read in two calls. *)

Following == [head |-> "body", body |-> "head", all |-> "all"]

UseFrame ==
  /\ rpc = "got"
  /\ rpc' = "next" /\ part' = Following[part]
  /\ head' = IF part = "head" THEN buf ELSE <<>>
  /\ buf' = <<>> /\ off' = 0 /\ due' = <<>>
  /\ UNCHANGED <<mode, raw, network, backlog, closed, leftover, misplaced>>

Reader ==
  \/ \E n \in Lengths : ReadExact(n)
  \/ RecvEnough \/ RecvShort \/ RecvClosed
  \/ UseFrame

Next ==
  \/ \E f \in Frames : WriteAll(f) \/ Lose(f) \/ Produce(f)
  \/ DropProducer
  \/ Reader

Spec == Init /\ [][Next]_vars

(* The reader runs.  Nobody has to send, and the network delivers nothing. *)
FairSpec == Spec /\ WF_vars(Reader)

-----------------------------------------------------------------------------

Bytes == UNION {{Datagram(f)[i] : i \in 1 .. Size[f]} : f \in Frames}
IsBytes(s, S) == \A i \in DOMAIN s : s[i] \in S

TypeOK ==
  /\ mode \in Modes /\ raw \in Frames
  /\ network \subseteq Frames /\ closed \in BOOLEAN
  /\ Len(backlog) <= Backlog
  /\ \A i \in DOMAIN backlog : backlog[i] \in {Datagram(f) : f \in Frames}
  /\ IsBytes(leftover, Bytes) /\ IsBytes(due, Bytes)
  /\ rpc \in {"next", "recv", "got", "panicked", "ended"}
  /\ part \in {"head", "body", "all"}
  /\ IsBytes(buf, Bytes \cup {Stale}) /\ IsBytes(head, Bytes \cup {Stale})
  /\ off \in 0 .. Len(buf) /\ (rpc = "recv" => off < Len(buf))
  /\ misplaced \in BOOLEAN

(* A read that returns has filled its buffer with the next bytes of the    *)
(* peer, and keeps the ones after them for the next read, whatever sizes   *)
(* are asked for and arrive (peer.rs:62-112).  Except: a leftover that is  *)
(* too short, and not just half of the request, is counted by what is      *)
(* missing instead of what was copied (peer.rs:83), and then the datagrams *)
(* after it go to the wrong place.                                         *)
ReadIsExact ==
  rpc = "got" /\ ~ misplaced =>
    /\ buf = SubSeq(due, 1, Len(buf))
    /\ leftover = From(due, Len(buf))

(* The loops of handlers.rs, which read a datagram as it was written, in   *)
(* one call or in two, never see a part of one: whatever the network loses *)
(* or reorders, they get whole frames that were sent, with the head that   *)
(* belongs to the body, no read panics, and none meets the exception above. *)
FramesWhole ==
  mode # "mixed" =>
    /\ rpc # "panicked" /\ ~ misplaced
    /\ rpc = "got" /\ part = "all" => \E f \in Frames : buf = Datagram(f)
    /\ rpc = "got" /\ part = "body" =>
         \E f \in Frames : head = HeadOf(f) /\ buf = BodyOf(f)

(* The frame that was received and is not used yet; its bytes name it.     *)
Pending == IF part = "body" THEN <<head[1][1]>>
           ELSE IF rpc = "got" THEN <<buf[1][1]>> ELSE <<>>

NamesOf(b) == [i \in DOMAIN b |-> b[i][1][1]]

Accepted == Pending \o NamesOf(backlog)

Queue == INSTANCE FrameQueue
           WITH Limit <- Backlog + 1, queue <- Accepted, ended <- rpc = "ended"

(* To these loops the peer is a queue of frames: what its producer accepts *)
(* is delivered once and in that order, however the bytes are read, and    *)
(* then it ends: after the last frame that was accepted and never within   *)
(* one, since a channel is drained before it reports its end               *)
(* (peer.rs:62-112).                                                       *)
ImplementsFrameQueue ==
  /\ Queue!Init
  /\ [][mode # "mixed" => Queue!Next]_<<Accepted, closed, rpc = "ended">>

(* A reader whose producer is gone does not wait for ever.                 *)
ClosedPeerEnds == closed ~> rpc \in {"ended", "panicked"}
=============================================================================
