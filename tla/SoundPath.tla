----------------------------- MODULE SoundPath -----------------------------
(***************************************************************************)
(* The way of the sound, from the device that records it to the device     *)
(* that plays it, in the three ways the program has:                       *)
(*                                                                         *)
(*   raw       record task, connection, playback task (handlers.rs)        *)
(*   opus      the same with a codec                                       *)
(*   loopback  one thread that copies (bin/loopback.rs)                    *)
(*                                                                         *)
(* The two rings are ByteWindows, which RingBuf implements.  A push that   *)
(* fits is one step, as RingBufSPSC implements ByteQueue until a counter   *)
(* is torn, which is left out here; a push that overflows and a pop of the *)
(* playback device may overlap, and what they leave then is any end of a   *)
(* row of frames.                                                          *)
(*                                                                         *)
(* A byte is its place in its audio frame (the samples of all channels at  *)
(* one moment): a device that starts within a frame plays noise.           *)
(***************************************************************************)
EXTENDS RingIndex, Sequences

CONSTANTS
  Modes,            \* a subset of {"raw", "opus", "loopback"}
  FrameSize,        \* config.frame_size()
  BufferFrames,     \* config.buffer_frames
  MaxBufferFrames,  \* config.max_buffer_frames
  DeviceFrames,     \* how many frames a device gives or takes at once
  Window            \* bound: buffers the connection holds

(* config.buffer_size() and config.max_buffer_size().                      *)
BufferSize    == BufferFrames * FrameSize
MaxBufferSize == MaxBufferFrames * FrameSize

ASSUME ModesAssumption == Modes \subseteq {"raw", "opus", "loopback"}
ASSUME FramesAssumption ==
  /\ FrameSize \in Nat \ {0} /\ BufferFrames \in Nat \ {0}
  /\ MaxBufferFrames \in Nat /\ DeviceFrames \subseteq Nat \ {0}

(* ringbuf_create(max_bufsize), whose usable size is one byte less: the    *)
(* largest buffer fits only because its size is no power of two.           *)
ASSUME RingAssumption ==
  /\ Capacity = CreateCapacity(MaxBufferSize)
  /\ BufferSize <= MaxBufferSize /\ MaxBufferSize <= Usable

(* A buffer of the program and a request of the device fit in a ring       *)
(* together, as 3840 + 57600 <= 65535 do, and no request is larger than    *)
(* max_bufsize (ringbuf.c:115).                                            *)
ASSUME RoomAssumption ==
  \A n \in DeviceFrames :
    /\ n * FrameSize + BufferSize <= Usable
    /\ n * FrameSize <= MaxBufferSize

(* Frames lie on a grid in the array, so that the two pieces in which a    *)
(* push around its end is seen (ringbuf.c:20-25) are whole frames as well: *)
(* 65536 bytes and frames of 4 or 8.                                       *)
ASSUME GridAssumption == Capacity % FrameSize = 0

VARIABLES
  mode,
  chunks,      \* the numbers of frames the devices give and take
  recordRing,  \* the ring of the record stream
  taken,       \* what was read from it and not written yet
  network,     \* the connection; an opus frame is what it decodes to
  ppc,         \* where the playback task is
  received,    \* the buffer it has read
  playRing,    \* the ring of the playback stream
  played,      \* what the device has played last; <<>> is silence
  stalled,     \* the playback device has stopped asking
  dpc,         \* the device's pop: "idle", "pop", "crossed"
  asked,       \* how many bytes it wants,
  counted,     \* and how many it has found (ringbuf.c:110)
  wpc,         \* loopback's overflowing push: "idle", "push", "crossed"
  crossed      \* a pop and an overflowing push have overlapped

path  == <<recordRing, taken, network, ppc, received, playRing, played>>
calls == <<dpc, asked, counted, wpc, crossed>>
vars  == <<mode, chunks, path, stalled, calls>>

RecordRing == INSTANCE ByteWindow
  WITH Limit <- Usable, Buffers <- {}, Reads <- {},
       window <- recordRing, result <- taken, call <- <<>>
PlayRing == INSTANCE ByteWindow
  WITH Limit <- Usable, Buffers <- {}, Reads <- {},
       window <- playRing, result <- played, call <- <<>>

(* A mutant: a push that overflows drops nothing.                          *)
PushedWhole(ring, buf) == ring \o buf

(* A ring after ringbuf_push, and what ringbuf_available says of it.       *)
Pushed(ring, buf) == RecordRing!Newest(ring \o buf, Usable)
Room(ring) == Usable - Len(ring)

(* n bytes in a row, the first of them at some place in its frame; from    *)
(* the start of a frame on; and up to the end of one.                      *)
Row(first, n)  == [i \in 1 .. n |-> (first + i - 1) % FrameSize]
WholeFrames(n) == Row(0, n)
EndOfFrames(n) == Row(-n, n)

Init ==
  /\ mode \in Modes /\ chunks \in SUBSET DeviceFrames \ {{}}
  /\ recordRing = <<>> /\ taken = <<>> /\ network = <<>>
  /\ ppc = IF mode = "raw" THEN "peek" ELSE "read"
  /\ received = <<>> /\ playRing = <<>> /\ played = <<>>
  /\ stalled = FALSE
  /\ dpc = "idle" /\ asked = 0 /\ counted = 0 /\ wpc = "idle"
  /\ crossed = FALSE

-----------------------------------------------------------------------------
(* The record device and whoever reads what it has recorded.               *)

(* on_stream_read.  What does not fit is lost, and changes nothing here.   *)
DeviceRecords(n) ==
  /\ Room(recordRing) >= n
  /\ recordRing' = Pushed(recordRing, WholeFrames(n))
  /\ UNCHANGED <<mode, chunks, taken, network, ppc, received, playRing, played,
                 stalled, calls>>

(* A mutant: a buffer is only taken when there is a whole max_bufsize.     *)
RecordReadMax ==
  /\ taken = <<>> /\ Len(recordRing) >= MaxBufferSize
  /\ RecordRing!PopBackFrom(BufferSize, MaxBufferSize)
  /\ UNCHANGED <<mode, chunks, network, ppc, received, playRing, played, stalled,
                 calls>>

(* peek and read of the record stream, which nobody else reads.            *)
RecordRead ==
  /\ taken = <<>> /\ Len(recordRing) >= BufferSize
  /\ RecordRing!PopBackFrom(BufferSize, MaxBufferSize)
  /\ UNCHANGED <<mode, chunks, network, ppc, received, playRing, played, stalled,
                 calls>>

(* The record task: write_all waits for the connection.                    *)
RecordWrite ==
  /\ mode # "loopback" /\ taken # <<>>
  /\ Len(network) < Window * BufferSize
  /\ network' = network \o taken /\ taken' = <<>>
  /\ UNCHANGED <<mode, chunks, recordRing, ppc, received, playRing, played,
                 stalled, calls>>

(* loopback writes without asking for room.  A buffer that fits is one     *)
(* step: bytes that a pop is about to give free do not count, since a push *)
(* that uses them may as well come after that pop.                         *)
LoopbackWrite ==
  /\ mode = "loopback" /\ taken # <<>> /\ wpc = "idle" /\ dpc # "crossed"
  /\ Len(taken) <= Room(playRing)
  /\ playRing' = Pushed(playRing, taken) /\ taken' = <<>>
  /\ UNCHANGED <<mode, chunks, recordRing, network, ppc, received, played,
                 stalled, calls>>

(* A pop and an overflowing push overlap: both store head, one on top of   *)
(* the other.                                                              *)
Cross ==
  /\ dpc' = "crossed" /\ counted' = 0
  /\ wpc' = "crossed" /\ crossed' = TRUE

(* A buffer that does not fit moves head to make room (ringbuf.c:79-88),   *)
(* which takes until LoopbackOverflown.                                    *)
LoopbackOverflows ==
  /\ mode = "loopback" /\ taken # <<>> /\ wpc = "idle"
  /\ dpc = "crossed" \/ Len(taken) > Room(playRing)
  /\ \/ dpc = "idle" /\ wpc' = "push" /\ UNCHANGED <<dpc, counted, crossed>>
     \/ dpc # "idle" /\ Cross
  /\ UNCHANGED <<mode, chunks, path, stalled, asked>>

(* What two calls leave that have overlapped: tail, which only the push    *)
(* stores, is at the end of a frame, and head may be anywhere.             *)
AnyEndOfFrames == \E n \in 0 .. Usable : playRing' = EndOfFrames(n)

LoopbackOverflown ==
  /\ wpc # "idle" /\ wpc' = "idle" /\ taken' = <<>>
  /\ \/ wpc = "push" /\ playRing' = Pushed(playRing, taken)
     \/ wpc = "crossed" /\ AnyEndOfFrames
  /\ UNCHANGED <<mode, chunks, recordRing, network, ppc, received, played,
                 stalled, dpc, asked, counted, crossed>>

-----------------------------------------------------------------------------
(* The playback task and its device.                                       *)

(* A mutant: the room is not looked at.                                    *)
PlayPeekUnchecked ==
  /\ ppc = "peek" /\ ppc' = "read"
  /\ UNCHANGED <<mode, chunks, recordRing, taken, network, received, playRing,
                 played, stalled, calls>>

(* The raw loop reads only when a buffer fits; until then it peeks again.  *)
PlayPeek ==
  /\ ppc = "peek" /\ Room(playRing) >= BufferSize
  /\ ppc' = "read"
  /\ UNCHANGED <<mode, chunks, recordRing, taken, network, received, playRing,
                 played, stalled, calls>>

PlayRead ==
  /\ ppc = "read" /\ Len(network) >= BufferSize
  /\ received' = PlayRing!Oldest(network, BufferSize)
  /\ network' = PlayRing!Newest(network, Len(network) - BufferSize)
  /\ ppc' = IF mode = "raw" THEN "write" ELSE "decoded"
  /\ UNCHANGED <<mode, chunks, recordRing, taken, playRing, played, stalled, calls>>

(* A mutant: a frame waits for room.                                       *)
PlayDecodedWaits ==
  /\ ppc = "decoded" /\ Room(playRing) >= Len(received)
  /\ ppc' = "write"
  /\ UNCHANGED <<mode, chunks, recordRing, taken, network, received, playRing,
                 played, stalled, calls>>

(* The opus loop throws a frame away that does not fit.                    *)
PlayDecoded ==
  /\ ppc = "decoded"
  /\ \/ Room(playRing) >= Len(received) /\ ppc' = "write" /\ UNCHANGED received
     \/ Room(playRing) < Len(received) /\ ppc' = "read" /\ received' = <<>>
  /\ UNCHANGED <<mode, chunks, recordRing, taken, network, playRing, played,
                 stalled, calls>>

PlayWrite ==
  /\ ppc = "write"
  /\ playRing' = Pushed(playRing, received) /\ received' = <<>>
  /\ ppc' = IF mode = "raw" THEN "peek" ELSE "read"
  /\ UNCHANGED <<mode, chunks, recordRing, taken, network, played, stalled, calls>>

(* on_stream_write, when the ring holds too little: silence.               *)
DeviceIsSilent(n) ==
  /\ ~ stalled /\ dpc = "idle" /\ (Len(playRing) < n \/ wpc = "crossed")
  /\ played' = <<>>
  /\ UNCHANGED <<mode, chunks, recordRing, taken, network, ppc, received,
                 playRing, stalled, calls>>

(* When it holds enough: the pop begins, and counts what there is.  While  *)
(* a push overflows, there is enough (RoomAssumption).                     *)
DeviceAsks(n) ==
  /\ ~ stalled /\ dpc = "idle" /\ (Len(playRing) >= n \/ wpc = "crossed")
  /\ asked' = n
  /\ \/ /\ wpc = "idle" /\ dpc' = "pop" /\ counted' = Len(playRing)
        /\ UNCHANGED <<wpc, crossed>>
     \/ wpc # "idle" /\ Cross
  /\ UNCHANGED <<mode, chunks, path, stalled>>

(* What a pop copies then is still a row: on the grid a place of the array *)
(* holds the same place of a frame whatever is written to it.              *)
PopCrossed ==
  /\ \E first \in 0 .. FrameSize - 1 : played' = Row(first, asked)
  /\ AnyEndOfFrames

(* A mutant: the request is served from the oldest byte held.              *)
DevicePopsOldest ==
  /\ dpc # "idle" /\ dpc' = "idle" /\ asked' = 0 /\ counted' = 0
  /\ \/ dpc = "pop" /\ PlayRing!PopFront(asked)
     \/ dpc = "crossed" /\ PopCrossed
  /\ UNCHANGED <<mode, chunks, recordRing, taken, network, ppc, received,
                 stalled, wpc, crossed>>

(* The pop ends.  It has skipped what it counted above max_bufsize, not    *)
(* what was pushed since.                                                  *)
DevicePops ==
  /\ dpc # "idle" /\ dpc' = "idle" /\ asked' = 0 /\ counted' = 0
  /\ \/ /\ dpc = "pop"
        /\ PlayRing!PopBackFrom(asked, MaxBufferSize + Len(playRing) - counted)
     \/ dpc = "crossed" /\ PopCrossed
  /\ UNCHANGED <<mode, chunks, recordRing, taken, network, ppc, received,
                 stalled, wpc, crossed>>

(* The playback device is suspended, or gone, for good.                    *)
Stall ==
  /\ ~ stalled /\ stalled' = TRUE
  /\ UNCHANGED <<mode, chunks, path, calls>>

RecordDevice == \E f \in chunks : DeviceRecords(f * FrameSize)
PlayDevice   ==
  \/ \E f \in chunks : DeviceIsSilent(f * FrameSize) \/ DeviceAsks(f * FrameSize)
  \/ DevicePops
RecordTask   ==
  \/ RecordRead \/ RecordWrite
  \/ LoopbackWrite \/ LoopbackOverflows \/ LoopbackOverflown
PlayTask     == PlayPeek \/ PlayRead \/ PlayDecoded \/ PlayWrite

Next == RecordDevice \/ RecordTask \/ PlayTask \/ PlayDevice \/ Stall

Spec == Init /\ [][Next]_vars

(* The tasks run and the devices work, until the playback device stalls.   *)
FairSpec ==
  /\ Spec
  /\ WF_vars(RecordDevice) /\ WF_vars(RecordTask)
  /\ WF_vars(PlayTask) /\ WF_vars(PlayDevice)

-----------------------------------------------------------------------------

Places == Seq(0 .. FrameSize - 1)

TypeOK ==
  /\ mode \in Modes /\ chunks \subseteq DeviceFrames
  /\ {recordRing, taken, network, received, playRing, played} \subseteq Places
  /\ Len(recordRing) <= Usable /\ Len(playRing) <= Usable
  /\ ppc \in {"peek", "read", "decoded", "write"}
  /\ stalled \in BOOLEAN /\ crossed \in BOOLEAN
  /\ dpc \in {"idle", "pop", "crossed"} /\ wpc \in {"idle", "push", "crossed"}
  /\ asked \in 0 .. MaxBufferSize /\ counted \in 0 .. Len(playRing)

(* Whatever is dropped on the way, what is sent is whole audio frames, and *)
(* so is what is played while no counter is torn: in raw and opus always,  *)
(* in loopback until a pop and an overflowing push overlap.  It cuts the   *)
(* ring of loopback within a frame, because its usable size is odd; the    *)
(* skip to max_bufsize of ringbuf_pop_back_from, a whole number of frames, *)
(* mends it before the device hears it, unless the two stores of head      *)
(* (loopback.rs:53, ringbuf.c:86-88 against 110-113 and 39) fall on top of *)
(* one another.  Then head may stay within a frame with less than          *)
(* max_bufsize held; no later skip mends it, and the device plays noise.   *)
PlaysWholeFrames ==
  LET whole(buf) == buf = WholeFrames(Len(buf))
  IN /\ whole(taken) /\ whole(received)
     /\ mode # "loopback" \/ ~ crossed => whole(played)

(* The room that a playback task has found is there when it writes, though *)
(* the raw loop waits for its peer in between (handlers.rs:116-118, 145).  *)
RoomStays == ppc = "write" => Room(playRing) >= Len(received)

(* While both devices work sound is played again and again: no ring is too *)
(* full for who fills it and too empty for who empties it, on either side  *)
(* of the connection (handlers.rs:116, 207, 233, pulseaudio.c:76, 96).     *)
SoundFlows == <>stalled \/ []<><<DevicePops /\ played' # <<>> >>_vars

(* With a codec, or in loopback, a playback device that stands still does  *)
(* not hold up the other side: its sound is thrown away.  (The raw loop    *)
(* stops reading, and the record task of the peer stops in its write.)     *)
NeverHeldUp == mode # "raw" => []<><<RecordRead>>_vars
=============================================================================
