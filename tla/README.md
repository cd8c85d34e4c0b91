# A verification project for audiowire

audiowire carries sound between machines: a server and its clients record from
and play to local audio devices through a small C library, and exchange raw or
opus-encoded buffers over TCP. These TLA+ modules model the parts of it where
order matters, TLC checks them on small instances, and TLAPS proves the theorems
listed below for every value of the constants.

    tlc -config MCGuarded.cfg MCRingBufSPSC      # one run; PROJECT.json lists all
    tlapm RingBufSPSCProofs.tla                  # one proof module

## 1. Inventory

| component | state | operations | interacts through |
|---|---|---|---|
| ring buffer (`libaudiowire/src/ringbuf.c`) | `head`, `tail`, array | push, pop_front, pop_back, pop_back_from, flush, available, remaining | called by a task and by the device callback at the same time, no lock |
| C API shim (`common.c`) | none | record_peek/read, playback_peek/write | binds each API call to one ring operation and `max_bufsize` |
| stream base (`internals.h`) | ring, devname, config, error callback | init, deinit, error | part of every stream |
| PulseAudio backend (`pulseaudio.c`) | mainloop thread and lock, context, stream | start, stop, five callbacks | callbacks run on the mainloop thread with its lock held |
| PortAudio backend (`portaudio.c`) | stream handle | start, stop, two callbacks | callbacks on a real-time thread |
| Rust stream wrapper (`stream.rs`, `result.rs`) | `running`, devname | start, peek, read, write, stop | owns one C stream |
| `StreamType`, `StreamFlags` (`stream.rs`) | one byte each | build, decode | the handshake |
| record and playback tasks (`handlers.rs`) | stream, half a socket, `term` | four loops | ring on one side, socket on the other |
| client (`bin/client.rs`) | retry count, join handles | connect, handshake, start, join | TCP, signals |
| server (`bin/server.rs`) | listener, one `term` for all tasks | accept loop, handshake, detach | TCP, signals |
| loopback (`bin/loopback.rs`) | two streams | copy record to playback | ring, without asking for room |
| peers (`peer.rs`) | TCP halves; UDP backlog and leftover | read_exact, write_all, send | tasks; no binary uses the UDP peer |
| config, opus, logging, bindings | none | conversions | - |

What is hard: `head` is stored by both threads of a ring, and every counter reads
it twice; the callbacks of PulseAudio run against a start that waits and a stop
that takes no lock; one connection carries the handshake and the frames; a
session is four loops in two processes, any of which may end first; signals,
dead peers and failed codecs arrive while a task waits for something else.
`PROJECT.json` lists every such place under "hazards".

What makes each component correct: the ring hands out the newest bytes, in order,
once, whoever else is inside it; a stream is started whole or not at all, is
freed once and outlives its callbacks, whichever backend makes it; from one device
to the other there are whole audio frames only, and they keep coming; both ends of
a session agree on what flows in which direction and in which codec; no end of a
session outlives the reason for it, and none is ended by somebody else's failure;
a read from a peer returns the bytes that come next, however they were cut into
datagrams.

## 2. Modules

| module | models | refines / composes |
|---|---|---|
| `RingIndex` | the index arithmetic of `ringbuf.c`: capacity, mask, the two counters as functions of what their loads saw | - |
| `ByteWindow` | what a ring promises: a window on the newest bytes (abstract) | - |
| `RingBuf` | `ringbuf.c`, each call one step | implements `ByteWindow` |
| `RingBufSPSC` | `ringbuf.c` with both threads in it, each load, store and memcpy one step; the guards of the callers | uses `RingIndex`; implements `ByteQueue` |
| `ByteQueue` | what a ring promises two threads that ask first: an atomic queue of bytes (abstract) | - |
| `StreamType` | the two bytes of the handshake | - |
| `SoundPath` | the loops of `handlers.rs` and `loopback.rs` between two devices, two rings and a connection | two `ByteWindow`s, sized by `RingIndex` |
| `Session` | `client.rs`, `server.rs`, `handlers.rs`: processes, sockets, tasks | uses `StreamType`; implements `AudioLinks` |
| `AudioLinks` | what the sessions of a server promise: the links the command lines ask for (abstract) | - |
| `AudioStream` | what a stream promises its owner (abstract) | - |
| `PulseStream` | one stream of `pulseaudio.c` | component of `AudioBackend` |
| `PortStream` | one stream of `portaudio.c` | component of `AudioBackend` |
| `AudioBackend` | the wrapper of `stream.rs` around the backend that was built | composes `PulseStream` or `PortStream`; implements `AudioStream` |
| `UdpPeer` | `peer.rs` over UDP, with the loops that read from it | implements `FrameQueue` |
| `FrameQueue` | what a UDP peer promises those loops: a queue of frames that ends (abstract) | - |
| `MCRingBuf`, `MCRingBufSPSC`, `MCSession`, `MCUdpPeer` | instances for TLC | - |
| `RingIndexProofs`, `RingBufProofs`, `RingBufSPSCProofs`, `SoundPathProofs`, `SessionProofs`, `SessionHelloProofs`, `AudioBackendProofs`, `UdpPeerProofs` | lemmas and theorems | - |

### RingBuf and ByteWindow
Variables are the fields of `struct ringbuf`, plus `result` (what the last call
copied out) and the history variable `call`, which makes the refinement say that
a call does what *that* call promises. `Push` keeps both branches of
`ringbuf_push`; the pops differ in where they start and share `Read`
(`ringbuf_read`). The refinement maps `window` to the bytes from `head` up to
`tail`. `MCRingBuf` takes the capacity `ringbuf_create` computes for a request.

### RingBufSPSC
The producer is whoever pushes (the record callback or the playback task), the
consumer whoever pops. Steps are the loads and stores of the atomics in the
order of the C expressions (operands left to right, as compilers emit it), and
each `memcpy`; a thread may be interrupted between any two. The producer's loads
of `tail` are not steps of their own, since it alone stores it. Bytes are stamps
modulo `StampCount`, two laps of the ring, so that a stale byte differs from the
right one. `Guarded` tells the callers that compare `ringbuf_available` with the
length before they push (callbacks, tasks) from those that do not (loopback, the
C test). The counters can come out negative: between the comparison and the
subtraction the other thread may move an index around the end of the array. The
history variable `torn` records it, the safety properties hold until then, and
the run `spsc_torn` shows that it happens. `ByteQueue` is the atomic object behind
this: a put and a take move a whole piece at once. The refinement maps its `queue`
to `HeldBytes`, what the slots from `head` to `tail` hold, so the store of an index
is the one step of a call that counts and no copy may touch a byte that is held.

### SoundPath
One direction of the sound: `DeviceRecords`, `DeviceIsSilent`, `DeviceAsks` and
`DevicePops` are the data callbacks, `RecordRead`, `RecordWrite`, `PlayPeek`,
`PlayRead`, `PlayDecoded` and `PlayWrite` the steps of the two loops,
`LoopbackWrite`, `LoopbackOverflows` and `LoopbackOverflown` those of `loopback.rs`,
which copies without asking for room. The rings are `ByteWindow`s of the size
`ringbuf_create` chooses, which is right because `RingBuf` implements `ByteWindow`
and each ring has one producer and one consumer that ask first, whose every step
that counts is atomic until a counter is torn (`RingIsQueue`); torn counters are
left out of this module.

The one call that does not ask is loopback's write. It is one step while its buffer
fits. A push that overflows stores `head`, as the pop of the device does, so both
have a beginning and an end here: the push between `LoopbackOverflows` and
`LoopbackOverflown`, the pop between its count (`DeviceAsks`, `ringbuf.c:110`) and
its end (`DevicePops`). If one begins while the other is under way they overlap
(`crossed`), and then what they leave is any row of bytes that ends with a frame,
of any length (`AnyEndOfFrames`): `tail`, which only the push stores, stays at the
end of a frame, `head` may be anywhere. This is more than the stores of
`ringbuf.c:39`, `88` and `113` can do. `GridAssumption`, that the array is a whole
number of frames, makes the two pieces of a push around its end whole frames, and
what an overlapping pop copies a row of places.

A byte is its place within an audio frame: to play from the middle of a frame is to
play noise. `chunks`, the numbers of frames the devices ask for and deliver, is
chosen once for each behaviour. The playback device may stall for good.

### Session
An *end* is one process's side of one connection: two socket halves, a record
task that owns the write half, a playback task that owns the read half. The
steps of a task are the checks of `term`, the peek, the read or write (which may
wait), the return (which drops its half and so shuts down that direction) and
the stop of its stream. What a peek answers is a choice, because `SoundPath`
and the devices decide it. `main` of the client and of the server are one step
per await, from `check_audio` to `terminate`; between the return of `run` and the
end of the process, tasks nobody joined go on for a while. TCP is a FIFO per
direction; reading at its end fails, and reading or writing may fail early when
the peer is gone. A process that exits closes its sockets and drops its tasks
without stopping their streams ("cancelled"). An end in `dead` has lost its audio
server or its device: nobody is told, and its rings are neither filled nor emptied
any more. `Faults` selects what may fail or happen: `bind`, `accept`, `start`,
`codec` and `stop` are calls that return an error; `device`, `crash`,
`signalClient` and `signalServer` happen to a device or a process.
`AudioLinks` knows no handshake, socket or process: there is a link where one side
records and the other plays, its sender and its receiver are each started once and
in the codec of the client's choice, and frames sent are frames received. The
refinement maps `sender` to the record task of an end, `receiver` to the playback
task of its peer, and `flight` to what is in the connection but for the byte of the
handshake (`InFlightFrom`); everything else a session does is a stutter, or the end
of some tasks.

### AudioBackend, PulseStream, PortStream and AudioStream
`AudioBackend` is `stream.rs`: start, `BaseStream::new` with its copy of the
device name, the flag `running` and the idempotent stop. `meson.build` chooses one
backend; each is a component whose actions `AudioBackend` conjoins with what the
other leaves alone. In `PulseStream` the app thread runs `start_stream`, `aw_stop`
and `free_stream`, the loop thread the callbacks. The lock,
`pa_threaded_mainloop_wait` and `signal` are modelled as libpulse documents them:
a wait gives the lock away, a signal to nobody is lost, a wake-up may be spurious.
The audio server answers, fails, asks for data and moves the stream in any order.
`aw_stop` takes no lock, so its steps fall into callbacks: a callback that fails
in that window finds `stream->handle` NULL, on which libpulse aborts; the model
has this outcome as `crashed`. A device name is the number of the string libpulse
allocated last; an older one is freed, and who reads it finds it `dangling`. Data
races inside libpulse itself are not modelled. In `PortStream` every call of
PortAudio may fail, a device may vanish and `aw_terminate` may close the stream
while its owner still has it. `AudioStream` is what both promise: a start that
gives a stream or an error, a stop that takes the stream back or leaves it as it
was, memory freed once and never under a callback. The refinement maps its
`memory` to `base`, `owned` to `running` and `inside` to the callback in progress.

### UdpPeer
`read_exact` is one step for the leftover and one for each datagram received;
the writer sends one datagram per frame, the network loses, repeats and reorders
them, the producer fills a bounded backlog and may be dropped. The reader is the
raw loop (every frame of one size), the opus loop (head, then as many bytes as it
says) or a caller of any sizes ("mixed"). A byte is a pair of its frame and its
place in it, so a byte that went to the wrong place shows. `misplaced` is a
history variable: it marks the calls whose leftover `peer.rs:83` miscounts.
`FrameQueue` says what the two loops rely on: frames are delivered once, in the
order the producer was allowed to put them, and the end is reported after the last.
The refinement maps its `queue` to the frames in the backlog behind the one that
has been received and is not used yet, whose bytes name it (`Pending`).

## 3. Runs

Twelve runs; `PROJECT.json` gives each run's properties, and for every property
of a passing run a mutant of the code that breaks it.

| run | instance | shows |
|---|---|---|
| `ringbuf` | 4 slots, 2 byte values, buffers of 1 to 4 bytes, requests within the offset | types, refinement of `ByteWindow`, pops take held bytes |
| `ringbuf_large` (violation) | a request of 4 with offset 2 | `ringbuf_pop_back_from` runs past `tail` |
| `spsc_guarded` | 4 slots, 8 stamps, lengths 1 and 2 | until a counter is torn: FIFO, no race, no drop, whole reads, refinement of `ByteQueue` |
| `spsc_bare` | 4 slots, writes up to 3, no guard | indices stay in the ring, calls return |
| `path` | frames of 2 bytes, buffers of 3 frames, `max_bufsize` 7 frames, rings of 16, devices of 1, 2 and 4 frames, all three modes | whole frames until an overlap, room that stays, sound that goes on, nobody held up by a stalled device |
| `spsc_torn` (violation) | as `spsc_guarded` | a counter wraps around |
| `spsc_unguarded` (violation) | 4 slots, writes up to 2, no guard | overflow loses the bytes just pushed |
| `session_safe` | 1 client, 4 x 4 types, both codecs, 2 frames in flight, 1 retry, all faults but `device` and `stop` | agreement, framing, reasons to end, nothing left running, refinement of `AudioLinks` |
| `session_signal` | 1 client, both ways, raw and opus; codec, device, signal to the client | a signal ends the client |
| `session_gone` | 1 client, both ways, raw; crashes, devices, failed stops, signal to the server | a dead end frees the other; the server ends; sound arrives |
| `backends` | one stream of either backend, two moves | everything of `AudioBackend` |
| `udp` | frames of 2, 2 and 3 bytes with heads of 1, requests of any relation to them, backlog 2 | reads are exact, frames whole, refinement of `FrameQueue` |

**Bounds.** A ring of four slots has every relation between head, tail and the
end of the array, and a length that wraps, fits exactly and overflows; the proofs
lift the results to every capacity. `WordSize` is a multiple of the capacity, as
2^64 is. `Window`, the frames in flight in one direction, is 2 in
`session_safe`, so that frames lie behind one another, and 1 in the liveness runs,
where a second write waits; the handshake byte has its own place. `MAX_RETRY` is 1
in `session_safe` and 0 where connecting is not the question. A stop that fails
is in `session_gone`.
One client is enough for what happens within a session; what one session does to
another is proved for any number of clients (every safety property of `Session`). In `path` the sizes
keep the relations of the program's: a buffer divides nothing, `max_bufsize` is a
whole number of frames and no power of two, the usable size of the ring is odd, and
a request of the device and a buffer fit in the ring together, the array is a whole
number of frames; the two safety properties are proved for all sizes. Two moves show a name that is stale once and
one that was freed meanwhile. In `udp` a backlog of two datagrams, sizes that are
equal and different, and requests smaller, equal, larger and twice as large as a
leftover meet every branch of `read_exact`.

**Fairness.** `RingBufSPSC`: both threads take steps; the callback is called every
buffer period and the tasks loop. `SoundPath`: both devices and both tasks take steps
until the playback device stalls, which it need not. `SoundFlows` needs the largest
request of a device and a buffer to fit in the ring together (`RoomAssumption`): in
the program a buffer is 3840 bytes, a request of a device is assumed to be no larger
than `max_bufsize`, which is 57600 (in loopback 38400), and the
ring holds 65535. `NeverHeldUp` excepts the raw loop, which does stop reading when
its ring is full. `Session`: every process and task runs (WF); a device that works
records a buffer and plays one again and again (SF); one that is dead leaves the
record ring empty for good and the playback ring full. That a working recorder is
ever found short of a buffer is not assumed: while the connection is slower than
the device it is not, and the inner loops (`handlers.rs:207-210`, `233-241`) never
look at `term`. Nobody has to send, crash or signal. `SignalledServerExits` assumes that a client in the
handshake goes on or goes away, since the server waits for it without a timeout.
`SignalledClientExits` excepts a client whose write waits for a server that has
stopped reading but not closed the connection (`Abandoned`), and one whose server
has a dead device, and a behaviour in which the client's recorder writes for ever,
as those inner loops may; `GoneClientFreesServer` and `GoneServerFreesClients` except the
end whose own device is dead. Without the exceptions the properties are false: the
code has no timeout for a silent peer, and a task whose ring stands still never
touches its socket. `AudioBackend`: the threads run, the audio server answers or
fails what waits for it, and the loop sleeps without the lock (SF for the app).
Nobody has to stop. `UdpPeer`: the reader runs; nothing has to arrive.

**Deadlock** is not checked in `Session` and `AudioBackend`, where processes exit,
starts fail and programs abort, nor in `SoundPath`, where a stalled playback device
stops the raw loops of both ends once everything between them is full. In `udp` it
is checked.

## 4. Findings

1. `ringbuf.c:115`: the length of `ringbuf_pop_back_from` is bounded by the bytes
   held before its skip (`ringbuf_large`).
2. `ringbuf.c:66-68, 72-74`: the counters read an index twice and may wrap around
   (`spsc_torn`). A guard of the producer then holds with no room, and its push
   drops bytes: `GuardPreventsDrop` and `NoDrop` speak of the time before.
3. `ringbuf.c:88` with `39` and `113`: an overflowing push moves the consumer's
   index and may be undone or overtaken (`spsc_unguarded`). In loopback the index
   may also be left within an audio frame with less than `max_bufsize` held, which
   no later skip mends: the device then plays noise. Hence the exception of
   `PlaysWholeFrames` (`crossed`).

Five more places are known and stated as exceptions of properties, because no
text of the repository says otherwise: `peer.rs:83` and `101` miscount a leftover
that is shorter than the request (`ReadIsExact`; the loops of the program never
leave one, `FramesWhole`); the device name may be read after libpulse has freed it
(`NameDanglesOnlyWhileMoving`); a callback that fails while `aw_stop` tears its
stream down aborts the program (`CrashesOnlyInTeardown`); a PaStream that
`Pa_StartStream` fails to start is never closed (`portaudio.c:132-140`,
`AllOrNothing`); a recorder that always finds another buffer does not see `term`
(`handlers.rs:207-210`, `SignalledClientExits`).

## 5. Proofs

`RingIndexProofs` has the lemmas on the index arithmetic: what a masked index is,
that `Available` and `Remaining` add up to the usable capacity, and how they
change when an index moves.

| theorem | statement | assumes |
|---|---|---|
| `RingBufProofs!TypeCorrect` | `Spec => []TypeOK` | the named ASSUMEs of the constants |
| `RingBufProofs!Implements` | `Spec => ImplementsWindow` | `ReadsWithinOffset` |
| `RingBufProofs!PopsTake` | `Spec => PopsTakeHeldBytes` | `ReadsWithinOffset` |
| `RingBufSPSCProofs!SPSCTypeCorrect` | `Spec => []TypeOK` | the named ASSUMEs; guarded or not |
| `RingBufSPSCProofs!KnowledgeCorrect` | `Spec => []KnowledgeStays` | `CallersContract` |
| `RingBufSPSCProofs!NoRace` | `Spec => []RaceFree` | `CallersContract` |
| `RingBufSPSCProofs!NoDrop` | `Spec => [](GuardPreventsDrop /\ GuardedReadIsWhole)`, which hold until a counter is torn | `CallersContract` |
| `RingBufSPSCProofs!ReadsAreWhole` | `Spec => []GuardedReadIsWhole` | `CallersContract` |
| `RingBufSPSCProofs!RingIsFifo` | `Spec => []Fifo` | `CallersContract` |
| `RingBufSPSCProofs!RingIsQueue` | `Spec => ImplementsQueue` | `CallersContract` |
| `SoundPathProofs!RoomIsThere` | `Spec => []RoomStays` | the named ASSUMEs of the sizes |
| `SoundPathProofs!FramesStayWhole` | `Spec => []PlaysWholeFrames`, what is played in loopback until `crossed` | the named ASSUMEs of the sizes; no torn counter |
| `SoundPathProofs!PathTypes` | `Spec => []TypeOK` | the named ASSUMEs of the sizes |
| `SessionProofs!TasksEndForAReason` | `Spec => []EndsForAReason` | the named ASSUMEs; any clients, faults and bounds |
| `SessionProofs!RunningTasksOwnTheirHalf` | `Spec => []TasksOwnTheirHalf` | the same |
| `SessionProofs!ClientsLeaveNothingRunning` | `Spec => []NothingLeftRunning` | the same |
| `SessionHelloProofs!EndsAgree` | `Spec => []PeersAgree` | the same |
| `SessionHelloProofs!PlayersReadFrames` | `Spec => []ReadsAreFrames` | the same |
| `SessionHelloProofs!SessionIsLinks` | `Spec => ImplementsAudioLinks` | the same |
| `SessionHelloProofs!SessionTypes` | `Spec => []TypeOK` | the same |
| `AudioBackendProofs!BackendIsAudioStream` | `Spec => ImplementsAudioStream` | the named ASSUMEs; either backend, any number of moves |
| `AudioBackendProofs!WholeOrNothing` | `Spec => []AllOrNothing` | the same |
| `AudioBackendProofs!OneReport` | `Spec => []ReportsOnce` | the same |
| `AudioBackendProofs!CrashesOnlyWhileStopping` | `Spec => CrashesOnlyInTeardown` | the same |
| `AudioBackendProofs!NameDanglesOnlyInAMove` | `Spec => NameDanglesOnlyWhileMoving` | the same |
| `AudioBackendProofs!BackendTypes` | `Spec => []TypeOK` | the same |
| `UdpPeerProofs!ExactReads` | `Spec => []ReadIsExact` | the named ASSUMEs; any frames, sizes, requests and backlog |
| `UdpPeerProofs!WholeFrames` | `Spec => []FramesWhole` | the same |
| `UdpPeerProofs!PeerIsQueue` | `Spec => ImplementsFrameQueue` | the same |
| `UdpPeerProofs!UdpTypes` | `Spec => []TypeOK` | the same |

`ReadsWithinOffset` is what finding 1 shows to be needed; the Rust callers respect
it. `CallersContract`: producers ask first, no push fills the whole ring (lengths
are whole frames, an even number of bytes, and the usable capacity is odd), no
read exceeds `max_bufsize`. TLC checks that the guarded instances satisfy it.

The refinement argument: `Held`, the bytes from `head` to `tail` as a sequence, is
computed for each way a call moves the two indices (lemmas on `Copied` and
`Written`), and each call then matches its abstract namesake.

The concurrent argument: no safety property of the two threads is inductive,
because a thread acts on what it counted some steps ago. `KnowledgeStays` says
for each program counter what the thread still knows: the producer, that the room
is at least what it counted (the consumer only makes more); the consumer, that
the bytes it counted are still held (the producer only adds). It is inductive
with `TypeOK`, under `~torn`; `RaceFree` and the others follow from it in each
state.

`Fifo` speaks of the bytes of one copy; inductive is `InOrder`, which speaks of all
of them: the slot at place `k` behind `head` holds the byte that is due `k` bytes
later, and what has been copied in holds what is due behind them once `tail` is
stored. A pop moves every place by what it takes (`PlaceOnPop`), a push writes only
to places beyond the bytes held (`PlaceOnPush`), and counting modulo `StampCount`
may be done in steps (`StampAdds`).

The argument about frames: a ring always *ends* with an audio frame, because what
is pushed does and a push that overflows cuts only the start. It need not start
with one, but then, unless a pop and an overflowing push have overlapped
(`crossed`), it is full, and the next pop skips to `max_bufsize`, a whole number of
frames from the end (`Mended`). A push that fits may come between the count of a
pop and its end; the skip is by what was counted, so what is left then is
`max_bufsize` and what was pushed since (`PopWhole`,
`PushBehindPop`). After an
overlap only the end is known, and nothing is claimed of what loopback plays.
In raw and opus no push overflows, so nothing overlaps. The lemmas are on remainders (`Shift`:
whole frames more or less leave the place in a frame) and on sequences cut at
either end. `PathTypes` adds what bounds the rings: a push never leaves more than
fits, and nothing else makes a ring longer. `RoomIsThere` is simpler: between the peek and the write only the
device touches the playback ring, and it only takes.

The argument about sessions: `EndsForAReason` is not inductive, since a reason of
the kind "the peer's half is closed" would be lost if that half were opened again.
The strengthening (`Fresh`) says that a client that has not connected yet has no
task at either end and is unknown to the server, so that a connection is opened
before any of its tasks and never afterwards; and that a record task of a client
is only started once, so that a flag its end has raised keeps its reason.

`TasksOwnTheirHalf` needs to know who holds a half before there is a task
(`Owned`): main of the client until it starts the task, the server for everyone it
has not accepted and for the one it shakes hands with; and that no task of these
has been started yet. `NothingLeftRunning` needs that only a process that fails
cancels a task (`Joined`), so that a joined one has ended by itself.

`PeersAgree` and `ReadsAreFrames` follow from what a connection holds (`Content`):
the byte, if the peer has not read it, and then frames of the codec of the sender,
and frames only from an end that has the byte of its peer. The rest of `Speech`
says how far each process is in the handshake, so that the byte is sent once and
before any frame. Both ends compute the codec from the byte of the client, hence
the lemma that `OpusEnabled` undoes `NewStreamFlags` (`FlagFacts`). TLC checked
each strengthening on the instances before it was proved.

Sessions as links: an end that has read its byte knows all that the two command
lines say about its two links (`SeenTells`), so what it starts and in which codec
is what `AudioLinks` asks for (`RecordStarts`, `PlaybackStarts`); that a task has
not been started before is in `Fresh` and `Owned`. A running task keeps its codec
(`TasksCoded`), one that is over stays so (`GoingOnIsEnd`), and the byte of the
handshake is sent into an empty connection and taken from its front, so it moves no
frame (`HelloSent`, `HelloRead`).

The argument about a stream: one invariant names, for each place the app can be in,
what it has of the stream and what the loop may be doing meanwhile (`PulseApp`,
`PulseLoop`, `PortInv`). Two notions carry it: a stream that runs (`Runs`) and one
that is gone (`Over`), each true in the last state of a call as in the states after
it. The lock is the app's only while it waits or looks (`Locked`); the teardown has
no lock, so what a callback may find then, a `handle` that is `NULL`, is part of the
invariant instead of excluded by it, and is where a program may abort. From it every
step is shown to be one of `AudioStream` or to change nothing that it speaks of.

The ring as a queue: by `InOrder` the bytes held are always the stamps from
`expected` to `pushed` (`HeldAreNumbered`), whatever the slots they lie in. Moving
`tail` by a piece that has been copied therefore appends the next stamps
(`PutIsPut`), moving `head` drops the oldest (`TakeIsTake`), and a step that stores
no index leaves what is held as it was, copies included (`OthersTouchNothing`).

The argument about the UDP peer: what a read returns depends on what it did while
it waited, so the invariant says what a waiting call has filled (`FilledSoFar`: its
buffer up to `off` is what it took from the peer, and nothing is left over) and
what each loop knows when it asks again: the raw one, that nothing is left over and
every datagram has its size (`RawReader`); the opus one, that the leftover is the
body of the head it read last, or empty before a head (`OpusReader`). From that
neither loop meets the branch of `peer.rs:83` that miscounts nor a datagram shorter
than its request. A frame is delivered in the step that uses it: receiving moves
its name from the backlog to `Pending`, reading the head and then the body leaves
it there.

Model-checked only: liveness, which the prover does not do.

## 6. Not modelled

Samples, codecs, resampling, durations, logging and argument parsing; memory
exhaustion and what the Rust wrapper leaks of the strings and handles it gives to C
(`stream.rs:286-290`); the scheduler of tokio, and so the cost of the raw playback
loop that peeks without pausing (`handlers.rs:115`); the end of `loopback.rs`, a
stop of two streams in a row; the choice of a PortAudio device and the Windows host
API; a codec that refuses its configuration before the first frame, which ends a
task as one that refuses a frame does; weak memory: the atomics are sequentially
consistent, the C default. The handshake byte is a byte, so its encoding is exact.

## 7. Plan

1. Done: the ring, sequential and concurrent; the handshake; the session with dead
   devices; both backends behind the wrapper as an `AudioStream`; the UDP peer; the
   path of the sound; the proofs of section 5.
2. Done: the refinements of `ByteQueue`, `FrameQueue` and `AudioLinks`, proved.
3. A bound on latency: after a pop at most `max_bufsize` bytes lie between what is
   played and what was received last (`SoundPath`).
