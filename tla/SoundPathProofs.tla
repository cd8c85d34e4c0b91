-------------------------- MODULE SoundPathProofs --------------------------
(***************************************************************************)
(* Three theorems about SoundPath, for every size of frame, buffer and     *)
(* ring and every device: the room a playback task has found stays until   *)
(* it writes; whole audio frames are sent, and played until a pop and an   *)
(* overflowing push of loopback overlap; no ring holds more than it may.   *)
(***************************************************************************)
EXTENDS SoundPath, SequenceTheorems, TLAPS

Ring == Seq(Nat)

Shape ==
  /\ chunks \subseteq DeviceFrames
  /\ recordRing \in Ring /\ taken \in Ring /\ network \in Ring
  /\ received \in Ring /\ playRing \in Ring /\ played \in Ring
  /\ Len(taken) <= BufferSize /\ Len(received) <= BufferSize
  /\ Len(recordRing) <= Usable /\ Len(playRing) <= Usable

(* What the raw loop has found out before it reads.  In loopback there is  *)
(* no playback task to disturb.                                            *)
RoomFound ==
  /\ mode = "loopback" => network = <<>> /\ ppc = "read"
  /\ ppc = "read" /\ mode = "raw" => Room(playRing) >= BufferSize
  /\ mode = "raw" => ppc # "decoded"

(* The two calls that take more than a step.  Only loopback's overlap, and *)
(* a pop that is alone knows how many bytes there are at least.            *)
Calls ==
  /\ dpc \in {"idle", "pop", "crossed"} /\ wpc \in {"idle", "push", "crossed"}
  /\ asked \in Nat /\ asked <= MaxBufferSize
  /\ counted \in Nat /\ counted <= Len(playRing)
  /\ dpc # "pop" => counted = 0
  /\ wpc # "idle" => dpc # "pop" /\ mode = "loopback"
  /\ dpc = "crossed" \/ wpc = "crossed" => crossed
  /\ crossed => mode = "loopback"

IInv == Shape /\ RoomFound /\ RoomStays /\ Calls

LEMMA Sizes ==
  /\ BufferSize \in Nat \ {0} /\ MaxBufferSize \in Nat /\ Usable \in Nat
  /\ FrameSize \in Nat \ {0}
  /\ \A f \in DeviceFrames : f * FrameSize \in Nat /\ f * FrameSize <= MaxBufferSize
BY FramesAssumption, CapacityAssumption, RoomAssumption
   DEF BufferSize, MaxBufferSize, Usable

LEMMA NewestFacts ==
  ASSUME NEW s \in Ring, NEW n \in Nat
  PROVE  /\ RecordRing!Newest(s, n) \in Ring /\ PlayRing!Newest(s, n) \in Ring
         /\ Len(RecordRing!Newest(s, n)) <= n
         /\ Len(RecordRing!Newest(s, n)) <= Len(s)
         /\ Len(PlayRing!Newest(s, n)) <= n
         /\ Len(PlayRing!Newest(s, n)) <= Len(s)
BY DEF Ring, RecordRing!Newest, PlayRing!Newest

LEMMA OldestFacts ==
  ASSUME NEW s \in Ring, NEW n \in Nat
  PROVE  /\ RecordRing!Oldest(s, n) \in Ring /\ PlayRing!Oldest(s, n) \in Ring
         /\ Len(RecordRing!Oldest(s, n)) <= n
         /\ Len(RecordRing!Oldest(s, n)) <= Len(s)
         /\ Len(PlayRing!Oldest(s, n)) <= n
         /\ Len(PlayRing!Oldest(s, n)) <= Len(s)
BY DEF Ring, RecordRing!Oldest, PlayRing!Oldest

LEMMA RowFacts ==
  ASSUME NEW n \in Nat, NEW first \in Int
  PROVE  Row(first, n) \in Ring /\ Len(Row(first, n)) = n
<1>1. \A i \in 1 .. n : (first + i - 1) % FrameSize \in Nat
  BY Sizes
<1>2. QED
  BY <1>1 DEF Row, Ring

LEMMA WholeFramesFacts ==
  ASSUME NEW n \in Nat
  PROVE  WholeFrames(n) \in Ring /\ Len(WholeFrames(n)) = n
BY RowFacts DEF WholeFrames

LEMMA EndOfFramesFacts ==
  ASSUME NEW n \in Nat
  PROVE  EndOfFrames(n) \in Ring /\ Len(EndOfFrames(n)) = n
BY RowFacts DEF EndOfFrames

LEMMA PushedFacts ==
  ASSUME NEW ring \in Ring, NEW buf \in Ring
  PROVE  /\ Pushed(ring, buf) \in Ring
         /\ Len(Pushed(ring, buf)) <= Len(ring) + Len(buf)
         /\ Len(Pushed(ring, buf)) <= Usable
         /\ Len(ring) <= Usable => Len(ring) <= Len(Pushed(ring, buf))
         /\ Len(ring) + Len(buf) <= Usable => Pushed(ring, buf) = ring \o buf
<1>1. /\ ring \o buf \in Ring /\ Len(ring \o buf) = Len(ring) + Len(buf)
      /\ Len(ring) \in Nat /\ Len(buf) \in Nat
  BY DEF Ring
<1>2. Len(ring) + Len(buf) <= Usable => Pushed(ring, buf) = ring \o buf
  BY <1>1 DEF Pushed, RecordRing!Newest
<1>3. ~ Len(ring) + Len(buf) <= Usable => Len(Pushed(ring, buf)) = Usable
  BY <1>1, Sizes DEF Pushed, RecordRing!Newest, Ring
<1>4. QED
  BY <1>1, <1>2, <1>3, NewestFacts, Sizes DEF Pushed

(* A pop of either ring leaves no more in it than there was.               *)
LEMMA PopFacts ==
  ASSUME NEW s \in Ring, NEW size \in Nat, NEW offset \in Nat,
         NEW kept, kept = RecordRing!Newest(s, offset),
         NEW got, got = RecordRing!Oldest(kept, size)
  PROVE  /\ got \in Ring /\ Len(got) <= size
         /\ RecordRing!Newest(kept, Len(kept) - Len(got)) \in Ring
         /\ Len(RecordRing!Newest(kept, Len(kept) - Len(got))) <= Len(s)
<1>1. kept \in Ring /\ Len(kept) <= Len(s) /\ Len(kept) \in Nat
  BY NewestFacts DEF Ring
<1>2. got \in Ring /\ Len(got) <= size /\ Len(got) <= Len(kept) /\ Len(got) \in Nat
  BY <1>1, OldestFacts DEF Ring
<1>3. Len(kept) - Len(got) \in Nat
  BY <1>1, <1>2
<1>4. /\ RecordRing!Newest(kept, Len(kept) - Len(got)) \in Ring
      /\ Len(RecordRing!Newest(kept, Len(kept) - Len(got))) <= Len(kept)
  BY <1>1, <1>3, NewestFacts
<1>5. QED
  BY <1>1, <1>2, <1>4, NewestFacts DEF Ring

LEMMA SameRings ==
  /\ \A s, n : PlayRing!Newest(s, n) = RecordRing!Newest(s, n)
  /\ \A s, n : PlayRing!Oldest(s, n) = RecordRing!Oldest(s, n)
BY DEF PlayRing!Newest, RecordRing!Newest, PlayRing!Oldest, RecordRing!Oldest

-----------------------------------------------------------------------------

LEMMA RoomInitially == Init => IInv
BY Sizes DEF Init, IInv, Shape, Ring, RoomFound, RoomStays, Calls

(* What two calls leave that have overlapped.                              *)
LEMMA AnyEnd ==
  ASSUME AnyEndOfFrames
  PROVE  playRing' \in Ring /\ Len(playRing') <= Usable
BY EndOfFramesFacts, Sizes DEF AnyEndOfFrames

(* A pop leaves no more than there was, or the calls have overlapped.      *)
LEMMA DevicePopFacts ==
  ASSUME IInv, DevicePops
  PROVE  /\ playRing' \in Ring /\ played' \in Ring /\ Len(playRing') <= Usable
         /\ dpc = "crossed" \/ Len(playRing') <= Len(playRing)
<1>1. CASE dpc = "pop"
  <2>1. MaxBufferSize + Len(playRing) - counted \in Nat
    BY Sizes DEF IInv, Shape, Calls, Ring
  <2>2. PlayRing!PopBackFrom(asked, MaxBufferSize + Len(playRing) - counted)
    BY <1>1 DEF DevicePops
  <2>3. /\ playRing' \in Ring /\ played' \in Ring
        /\ Len(playRing') <= Len(playRing)
    BY <2>1, <2>2, PopFacts, SameRings
       DEF PlayRing!PopBackFrom, IInv, Shape, Calls
  <2>4. QED
    BY <2>3, Sizes DEF IInv, Shape, Ring
<1>2. CASE dpc = "crossed"
  <2>1. PopCrossed
    BY <1>2 DEF DevicePops
  <2>2. played' \in Ring
    <3>1. \A first \in 0 .. FrameSize - 1 : first \in Int
      BY Sizes
    <3>2. QED
      BY <2>1, <3>1, RowFacts DEF PopCrossed, IInv, Calls
  <2>3. QED
    BY <1>2, <2>1, <2>2, AnyEnd DEF PopCrossed
<1>3. QED
  BY <1>1, <1>2 DEF DevicePops

LEMMA RoomKept == IInv /\ [Next]_vars => IInv'
<1> SUFFICES ASSUME IInv, [Next]_vars PROVE IInv'
  OBVIOUS
<1> USE DEF IInv, Shape, RoomFound, RoomStays, Calls, Room
<1> BufferSize \in Nat \ {0} /\ MaxBufferSize \in Nat /\ Usable \in Nat
  BY Sizes
<1>1. CASE UNCHANGED vars
  BY <1>1 DEF vars, path, calls
<1>2. ASSUME NEW f \in DeviceFrames, DeviceRecords(f * FrameSize)
      PROVE  IInv'
  BY <1>2, Sizes, WholeFramesFacts, PushedFacts DEF DeviceRecords, calls
<1>3. CASE RecordRead
  <2>1. /\ taken' \in Ring /\ Len(taken') <= BufferSize /\ recordRing' \in Ring
        /\ Len(recordRing') <= Len(recordRing)
    BY <1>3, PopFacts DEF RecordRead, RecordRing!PopBackFrom
  <2>2. QED
    BY <1>3, <2>1 DEF RecordRead, calls, Ring
<1>4. CASE RecordWrite
  BY <1>4 DEF RecordWrite, Ring, calls
<1>5. CASE LoopbackWrite
  <2>1. /\ playRing' \in Ring /\ Len(playRing') \in Nat /\ counted' = counted
        /\ Len(playRing) <= Len(playRing') /\ Len(playRing') <= Usable
    BY <1>5, PushedFacts DEF LoopbackWrite, Ring, calls
  <2>2. taken' \in Ring /\ Len(taken') = 0
    BY <1>5 DEF LoopbackWrite, Ring
  <2>3. Calls'
    BY <1>5, <2>1 DEF LoopbackWrite, Ring, calls
  <2>4. QED
    BY <1>5, <2>1, <2>2, <2>3 DEF LoopbackWrite
<1>6. CASE LoopbackOverflows
  BY <1>6 DEF LoopbackOverflows, Cross, path, Ring
<1>7. CASE LoopbackOverflown
  <2>1. playRing' \in Ring /\ Len(playRing') <= Usable
    BY <1>7, AnyEnd, PushedFacts DEF LoopbackOverflown
  <2>2. <<>> \in Ring /\ Len(<<>>) = 0
    BY DEF Ring
  <2>3. counted = 0
    BY <1>7 DEF LoopbackOverflown
  <2>4. QED
    BY <1>7, <2>1, <2>2, <2>3 DEF LoopbackOverflown, Ring
<1>8. CASE PlayPeek
  BY <1>8 DEF PlayPeek, calls
<1>9. CASE PlayRead
  <2>1. received' \in Ring /\ Len(received') <= BufferSize
    BY <1>9, OldestFacts DEF PlayRead
  <2>2. network' \in Ring
    BY <1>9, NewestFacts DEF PlayRead, Ring
  <2>3. QED
    BY <1>9, <2>1, <2>2 DEF PlayRead, Ring, calls
<1>10. CASE PlayDecoded
  <2>1. received' \in Ring /\ Len(received') <= BufferSize
    <3>1. received' \in {received, <<>>}
      BY <1>10 DEF PlayDecoded
    <3>2. <<>> \in Ring /\ Len(<<>>) = 0
      BY DEF Ring
    <3>3. QED
      BY <3>1, <3>2
  <2>2. mode # "raw" /\ mode # "loopback" /\ mode' = mode
    BY <1>10 DEF PlayDecoded
  <2>3. ppc' = "write" => Room(playRing) >= Len(received) /\ received' = received
    BY <1>10 DEF PlayDecoded
  <2>4. ppc' \in {"write", "read"}
    BY <1>10 DEF PlayDecoded
  <2>5. QED
    BY <1>10, <2>1, <2>2, <2>3, <2>4 DEF PlayDecoded, calls
<1>11. CASE PlayWrite
  <2>1. /\ playRing' \in Ring /\ Len(playRing') \in Nat /\ counted' = counted
        /\ Len(playRing) <= Len(playRing') /\ Len(playRing') <= Usable
        /\ Len(playRing') <= Len(playRing) + Len(received)
    BY <1>11, PushedFacts DEF PlayWrite, Ring, calls
  <2>2. received' \in Ring /\ Len(received') = 0
    BY <1>11 DEF PlayWrite, Ring
  <2>3. Calls'
    BY <1>11, <2>1 DEF PlayWrite, Ring, calls
  <2>4. QED
    BY <1>11, <2>1, <2>2, <2>3 DEF PlayWrite, Ring
<1>12. ASSUME NEW f \in DeviceFrames, DeviceIsSilent(f * FrameSize)
       PROVE  IInv'
  BY <1>12 DEF DeviceIsSilent, Ring, calls
<1>13. ASSUME NEW f \in DeviceFrames, DeviceAsks(f * FrameSize)
       PROVE  IInv'
  BY <1>13, Sizes DEF DeviceAsks, Cross, path, Ring
<1>14. CASE DevicePops
  <2>1. /\ playRing' \in Ring /\ played' \in Ring /\ Len(playRing') <= Usable
        /\ mode = "loopback" \/ Len(playRing') <= Len(playRing)
    BY <1>14, DevicePopFacts
  <2>2. Len(playRing') \in Nat /\ Len(playRing) \in Nat /\ Len(received) \in Nat
    BY <2>1 DEF Ring
  <2>3. Calls'
    BY <1>14, <2>2, Sizes DEF DevicePops
  <2>4. RoomFound' /\ RoomStays'
    <3>1. mode = "loopback" => ppc = "read"
      OBVIOUS
    <3>2. QED
      BY <1>14, <2>1, <2>2, <3>1 DEF DevicePops
  <2>5. Shape'
    BY <1>14, <2>1 DEF DevicePops
  <2>6. QED
    BY <2>3, <2>4, <2>5
<1>15. CASE Stall
  BY <1>15 DEF Stall, path, calls
<1>16. QED
  BY <1>1, <1>2, <1>3, <1>4, <1>5, <1>6, <1>7, <1>8, <1>9, <1>10, <1>11, <1>12,
     <1>13, <1>14, <1>15
     DEF Next, RecordDevice, PlayDevice, RecordTask, PlayTask

(* Whatever the sizes, a buffer that found room when the ring was asked    *)
(* finds it when it is written (handlers.rs:116-118, 145-146).             *)
THEOREM RoomIsThere == Spec => []RoomStays
<1>1. IInv => RoomStays
  BY DEF IInv
<1>2. QED
  BY RoomInitially, RoomKept, <1>1, PTL DEF Spec

-----------------------------------------------------------------------------
(* Division by the frame size.                                             *)

LEMMA Division ==
  ASSUME NEW a \in Int
  PROVE  /\ a = FrameSize * (a \div FrameSize) + (a % FrameSize)
         /\ a % FrameSize \in 0 .. FrameSize - 1
         /\ a \div FrameSize \in Int /\ FrameSize * (a \div FrameSize) \in Int
<1>1. a = FrameSize * (a \div FrameSize) + (a % FrameSize)
  BY FramesAssumption, Z3
<1>2. a % FrameSize \in 0 .. FrameSize - 1
  BY FramesAssumption
<1>3. a \div FrameSize \in Int /\ FrameSize * (a \div FrameSize) \in Int
  BY FramesAssumption
<1>4. QED
  BY <1>1, <1>2, <1>3

LEMMA UniqueRemainder ==
  ASSUME NEW p \in Int, NEW q \in Int,
         NEW r \in 0 .. FrameSize - 1, NEW s \in 0 .. FrameSize - 1,
         FrameSize * p + r = FrameSize * q + s
  PROVE  r = s
<1>1. \A d \in Int : d > 0 => FrameSize * d >= FrameSize
  BY FramesAssumption, Z3
<1>2. FrameSize * (p - q) = s - r /\ FrameSize * (q - p) = r - s
  BY FramesAssumption, Z3
<1>3. ~ (p - q > 0) /\ ~ (q - p > 0)
  BY <1>1, <1>2, FramesAssumption
<1>4. p = q
  BY <1>3
<1>5. QED
  BY <1>4, FramesAssumption

LEMMA Multiples ==
  ASSUME NEW k \in Int
  PROVE  k * FrameSize \in Int /\ (k * FrameSize) % FrameSize = 0
<1>1. /\ k * FrameSize = FrameSize * k + 0 /\ k * FrameSize \in Int
      /\ 0 \in 0 .. FrameSize - 1
  BY FramesAssumption
<1>2. QED
  BY <1>1, Division, UniqueRemainder

(* A whole number of frames more or less leaves the place in a frame.      *)
LEMMA Shift ==
  ASSUME NEW a \in Int, NEW b \in Int, b % FrameSize = 0
  PROVE  /\ (a + b) % FrameSize = a % FrameSize
         /\ (a - b) % FrameSize = a % FrameSize
<1> DEFINE p == a \div FrameSize
           q == b \div FrameSize
           r == a % FrameSize
           u == (a + b) \div FrameSize
           v == (a - b) \div FrameSize
           x == (a + b) % FrameSize
           y == (a - b) % FrameSize
<1>1. a + b \in Int /\ a - b \in Int
  OBVIOUS
<1>2. /\ p \in Int /\ q \in Int /\ u \in Int /\ v \in Int
      /\ r \in 0 .. FrameSize - 1 /\ x \in 0 .. FrameSize - 1
      /\ y \in 0 .. FrameSize - 1
  BY <1>1, Division
<1>3. /\ a = FrameSize * p + r /\ b = FrameSize * q
      /\ a + b = FrameSize * u + x /\ a - b = FrameSize * v + y
  BY <1>1, Division
<1> HIDE DEF p, q, r, u, v, x, y
<1>4. /\ FrameSize * (p + q) = FrameSize * p + FrameSize * q
      /\ FrameSize * (p - q) = FrameSize * p - FrameSize * q
      /\ FrameSize * p \in Int /\ FrameSize * q \in Int
  BY FramesAssumption, <1>2, Z3
<1>5. /\ FrameSize * (p + q) + r = FrameSize * u + x
      /\ FrameSize * (p - q) + r = FrameSize * v + y
      /\ p + q \in Int /\ p - q \in Int
  BY <1>2, <1>3, <1>4, FramesAssumption
<1>6. x = r /\ y = r
  BY <1>2, <1>5, UniqueRemainder
<1>7. QED
  BY <1>6 DEF r, x, y

-----------------------------------------------------------------------------
(* Whole frames.                                                           *)

Full(n) == n \in Int /\ n % FrameSize = 0

(* A sequence that ends with a frame, wherever it starts.                  *)
EndsWhole(s) ==
  s \in Ring /\ \A i \in 1 .. Len(s) : s[i] = (i - 1 - Len(s)) % FrameSize

Whole(s) == EndsWhole(s) /\ Full(Len(s))

LEMMA FullSums ==
  ASSUME NEW m, NEW n, Full(m), Full(n)
  PROVE  Full(m + n) /\ Full(m - n)
BY Shift DEF Full

LEMMA FullSizes ==
  /\ Full(0) /\ Full(BufferSize) /\ Full(MaxBufferSize)
  /\ \A f \in DeviceFrames : Full(f * FrameSize)
  /\ MaxBufferSize <= Usable
<1>1. 0 * FrameSize = 0
  BY FramesAssumption
<1>2. QED
  BY <1>1, Multiples, FramesAssumption, RingAssumption
     DEF Full, BufferSize, MaxBufferSize

LEMMA EmptyIsWhole == Whole(<<>>)
BY FullSizes DEF Whole, EndsWhole, Ring

(* Of a whole number of bytes, to end with a frame is to start with one.   *)
LEMMA StartsWhole ==
  ASSUME NEW s \in Ring, Full(Len(s))
  PROVE  EndsWhole(s) <=> s = WholeFrames(Len(s))
<1>1. ASSUME NEW i \in 1 .. Len(s)
      PROVE  (i - 1 - Len(s)) % FrameSize = (i - 1) % FrameSize
  <2>1. i - 1 \in Int /\ Len(s) \in Int
    BY DEF Ring
  <2>2. QED
    BY <2>1, Shift DEF Full
<1>2. s = WholeFrames(Len(s)) <=> \A i \in 1 .. Len(s) : s[i] = (0 + i - 1) % FrameSize
  BY DEF WholeFrames, Row, Ring
<1>3. \A i \in 1 .. Len(s) : 0 + i - 1 = i - 1
  BY DEF Ring
<1>4. QED
  BY <1>1, <1>2, <1>3 DEF EndsWhole

LEMMA FramesAreWhole ==
  ASSUME NEW n \in Nat, Full(n)
  PROVE  Whole(WholeFrames(n)) /\ Len(WholeFrames(n)) = n
BY WholeFramesFacts, StartsWhole DEF Whole

(* What two calls leave that have overlapped still ends with a frame.      *)
LEMMA EndOfFramesEnds ==
  ASSUME NEW n \in Nat
  PROVE  EndsWhole(EndOfFrames(n))
<1>1. EndOfFrames(n) \in Ring /\ Len(EndOfFrames(n)) = n
  BY EndOfFramesFacts
<1>2. \A i \in 1 .. n : EndOfFrames(n)[i] = (-n + i - 1) % FrameSize
  BY DEF EndOfFrames, Row
<1>3. \A i \in 1 .. n : -n + i - 1 = i - 1 - n
  OBVIOUS
<1>4. QED
  BY <1>1, <1>2, <1>3 DEF EndsWhole

LEMMA Joined ==
  ASSUME NEW s, NEW t, EndsWhole(s), Whole(t)
  PROVE  EndsWhole(s \o t) /\ Len(s \o t) = Len(s) + Len(t)
<1> DEFINE j == s \o t
<1>1. /\ j \in Ring /\ Len(j) = Len(s) + Len(t) /\ Len(s) \in Nat /\ Len(t) \in Nat
      /\ \A i \in 1 .. Len(j) : j[i] = IF i <= Len(s) THEN s[i] ELSE t[i - Len(s)]
  BY DEF EndsWhole, Whole, Ring
<1> HIDE DEF j
<1>2. ASSUME NEW i \in 1 .. Len(j)
      PROVE  j[i] = (i - 1 - Len(j)) % FrameSize
  <2>1. CASE i <= Len(s)
    <3>1. j[i] = (i - 1 - Len(s)) % FrameSize
      BY <1>1, <2>1 DEF EndsWhole
    <3>2. ((i - 1 - Len(s)) - Len(t)) % FrameSize = (i - 1 - Len(s)) % FrameSize
      <4>1. i - 1 - Len(s) \in Int
        BY <1>1
      <4>2. QED
        BY <1>1, <4>1, Shift DEF Whole, Full
    <3>3. (i - 1 - Len(s)) - Len(t) = i - 1 - Len(j)
      BY <1>1
    <3>4. QED
      BY <3>1, <3>2, <3>3
  <2>2. CASE ~ i <= Len(s)
    <3>1. i - Len(s) \in 1 .. Len(t) /\ (i - Len(s)) - 1 - Len(t) = i - 1 - Len(j)
      BY <1>1, <2>2
    <3>2. QED
      BY <1>1, <2>2, <3>1 DEF Whole, EndsWhole
  <2>3. QED
    BY <2>1, <2>2
<1>3. QED
  BY <1>1, <1>2 DEF EndsWhole, j

(* Cut at its start, a sequence still ends with a frame ...                *)
LEMMA CutStart ==
  ASSUME NEW s, EndsWhole(s), NEW n \in Nat
  PROVE  /\ EndsWhole(RecordRing!Newest(s, n))
         /\ Len(RecordRing!Newest(s, n)) = IF Len(s) <= n THEN Len(s) ELSE n
<1> DEFINE c == RecordRing!Newest(s, n)
<1>1. Len(s) \in Nat /\ s \in Ring
  BY DEF EndsWhole, Ring
<1>2. CASE Len(s) <= n
  BY <1>2 DEF RecordRing!Newest
<1>3. CASE ~ Len(s) <= n
  <2>1. /\ c \in Ring /\ Len(c) = n
        /\ \A i \in 1 .. n : c[i] = s[Len(s) - n + i]
    BY <1>1, <1>3 DEF RecordRing!Newest, Ring
  <2> HIDE DEF c
  <2>2. ASSUME NEW i \in 1 .. n
        PROVE  c[i] = (i - 1 - n) % FrameSize
    <3>1. Len(s) - n + i \in 1 .. Len(s) /\ (Len(s) - n + i) - 1 - Len(s) = i - 1 - n
      BY <1>1, <1>3
    <3>2. QED
      BY <2>1, <3>1 DEF EndsWhole
  <2>3. EndsWhole(c) /\ Len(c) = n
    BY <2>1, <2>2 DEF EndsWhole
  <2>4. QED
    BY <1>3, <2>3 DEF c
<1>4. QED
  BY <1>2, <1>3

(* ... and cut at its end, a whole one still starts with one.              *)
LEMMA CutEnd ==
  ASSUME NEW s, Whole(s), NEW n \in Nat, Full(n)
  PROVE  /\ Whole(RecordRing!Oldest(s, n))
         /\ Len(RecordRing!Oldest(s, n)) = IF Len(s) <= n THEN Len(s) ELSE n
<1> DEFINE c == RecordRing!Oldest(s, n)
<1>1. Len(s) \in Nat /\ s \in Ring
  BY DEF Whole, EndsWhole, Ring
<1>2. CASE Len(s) <= n
  BY <1>2 DEF RecordRing!Oldest
<1>3. CASE ~ Len(s) <= n
  <2>1. /\ c \in Ring /\ Len(c) = n
        /\ \A i \in 1 .. n : c[i] = s[i]
    BY <1>1, <1>3 DEF RecordRing!Oldest, Ring
  <2>2. s = WholeFrames(Len(s))
    BY <1>1, StartsWhole DEF Whole
  <2>3. \A i \in 1 .. n : s[i] = (0 + i - 1) % FrameSize
    BY <1>1, <1>3, <2>2 DEF WholeFrames, Row
  <2> HIDE DEF c
  <2>4. c = WholeFrames(n)
    BY <2>1, <2>3 DEF WholeFrames, Row, Ring
  <2>5. Whole(c) /\ Len(c) = n
    BY <2>4, FramesAreWhole
  <2>6. QED
    BY <1>3, <2>5 DEF c
<1>4. QED
  BY <1>2, <1>3

(* A ring ends with a frame; it starts with one too, unless it overflowed, *)
(* and then it holds more than any pop leaves.                             *)
Mended(ring) == EndsWhole(ring) /\ (Full(Len(ring)) \/ Len(ring) > MaxBufferSize)

LEMMA PushMended ==
  ASSUME NEW ring, Mended(ring), NEW buf, Whole(buf)
  PROVE  Mended(Pushed(ring, buf))
<1>1. /\ EndsWhole(ring \o buf) /\ Len(ring \o buf) = Len(ring) + Len(buf)
      /\ Len(ring) \in Nat /\ Len(buf) \in Nat
  <2>1. EndsWhole(ring)
    BY DEF Mended
  <2>2. EndsWhole(ring \o buf) /\ Len(ring \o buf) = Len(ring) + Len(buf)
    BY <2>1, Joined
  <2>3. QED
    BY <2>1, <2>2 DEF Whole, EndsWhole, Ring
<1>2. Full(Len(ring)) => Full(Len(ring) + Len(buf))
  BY FullSums DEF Whole
<1>3. /\ EndsWhole(Pushed(ring, buf))
      /\ Len(Pushed(ring, buf)) = IF Len(ring) + Len(buf) <= Usable
                                  THEN Len(ring) + Len(buf) ELSE Usable
  BY <1>1, CutStart, Sizes DEF Pushed
<1>4. QED
  BY <1>1, <1>2, <1>3, Sizes, FullSizes DEF Mended

(* A pop that is alone: it has counted some of the bytes held, and leaves  *)
(* max_bufsize of these and all others.                                    *)
LEMMA PopWhole ==
  ASSUME NEW s, EndsWhole(s),
         NEW count \in Nat, count <= Len(s), Full(Len(s) - count),
         Full(count) \/ count > MaxBufferSize,
         NEW size \in Nat, Full(size),
         NEW kept, kept = RecordRing!Newest(s, MaxBufferSize + Len(s) - count),
         NEW got, got = RecordRing!Oldest(kept, size)
  PROVE  /\ Whole(got)
         /\ Whole(RecordRing!Newest(kept, Len(kept) - Len(got)))
<1> DEFINE offset == MaxBufferSize + Len(s) - count
<1>0. Len(s) \in Nat /\ MaxBufferSize \in Nat /\ offset \in Nat
  BY Sizes DEF EndsWhole, Ring
<1>1. Whole(kept) /\ Len(kept) \in Nat
  <2>1. EndsWhole(kept) /\ Len(kept) = IF Len(s) <= offset THEN Len(s) ELSE offset
    BY <1>0, CutStart
  <2>2. CASE Len(s) <= offset
    <3>1. count <= MaxBufferSize
      BY <1>0, <2>2
    <3>2. Full(count)
      BY <1>0, <3>1
    <3>3. Full(count + (Len(s) - count))
      BY <3>2, FullSums
    <3>4. count + (Len(s) - count) = Len(s)
      BY <1>0
    <3>5. QED
      BY <1>0, <2>1, <2>2, <3>3, <3>4 DEF Whole
  <2>3. CASE ~ Len(s) <= offset
    <3>1. /\ Full(MaxBufferSize + (Len(s) - count))
          /\ MaxBufferSize + (Len(s) - count) = offset
      BY <1>0, FullSizes, FullSums
    <3>2. QED
      BY <1>0, <2>1, <2>3, <3>1 DEF Whole
  <2>4. QED
    BY <2>2, <2>3
<1> HIDE DEF offset
<1>2. Whole(got) /\ Len(got) \in Nat /\ Len(got) <= Len(kept)
  <2>1. /\ Whole(got)
        /\ Len(got) = IF Len(kept) <= size THEN Len(kept) ELSE size
    BY <1>1, CutEnd
  <2>2. QED
    BY <1>1, <2>1
<1>3. Full(Len(kept) - Len(got)) /\ Len(kept) - Len(got) \in Nat
  <2>1. Full(Len(kept)) /\ Full(Len(got))
    BY <1>1, <1>2 DEF Whole
  <2>2. Full(Len(kept) - Len(got))
    BY <2>1, FullSums
  <2>3. QED
    BY <1>1, <1>2, <2>2
<1>4. QED
  BY <1>1, <1>2, <1>3, CutStart DEF Whole

-----------------------------------------------------------------------------

FrameInv ==
  /\ chunks \subseteq DeviceFrames
  /\ Mended(recordRing) /\ EndsWhole(playRing)
  /\ Whole(taken) /\ Whole(network) /\ Whole(received)
  /\ Full(asked)
  /\ ~ crossed => Mended(playRing) /\ Whole(played)
  /\ ~ crossed /\ dpc = "pop" =>
       /\ Full(Len(playRing) - counted)
       /\ Full(counted) \/ counted > MaxBufferSize

LEMMA FramesInitially == Init => FrameInv
BY EmptyIsWhole, FullSizes DEF Init, FrameInv, Mended, Whole

(* A push that fits adds whole frames behind what a pop has counted.       *)
LEMMA PushBehindPop ==
  ASSUME IInv, FrameInv, NEW buf, Whole(buf), Len(buf) <= Room(playRing),
         playRing' = Pushed(playRing, buf), UNCHANGED calls
  PROVE  /\ EndsWhole(playRing')
         /\ ~ crossed => Mended(playRing')
         /\ ~ crossed /\ dpc = "pop" => Full(Len(playRing') - counted')
<1>1. /\ playRing \in Ring /\ buf \in Ring /\ Usable \in Nat
      /\ Len(playRing) \in Nat /\ Len(buf) \in Nat /\ counted \in Nat
  BY Sizes DEF FrameInv, IInv, Calls, Whole, EndsWhole, Ring
<1>2. playRing' = playRing \o buf
  BY <1>1, PushedFacts DEF Room
<1>3. EndsWhole(playRing') /\ Len(playRing') = Len(playRing) + Len(buf)
  BY <1>2, Joined DEF FrameInv
<1>4. ~ crossed => Mended(playRing')
  BY PushMended DEF FrameInv
<1>5. ASSUME ~ crossed, dpc = "pop"
      PROVE  Full(Len(playRing') - counted')
  <2>1. Full((Len(playRing) - counted) + Len(buf))
    BY <1>5, FullSums DEF FrameInv, Whole
  <2>2. (Len(playRing) - counted) + Len(buf) = Len(playRing') - counted'
    BY <1>1, <1>3 DEF calls
  <2>3. QED
    BY <2>1, <2>2
<1>6. QED
  BY <1>3, <1>4, <1>5

(* A pop of the device: of whole frames, unless it has been overlapped.    *)
LEMMA PopFrames ==
  ASSUME IInv, FrameInv, DevicePops
  PROVE  /\ EndsWhole(playRing')
         /\ ~ crossed => Mended(playRing') /\ Whole(played')
<1>1. CASE dpc = "crossed"
  <2>1. crossed
    BY <1>1 DEF IInv, Calls
  <2>2. PopCrossed
    BY <1>1 DEF DevicePops
  <2>3. QED
    BY <2>1, <2>2, Sizes, EndOfFramesEnds DEF PopCrossed, AnyEndOfFrames
<1>2. CASE dpc = "pop"
  <2> DEFINE offset == MaxBufferSize + Len(playRing) - counted
  <2>0. /\ playRing \in Ring /\ Len(playRing) \in Nat /\ asked \in Nat
        /\ counted \in Nat /\ counted <= Len(playRing) /\ MaxBufferSize \in Nat
    BY Sizes DEF IInv, Shape, Calls, Ring
  <2>1. PICK kept, got :
          /\ kept = RecordRing!Newest(playRing, offset)
          /\ got = RecordRing!Oldest(kept, asked)
          /\ playRing' = RecordRing!Newest(kept, Len(kept) - Len(got))
          /\ played' = got
    BY <1>2, SameRings DEF DevicePops, PlayRing!PopBackFrom
  <2>2. EndsWhole(playRing')
    <3>0. offset \in Nat /\ EndsWhole(playRing)
      BY <2>0 DEF FrameInv
    <3>1. EndsWhole(kept) /\ Len(kept) \in Nat
      BY <2>1, <3>0, CutStart DEF EndsWhole, Ring
    <3>2. Len(kept) - Len(got) \in Nat
      BY <2>0, <2>1, <3>1, OldestFacts DEF EndsWhole, Ring
    <3>3. QED
      BY <2>1, <3>1, <3>2, CutStart
  <2>3. ASSUME ~ crossed
        PROVE  Whole(playRing') /\ Whole(played')
    <3>1. /\ EndsWhole(playRing) /\ Full(Len(playRing) - counted)
          /\ Full(counted) \/ counted > MaxBufferSize
          /\ Full(asked)
      BY <1>2, <2>3 DEF FrameInv
    <3>2. QED
      BY <2>0, <2>1, <3>1, PopWhole
  <2>4. QED
    BY <2>2, <2>3 DEF Mended, Whole
<1>3. QED
  BY <1>1, <1>2 DEF DevicePops

(* Who leaves the calls and the playback ring alone.                       *)
LEMMA FromParts ==
  ASSUME FrameInv, UNCHANGED <<playRing, played, calls>>,
         chunks' \subseteq DeviceFrames, Mended(recordRing'),
         Whole(taken'), Whole(network'), Whole(received')
  PROVE  FrameInv'
BY DEF FrameInv, Mended, Whole, EndsWhole, Full, calls

LEMMA FramesKept == IInv /\ FrameInv /\ [Next]_vars => FrameInv'
<1> SUFFICES ASSUME IInv, FrameInv, [Next]_vars PROVE FrameInv'
  OBVIOUS
<1>0. /\ chunks \subseteq DeviceFrames
      /\ Mended(recordRing) /\ EndsWhole(playRing)
      /\ Whole(taken) /\ Whole(network) /\ Whole(received)
  BY DEF FrameInv
<1>1. CASE UNCHANGED vars
  BY <1>0, <1>1, FromParts DEF vars, path
<1>2. ASSUME NEW f \in DeviceFrames, DeviceRecords(f * FrameSize)
      PROVE  FrameInv'
  <2>1. Whole(WholeFrames(f * FrameSize))
    BY Sizes, FullSizes, FramesAreWhole
  <2>2. Mended(recordRing')
    BY <1>0, <1>2, <2>1, PushMended DEF DeviceRecords
  <2>3. QED
    BY <1>0, <1>2, <2>2, FromParts DEF DeviceRecords
<1>3. CASE RecordRead
  <2>1. PICK kept, got :
          /\ kept = RecordRing!Newest(recordRing, MaxBufferSize)
          /\ got = RecordRing!Oldest(kept, BufferSize)
          /\ recordRing' = RecordRing!Newest(kept, Len(kept) - Len(got))
          /\ taken' = got
    BY <1>3 DEF RecordRead, RecordRing!PopBackFrom
  <2>2. /\ BufferSize \in Nat /\ Full(BufferSize) /\ Full(0)
        /\ MaxBufferSize \in Nat /\ Len(recordRing) \in Nat
        /\ EndsWhole(recordRing)
        /\ Full(Len(recordRing)) \/ Len(recordRing) > MaxBufferSize
    BY <1>0, Sizes, FullSizes DEF Mended, EndsWhole, Ring
  <2>3. /\ Len(recordRing) - Len(recordRing) = 0
        /\ MaxBufferSize + Len(recordRing) - Len(recordRing) = MaxBufferSize
    BY <2>2
  <2>4. Whole(taken') /\ Whole(recordRing')
    BY <2>1, <2>2, <2>3, PopWhole
  <2>5. Mended(recordRing')
    BY <2>4 DEF Whole, Mended
  <2>6. QED
    BY <1>0, <1>3, <2>4, <2>5, FromParts DEF RecordRead
<1>4. CASE RecordWrite
  <2>1. EndsWhole(network) /\ Full(Len(network)) /\ Full(Len(taken))
    BY <1>0 DEF Whole
  <2>2. Whole(network \o taken)
    BY <1>0, <2>1, Joined, FullSums DEF Whole
  <2>3. QED
    BY <1>0, <1>4, <2>2, EmptyIsWhole, FromParts DEF RecordWrite
<1>5. CASE LoopbackWrite
  <2>1. /\ EndsWhole(playRing') /\ (~ crossed => Mended(playRing'))
        /\ ~ crossed /\ dpc = "pop" => Full(Len(playRing') - counted')
    BY <1>0, <1>5, PushBehindPop DEF LoopbackWrite
  <2>2. QED
    BY <1>0, <1>5, <2>1, EmptyIsWhole DEF LoopbackWrite, calls, FrameInv
<1>6. CASE LoopbackOverflows
  BY <1>0, <1>6 DEF LoopbackOverflows, Cross, path, FrameInv
<1>7. CASE LoopbackOverflown
  <2>1. /\ EndsWhole(playRing') /\ (~ crossed => Mended(playRing'))
    <3>1. CASE wpc = "push"
      <4>1. playRing' = Pushed(playRing, taken)
        BY <1>7, <3>1 DEF LoopbackOverflown
      <4>2. ~ crossed => Mended(playRing')
        BY <1>0, <4>1, PushMended DEF FrameInv
      <4>3. EndsWhole(playRing')
        BY <1>0, <4>1, Joined, CutStart, Sizes DEF Pushed
      <4>4. QED
        BY <4>2, <4>3
    <3>2. CASE wpc = "crossed"
      <4>1. crossed /\ AnyEndOfFrames
        BY <1>7, <3>2 DEF LoopbackOverflown, IInv, Calls
      <4>2. QED
        BY <4>1, Sizes, EndOfFramesEnds DEF AnyEndOfFrames
    <3>3. QED
      BY <1>7, <3>1, <3>2 DEF LoopbackOverflown
  <2>2. dpc # "pop"
    BY <1>7 DEF LoopbackOverflown, IInv, Calls
  <2>3. QED
    BY <1>0, <1>7, <2>1, <2>2, EmptyIsWhole DEF LoopbackOverflown, FrameInv
<1>8. CASE PlayPeek
  BY <1>0, <1>8, FromParts DEF PlayPeek
<1>9. CASE PlayRead
  <2>1. BufferSize \in Nat /\ Full(BufferSize)
    BY Sizes, FullSizes
  <2>2. Whole(received')
    <3>1. received' = RecordRing!Oldest(network, BufferSize)
      BY <1>9, SameRings DEF PlayRead
    <3>2. QED
      BY <1>0, <2>1, <3>1, CutEnd
  <2>3. Whole(network')
    <3>1. /\ network' = RecordRing!Newest(network, Len(network) - BufferSize)
          /\ Len(network) >= BufferSize
      BY <1>9, SameRings DEF PlayRead
    <3>2. /\ EndsWhole(network) /\ Full(Len(network)) /\ Len(network) \in Nat
          /\ Len(network) - BufferSize \in Nat
      BY <1>0, <2>1, <3>1 DEF Whole, EndsWhole, Ring
    <3>3. Full(Len(network) - BufferSize)
      BY <2>1, <3>2, FullSums
    <3>4. EndsWhole(network') /\ Len(network') = Len(network) - BufferSize
      BY <2>1, <3>1, <3>2, CutStart
    <3>5. QED
      BY <3>3, <3>4 DEF Whole
  <2>4. QED
    BY <1>0, <1>9, <2>2, <2>3, FromParts DEF PlayRead
<1>10. CASE PlayDecoded
  <2>1. received' \in {received, <<>>}
    BY <1>10 DEF PlayDecoded
  <2>2. Whole(received')
    BY <1>0, <2>1, EmptyIsWhole
  <2>3. QED
    BY <1>0, <1>10, <2>2, FromParts DEF PlayDecoded
<1>11. CASE PlayWrite
  <2>1. Len(received) <= Room(playRing)
    BY <1>0, <1>11, Sizes
       DEF PlayWrite, IInv, RoomStays, Shape, Room, Ring
  <2>2. /\ EndsWhole(playRing') /\ (~ crossed => Mended(playRing'))
        /\ ~ crossed /\ dpc = "pop" => Full(Len(playRing') - counted')
    BY <1>0, <1>11, <2>1, PushBehindPop DEF PlayWrite
  <2>3. QED
    BY <1>0, <1>11, <2>2, EmptyIsWhole DEF PlayWrite, calls, FrameInv
<1>12. ASSUME NEW f \in DeviceFrames, DeviceIsSilent(f * FrameSize)
       PROVE  FrameInv'
  BY <1>12, EmptyIsWhole DEF DeviceIsSilent, calls, FrameInv
<1>13. ASSUME NEW f \in DeviceFrames, DeviceAsks(f * FrameSize)
       PROVE  FrameInv'
  <2>1. Full(asked')
    BY <1>13, FullSizes DEF DeviceAsks
  <2>2. ASSUME ~ crossed', dpc' = "pop"
        PROVE  /\ Full(Len(playRing') - counted')
               /\ Full(counted') \/ counted' > MaxBufferSize
    <3>1. counted' = Len(playRing) /\ playRing' = playRing /\ Mended(playRing)
      BY <1>13, <2>2 DEF DeviceAsks, Cross, path, FrameInv
    <3>2. Len(playRing) - Len(playRing) = 0
      BY <1>0 DEF EndsWhole, Ring
    <3>3. QED
      BY <3>1, <3>2, FullSizes DEF Mended
  <2>3. QED
    BY <1>13, <2>1, <2>2 DEF DeviceAsks, Cross, path, FrameInv
<1>14. CASE DevicePops
  <2>1. EndsWhole(playRing') /\ (~ crossed => Mended(playRing') /\ Whole(played'))
    BY <1>14, PopFrames
  <2>2. QED
    BY <1>14, <2>1, FullSizes DEF DevicePops, FrameInv
<1>15. CASE Stall
  BY <1>0, <1>15, FromParts DEF Stall, path
<1>16. QED
  BY <1>0, <1>1, <1>2, <1>3, <1>4, <1>5, <1>6, <1>7, <1>8, <1>9, <1>10, <1>11,
     <1>12, <1>13, <1>14, <1>15
     DEF Next, RecordDevice, PlayDevice, RecordTask, PlayTask

(* Whatever the sizes, whole audio frames are sent, and played in raw and  *)
(* opus always and in loopback until a pop of the device and an            *)
(* overflowing push overlap: until then the skip of ringbuf_pop_back_from  *)
(* (ringbuf.c:111-113) takes the cut frame that ringbuf_push leaves        *)
(* (ringbuf.c:86-88) with it.                                              *)
THEOREM FramesStayWhole == Spec => []PlaysWholeFrames
<1>1. IInv /\ FrameInv => PlaysWholeFrames
  BY StartsWhole DEF IInv, Calls, FrameInv, Whole, EndsWhole, PlaysWholeFrames
<1>2. QED
  BY RoomInitially, RoomKept, FramesInitially, FramesKept, <1>1, PTL DEF Spec

-----------------------------------------------------------------------------
(* Types: what a byte is follows from the frames; the rest is here.        *)

Bounded ==
  /\ mode \in Modes /\ stalled \in BOOLEAN /\ crossed \in BOOLEAN
  /\ ppc \in {"peek", "read", "decoded", "write"}
  /\ played \in Places

LEMMA EmptyInPlaces == <<>> \in Places
BY EmptySeq DEF Places

LEMMA CutsInPlaces ==
  ASSUME NEW s \in Places, NEW n \in Nat
  PROVE  RecordRing!Newest(s, n) \in Places /\ RecordRing!Oldest(s, n) \in Places
<1> DEFINE P == 0 .. FrameSize - 1
<1>1. s \in Seq(P)
  BY DEF Places
<1> HIDE DEF P
<1>2. /\ RecordRing!Newest(s, n) \in Seq(P)
      /\ RecordRing!Oldest(s, n) \in Seq(P)
  BY <1>1 DEF RecordRing!Newest, RecordRing!Oldest
<1>3. QED
  BY <1>2 DEF P, Places

LEMMA BoundedInitially == Init => Bounded
<1> SUFFICES ASSUME Init PROVE Bounded
  OBVIOUS
<1>1. stalled \in BOOLEAN /\ crossed \in BOOLEAN
  BY Zenon DEF Init
<1>2. played \in Places
  BY EmptyInPlaces DEF Init
<1>3. QED
  BY <1>1, <1>2 DEF Init, Bounded

LEMMA EndsWholeInPlaces ==
  ASSUME NEW s, EndsWhole(s)
  PROVE  s \in Places
<1>1. s \in Ring /\ Len(s) \in Nat
  BY DEF EndsWhole, Ring
<1>2. ASSUME NEW i \in 1 .. Len(s) PROVE s[i] \in 0 .. FrameSize - 1
  <2>1. i - 1 - Len(s) \in Int /\ s[i] = (i - 1 - Len(s)) % FrameSize
    BY <1>1 DEF EndsWhole
  <2>2. QED
    BY <2>1, Division
<1>3. s \in [1 .. Len(s) -> Nat]
  BY <1>1, LenProperties DEF Ring
<1>4. s \in [1 .. Len(s) -> 0 .. FrameSize - 1]
  BY <1>2, <1>3
<1>5. \A n \in Nat : [1 .. n -> 0 .. FrameSize - 1] \subseteq Places
  BY SeqDef DEF Places
<1>6. QED
  BY <1>1, <1>4, <1>5

LEMMA RowInPlaces ==
  ASSUME NEW n \in Nat, NEW first \in Int
  PROVE  Row(first, n) \in Places
<1>1. \A i \in 1 .. n : (first + i - 1) % FrameSize \in 0 .. FrameSize - 1
  BY Division
<1>2. Row(first, n) \in [1 .. n -> 0 .. FrameSize - 1]
  BY <1>1 DEF Row
<1>3. QED
  BY <1>2, SeqDef DEF Places

LEMMA BoundedKept == IInv /\ FrameInv /\ Bounded /\ [Next]_vars => Bounded'
<1> SUFFICES ASSUME IInv, FrameInv, Bounded, [Next]_vars PROVE Bounded'
  OBVIOUS
<1>1. mode' \in Modes
  BY DEF Bounded, Next, RecordDevice, PlayDevice, RecordTask, PlayTask,
     DeviceRecords, RecordRead, RecordWrite, LoopbackWrite, LoopbackOverflows,
     LoopbackOverflown, PlayPeek, PlayRead, PlayDecoded, PlayWrite,
     DeviceIsSilent, DeviceAsks, DevicePops, Stall, vars
<1>2. stalled' \in BOOLEAN
  BY Zenon DEF Bounded, Next, RecordDevice, PlayDevice, RecordTask, PlayTask,
     DeviceRecords, RecordRead, RecordWrite, LoopbackWrite, LoopbackOverflows,
     LoopbackOverflown, PlayPeek, PlayRead, PlayDecoded, PlayWrite,
     DeviceIsSilent, DeviceAsks, DevicePops, Stall, vars
<1>3. crossed' \in BOOLEAN
  BY Zenon DEF Bounded, Next, RecordDevice, PlayDevice, RecordTask, PlayTask,
     DeviceRecords, RecordRead, RecordWrite, LoopbackWrite, LoopbackOverflows,
     LoopbackOverflown, PlayPeek, PlayRead, PlayDecoded, PlayWrite,
     DeviceIsSilent, DeviceAsks, DevicePops, Stall, Cross, vars, calls
<1>4. ppc' \in {"peek", "read", "decoded", "write"}
  BY DEF Bounded, Next, RecordDevice, PlayDevice, RecordTask, PlayTask,
     DeviceRecords, RecordRead, RecordWrite, LoopbackWrite, LoopbackOverflows,
     LoopbackOverflown, PlayPeek, PlayRead, PlayDecoded, PlayWrite,
     DeviceIsSilent, DeviceAsks, DevicePops, Stall, vars, path
<1>5. played' \in Places
  <2>1. CASE DevicePops
    <3>1. CASE dpc = "pop"
      <4>1. playRing \in Places /\ MaxBufferSize + Len(playRing) - counted \in Nat
        BY EndsWholeInPlaces, Sizes DEF FrameInv, IInv, Shape, Calls, Ring
      <4>2. PICK kept, got :
              /\ kept = RecordRing!Newest(playRing,
                           MaxBufferSize + Len(playRing) - counted)
              /\ got = RecordRing!Oldest(kept, asked)
              /\ played' = got
        BY <2>1, <3>1, SameRings DEF DevicePops, PlayRing!PopBackFrom
      <4>3. kept \in Places
        BY <4>1, <4>2, CutsInPlaces
      <4>4. QED
        BY <4>2, <4>3, CutsInPlaces DEF IInv, Calls
    <3>2. CASE dpc = "crossed"
      BY <2>1, <3>2, Sizes, RowInPlaces
         DEF DevicePops, PopCrossed, IInv, Calls
    <3>3. QED
      BY <2>1, <3>1, <3>2 DEF DevicePops
  <2>2. CASE played' \in {played, <<>>}
    BY <2>2, EmptyInPlaces DEF Bounded
  <2>3. DevicePops \/ played' \in {played, <<>>}
    BY DEF Next, RecordDevice, PlayDevice, RecordTask, PlayTask,
       DeviceRecords, RecordRead, RecordWrite, LoopbackWrite, LoopbackOverflows,
       LoopbackOverflown, PlayPeek, PlayRead, PlayDecoded, PlayWrite,
       DeviceIsSilent, DeviceAsks, Stall, vars, path
  <2>4. QED
    BY <2>1, <2>2, <2>3
<1>6. QED
  BY <1>1, <1>2, <1>3, <1>4, <1>5 DEF Bounded

(* For every size, whatever is in a ring, in the connection or in a buffer *)
(* is a byte of a frame, and no ring holds more than its usable size       *)
(* (ringbuf.c:66-74, 86-88).                                               *)
THEOREM PathTypes == Spec => []TypeOK
<1>1. IInv /\ FrameInv /\ Bounded => TypeOK
  <2> SUFFICES ASSUME IInv, FrameInv, Bounded PROVE TypeOK
    OBVIOUS
  <2>1. {recordRing, taken, network, received, playRing} \subseteq Places
    BY EndsWholeInPlaces DEF FrameInv, Mended, Whole
  <2>2. asked \in 0 .. MaxBufferSize /\ counted \in 0 .. Len(playRing)
    BY Sizes DEF IInv, Shape, Calls, Ring
  <2>3. QED
    BY <2>1, <2>2 DEF IInv, Shape, Calls, FrameInv, Bounded, TypeOK
<1>2. QED
  BY RoomInitially, RoomKept, FramesInitially, FramesKept, BoundedInitially,
     BoundedKept, <1>1, PTL DEF Spec
=============================================================================
