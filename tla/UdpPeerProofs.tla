--------------------------- MODULE UdpPeerProofs ---------------------------
(***************************************************************************)
(* Theorems about UdpPeer for every number and size of frames, head,       *)
(* requests and capacity of the channel, whatever the network loses,       *)
(* repeats or reorders: what read_exact returns, and that the loops of     *)
(* handlers.rs get whole frames from it.                                   *)
(***************************************************************************)
EXTENDS UdpPeer, SequenceTheorems, TLAPS

Datagrams == {Datagram(f) : f \in Frames}
Cells     == Bytes \cup {Stale}

Shape ==
  /\ mode \in Modes /\ raw \in Frames
  /\ network \subseteq Frames /\ closed \in BOOLEAN
  /\ backlog \in Seq(Datagrams) /\ Len(backlog) <= Backlog
  /\ leftover \in Seq(Bytes) /\ due \in Seq(Bytes)
  /\ rpc \in {"next", "recv", "got", "panicked", "ended"}
  /\ part \in {"head", "body", "all"}
  /\ buf \in Seq(Cells) /\ head \in Seq(Cells)
  /\ off \in 0 .. Len(buf) /\ (rpc = "recv" => off < Len(buf))
  /\ misplaced \in BOOLEAN

(* A call that waits has filled its buffer, up to off, with the bytes it   *)
(* took from the peer, and has left nothing over.                          *)
FilledSoFar ==
  rpc = "recv" /\ ~ misplaced =>
    /\ leftover = <<>> /\ off = Len(due)
    /\ \A i \in 1 .. off : buf[i] = due[i]

(* The opus loop reads the head of a datagram and then all the rest of it. *)
OpusReader ==
  mode = "opus" =>
    /\ part \in {"head", "body"} /\ rpc # "panicked" /\ ~ misplaced
    /\ part = "head" /\ rpc # "got" => leftover = <<>>
    /\ part = "head" /\ rpc = "recv" => off = 0 /\ Len(buf) = HeadSize
    /\ part = "head" /\ rpc = "got" =>
         \E f \in Frames : buf = HeadOf(f) /\ leftover = BodyOf(f)
    /\ part = "body" => rpc \in {"next", "got"}
    /\ part = "body" /\ rpc = "next" =>
         \E f \in Frames : head = HeadOf(f) /\ leftover = BodyOf(f)
    /\ part = "body" /\ rpc = "got" =>
         /\ leftover = <<>>
         /\ \E f \in Frames : head = HeadOf(f) /\ buf = BodyOf(f)

(* The raw loop reads a datagram with each call: all have the same size.   *)
RawReader ==
  mode = "raw" =>
    /\ part = "all" /\ rpc # "panicked" /\ ~ misplaced /\ leftover = <<>>
    /\ \A f \in network : Size[f] = Size[raw]
    /\ \A i \in 1 .. Len(backlog) : Len(backlog[i]) = Size[raw]
    /\ rpc = "recv" => off = 0 /\ Len(buf) = Size[raw]
    /\ rpc = "got" => \E f \in Frames : buf = Datagram(f)

EndedDrained == rpc = "ended" => closed /\ backlog = <<>>

IInv ==
  /\ Shape
  /\ FilledSoFar /\ ReadIsExact
  /\ OpusReader /\ RawReader
  /\ EndedDrained

-----------------------------------------------------------------------------
(* Datagrams and their two parts.                                          *)

LEMMA DatagramFacts ==
  ASSUME NEW f \in Frames
  PROVE  /\ Size[f] \in Nat /\ Size[f] > HeadSize /\ HeadSize \in Nat \ {0}
         /\ Datagram(f) \in Seq(Bytes) /\ Len(Datagram(f)) = Size[f]
         /\ \A i \in 1 .. Size[f] : Datagram(f)[i] = <<f, i>>
<1>1. Size[f] \in Nat /\ Size[f] > HeadSize /\ HeadSize \in Nat \ {0}
  BY SizeAssumption
<1>2. \A i \in 1 .. Size[f] : Datagram(f)[i] = <<f, i>>
  BY DEF Datagram
<1>3. \A i \in 1 .. Size[f] : <<f, i>> \in Bytes
  BY <1>2 DEF Bytes
<1>4. Datagram(f) \in Seq(Bytes) /\ Len(Datagram(f)) = Size[f]
  BY <1>1, <1>3 DEF Datagram
<1>5. QED
  BY <1>1, <1>2, <1>4

LEMMA PartFacts ==
  ASSUME NEW f \in Frames
  PROVE  /\ HeadOf(f) = SubSeq(Datagram(f), 1, HeadSize)
         /\ BodyOf(f) = From(Datagram(f), HeadSize)
         /\ HeadOf(f) \in Seq(Bytes) /\ Len(HeadOf(f)) = HeadSize
         /\ BodyOf(f) \in Seq(Bytes) /\ Len(BodyOf(f)) = Size[f] - HeadSize
         /\ HeadOf(f)[1] = <<f, 1>>
<1>1. \A i \in 1 .. Size[f] : Datagram(f)[i] \in Bytes
  BY DatagramFacts, LenProperties
<1>2. /\ HeadOf(f) \in Seq(Bytes) /\ Len(HeadOf(f)) = HeadSize
      /\ HeadOf(f)[1] = Datagram(f)[1]
  BY <1>1, DatagramFacts, SubSeqProperties DEF HeadOf
<1>3. BodyOf(f) \in Seq(Bytes) /\ Len(BodyOf(f)) = Size[f] - HeadSize
  BY <1>1, DatagramFacts, SubSeqProperties DEF BodyOf
<1>4. BodyOf(f) = From(Datagram(f), HeadSize)
  BY DatagramFacts DEF BodyOf, From
<1>5. QED
  BY <1>2, <1>3, <1>4, DatagramFacts DEF HeadOf

(* A head names its frame.                                                 *)
LEMMA SameHead ==
  ASSUME NEW f \in Frames, NEW g \in Frames, HeadOf(f) = HeadOf(g)
  PROVE  f = g
BY PartFacts

LEMMA LengthsAreNat ==
  ASSUME Shape
  PROVE  Lengths \subseteq Nat
BY DatagramFacts, PartFacts, RequestsAssumption DEF Lengths, Shape

-----------------------------------------------------------------------------
(* What is copied to a buffer.                                             *)

LEMMA BlankFacts ==
  ASSUME NEW n \in Nat
  PROVE  Blank(n) \in Seq(Cells) /\ Len(Blank(n)) = n
BY DEF Blank, Cells

LEMMA CopiedFacts ==
  ASSUME NEW b \in Seq(Cells), NEW at \in 0 .. Len(b), NEW src \in Seq(Bytes),
         at + Len(src) <= Len(b)
  PROVE  /\ Copied(b, at, src) \in Seq(Cells)
         /\ Len(Copied(b, at, src)) = Len(b)
         /\ \A i \in 1 .. at : Copied(b, at, src)[i] = b[i]
         /\ \A i \in at + 1 .. at + Len(src) : Copied(b, at, src)[i] = src[i - at]
<1>1. DOMAIN b = 1 .. Len(b) /\ Len(b) \in Nat /\ Len(src) \in Nat
  OBVIOUS
<1>2. \A i \in 1 .. Len(b) : Copied(b, at, src)[i] =
        IF i \in at + 1 .. at + Len(src) THEN src[i - at] ELSE b[i]
  BY <1>1 DEF Copied
<1>3. \A i \in 1 .. Len(b) : Copied(b, at, src)[i] \in Cells
  BY <1>1, <1>2, ElementOfSeq DEF Cells
<1>4. Copied(b, at, src) \in Seq(Cells) /\ Len(Copied(b, at, src)) = Len(b)
  BY <1>1, <1>3 DEF Copied
<1>5. QED
  BY <1>1, <1>2, <1>4

(* A copy behind what is there already continues it.                       *)
LEMMA CopyContinues ==
  ASSUME NEW b \in Seq(Cells), NEW s \in Seq(Bytes), NEW src \in Seq(Bytes),
         Len(s) + Len(src) <= Len(b), \A i \in 1 .. Len(s) : b[i] = s[i]
  PROVE  \A i \in 1 .. Len(s) + Len(src) :
           Copied(b, Len(s), src)[i] = (s \o src)[i]
<1> DEFINE c == Copied(b, Len(s), src)
<1>1. /\ \A i \in 1 .. Len(s) : c[i] = b[i]
      /\ \A i \in Len(s) + 1 .. Len(s) + Len(src) : c[i] = src[i - Len(s)]
  <2>1. Len(s) \in 0 .. Len(b)
    OBVIOUS
  <2>2. QED
    BY <2>1, CopiedFacts
<1>2. \A i \in 1 .. Len(s) + Len(src) : (s \o src)[i] =
        IF i <= Len(s) THEN s[i] ELSE src[i - Len(s)]
  OBVIOUS
<1>3. Len(s) \in Nat /\ Len(src) \in Nat
  OBVIOUS
<1> HIDE DEF c
<1>4. ASSUME NEW i \in 1 .. Len(s) + Len(src) PROVE c[i] = (s \o src)[i]
  <2>1. CASE i <= Len(s)
    BY <1>1, <1>2, <1>3, <2>1
  <2>2. CASE i > Len(s)
    BY <1>1, <1>2, <1>3, <2>2
  <2>3. QED
    BY <1>3, <2>1, <2>2
<1>5. QED
  BY <1>4 DEF c

LEMMA CutFacts ==
  ASSUME NEW s \in Seq(Bytes), NEW n \in 0 .. Len(s)
  PROVE  /\ SubSeq(s, 1, n) \in Seq(Bytes) /\ Len(SubSeq(s, 1, n)) = n
         /\ \A i \in 1 .. n : SubSeq(s, 1, n)[i] = s[i]
         /\ From(s, n) \in Seq(Bytes) /\ Len(From(s, n)) = Len(s) - n
         /\ \A i \in 1 .. Len(s) - n : From(s, n)[i] = s[n + i]
<1>1. \A i \in 1 .. Len(s) : s[i] \in Bytes
  BY ElementOfSeq
<1>2. /\ SubSeq(s, 1, n) \in Seq(Bytes) /\ Len(SubSeq(s, 1, n)) = n
      /\ \A i \in 1 .. n : SubSeq(s, 1, n)[i] = s[i]
  BY <1>1, SubSeqProperties
<1>3. /\ From(s, n) \in Seq(Bytes) /\ Len(From(s, n)) = Len(s) - n
      /\ \A i \in 1 .. Len(s) - n : From(s, n)[i] = s[n + i]
  BY <1>1, SubSeqProperties DEF From
<1>4. QED
  BY <1>2, <1>3

(* What is cut from a sequence is what is left of one that starts with it. *)
LEMMA CutOfConcat ==
  ASSUME NEW s \in Seq(Bytes), NEW t \in Seq(Bytes), NEW n \in 0 .. Len(t)
  PROVE  From(s \o t, Len(s) + n) = From(t, n)
<1> DEFINE r == s \o t
           k == Len(s) + n
           u == From(r, k)
           v == From(t, n)
<1>1. /\ r \in Seq(Bytes) /\ Len(r) = Len(s) + Len(t)
      /\ \A i \in 1 .. Len(t) : r[Len(s) + i] = t[i]
      /\ Len(s) \in Nat /\ Len(t) \in Nat
  OBVIOUS
<1>2. k \in 0 .. Len(r) /\ Len(r) - k = Len(t) - n
  BY <1>1
<1> HIDE DEF r
<1>3. /\ u \in Seq(Bytes) /\ Len(u) = Len(r) - k
      /\ \A i \in 1 .. Len(r) - k : u[i] = r[k + i]
  BY <1>1, <1>2, CutFacts
<1>4. /\ v \in Seq(Bytes) /\ Len(v) = Len(t) - n
      /\ \A i \in 1 .. Len(t) - n : v[i] = t[n + i]
  BY CutFacts
<1> HIDE DEF u, v
<1>5. ASSUME NEW i \in 1 .. Len(t) - n PROVE u[i] = v[i]
  <2>1. n + i \in 1 .. Len(t) /\ k + i = Len(s) + (n + i)
    BY <1>1
  <2>2. QED
    BY <1>1, <1>2, <1>3, <1>4, <2>1
<1>6. u = v
  BY <1>2, <1>3, <1>4, <1>5, SeqEqual
<1>7. QED
  BY <1>6 DEF r, u, v

-----------------------------------------------------------------------------
(* The steps: the network and the producer.                                *)

LEMMA InitIInv == Init => IInv
<1> SUFFICES ASSUME Init PROVE IInv
  OBVIOUS
<1>1. Shape
  <2>1. /\ mode \in Modes /\ raw \in Frames /\ network \subseteq Frames
        /\ closed \in BOOLEAN /\ misplaced \in BOOLEAN
        /\ rpc = "next" /\ part \in {"head", "body", "all"}
    BY DEF Init
  <2>2. /\ backlog = <<>> /\ leftover = <<>> /\ due = <<>> /\ buf = <<>>
        /\ head = <<>> /\ off = 0
    BY DEF Init
  <2>3. /\ backlog \in Seq(Datagrams) /\ leftover \in Seq(Bytes)
        /\ due \in Seq(Bytes) /\ buf \in Seq(Cells) /\ head \in Seq(Cells)
        /\ Len(backlog) = 0 /\ Len(buf) = 0
    BY <2>2, EmptySeq
  <2>4. QED
    BY <2>1, <2>2, <2>3, BacklogAssumption DEF Shape
<1>2. FilledSoFar /\ ReadIsExact /\ RawReader /\ EndedDrained
  BY EmptySeq DEF Init, FilledSoFar, ReadIsExact, RawReader, EndedDrained
<1>3. OpusReader
  BY DEF Init, OpusReader
<1>4. QED
  BY <1>1, <1>2, <1>3 DEF IInv

LEMMA SilentKeeps ==
  ASSUME IInv, UNCHANGED vars
  PROVE  IInv'
BY DEF IInv, Shape, FilledSoFar, ReadIsExact, OpusReader, RawReader, EndedDrained,
       vars, reader, history

LEMMA NetworkKeeps ==
  ASSUME IInv, NEW f \in Frames, WriteAll(f) \/ Lose(f) \/ DropProducer
  PROVE  IInv'
<1>1. Shape'
  BY DEF IInv, Shape, WriteAll, Lose, DropProducer, reader, history
<1>2. RawReader'
  BY DEF IInv, RawReader, WriteAll, Lose, DropProducer, reader, history
<1>3. (FilledSoFar /\ ReadIsExact /\ OpusReader /\ EndedDrained)'
  BY DEF IInv, FilledSoFar, ReadIsExact, OpusReader, EndedDrained, WriteAll, Lose,
         DropProducer, reader, history
<1>4. QED
  BY <1>1, <1>2, <1>3 DEF IInv

LEMMA ProduceKeeps ==
  ASSUME IInv, NEW f \in Frames, Produce(f)
  PROVE  IInv'
<1>1. /\ backlog \in Seq(Datagrams) /\ Datagram(f) \in Datagrams
      /\ backlog' = Append(backlog, Datagram(f))
  BY DEF IInv, Shape, Datagrams, Produce
<1>2. /\ backlog' \in Seq(Datagrams) /\ Len(backlog') = Len(backlog) + 1
      /\ Len(backlog) \in Nat
      /\ \A i \in 1 .. Len(backlog) : backlog'[i] = backlog[i]
      /\ backlog'[Len(backlog) + 1] = Datagram(f)
  BY <1>1, AppendProperties
<1>3. Shape'
  BY <1>2, BacklogAssumption DEF IInv, Shape, Produce, reader, history
<1>4. RawReader'
  BY <1>2, DatagramFacts DEF IInv, RawReader, Produce, reader, history
<1>5. (FilledSoFar /\ ReadIsExact /\ OpusReader /\ EndedDrained)'
  BY DEF IInv, FilledSoFar, ReadIsExact, OpusReader, EndedDrained, Produce, reader,
         history
<1>6. QED
  BY <1>3, <1>4, <1>5 DEF IInv

-----------------------------------------------------------------------------
(* The steps of a read.                                                    *)

(* What a call has done before it waits for the first time.                *)
Begun(n) ==
  /\ buf' \in Seq(Cells) /\ Len(buf') = n /\ leftover' \in Seq(Bytes)
  /\ due' = leftover /\ misplaced' \in BOOLEAN
  /\ \/ /\ leftover = <<>> /\ leftover' = <<>> /\ off' = 0
        /\ misplaced' = FALSE
     \/ /\ leftover # <<>> /\ n <= Len(leftover) /\ off' = n
        /\ buf' = SubSeq(leftover, 1, n) /\ leftover' = From(leftover, n)
        /\ misplaced' = FALSE
     \/ /\ leftover # <<>> /\ n > Len(leftover) /\ off' = n - Len(leftover)
        /\ leftover' = <<>> /\ misplaced' = (n # 2 * Len(leftover))
        /\ \A i \in 1 .. Len(leftover) : buf'[i] = leftover[i]

LEMMA ReadExactDoes ==
  ASSUME Shape, NEW n \in Nat, ReadExact(n)
  PROVE  Begun(n)
<1>1. leftover \in Seq(Bytes) /\ Len(leftover) \in Nat
  BY DEF Shape
<1>2. due' = leftover /\ (ReadLeftover(n) \/ ReadNoLeftover(n))
  BY DEF ReadExact
<1>3. CASE ReadNoLeftover(n)
  BY <1>1, <1>2, <1>3, BlankFacts DEF ReadNoLeftover, Begun
<1>4. CASE ReadLeftover(n) /\ n <= Len(leftover)
  <2>1. /\ SubSeq(leftover, 1, n) \in Seq(Bytes) /\ Len(SubSeq(leftover, 1, n)) = n
        /\ From(leftover, n) \in Seq(Bytes)
    BY <1>1, <1>4, CutFacts
  <2>2. SubSeq(leftover, 1, n) \in Seq(Cells)
    BY <2>1, SeqMonotonic DEF Cells
  <2>3. /\ leftover # <<>> /\ off' = n /\ misplaced' = FALSE
        /\ buf' = SubSeq(leftover, 1, n) /\ leftover' = From(leftover, n)
    BY <1>1, <1>4 DEF ReadLeftover
  <2>4. QED
    BY <1>2, <1>4, <2>1, <2>2, <2>3 DEF Begun
<1>5. CASE ReadLeftover(n) /\ n > Len(leftover)
  <2>1. /\ leftover # <<>> /\ off' = n - Len(leftover) /\ leftover' = <<>>
        /\ misplaced' = (n # 2 * Len(leftover))
        /\ buf' = Copied(Blank(n), 0, leftover)
    BY <1>1, <1>5 DEF ReadLeftover
  <2>2. /\ Blank(n) \in Seq(Cells) /\ Len(Blank(n)) = n
        /\ 0 \in 0 .. n /\ 0 + Len(leftover) <= n
    BY <1>1, <1>5, BlankFacts
  <2>3. /\ buf' \in Seq(Cells) /\ Len(buf') = n
        /\ \A i \in 0 + 1 .. 0 + Len(leftover) : buf'[i] = leftover[i - 0]
    BY <1>1, <2>1, <2>2, CopiedFacts
  <2>4. \A i \in 1 .. Len(leftover) : buf'[i] = leftover[i]
    BY <1>1, <2>3
  <2>5. QED
    BY <1>2, <1>5, <2>1, <2>3, <2>4, EmptySeq DEF Begun
<1>6. QED
  BY <1>1, <1>2, <1>3, <1>4, <1>5

LEMMA ReadExactKeeps ==
  ASSUME IInv, NEW n \in Lengths, ReadExact(n)
  PROVE  IInv'
<1>1. n \in Nat /\ Shape
  BY LengthsAreNat DEF IInv
<1>2. Begun(n)
  BY <1>1, ReadExactDoes
<1>3. /\ rpc = "next" /\ rpc' = IF off' < n THEN "recv" ELSE "got"
      /\ UNCHANGED <<mode, raw, network, backlog, closed, part, head>>
  BY DEF ReadExact, Returned
<1>4. leftover \in Seq(Bytes) /\ Len(leftover) \in Nat /\ Len(<<>>) = 0
  BY <1>1 DEF Shape
<1>5. off' \in 0 .. n
  BY <1>1, <1>2, <1>4 DEF Begun
<1>6. Shape'
  BY <1>1, <1>2, <1>3, <1>4, <1>5 DEF Shape, Begun
<1>7. FilledSoFar'
  BY <1>1, <1>2, <1>3, <1>4 DEF FilledSoFar, Begun
<1>8. ReadIsExact'
  <2>1. CASE leftover # <<>> /\ n <= Len(leftover) /\ off' = n
    BY <1>1, <1>2, <1>4, <2>1 DEF ReadIsExact, Begun
  <2>2. CASE n = 0 /\ leftover = <<>>
    BY <1>2, <1>3, <2>2, EmptySeq DEF ReadIsExact, From, Begun
  <2>3. CASE rpc' # "got"
    BY <2>3 DEF ReadIsExact
  <2>4. n > Len(leftover) /\ leftover # <<>> => n - Len(leftover) < n
    BY <1>1, <1>4, EmptySeq
  <2>5. QED
    BY <1>1, <1>2, <1>3, <2>1, <2>2, <2>3, <2>4 DEF Begun
<1>9. OpusReader'
  <2> SUFFICES ASSUME mode = "opus" PROVE OpusReader'
    BY <1>3 DEF OpusReader
  <2>1. CASE part = "head"
    <3>1. n = HeadSize /\ leftover = <<>> /\ HeadSize > 0
      BY <1>3, <2>1, SizeAssumption DEF Lengths, IInv, OpusReader
    <3>2. /\ off' = 0 /\ leftover' = <<>> /\ rpc' = "recv" /\ Len(buf') = HeadSize
          /\ ~ misplaced'
      BY <1>2, <1>3, <3>1 DEF Begun
    <3>3. QED
      BY <1>3, <2>1, <3>2 DEF OpusReader
  <2>2. CASE part = "body"
    <3>1. PICK f \in Frames : head = HeadOf(f) /\ leftover = BodyOf(f)
      BY <1>3, <2>2 DEF IInv, OpusReader
    <3>2. \E g \in Frames : head = HeadOf(g) /\ n = Len(BodyOf(g))
      BY <2>2, <3>1 DEF Lengths
    <3>3. n = Len(leftover) /\ leftover # <<>>
      <4>1. n = Len(BodyOf(f))
        BY <3>1, <3>2, SameHead
      <4>2. n > 0
        BY <4>1, PartFacts, DatagramFacts
      <4>3. QED
        BY <3>1, <4>1, <4>2, <1>4
    <3>4. /\ off' = n /\ buf' = SubSeq(leftover, 1, Len(leftover))
          /\ leftover' = From(leftover, Len(leftover)) /\ ~ misplaced'
      BY <1>2, <1>4, <3>3 DEF Begun
    <3>5. buf' = leftover
      BY <1>4, <3>4, SubSeqFull
    <3>6. leftover' = <<>>
      BY <1>4, <3>4, SubSeqEmpty DEF From
    <3>7. rpc' = "got"
      BY <1>1, <1>3, <3>4
    <3>8. QED
      BY <1>3, <2>2, <3>1, <3>4, <3>5, <3>6, <3>7 DEF OpusReader
  <2>3. QED
    BY <2>1, <2>2 DEF IInv, OpusReader
<1>10. RawReader'
  <2> SUFFICES ASSUME mode = "raw" PROVE RawReader'
    BY <1>3 DEF RawReader
  <2>1. /\ part = "all" /\ n = Size[raw] /\ leftover = <<>> /\ Size[raw] > 0
        /\ rpc # "panicked"
    BY <1>1, DatagramFacts DEF Lengths, IInv, RawReader, Shape
  <2>2. /\ off' = 0 /\ leftover' = <<>> /\ rpc' = "recv" /\ Len(buf') = Size[raw]
        /\ ~ misplaced'
    BY <1>2, <1>3, <2>1 DEF Begun
  <2>3. QED
    BY <1>3, <2>1, <2>2 DEF IInv, RawReader
<1>11. EndedDrained'
  BY <1>3 DEF EndedDrained
<1>12. QED
  BY <1>6, <1>7, <1>8, <1>9, <1>10, <1>11 DEF IInv

LEMMA ReceivedFacts ==
  ASSUME Shape, Received
  PROVE  /\ Head(backlog) = backlog[1] /\ Len(backlog) \in Nat \ {0}
         /\ \E f \in Frames : Head(backlog) = Datagram(f)
         /\ Head(backlog) \in Seq(Bytes) /\ Len(Head(backlog)) \in Nat \ {0}
         /\ backlog' \in Seq(Datagrams) /\ Len(backlog') = Len(backlog) - 1
         /\ \A i \in 1 .. Len(backlog') : backlog'[i] = backlog[i + 1]
         /\ due' = due \o Head(backlog) /\ due' \in Seq(Bytes)
         /\ Remaining \in Nat /\ Remaining > 0 /\ off + Remaining = Len(buf)
         /\ off \in Nat /\ Len(buf) \in Nat
<1>1. backlog \in Seq(Datagrams) /\ backlog # <<>> /\ backlog' = Tail(backlog)
  BY DEF Shape, Received
<1>2. Head(backlog) \in Datagrams /\ Head(backlog) = backlog[1]
  BY <1>1
<1>3. /\ Len(backlog) \in Nat \ {0}
      /\ backlog' \in Seq(Datagrams) /\ Len(backlog') = Len(backlog) - 1
      /\ \A i \in 1 .. Len(backlog') : backlog'[i] = backlog[i + 1]
  BY <1>1, EmptySeq, HeadTailProperties
<1>4. PICK f \in Frames : Head(backlog) = Datagram(f)
  BY <1>2 DEF Datagrams
<1>5. Head(backlog) \in Seq(Bytes) /\ Len(Head(backlog)) \in Nat \ {0}
  BY <1>4, DatagramFacts
<1>6. due' = due \o Head(backlog) /\ due' \in Seq(Bytes)
  BY <1>5, ConcatProperties DEF Shape, Received
<1>7. /\ Remaining \in Nat /\ Remaining > 0 /\ off + Remaining = Len(buf)
      /\ off \in Nat /\ Len(buf) \in Nat
  BY DEF Shape, Received, Remaining
<1>8. QED
  BY <1>2, <1>3, <1>4, <1>5, <1>6, <1>7

LEMMA RecvEnoughKeeps ==
  ASSUME IInv, RecvEnough
  PROVE  IInv'
<1> DEFINE d == Head(backlog)
           m == Remaining
           piece == SubSeq(d, 1, m)
<1>1. Shape /\ Received /\ rpc = "recv"
  BY DEF IInv, RecvEnough, Received
<1>2. PICK f \in Frames : d = Datagram(f)
  BY <1>1, ReceivedFacts
<1>3. /\ d \in Seq(Bytes) /\ d = backlog[1] /\ Len(backlog) \in Nat \ {0}
      /\ backlog' \in Seq(Datagrams) /\ Len(backlog') = Len(backlog) - 1
      /\ \A i \in 1 .. Len(backlog') : backlog'[i] = backlog[i + 1]
      /\ due' = due \o d /\ due' \in Seq(Bytes)
      /\ m \in Nat /\ m > 0 /\ off + m = Len(buf) /\ off \in Nat
      /\ Len(buf) \in Nat
  BY <1>1, ReceivedFacts
<1>4. /\ Len(d) \in Nat /\ Len(d) >= m /\ leftover' = From(d, m)
      /\ buf' = Copied(buf, off, piece) /\ off' = Len(buf) /\ rpc' = "got"
  BY <1>3 DEF RecvEnough
<1>5. UNCHANGED <<mode, raw, network, closed, part, head, misplaced>>
  BY <1>1 DEF RecvEnough, Received
<1> HIDE DEF d, m
<1>6. /\ piece \in Seq(Bytes) /\ Len(piece) = m
      /\ \A i \in 1 .. m : piece[i] = d[i]
      /\ leftover' \in Seq(Bytes)
  BY <1>3, <1>4, CutFacts
<1> HIDE DEF piece
<1>7. /\ buf' \in Seq(Cells) /\ Len(buf') = Len(buf)
      /\ \A i \in 1 .. off : buf'[i] = buf[i]
      /\ \A i \in off + 1 .. off + m : buf'[i] = d[i - off]
  <2>1. buf \in Seq(Cells) /\ off \in 0 .. Len(buf)
    BY <1>1 DEF Shape
  <2>2. /\ buf' \in Seq(Cells) /\ Len(buf') = Len(buf)
        /\ \A i \in 1 .. off : buf'[i] = buf[i]
        /\ \A i \in off + 1 .. off + m : buf'[i] = piece[i - off]
    <3>1. off + Len(piece) = off + m /\ off + Len(piece) <= Len(buf)
      BY <1>3, <1>6
    <3>2. /\ Copied(buf, off, piece) \in Seq(Cells)
          /\ Len(Copied(buf, off, piece)) = Len(buf)
          /\ \A i \in 1 .. off : Copied(buf, off, piece)[i] = buf[i]
          /\ \A i \in off + 1 .. off + Len(piece) :
               Copied(buf, off, piece)[i] = piece[i - off]
      BY <1>6, <2>1, <3>1, CopiedFacts
    <3>3. QED
      BY <1>4, <3>1, <3>2
  <2>3. ASSUME NEW i \in off + 1 .. off + m PROVE piece[i - off] = d[i - off]
    <3>1. i - off \in 1 .. m
      BY <1>3
    <3>2. QED
      BY <1>6, <3>1
  <2>4. QED
    BY <2>2, <2>3
<1>8. Shape'
  BY <1>1, <1>3, <1>4, <1>5, <1>6, <1>7, BacklogAssumption DEF Shape
<1>9. FilledSoFar' /\ EndedDrained'
  BY <1>4 DEF FilledSoFar, EndedDrained
<1>10. ReadIsExact'
  <2> SUFFICES ASSUME ~ misplaced
               PROVE  buf' = SubSeq(due', 1, Len(buf')) /\ leftover' = From(due', Len(buf'))
    BY <1>5 DEF ReadIsExact
  <2>1. /\ off = Len(due) /\ due \in Seq(Bytes)
        /\ \A i \in 1 .. off : buf[i] = due[i]
    BY <1>1 DEF IInv, FilledSoFar, Shape
  <2>2. /\ Len(due') = Len(due) + Len(d)
        /\ \A i \in 1 .. Len(due') : due'[i] =
             IF i <= Len(due) THEN due[i] ELSE d[i - Len(due)]
    BY <1>3, <2>1, ConcatProperties
  <2>3. leftover' = From(due', Len(buf'))
    <3>1. m \in 0 .. Len(d) /\ Len(buf') = Len(due) + m
      BY <1>3, <1>4, <1>7, <2>1
    <3>2. From(due \o d, Len(due) + m) = From(d, m)
      BY <1>3, <2>1, <3>1, CutOfConcat
    <3>3. QED
      BY <1>3, <1>4, <3>1, <3>2
  <2>4. Len(buf') \in 0 .. Len(due')
    BY <1>3, <1>4, <1>7, <2>1, <2>2
  <2>5. ASSUME NEW i \in 1 .. Len(buf') PROVE buf'[i] = due'[i]
    BY <1>3, <1>4, <1>7, <2>1, <2>2, <2>4
  <2>6. /\ SubSeq(due', 1, Len(buf')) \in Seq(Cells)
        /\ Len(SubSeq(due', 1, Len(buf'))) = Len(buf')
        /\ \A i \in 1 .. Len(buf') : SubSeq(due', 1, Len(buf'))[i] = due'[i]
    BY <1>3, <2>4, CutFacts, SeqMonotonic DEF Cells
  <2>7. buf' = SubSeq(due', 1, Len(buf'))
    BY <1>7, <2>5, <2>6, SeqEqual
  <2>8. QED
    BY <2>3, <2>7
<1>11. ASSUME off = 0 PROVE buf' = SubSeq(d, 1, m)
  <2>1. \A i \in 1 .. m : buf'[i] = piece[i]
    BY <1>3, <1>6, <1>7, <1>11
  <2>2. piece \in Seq(Cells) /\ Len(buf') = m
    BY <1>3, <1>6, <1>7, <1>11, SeqMonotonic DEF Cells
  <2>3. buf' = piece
    BY <1>6, <1>7, <2>1, <2>2, SeqEqual
  <2>4. QED
    BY <2>3 DEF piece
<1>12. OpusReader'
  <2> SUFFICES ASSUME mode = "opus" PROVE OpusReader'
    BY <1>5 DEF OpusReader
  <2>1. part = "head" /\ off = 0 /\ Len(buf) = HeadSize /\ ~ misplaced
    BY <1>1 DEF IInv, OpusReader
  <2>2. m = HeadSize
    BY <1>3, <2>1
  <2>3. buf' = HeadOf(f) /\ leftover' = BodyOf(f)
    BY <1>2, <1>4, <1>11, <2>1, <2>2, PartFacts
  <2>4. QED
    BY <1>4, <1>5, <2>1, <2>3 DEF OpusReader
<1>13. RawReader'
  <2> SUFFICES ASSUME mode = "raw" PROVE RawReader'
    BY <1>5 DEF RawReader
  <2>1. /\ part = "all" /\ off = 0 /\ Len(buf) = Size[raw] /\ Len(d) = Size[raw]
        /\ ~ misplaced
        /\ \A g \in network : Size[g] = Size[raw]
        /\ \A i \in 1 .. Len(backlog) : Len(backlog[i]) = Size[raw]
    BY <1>1, <1>3 DEF IInv, RawReader
  <2>2. m = Len(d)
    BY <1>3, <2>1
  <2>3. buf' = Datagram(f) /\ leftover' = <<>>
    <3>1. SubSeq(d, 1, m) = d
      BY <1>3, <2>2, SubSeqFull
    <3>2. From(d, m) = <<>>
      BY <1>3, <2>2, SubSeqEmpty DEF From
    <3>3. QED
      BY <1>2, <1>4, <1>11, <2>1, <3>1, <3>2
  <2>4. \A i \in 1 .. Len(backlog') : Len(backlog'[i]) = Size[raw]
    BY <1>3, <2>1
  <2>5. QED
    BY <1>4, <1>5, <2>1, <2>3, <2>4 DEF RawReader
<1>14. QED
  BY <1>8, <1>9, <1>10, <1>12, <1>13 DEF IInv

(* A datagram too short is met by a reader of no protocol only.            *)
LEMMA RecvShortKeeps ==
  ASSUME IInv, RecvShort
  PROVE  IInv'
<1> DEFINE d == Head(backlog)
           m == Remaining
<1>1. Shape /\ Received /\ rpc = "recv" /\ Len(d) < m
  BY DEF IInv, RecvShort, Received
<1>2. PICK f \in Frames : d = Datagram(f)
  BY <1>1, ReceivedFacts
<1>3. /\ d \in Seq(Bytes) /\ d = backlog[1] /\ Len(backlog) \in Nat \ {0}
      /\ Len(d) \in Nat \ {0}
      /\ backlog' \in Seq(Datagrams) /\ Len(backlog') = Len(backlog) - 1
      /\ due' = due \o d /\ due' \in Seq(Bytes)
      /\ m \in Nat /\ m > 0 /\ off + m = Len(buf) /\ off \in Nat
      /\ Len(buf) \in Nat
  BY <1>1, ReceivedFacts
<1>4. UNCHANGED <<mode, raw, network, closed, part, head, misplaced, leftover>>
  BY <1>1 DEF RecvShort, Received
<1>5. \/ /\ m - Len(d) = Len(d) /\ buf' = Copied(buf, off, d)
         /\ off' = off + Len(d) /\ rpc' = "recv"
      \/ rpc' = "panicked" /\ buf' = buf /\ off' = off
  BY <1>1 DEF RecvShort
<1>6. mode # "opus"
  <2> SUFFICES ASSUME mode = "opus" PROVE FALSE
    OBVIOUS
  <2>1. part = "head" /\ off = 0 /\ Len(buf) = HeadSize
    BY <1>1 DEF IInv, OpusReader
  <2>2. Len(d) > HeadSize /\ HeadSize \in Nat
    BY <1>2, DatagramFacts
  <2>3. QED
    BY <1>1, <1>3, <2>1, <2>2
<1>7. mode # "raw"
  <2> SUFFICES ASSUME mode = "raw" PROVE FALSE
    OBVIOUS
  <2>1. off = 0 /\ Len(buf) = Size[raw] /\ Len(d) = Size[raw]
    BY <1>1, <1>3 DEF IInv, RawReader
  <2>2. QED
    BY <1>1, <1>3, <2>1
<1> HIDE DEF d, m
<1>8. Shape' /\ FilledSoFar'
  <2>1. CASE /\ m - Len(d) = Len(d) /\ buf' = Copied(buf, off, d)
             /\ off' = off + Len(d) /\ rpc' = "recv"
    <3>1. buf \in Seq(Cells) /\ off \in 0 .. Len(buf) /\ off + Len(d) < Len(buf)
      BY <1>1, <1>3 DEF Shape
    <3>2. /\ buf' \in Seq(Cells) /\ Len(buf') = Len(buf)
          /\ \A i \in 1 .. off : buf'[i] = buf[i]
          /\ \A i \in off + 1 .. off + Len(d) : buf'[i] = d[i - off]
      <4>1. off + Len(d) <= Len(buf) /\ d \in Seq(Bytes)
        BY <1>3, <3>1
      <4>2. /\ Copied(buf, off, d) \in Seq(Cells)
            /\ Len(Copied(buf, off, d)) = Len(buf)
            /\ \A i \in 1 .. off : Copied(buf, off, d)[i] = buf[i]
            /\ \A i \in off + 1 .. off + Len(d) :
                 Copied(buf, off, d)[i] = d[i - off]
        BY <3>1, <4>1, CopiedFacts
      <4>3. QED
        BY <2>1, <4>2
    <3>3. off' \in 0 .. Len(buf') /\ off' < Len(buf')
      BY <1>3, <2>1, <3>1, <3>2
    <3>4. Shape'
      BY <1>1, <1>3, <1>4, <2>1, <3>2, <3>3, BacklogAssumption DEF Shape
    <3>5. FilledSoFar'
      <4> SUFFICES ASSUME ~ misplaced
                   PROVE  /\ leftover' = <<>> /\ off' = Len(due')
                          /\ \A i \in 1 .. off' : buf'[i] = due'[i]
        BY <1>4 DEF FilledSoFar
      <4>1. /\ off = Len(due) /\ due \in Seq(Bytes) /\ leftover = <<>>
            /\ \A i \in 1 .. off : buf[i] = due[i]
        BY <1>1 DEF IInv, FilledSoFar, Shape
      <4>2. Len(due') = Len(due) + Len(d)
        BY <1>3, <4>1, ConcatProperties
      <4>3. \A i \in 1 .. Len(due) + Len(d) :
              Copied(buf, Len(due), d)[i] = (due \o d)[i]
        <5>1. /\ buf \in Seq(Cells) /\ d \in Seq(Bytes)
              /\ Len(due) + Len(d) <= Len(buf)
              /\ \A i \in 1 .. Len(due) : buf[i] = due[i]
          BY <1>3, <3>1, <4>1
        <5>2. QED
          BY <4>1, <5>1, CopyContinues
      <4>4. QED
        BY <1>3, <1>4, <2>1, <4>1, <4>2, <4>3
    <3>6. QED
      BY <3>4, <3>5
  <2>2. CASE rpc' = "panicked" /\ buf' = buf /\ off' = off
    BY <1>1, <1>3, <1>4, <2>2, BacklogAssumption DEF Shape, FilledSoFar
  <2>3. QED
    BY <1>5, <2>1, <2>2
<1>9. (OpusReader /\ RawReader)'
  BY <1>4, <1>6, <1>7 DEF OpusReader, RawReader
<1>10. (ReadIsExact /\ EndedDrained)'
  BY <1>5 DEF ReadIsExact, EndedDrained
<1>11. QED
  BY <1>8, <1>9, <1>10 DEF IInv

LEMMA RecvClosedKeeps ==
  ASSUME IInv, RecvClosed
  PROVE  IInv'
<1>1. Shape' /\ EndedDrained'
  BY DEF IInv, Shape, EndedDrained, RecvClosed, history
<1>2. FilledSoFar' /\ ReadIsExact'
  BY DEF FilledSoFar, ReadIsExact, RecvClosed
<1>3. OpusReader'
  BY DEF IInv, OpusReader, RecvClosed, history
<1>4. RawReader'
  BY DEF IInv, RawReader, RecvClosed, history
<1>5. QED
  BY <1>1, <1>2, <1>3, <1>4 DEF IInv

LEMMA UseFrameKeeps ==
  ASSUME IInv, UseFrame
  PROVE  IInv'
<1>1. /\ rpc = "got" /\ rpc' = "next" /\ part' = Following[part]
      /\ head' = IF part = "head" THEN buf ELSE <<>>
      /\ buf' = <<>> /\ off' = 0 /\ due' = <<>>
      /\ UNCHANGED <<mode, raw, network, backlog, closed, leftover, misplaced>>
  BY DEF UseFrame
<1>2. Shape /\ part' \in {"head", "body", "all"}
  BY <1>1 DEF IInv, Shape, Following
<1>3. Shape'
  <2>1. head' \in Seq(Cells) /\ buf' \in Seq(Cells) /\ due' \in Seq(Bytes) /\ Len(buf') = 0
    BY <1>1, <1>2, EmptySeq DEF Shape
  <2>2. QED
    BY <1>1, <1>2, <2>1 DEF Shape
<1>4. (FilledSoFar /\ ReadIsExact /\ EndedDrained)'
  BY <1>1 DEF FilledSoFar, ReadIsExact, EndedDrained
<1>5. OpusReader'
  BY <1>1 DEF IInv, OpusReader, Following
<1>6. RawReader'
  BY <1>1 DEF IInv, RawReader, Following
<1>7. QED
  BY <1>3, <1>4, <1>5, <1>6 DEF IInv

-----------------------------------------------------------------------------

LEMMA StepKeeps == IInv /\ [Next]_vars => IInv'
<1> SUFFICES ASSUME IInv, [Next]_vars PROVE IInv'
  OBVIOUS
<1>1. CASE UNCHANGED vars
  BY <1>1, SilentKeeps
<1>2. ASSUME NEW f \in Frames, WriteAll(f) \/ Lose(f) \/ Produce(f) PROVE IInv'
  BY <1>2, NetworkKeeps, ProduceKeeps
<1>3. CASE DropProducer
  BY <1>3, NetworkKeeps DEF IInv, Shape
<1>4. CASE Reader
  BY <1>4, ReadExactKeeps, RecvEnoughKeeps, RecvShortKeeps, RecvClosedKeeps,
     UseFrameKeeps DEF Reader
<1>5. QED
  BY <1>1, <1>2, <1>3, <1>4 DEF Next

THEOREM UdpInvariant == Spec => []IInv
BY InitIInv, StepKeeps, PTL DEF Spec

(* Whatever sizes are asked for and arrive, a read that returns has filled *)
(* its buffer with the next bytes of the peer and kept the ones after them *)
(* (peer.rs:62-112), unless a leftover was counted wrongly (peer.rs:83).   *)
THEOREM ExactReads == Spec => []ReadIsExact
<1>1. IInv => ReadIsExact
  BY DEF IInv
<1>2. QED
  BY UdpInvariant, <1>1, PTL

(* The loops of handlers.rs get whole frames that were sent, and the body  *)
(* that belongs to the head, for every size of frame and head; for them no *)
(* slice has the wrong length (peer.rs:99-103) and no leftover is counted  *)
(* wrongly.                                                                *)
THEOREM WholeFrames == Spec => []FramesWhole
<1>1. IInv => FramesWhole
  BY ModesAssumption DEF IInv, Shape, OpusReader, RawReader, FramesWhole
<1>2. QED
  BY UdpInvariant, <1>1, PTL

(* Types: the offset stays in the buffer, in a call that waits before its  *)
(* end, and the channel holds no more than its capacity.                   *)
THEOREM UdpTypes == Spec => []TypeOK
<1>1. IInv => TypeOK
  <2> SUFFICES ASSUME IInv PROVE TypeOK
    OBVIOUS
  <2>1. /\ IsBytes(leftover, Bytes) /\ IsBytes(due, Bytes)
        /\ IsBytes(buf, Cells) /\ IsBytes(head, Cells)
    BY LenProperties, ElementOfSeq DEF IInv, Shape, IsBytes
  <2>2. \A i \in DOMAIN backlog : backlog[i] \in Datagrams
    BY LenProperties, ElementOfSeq DEF IInv, Shape
  <2>3. QED
    BY <2>1, <2>2 DEF IInv, Shape, TypeOK, Cells, Datagrams
<1>2. QED
  BY UdpInvariant, <1>1, PTL

-----------------------------------------------------------------------------
(* The peer as a queue of frames.                                          *)

LEMMA NamesFacts ==
  ASSUME NEW b \in Seq(Datagrams)
  PROVE  /\ NamesOf(b) \in Seq(Frames) /\ Len(NamesOf(b)) = Len(b)
         /\ \A i \in 1 .. Len(b) : NamesOf(b)[i] = b[i][1][1]
<1>1. DOMAIN b = 1 .. Len(b) /\ Len(b) \in Nat
  OBVIOUS
<1>2. ASSUME NEW i \in 1 .. Len(b) PROVE b[i][1][1] \in Frames
  <2>1. PICK f \in Frames : b[i] = Datagram(f)
    BY ElementOfSeq DEF Datagrams
  <2>2. b[i][1] = <<f, 1>>
    BY <2>1, DatagramFacts
  <2>3. QED
    BY <2>2
<1>3. QED
  BY <1>1, <1>2 DEF NamesOf

LEMMA NamesOfMore ==
  ASSUME NEW b \in Seq(Datagrams), NEW f \in Frames
  PROVE  NamesOf(Append(b, Datagram(f))) = Append(NamesOf(b), f)
<1> DEFINE c == Append(b, Datagram(f))
           l == NamesOf(c)
           r == Append(NamesOf(b), f)
<1>1. Datagram(f) \in Datagrams /\ Datagram(f)[1] = <<f, 1>>
  <2>1. 1 \in 1 .. Size[f]
    BY DatagramFacts
  <2>2. QED
    BY <2>1, DatagramFacts DEF Datagrams
<1>2. /\ c \in Seq(Datagrams) /\ Len(c) = Len(b) + 1 /\ Len(b) \in Nat
      /\ \A i \in 1 .. Len(b) : c[i] = b[i]
      /\ c[Len(b) + 1] = Datagram(f)
  BY <1>1, AppendProperties
<1> HIDE DEF c
<1>3. /\ l \in Seq(Frames) /\ Len(l) = Len(b) + 1
      /\ \A i \in 1 .. Len(b) + 1 : l[i] = c[i][1][1]
  BY <1>2, NamesFacts
<1>4. /\ r \in Seq(Frames) /\ Len(r) = Len(b) + 1
      /\ \A i \in 1 .. Len(b) : r[i] = b[i][1][1]
      /\ r[Len(b) + 1] = f
  BY NamesFacts, AppendProperties
<1>5. \A i \in 1 .. Len(b) + 1 : l[i] = r[i]
  BY <1>1, <1>2, <1>3, <1>4
<1>6. l = r
  BY <1>3, <1>4, <1>5, SeqEqual
<1>7. QED
  BY <1>6 DEF c

LEMMA NamesOfOne ==
  ASSUME NEW b \in Seq(Datagrams), b # <<>>
  PROVE  NamesOf(b) = <<Head(b)[1][1]>> \o NamesOf(Tail(b))
<1> DEFINE h == Head(b)[1][1]
           l == NamesOf(b)
           t == NamesOf(Tail(b))
           e == <<h>>
           r == e \o t
<1>1. /\ Tail(b) \in Seq(Datagrams) /\ Len(Tail(b)) = Len(b) - 1
      /\ \A i \in 1 .. Len(b) - 1 : Tail(b)[i] = b[i + 1]
      /\ Head(b) = b[1] /\ Len(b) \in Nat \ {0}
  BY HeadTailProperties, EmptySeq
<1>2. /\ l \in Seq(Frames) /\ Len(l) = Len(b)
      /\ \A i \in 1 .. Len(b) : l[i] = b[i][1][1]
  BY NamesFacts
<1>3. /\ t \in Seq(Frames) /\ Len(t) = Len(b) - 1
      /\ \A i \in 1 .. Len(b) - 1 : t[i] = Tail(b)[i][1][1]
  BY <1>1, NamesFacts
<1>4. h \in Frames /\ h = b[1][1][1]
  BY <1>1, <1>2, ElementOfSeq
<1> HIDE DEF h, l, t
<1>5. /\ r \in Seq(Frames) /\ Len(r) = Len(b)
      /\ r[1] = h /\ \A i \in 2 .. Len(b) : r[i] = t[i - 1]
  <2>1. e \in Seq(Frames) /\ Len(e) = 1 /\ e[1] = h
    BY <1>4
  <2> HIDE DEF e
  <2>2. /\ r \in Seq(Frames) /\ Len(r) = 1 + Len(t)
        /\ \A i \in 1 .. 1 + Len(t) :
             r[i] = IF i <= 1 THEN e[i] ELSE t[i - 1]
    BY <1>3, <2>1, ConcatProperties
  <2> HIDE DEF r
  <2>3. QED
    BY <1>1, <1>3, <2>1, <2>2
<1> HIDE DEF e, r
<1>6. ASSUME NEW i \in 1 .. Len(b) PROVE l[i] = r[i]
  <2>1. CASE i = 1
    BY <1>1, <1>2, <1>4, <1>5, <2>1
  <2>2. CASE i # 1
    <3>1. i - 1 \in 1 .. Len(b) - 1 /\ i \in 2 .. Len(b)
      BY <1>1, <2>2
    <3>2. t[i - 1] = Tail(b)[i - 1][1][1] /\ Tail(b)[i - 1] = b[i]
      BY <1>1, <1>3, <3>1
    <3>3. QED
      BY <1>2, <1>5, <3>1, <3>2
  <2>3. QED
    BY <2>1, <2>2
<1>7. l = r
  BY <1>2, <1>5, <1>6, SeqEqual
<1>8. QED
  BY <1>7 DEF e, h, l, r, t

(* At most one frame is received and not used, and none by a call that     *)
(* still waits or by one that has ended.                                   *)
LEMMA PendingFacts ==
  ASSUME IInv, mode # "mixed"
  PROVE  /\ Pending \in Seq(Frames) /\ Len(Pending) <= 1
         /\ part # "body" /\ rpc # "got" => Pending = <<>>
         /\ part = "body" \/ rpc = "got" =>
              \E f \in Frames : Pending = <<f>>
         /\ rpc \in {"recv", "ended"} => part # "body"
<1>1. mode \in {"opus", "raw"} /\ part \in {"head", "body", "all"}
  BY ModesAssumption DEF IInv, Shape
<1>2. part = "body" => \E f \in Frames : head = HeadOf(f)
  BY <1>1 DEF IInv, Shape, OpusReader, RawReader
<1>3. part # "body" /\ rpc = "got" =>
        \E f \in Frames : buf = HeadOf(f) \/ buf = Datagram(f)
  BY <1>1 DEF IInv, Shape, OpusReader, RawReader
<1>4. \A f \in Frames : HeadOf(f)[1] = <<f, 1>> /\ Datagram(f)[1] = <<f, 1>>
  <2> SUFFICES ASSUME NEW f \in Frames
               PROVE  HeadOf(f)[1] = <<f, 1>> /\ Datagram(f)[1] = <<f, 1>>
    OBVIOUS
  <2>1. 1 \in 1 .. Size[f]
    BY DatagramFacts
  <2>2. QED
    BY <2>1, PartFacts, DatagramFacts
<1>5. part = "body" \/ rpc = "got" => \E f \in Frames : Pending = <<f>>
  <2>1. CASE part = "body"
    <3>1. PICK f \in Frames : head = HeadOf(f)
      BY <1>2, <2>1
    <3>2. Pending = <<f>>
      BY <1>4, <2>1, <3>1 DEF Pending
    <3>3. QED
      BY <3>2
  <2>2. CASE part # "body" /\ rpc = "got"
    <3>1. PICK f \in Frames : buf = HeadOf(f) \/ buf = Datagram(f)
      BY <1>3, <2>2
    <3>2. buf[1] = <<f, 1>>
      BY <1>4, <3>1
    <3>3. Pending = <<f>>
      BY <2>2, <3>2 DEF Pending
    <3>4. QED
      BY <3>3
  <2>3. QED
    BY <2>1, <2>2
<1>6. part # "body" /\ rpc # "got" => Pending = <<>>
  BY DEF Pending
<1>7. Pending \in Seq(Frames) /\ Len(Pending) <= 1
  <2>1. CASE part = "body" \/ rpc = "got"
    <3>1. PICK f \in Frames : Pending = <<f>>
      BY <1>5, <2>1
    <3>2. <<f>> \in Seq(Frames) /\ Len(<<f>>) <= 1
      OBVIOUS
    <3>3. QED
      BY <3>1, <3>2, Zenon
  <2>2. CASE part # "body" /\ rpc # "got"
    <3>1. Pending = <<>>
      BY <1>6, <2>2
    <3>2. QED
      BY <3>1, EmptySeq
  <2>3. QED
    BY <2>1, <2>2
<1>8. rpc \in {"recv", "ended"} => part # "body"
  BY <1>1 DEF IInv, OpusReader, RawReader
<1>9. QED
  BY <1>5, <1>6, <1>7, <1>8

LEMMA ProduceIsAccept ==
  ASSUME IInv, mode # "mixed", NEW f \in Frames, Produce(f)
  PROVE  Queue!Accept(f)
<1>1. /\ backlog' = Append(backlog, Datagram(f)) /\ ~ closed
      /\ Len(backlog) < Backlog
      /\ UNCHANGED <<closed, rpc, part, head, buf>>
  BY DEF Produce, reader
<1>2. /\ backlog \in Seq(Datagrams) /\ NamesOf(backlog) \in Seq(Frames)
      /\ Len(NamesOf(backlog)) = Len(backlog)
      /\ Pending \in Seq(Frames) /\ Len(Pending) <= 1
  BY NamesFacts, PendingFacts DEF IInv, Shape
<1>3. NamesOf(backlog') = NamesOf(backlog) \o <<f>>
  BY <1>1, <1>2, NamesOfMore, AppendIsConcat
<1>4. Pending' = Pending
  BY <1>1 DEF Pending
<1>5. Accepted' = Pending \o (NamesOf(backlog) \o <<f>>)
  BY <1>3, <1>4 DEF Accepted
<1>6. <<f>> \in Seq(Frames)
  OBVIOUS
<1>7. Accepted' = Append(Accepted, f)
  <2>1. Accepted \in Seq(Frames) /\ Accepted' = Accepted \o <<f>>
    BY <1>2, <1>5, <1>6, ConcatAssociative, ConcatProperties DEF Accepted
  <2>2. QED
    BY <2>1, AppendIsConcat
<1>8. Len(Accepted) < Backlog + 1
  BY <1>1, <1>2, BacklogAssumption DEF Accepted
<1>9. QED
  BY <1>1, <1>7, <1>8 DEF Queue!Accept

(* What is received moves from the channel to the reader.                  *)
LEMMA ReceivedIsSilent ==
  ASSUME IInv, IInv', mode # "mixed", RecvEnough
  PROVE  UNCHANGED <<Accepted, closed, rpc = "ended">>
<1>1. Shape /\ Received /\ rpc = "recv" /\ rpc' = "got"
  BY DEF IInv, RecvEnough, Received
<1>2. /\ backlog \in Seq(Datagrams) /\ backlog # <<>> /\ backlog' = Tail(backlog)
      /\ due' = due \o Head(backlog)
      /\ UNCHANGED <<mode, closed, part, head>>
  BY <1>1 DEF Shape, Received
<1>3. PICK f \in Frames : Head(backlog) = Datagram(f)
  BY <1>1, ReceivedFacts
<1>4. mode \in {"opus", "raw"} /\ part # "body" /\ Pending = <<>>
  BY <1>1, ModesAssumption, PendingFacts DEF IInv, Shape
<1>5. ~ misplaced' /\ ~ misplaced /\ off = 0 /\ Len(buf) > 0
  BY <1>1, <1>2, <1>4, DatagramFacts, SizeAssumption
     DEF IInv, Shape, OpusReader, RawReader
<1>6. due \in Seq(Bytes) /\ due = <<>>
  BY <1>1, <1>5, EmptySeq DEF IInv, Shape, FilledSoFar
<1>7. due' = Datagram(f)
  BY <1>2, <1>3, <1>6, DatagramFacts, ConcatEmptySeq
<1>8. buf'[1] = <<f, 1>>
  <2>1. buf' = SubSeq(due', 1, Len(buf'))
    BY <1>1, <1>5 DEF IInv, ReadIsExact
  <2>2. \E g \in Frames : buf' = HeadOf(g) \/ buf' = Datagram(g)
    BY <1>1, <1>2, <1>4 DEF IInv, Shape, OpusReader, RawReader
  <2>3. Len(buf') \in Nat /\ Len(buf') >= 1
    BY <2>2, PartFacts, DatagramFacts
  <2>4. buf'[1] = due'[1]
    BY <2>1, <2>3
  <2>5. QED
    BY <1>7, <2>4, DatagramFacts
<1>9. Pending' = <<f>>
  BY <1>1, <1>2, <1>4, <1>8 DEF Pending
<1>10. Head(backlog)[1][1] = f
  BY <1>3, DatagramFacts
<1>11. Accepted' = <<f>> \o NamesOf(Tail(backlog))
  BY <1>2, <1>9 DEF Accepted
<1>12. Accepted = NamesOf(backlog)
  BY <1>2, <1>4, NamesFacts, ConcatEmptySeq DEF Accepted
<1>13. Accepted' = Accepted
  BY <1>2, <1>10, <1>11, <1>12, NamesOfOne
<1>14. QED
  BY <1>1, <1>2, <1>13

LEMMA UseFrameIsDeliver ==
  ASSUME IInv, IInv', mode # "mixed", UseFrame
  PROVE  Queue!Deliver \/ UNCHANGED <<Accepted, closed, rpc = "ended">>
<1>1. /\ rpc = "got" /\ rpc' = "next" /\ part' = Following[part]
      /\ head' = IF part = "head" THEN buf ELSE <<>>
      /\ UNCHANGED <<mode, backlog, closed>>
      /\ part \in {"head", "body", "all"}
  BY DEF UseFrame, IInv, Shape
<1>2. CASE part = "head"
  <2>1. Pending' = Pending
    BY <1>1, <1>2 DEF Pending, Following
  <2>2. QED
    BY <1>1, <2>1 DEF Accepted
<1>3. CASE part # "head"
  <2>1. part' # "body" /\ mode' # "mixed"
    BY <1>1, <1>3 DEF Following
  <2>2. Pending' = <<>>
    BY <1>1, <2>1 DEF Pending
  <2>3. PICK f \in Frames : Pending = <<f>>
    BY <1>1, PendingFacts
  <2>4. NamesOf(backlog) \in Seq(Frames)
    BY NamesFacts DEF IInv, Shape
  <2>5. Accepted = <<f>> \o NamesOf(backlog)
    BY <2>3 DEF Accepted
  <2>6. Accepted' = NamesOf(backlog)
    BY <1>1, <2>2, <2>4, ConcatEmptySeq DEF Accepted
  <2>7. Accepted # <<>> /\ Tail(Accepted) = NamesOf(backlog)
    BY <2>4, <2>5
  <2>8. QED
    BY <1>1, <2>6, <2>7 DEF Queue!Deliver
<1>4. QED
  BY <1>2, <1>3

LEMMA OthersAreSilent ==
  ASSUME IInv, IInv', mode # "mixed",
         \/ \E f \in Frames : WriteAll(f) \/ Lose(f)
         \/ \E n \in Lengths : ReadExact(n)
         \/ UNCHANGED vars
  PROVE  UNCHANGED <<Accepted, closed, rpc = "ended">>
<1>1. CASE (\E f \in Frames : WriteAll(f) \/ Lose(f)) \/ UNCHANGED vars
  <2>1. UNCHANGED <<backlog, closed, rpc, part, head, buf>>
    BY <1>1 DEF WriteAll, Lose, vars, reader
  <2>2. QED
    BY <2>1 DEF Accepted, Pending
<1>2. CASE \E n \in Lengths : ReadExact(n)
  <2>1. PICK n \in Lengths : ReadExact(n)
    BY <1>2
  <2>2. /\ rpc = "next" /\ rpc' = IF off' < n THEN "recv" ELSE "got"
        /\ UNCHANGED <<mode, raw, backlog, closed, part, head>>
    BY <2>1 DEF ReadExact, Returned
  <2>3. Pending' = Pending
    <3>1. CASE part = "body"
      BY <2>2, <3>1 DEF Pending
    <3>2. CASE part # "body"
      <4>1. leftover = <<>>
        BY <2>2, <3>2, ModesAssumption DEF IInv, Shape, OpusReader, RawReader
      <4>2. n \in Nat /\ n > 0
        <5>1. n = HeadSize \/ n = Size[raw]
          BY <3>2, ModesAssumption DEF IInv, Shape, OpusReader, RawReader, Lengths
        <5>2. raw \in Frames
          BY DEF IInv, Shape
        <5>3. Size[raw] \in Nat /\ Size[raw] > HeadSize /\ HeadSize \in Nat \ {0}
          BY <5>2, SizeAssumption
        <5>4. QED
          BY <5>1, <5>3
      <4>3. off' = 0
        BY <2>1, <4>1 DEF ReadExact, ReadLeftover, ReadNoLeftover
      <4>4. QED
        BY <2>2, <3>2, <4>2, <4>3 DEF Pending
    <3>3. QED
      BY <3>1, <3>2
  <2>4. QED
    BY <2>2, <2>3 DEF Accepted
<1>3. QED
  BY <1>1, <1>2

(* Neither loop meets a datagram that is too short.                        *)
LEMMA NoShortDatagram ==
  ASSUME IInv, IInv', mode # "mixed"
  PROVE  ~ RecvShort
<1> SUFFICES ASSUME RecvShort PROVE FALSE
  OBVIOUS
<1>1. Shape /\ Received /\ rpc = "recv" /\ UNCHANGED <<mode, part>>
  BY DEF IInv, RecvShort, Received
<1>2. rpc' # "panicked" /\ off = 0 /\ mode \in {"opus", "raw"}
  BY <1>1, ModesAssumption, PendingFacts
     DEF IInv, Shape, OpusReader, RawReader
<1>3. rpc' = "recv" /\ off' = off + Len(Head(backlog))
  BY <1>1, <1>2 DEF RecvShort
<1>4. off' = 0
  BY <1>1, <1>2, <1>3, PendingFacts DEF IInv, Shape, OpusReader, RawReader
<1>5. Len(Head(backlog)) \in Nat \ {0}
  BY <1>1, ReceivedFacts
<1>6. QED
  BY <1>2, <1>3, <1>4, <1>5

LEMMA StepsAreFrameSteps ==
  ASSUME IInv, IInv', mode # "mixed", [Next]_vars
  PROVE  Queue!Next \/ UNCHANGED <<Accepted, closed, rpc = "ended">>
<1>1. ASSUME NEW f \in Frames, Produce(f) PROVE Queue!Next
  BY <1>1, ProduceIsAccept DEF Queue!Next
<1>2. CASE DropProducer
  <2>1. ~ closed /\ closed' = TRUE
        /\ UNCHANGED <<backlog, rpc, part, head, buf>>
    BY <1>2 DEF DropProducer, reader
  <2>2. UNCHANGED <<Accepted, rpc = "ended">>
    BY <2>1 DEF Accepted, Pending
  <2>3. QED
    BY <2>1, <2>2 DEF Queue!Next, Queue!Close
<1>3. CASE RecvClosed
  <2>1. /\ closed /\ backlog = <<>> /\ rpc = "recv" /\ rpc' = "ended"
        /\ UNCHANGED <<backlog, closed, part, head, buf>>
    BY <1>3 DEF RecvClosed
  <2>2. part # "body" /\ Pending = <<>> /\ Pending' = <<>>
    BY <2>1, PendingFacts DEF Pending
  <2>3. NamesOf(backlog) = <<>>
    BY <2>1, NamesFacts, EmptySeq DEF IInv, Shape
  <2>4. Accepted = <<>> /\ Accepted' = <<>>
    BY <2>1, <2>2, <2>3, ConcatEmptySeq, EmptySeq DEF Accepted
  <2>5. QED
    BY <2>1, <2>4 DEF Queue!Next, Queue!End
<1>4. CASE UseFrame
  BY <1>4, UseFrameIsDeliver DEF Queue!Next
<1>5. CASE RecvEnough
  BY <1>5, ReceivedIsSilent
<1>6. CASE \/ \E f \in Frames : WriteAll(f) \/ Lose(f)
           \/ \E n \in Lengths : ReadExact(n)
           \/ UNCHANGED vars
  BY <1>6, OthersAreSilent
<1>7. QED
  BY <1>1, <1>2, <1>3, <1>4, <1>5, <1>6, NoShortDatagram DEF Next, Reader

(* To the loops of handlers.rs the peer is a queue of frames that ends:    *)
(* for every size of frame and head and every capacity, what the producer  *)
(* accepts is delivered once and in that order, and the end comes after it. *)
THEOREM PeerIsQueue == Spec => ImplementsFrameQueue
<1>1. Init => Queue!Init
  <2> SUFFICES ASSUME Init PROVE Queue!Init
    OBVIOUS
  <2>1. Pending = <<>> /\ backlog \in Seq(Datagrams) /\ backlog = <<>>
    BY EmptySeq DEF Init, Pending
  <2>2. Accepted = <<>>
    BY <2>1, NamesFacts, EmptySeq, ConcatEmptySeq DEF Accepted
  <2>3. QED
    BY <2>2 DEF Queue!Init, Init
<1>2. IInv /\ IInv' /\ [Next]_vars =>
        [mode # "mixed" => Queue!Next]_<<Accepted, closed, rpc = "ended">>
  BY StepsAreFrameSteps
<1>3. QED
  BY <1>1, <1>2, UdpInvariant, PTL DEF Spec, ImplementsFrameQueue
=============================================================================
