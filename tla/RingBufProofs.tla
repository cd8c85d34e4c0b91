---------------------------- MODULE RingBufProofs ----------------------------
(***************************************************************************)
(* Theorems about RingBuf for every capacity, every set of buffers and     *)
(* every set of requests: the indices stay inside the array, and the ring  *)
(* implements the window of ByteWindow when no request exceeds its offset. *)
(***************************************************************************)
EXTENDS RingBuf, RingIndexProofs, SequenceTheorems

-----------------------------------------------------------------------------
(* Sequences copied out of the array.                                      *)

LEMMA CopiedType ==
  ASSUME NEW d \in [Slots -> Byte], NEW h \in Slots, NEW n \in 0 .. Usable
  PROVE  /\ Copied(d, h, n) \in Seq(Byte)
         /\ Len(Copied(d, h, n)) = n
         /\ \A k \in 1 .. n : Copied(d, h, n)[k] = d[Masked(h + (k - 1))]
<1>1. \A k \in 1 .. n : d[Masked(h + k - 1)] \in Byte
  BY MaskedOnce, CapacityAssumption DEF Slots, Usable
<1>2. Copied(d, h, n) \in [1 .. n -> Byte]
  BY <1>1 DEF Copied
<1>3. n \in Nat
  BY CapacityAssumption DEF Usable
<1>4. \A k \in 1 .. n : h + k - 1 = h + (k - 1)
  BY <1>3, CapacityAssumption DEF Slots
<1>5. QED
  BY <1>2, <1>3, <1>4 DEF Copied

(* The first n bytes of a copied stretch are the stretch cut to n.         *)
LEMMA OldestCopied ==
  ASSUME NEW d \in [Slots -> Byte], NEW h \in Slots, NEW r \in 0 .. Usable,
         NEW n \in Nat
  PROVE  Window!Oldest(Copied(d, h, r), n) = Copied(d, h, Min2(n, r))
<1> DEFINE s == Copied(d, h, r)
           u == Copied(d, h, n)
<1>1. s \in Seq(Byte) /\ Len(s) = r
  BY CopiedType
<1>2. CASE r <= n
  BY <1>1, <1>2, CapacityAssumption DEF Window!Oldest, Min2, Usable
<1>3. CASE n < r
  <2>1. n \in 0 .. Usable /\ n \in Int
    BY <1>3, CapacityAssumption DEF Usable
  <2>2. u \in Seq(Byte) /\ Len(u) = n
    BY <2>1, CopiedType
  <2>3. /\ SubSeq(s, 1, n) \in Seq(Byte)
        /\ Len(SubSeq(s, 1, n)) = n
        /\ \A k \in 1 .. n : SubSeq(s, 1, n)[k] = s[k]
    <3>1. \A i \in 1 .. n : s[i] \in Byte
      BY <1>1, <1>3, <2>1, CapacityAssumption DEF Usable
    <3> HIDE DEF s
    <3>2. QED
      BY <1>3, <2>1, <3>1, SubSeqProperties
  <2>4. \A k \in 1 .. n : s[k] = u[k]
    BY <1>3, <2>1, CopiedType, CapacityAssumption DEF Usable
  <2>5. SubSeq(s, 1, n) = u
    <3> HIDE DEF s, u
    <3>1. QED
      BY <2>2, <2>3, <2>4, SeqEqual
  <2>6. QED
    BY <1>1, <1>3, <2>1, <2>5, CapacityAssumption DEF Window!Oldest, Min2, Usable
<1>4. QED
  BY <1>2, <1>3, CapacityAssumption DEF Usable

(* The last n bytes of a sequence, element by element.                     *)
LEMMA NewestElements ==
  ASSUME NEW s \in Seq(Byte), NEW n \in Nat
  PROVE  /\ Window!Newest(s, n) \in Seq(Byte)
         /\ Len(Window!Newest(s, n)) = Min2(n, Len(s))
         /\ \A k \in 1 .. Min2(n, Len(s)) :
              Window!Newest(s, n)[k] = s[Len(s) - Min2(n, Len(s)) + k]
<1> DEFINE r == Len(s)
<1>1. r \in Nat /\ \A i \in 1 .. r : s[i] \in Byte
  OBVIOUS
<1>2. CASE r <= n
  <2>1. Min2(n, r) = r
    BY <1>1, <1>2 DEF Min2
  <2>2. \A k \in 1 .. r : r - r + k = k
    BY <1>1
  <2>3. QED
    BY <1>2, <2>1, <2>2 DEF Window!Newest
<1>3. CASE n < r
  <2> DEFINE u == SubSeq(s, r - n + 1, r)
  <2> HIDE DEF r
  <2>1. /\ u \in Seq(Byte)
        /\ Len(u) = IF r - n + 1 <= r THEN r - (r - n + 1) + 1 ELSE 0
        /\ \A i \in 1 .. r - (r - n + 1) + 1 : u[i] = s[(r - n + 1) + i - 1]
    <3>1. \A i \in r - n + 1 .. r : s[i] \in Byte
      BY <1>1, <1>3
    <3>2. r - n + 1 \in Int /\ r \in Int
      BY <1>1
    <3>3. QED
      BY <3>1, <3>2, SubSeqProperties
  <2>2. /\ r - (r - n + 1) + 1 = n
        /\ r - n + 1 <= r <=> n # 0
        /\ \A k \in 1 .. n : (r - n + 1) + k - 1 = r - n + k
        /\ Min2(n, r) = n
        /\ ~ (r <= n)
    BY <1>1, <1>3 DEF Min2
  <2>3. Window!Newest(s, n) = u
    BY <2>2 DEF Window!Newest, r
  <2> HIDE DEF u
  <2>4. QED
    BY <2>1, <2>2, <2>3 DEF r
<1>4. QED
  BY <1>1, <1>2, <1>3

(* The last n bytes of a copied stretch start further on in the ring.      *)
LEMMA NewestCopied ==
  ASSUME NEW d \in [Slots -> Byte], NEW h \in Slots, NEW r \in 0 .. Usable,
         NEW n \in Nat
  PROVE  Window!Newest(Copied(d, h, r), n)
           = Copied(d, Masked(h + (r - Min2(n, r))), Min2(n, r))
<1> DEFINE s == Copied(d, h, r)
           m == Min2(n, r)
           g == Masked(h + (r - m))
           u == Copied(d, g, m)
           v == Window!Newest(s, n)
<1>1. s \in Seq(Byte) /\ Len(s) = r
  BY CopiedType
<1>2. m \in 0 .. Usable /\ r - m \in 0 .. Usable /\ m <= r /\ r \in Int /\ Usable \in Int
  BY CapacityAssumption DEF Usable, Min2
<1>3. g \in Slots
  BY <1>2, MaskedOnce, CapacityAssumption DEF Slots, Usable
<1>4. u \in Seq(Byte) /\ Len(u) = m
  BY <1>2, <1>3, CopiedType
<1>5. /\ v \in Seq(Byte) /\ Len(v) = m
      /\ \A k \in 1 .. m : v[k] = s[r - m + k]
  <2> HIDE DEF s
  <2>1. QED
    BY <1>1, NewestElements
<1>6. \A k \in 1 .. m : s[r - m + k] = u[k]
  <2> HIDE DEF m
  <2> SUFFICES ASSUME NEW k \in 1 .. m
               PROVE  s[r - m + k] = u[k]
    OBVIOUS
  <2>1. /\ r - m + k \in 1 .. r
        /\ k - 1 \in 0 .. Usable
        /\ (r - m) + (k - 1) <= Usable
        /\ (r - m) + (k - 1) = (r - m + k) - 1
    BY <1>2
  <2>2. s[r - m + k] = d[Masked(h + ((r - m + k) - 1))]
    BY <2>1, CopiedType
  <2>3. u[k] = d[Masked(g + (k - 1))]
    BY <1>2, <1>3, CopiedType
  <2>4. Masked(g + (k - 1)) = Masked(h + ((r - m) + (k - 1)))
    BY <1>2, <2>1, MaskedTwice
  <2>5. QED
    BY <2>1, <2>2, <2>3, <2>4
<1>7. QED
  <2> HIDE DEF m, s, u, v
  <2>1. v = u
    BY <1>4, <1>5, <1>6, SeqEqual
  <2>2. QED
    BY <2>1 DEF m, s, u, v

(* What ringbuf_write leaves in the array: the bytes of buf from slot t    *)
(* on, every other slot as it was.                                         *)
LEMMA WrittenSlots ==
  ASSUME NEW d \in [Slots -> Byte], NEW t \in Slots, NEW buf \in Seq(Byte),
         Len(buf) < Usable
  PROVE  /\ Written(d, t, buf) \in [Slots -> Byte]
         /\ \A k \in 0 .. Usable :
              Written(d, t, buf)[Masked(t + k)]
                = IF k < Len(buf) THEN buf[k + 1] ELSE d[Masked(t + k)]
<1> DEFINE k(i) == Masked(i - t + Capacity)
<1>1. \A i \in Slots : k(i) \in Slots
  <2>1. \A i \in Slots : i - t + Capacity \in 0 .. 2 * Capacity - 1
    BY CapacityAssumption DEF Slots
  <2>2. QED
    BY <2>1, MaskedOnce
<1>2. Len(buf) \in Nat /\ \A j \in 1 .. Len(buf) : buf[j] \in Byte
  OBVIOUS
<1>3. ASSUME NEW i \in Slots
      PROVE  (IF k(i) < Len(buf) THEN buf[k(i) + 1] ELSE d[i]) \in Byte
  <2>1. k(i) \in Nat
    BY <1>1, CapacityAssumption DEF Slots
  <2>2. k(i) < Len(buf) => k(i) + 1 \in 1 .. Len(buf)
    BY <1>2, <2>1
  <2>3. QED
    BY <1>2, <2>2
<1>4. Written(d, t, buf) \in [Slots -> Byte]
  BY <1>3 DEF Written
<1>5. ASSUME NEW j \in 0 .. Usable
      PROVE  Masked(t + j) \in Slots /\ k(Masked(t + j)) = j
  <2>1. t + j \in 0 .. 2 * Capacity - 1
    BY CapacityAssumption DEF Slots, Usable
  <2>2. /\ Masked(t + j) \in Slots
        /\ t + j < Capacity => Masked(t + j) = t + j
        /\ t + j >= Capacity => Masked(t + j) = t + j - Capacity
    BY <2>1, MaskedOnce, CapacityAssumption DEF Slots
  <2>3. Masked(t + j) - t + Capacity \in 0 .. 2 * Capacity - 1
    BY <2>2, CapacityAssumption DEF Slots
  <2>4. /\ Masked(t + j) - t + Capacity < Capacity
             => k(Masked(t + j)) = Masked(t + j) - t + Capacity
        /\ Masked(t + j) - t + Capacity >= Capacity
             => k(Masked(t + j)) = Masked(t + j) - t + Capacity - Capacity
    BY <2>2, <2>3, MaskedOnce, CapacityAssumption DEF Slots
  <2>5. QED
    BY <2>2, <2>4, CapacityAssumption DEF Slots, Usable
<1>6. QED
  BY <1>4, <1>5 DEF Written

-----------------------------------------------------------------------------
(* Type correctness.                                                       *)

LEMMA ReadType ==
  ASSUME TypeOK, NEW h \in Slots, NEW n \in 0 .. Usable, Read(h, n)
  PROVE  TypeOK'
<1>1. h + n \in 0 .. 2 * Capacity - 1
  BY CapacityAssumption DEF Slots, Usable
<1>2. head' \in Slots
  BY <1>1, MaskedOnce DEF Read
<1>3. result' \in Seq(Byte)
  BY CopiedType DEF Read, TypeOK
<1>4. QED
  BY <1>2, <1>3 DEF Read, TypeOK

LEMMA PushType ==
  ASSUME TypeOK, NEW buf \in Buffers, Push(buf)
  PROVE  TypeOK'
<1> DEFINE size == Len(buf)
           available == Available(head, tail)
<1>1. buf \in Seq(Byte) /\ size \in Nat
  BY BuffersAssumption
<1>2. result' \in Seq(Byte)
  BY DEF Push
<1>3. CASE size >= Usable /\ tail' = 0 /\ head' = 1
           /\ data' = [i \in Slots |->
                IF i = 0 THEN data[0] ELSE buf[size - Usable + i]]
  <2>1. \A i \in Slots : i # 0 => size - Usable + i \in 1 .. size
    BY <1>1, <1>3, CapacityAssumption DEF Slots, Usable
  <2>2. \A j \in 1 .. size : buf[j] \in Byte
    BY <1>1
  <2>3. 0 \in Slots /\ 1 \in Slots /\ data[0] \in Byte
    BY CapacityAssumption DEF Slots, TypeOK
  <2>4. data' \in [Slots -> Byte]
    BY <1>3, <2>1, <2>2, <2>3
  <2>5. QED
    BY <1>2, <1>3, <2>3, <2>4 DEF TypeOK
<1>4. CASE size < Usable
           /\ head' = (IF size > available THEN Masked(head + (size - available))
                                           ELSE head)
           /\ data' = Written(data, tail, buf)
           /\ tail' = Masked(tail + size)
  <2>1. available \in 0 .. Usable
    BY CountersAddUp, CapacityAssumption DEF TypeOK, Usable
  <2>2. /\ size > available => head + (size - available) \in 0 .. 2 * Capacity - 1
        /\ tail + size \in 0 .. 2 * Capacity - 1
    BY <1>1, <1>4, <2>1, CapacityAssumption DEF TypeOK, Slots, Usable
  <2>3. head' \in Slots /\ tail' \in Slots
    BY <1>4, <2>2, MaskedOnce DEF TypeOK
  <2>4. data' \in [Slots -> Byte]
    BY <1>1, <1>4, WrittenSlots DEF TypeOK
  <2>5. QED
    BY <1>2, <2>3, <2>4 DEF TypeOK
<1>5. QED
  BY <1>3, <1>4 DEF Push

(* The slot and the length each pop hands to ringbuf_read.                 *)
LEMMA PopsReadHeldBytes ==
  ASSUME TypeOK, NEW r \in Reads
  PROVE  LET held == Remaining(head, tail)
             read == Min2(r.size, held)
             skip == IF held > r.offset THEN held - r.offset ELSE 0
         IN /\ held \in 0 .. Usable
            /\ read \in 0 .. held
            /\ held - read \in 0 .. held
            /\ skip \in 0 .. held
            /\ Masked(head + (held - read)) \in Slots
            /\ Masked(head + skip) \in Slots
<1> DEFINE held == Remaining(head, tail)
           read == Min2(r.size, held)
           skip == IF held > r.offset THEN held - r.offset ELSE 0
<1>1. r.size \in Nat /\ r.offset \in Nat
  BY ReadsAssumption
<1>2. held \in 0 .. Usable
  BY CountersAddUp DEF TypeOK
<1>3. held \in Nat
  BY <1>2, CapacityAssumption DEF Usable
<1>4. read \in 0 .. held /\ held - read \in 0 .. held /\ skip \in 0 .. held
  <2> HIDE DEF held
  <2>1. QED
    BY <1>1, <1>3 DEF Min2
<1>5. Masked(head + (held - read)) \in Slots /\ Masked(head + skip) \in Slots
  BY <1>4, AdvanceHead DEF TypeOK
<1>6. QED
  BY <1>2, <1>4, <1>5

LEMMA PopType ==
  ASSUME TypeOK, NEW r \in Reads,
         PopFront(r.size) \/ PopBack(r.size) \/ PopBackFrom(r.size, r.offset)
  PROVE  TypeOK'
<1>1. \A n : n \in 0 .. Remaining(head, tail) => n \in 0 .. Usable
  BY PopsReadHeldBytes, CapacityAssumption DEF Usable
<1>2. CASE PopFront(r.size)
  BY <1>1, <1>2, PopsReadHeldBytes, ReadType DEF PopFront, TypeOK
<1>3. CASE PopBack(r.size)
  BY <1>1, <1>3, PopsReadHeldBytes, ReadType DEF PopBack
<1>4. CASE PopBackFrom(r.size, r.offset)
  BY <1>1, <1>4, PopsReadHeldBytes, ReadType DEF PopBackFrom
<1>5. QED
  BY <1>2, <1>3, <1>4

(* Indices stay inside the array and slots hold bytes, for every capacity, *)
(* however the calls of ringbuf.c follow one another.                      *)
THEOREM TypeCorrect == Spec => []TypeOK
<1>1. Init => TypeOK
  BY CapacityAssumption, BuffersAssumption DEF Init, TypeOK, Slots
<1>2. TypeOK /\ [Next]_vars => TypeOK'
  <2> SUFFICES ASSUME TypeOK, [Next]_vars
               PROVE  TypeOK'
    OBVIOUS
  <2>1. ASSUME NEW buf \in Buffers, Push(buf)
        PROVE  TypeOK'
    BY <2>1, PushType
  <2>2. ASSUME NEW r \in Reads,
               PopFront(r.size) \/ PopBack(r.size) \/ PopBackFrom(r.size, r.offset)
        PROVE  TypeOK'
    BY <2>2, PopType
  <2>3. CASE Flush
    BY <2>3, CapacityAssumption DEF Flush, TypeOK, Slots
  <2>4. CASE UNCHANGED vars
    BY <2>4 DEF vars, TypeOK
  <2>5. QED
    BY <2>1, <2>2, <2>3, <2>4 DEF Next
<1>3. QED
  BY <1>1, <1>2, PTL DEF Spec

-----------------------------------------------------------------------------
(* Refinement: each call of ringbuf.c is the operation of ByteWindow with  *)
(* the same name, on the bytes held between head and tail.                 *)

(* Nothing is held when head meets tail.                                   *)
LEMMA NothingCopied == \A d, h : Copied(d, h, 0) = <<>>
BY DEF Copied

(* ringbuf_read of n of the m bytes from slot g hands out the oldest n and *)
(* leaves the newest m - n.                                                *)
LEMMA ReadLeavesNewest ==
  ASSUME TypeOK, NEW g \in Slots, NEW m \in 0 .. Usable,
         m = Remaining(g, tail), NEW n \in 0 .. m, Read(g, n)
  PROVE  /\ result' = Window!Oldest(Copied(data, g, m), n)
         /\ Len(result') = n
         /\ Held' = Window!Newest(Copied(data, g, m), m - n)
<1>1. /\ m \in Nat /\ n \in Nat /\ m - n \in Nat /\ n \in 0 .. Usable
      /\ Min2(n, m) = n /\ Min2(m - n, m) = m - n
      /\ m - (m - n) = n
  BY CapacityAssumption DEF Usable, Min2
<1>2. result' = Copied(data, g, n)
  BY DEF Read
<1>3. Len(result') = n
  BY <1>1, <1>2, CopiedType DEF TypeOK
<1>4. result' = Window!Oldest(Copied(data, g, m), n)
  <2>1. Window!Oldest(Copied(data, g, m), n) = Copied(data, g, Min2(n, m))
    BY <1>1, OldestCopied DEF TypeOK
  <2>2. QED
    BY <1>1, <1>2, <2>1
<1>5. Held' = Copied(data, Masked(g + n), Remaining(Masked(g + n), tail))
  BY DEF Held, Read
<1>6. Remaining(Masked(g + n), tail) = m - n
  <2>1. n \in 0 .. Remaining(g, tail) /\ tail \in Slots
    BY DEF TypeOK
  <2>2. QED
    BY <2>1, AdvanceHead
<1>7. Window!Newest(Copied(data, g, m), m - n) = Copied(data, Masked(g + n), m - n)
  <2>1. Window!Newest(Copied(data, g, m), m - n)
          = Copied(data, Masked(g + (m - Min2(m - n, m))), Min2(m - n, m))
    BY <1>1, NewestCopied DEF TypeOK
  <2>2. QED
    BY <1>1, <2>1
<1>8. QED
  BY <1>3, <1>4, <1>5, <1>6, <1>7

(* What is held is a sequence of as many bytes as ringbuf_remaining says.  *)
LEMMA HeldType ==
  ASSUME TypeOK
  PROVE  /\ Remaining(head, tail) \in 0 .. Usable
         /\ Held \in Seq(Byte)
         /\ Len(Held) = Remaining(head, tail)
BY CountersAddUp, CopiedType DEF TypeOK, Held

LEMMA PopFrontRefines ==
  ASSUME TypeOK, NEW r \in Reads, PopFront(r.size)
  PROVE  Window!PopFront(r.size)
<1> DEFINE held == Remaining(head, tail)
           n    == Min2(r.size, held)
<1>1. held \in 0 .. Usable /\ n \in 0 .. held /\ r.size \in Nat
  BY PopsReadHeldBytes, ReadsAssumption
<1>2. Read(head, n)
  BY DEF PopFront
<1>3. /\ result' = Window!Oldest(Copied(data, head, held), n)
      /\ Len(result') = n
      /\ Held' = Window!Newest(Copied(data, head, held), held - n)
  BY <1>1, <1>2, ReadLeavesNewest DEF TypeOK
<1>4. Window!Oldest(Copied(data, head, held), n)
        = Window!Oldest(Copied(data, head, held), r.size)
  <2>1. n \in Nat /\ Min2(n, held) = n
    <3> HIDE DEF held
    <3>1. QED
      BY <1>1, CapacityAssumption DEF Usable, Min2
  <2>2. QED
    BY <1>1, <2>1, OldestCopied DEF TypeOK
<1>5. QED
  BY <1>3, <1>4, HeldType DEF Window!PopFront, Held

LEMMA PopBackRefines ==
  ASSUME TypeOK, NEW r \in Reads, PopBack(r.size)
  PROVE  Window!PopBack(r.size)
<1> DEFINE held == Remaining(head, tail)
           n    == Min2(r.size, held)
           g    == Masked(head + (held - n))
<1>1. /\ held \in 0 .. Usable /\ n \in 0 .. held /\ held - n \in 0 .. held
      /\ g \in Slots /\ r.size \in Nat
  BY PopsReadHeldBytes, ReadsAssumption
<1>2. Read(g, n)
  BY DEF PopBack
<1>3. n \in 0 .. Usable /\ n \in Nat /\ n - n = 0 /\ Min2(n, n) = n
      /\ held - (held - n) = n
  <2> HIDE DEF held
  <2>1. QED
    BY <1>1, CapacityAssumption DEF Usable, Min2
<1>4. Remaining(g, tail) = n
  BY <1>1, <1>3, AdvanceHead DEF TypeOK
<1>5. /\ result' = Copied(data, g, n)
      /\ Held' = Window!Newest(Copied(data, g, n), n - n)
  BY <1>1, <1>2, <1>3, <1>4, ReadLeavesNewest DEF Read
<1>6. Held' = <<>>
  <2>1. Min2(0, n) = 0
    <3> HIDE DEF n
    <3>1. QED
      BY <1>3 DEF Min2
  <2>2. QED
    BY <1>1, <1>3, <1>5, <2>1, NewestCopied, NothingCopied DEF TypeOK
<1>7. result' = Window!Newest(Held, r.size)
  BY <1>1, <1>5, NewestCopied DEF TypeOK, Held
<1>8. QED
  BY <1>6, <1>7 DEF Window!PopBack

LEMMA PopBackFromRefines ==
  ASSUME TypeOK, NEW r \in Reads, r.size <= r.offset,
         PopBackFrom(r.size, r.offset)
  PROVE  Window!PopBackFrom(r.size, r.offset)
<1> DEFINE held == Remaining(head, tail)
           m    == Min2(r.offset, held)
           n    == Min2(r.size, held)
           skip == IF held > r.offset THEN held - r.offset ELSE 0
           g    == Masked(head + (held - m))
           kept == Copied(data, g, m)
<1>1. /\ held \in 0 .. Usable /\ skip \in 0 .. held
      /\ r.size \in Nat /\ r.offset \in Nat
  BY PopsReadHeldBytes, ReadsAssumption
<1>2. /\ m \in 0 .. Usable /\ m \in Nat /\ m \in 0 .. held
      /\ n \in 0 .. m /\ n \in Nat
      /\ skip = held - m /\ held - m \in 0 .. held /\ held - (held - m) = m
      /\ Min2(r.size, m) = n /\ Min2(n, m) = n
  <2> HIDE DEF held
  <2>1. QED
    BY <1>1, CapacityAssumption DEF Usable, Min2
<1>3. g \in Slots /\ Remaining(g, tail) = m
  BY <1>2, AdvanceHead DEF TypeOK
<1>4. Read(g, n)
  BY <1>2 DEF PopBackFrom
<1>5. /\ result' = Window!Oldest(kept, n)
      /\ Len(result') = n
      /\ Held' = Window!Newest(kept, m - n)
  <2> HIDE DEF m, n, g
  <2>1. QED
    BY <1>2, <1>3, <1>4, ReadLeavesNewest
<1>6. kept = Window!Newest(Held, r.offset)
  BY <1>1, NewestCopied DEF TypeOK, Held
<1>7. Window!Oldest(kept, n) = Window!Oldest(kept, r.size)
  BY <1>1, <1>2, <1>3, OldestCopied DEF TypeOK
<1>8. Len(kept) = m
  BY <1>2, <1>3, CopiedType DEF TypeOK
<1>9. QED
  <2> HIDE DEF kept, m, n
  <2>1. QED
    BY <1>5, <1>6, <1>7, <1>8 DEF Window!PopBackFrom

(* The newest bytes of what was held followed by what is pushed.           *)
LEMMA NewestOfBoth ==
  ASSUME TypeOK, NEW buf \in Seq(Byte)
  PROVE  LET held == Remaining(head, tail)
             kept == Min2(Usable, held + Len(buf))
             w    == Window!Newest(Held \o buf, Usable)
         IN /\ w \in Seq(Byte)
            /\ Len(w) = kept
            /\ \A k \in 1 .. kept :
                 w[k] = LET j == held + Len(buf) - kept + k
                        IN IF j <= held THEN Held[j] ELSE buf[j - held]
<1> DEFINE held == Remaining(head, tail)
           kept == Min2(Usable, held + Len(buf))
           both == Held \o buf
<1>1. /\ held \in Nat /\ held \in 0 .. Usable
      /\ Held \in Seq(Byte) /\ Len(Held) = held
  BY HeldType, CapacityAssumption DEF Usable
<1>2. /\ both \in Seq(Byte)
      /\ Len(both) = held + Len(buf)
      /\ \A j \in 1 .. held + Len(buf) :
           both[j] = IF j <= held THEN Held[j] ELSE buf[j - held]
  <2>1. /\ both \in Seq(Byte)
        /\ Len(both) = Len(Held) + Len(buf)
        /\ \A j \in 1 .. Len(Held) + Len(buf) :
             both[j] = IF j <= Len(Held) THEN Held[j] ELSE buf[j - Len(Held)]
    BY <1>1, ConcatProperties
  <2> HIDE DEF held, both
  <2>2. QED
    BY <1>1, <2>1
<1>3. Usable \in Nat /\ Len(buf) \in Nat
  BY CapacityAssumption DEF Usable
<1>4. kept \in Nat /\ kept <= held + Len(buf)
  <2> HIDE DEF held
  <2>1. QED
    BY <1>1, <1>3 DEF Min2
<1> HIDE DEF both
<1>5. /\ Window!Newest(both, Usable) \in Seq(Byte)
      /\ Len(Window!Newest(both, Usable)) = kept
      /\ \A k \in 1 .. kept :
           Window!Newest(both, Usable)[k] = both[held + Len(buf) - kept + k]
  <2>1. /\ Window!Newest(both, Usable) \in Seq(Byte)
        /\ Len(Window!Newest(both, Usable)) = Min2(Usable, Len(both))
        /\ \A k \in 1 .. Min2(Usable, Len(both)) :
             Window!Newest(both, Usable)[k]
               = both[Len(both) - Min2(Usable, Len(both)) + k]
    BY <1>2, <1>3, NewestElements
  <2>2. Min2(Usable, Len(both)) = kept /\ Len(both) = held + Len(buf)
    BY <1>2
  <2> HIDE DEF held, kept
  <2>3. QED
    BY <1>1, <1>3, <1>4, <2>1, <2>2
<1>6. \A k \in 1 .. kept : held + Len(buf) - kept + k \in 1 .. held + Len(buf)
  <2> HIDE DEF held, kept
  <2>1. QED
    BY <1>1, <1>3, <1>4
<1>7. QED
  BY <1>2, <1>5, <1>6 DEF both

(* The large branch of ringbuf_push (ringbuf.c:80-84).                     *)
LEMMA ReplaceRefines ==
  ASSUME TypeOK, NEW buf \in Seq(Byte), Len(buf) >= Usable,
         tail' = 0, head' = 1, data' \in [Slots -> Byte],
         \A i \in Slots : i # 0 => data'[i] = buf[Len(buf) - Usable + i]
  PROVE  Held' = Window!Newest(Held \o buf, Usable)
<1> DEFINE held == Remaining(head, tail)
           w    == Window!Newest(Held \o buf, Usable)
<1>1. held \in 0 .. Usable /\ held \in Nat /\ Usable \in Nat /\ Len(buf) \in Nat
  BY HeldType, CapacityAssumption DEF Usable
<1>2. Min2(Usable, held + Len(buf)) = Usable
  <2> HIDE DEF held
  <2>1. QED
    BY <1>1 DEF Min2
<1>3. /\ w \in Seq(Byte)
      /\ Len(w) = Usable
      /\ \A k \in 1 .. Usable :
           w[k] = LET j == held + Len(buf) - Usable + k
                  IN IF j <= held THEN Held[j] ELSE buf[j - held]
  BY <1>2, NewestOfBoth
<1>4. \A k \in 1 .. Usable : w[k] = buf[Len(buf) - Usable + k]
  <2> SUFFICES ASSUME NEW k \in 1 .. Usable
               PROVE  w[k] = buf[Len(buf) - Usable + k]
    OBVIOUS
  <2> DEFINE j == held + Len(buf) - Usable + k
  <2>1. w[k] = IF j <= held THEN Held[j] ELSE buf[j - held]
    BY <1>3
  <2> HIDE DEF held
  <2>2. ~ (j <= held) /\ j - held = Len(buf) - Usable + k
    BY <1>1
  <2> HIDE DEF w, j
  <2>3. QED
    BY <2>1, <2>2
<1>5. 1 \in Slots /\ Remaining(1, 0) = Usable /\ Usable \in 0 .. Usable
  BY CapacityAssumption DEF Slots, Remaining, RemainingWhen, Usable
<1>6. /\ Held' \in Seq(Byte)
      /\ Len(Held') = Usable
      /\ \A k \in 1 .. Usable : Held'[k] = data'[Masked(1 + (k - 1))]
  BY <1>5, CopiedType DEF Held
<1>7. ASSUME NEW k \in 1 .. Usable
      PROVE  data'[Masked(1 + (k - 1))] = buf[Len(buf) - Usable + k]
  <2>1. 1 + (k - 1) = k /\ k \in Slots /\ k # 0 /\ k \in 0 .. 2 * Capacity - 1
        /\ k < Capacity
    BY CapacityAssumption DEF Slots, Usable
  <2>2. QED
    BY <2>1, MaskedOnce
<1>8. QED
  <2>1. \A k \in 1 .. Usable : Held'[k] = w[k]
    BY <1>4, <1>6, <1>7
  <2> HIDE DEF w
  <2>2. Held' = w
    BY <1>3, <1>6, <2>1, SeqEqual
  <2>3. QED
    BY <2>2 DEF w

(* The small branch (ringbuf.c:86-90): head has passed the bytes that will *)
(* be overwritten before ringbuf_write copies the new ones.                *)
LEMMA AppendRefines ==
  ASSUME TypeOK, NEW buf \in Seq(Byte), Len(buf) < Usable,
         NEW drop \in 0 .. Remaining(head, tail),
         Remaining(head, tail) - drop + Len(buf)
           = Min2(Usable, Remaining(head, tail) + Len(buf)),
         head' = Masked(head + drop), tail' = Masked(tail + Len(buf)),
         data' = Written(data, tail, buf)
  PROVE  Held' = Window!Newest(Held \o buf, Usable)
<1> DEFINE held == Remaining(head, tail)
           size == Len(buf)
           left == held - drop
           w    == Window!Newest(Held \o buf, Usable)
<1>1. /\ held \in 0 .. Usable /\ held \in Nat /\ Usable \in Nat /\ size \in Nat
      /\ drop \in Nat /\ drop <= held
  BY HeldType, CapacityAssumption DEF Usable
<1>2. left \in Nat /\ left <= held /\ left + size \in 0 .. Usable
      /\ left + size \in Nat /\ held + size - (left + size) = drop
      /\ size \in 0 .. Usable - left /\ Usable - left \in 0 .. Usable
  <2>1. left + size <= Usable
    <3> HIDE DEF held, size
    <3>1. QED
      BY <1>1 DEF Min2, held, size
  <2> HIDE DEF held, size
  <2>2. QED
    BY <1>1, <2>1
<1>3. /\ head' \in Slots
      /\ Remaining(head', tail) = left
  BY AdvanceHead DEF TypeOK
<1>4. /\ tail' \in Slots
      /\ Remaining(head', tail') = left + size
  <2>1. Available(head', tail) = Usable - left
    BY <1>3, CountersAddUp DEF TypeOK
  <2>2. QED
    BY <1>2, <1>3, <2>1, AdvanceTail DEF TypeOK
<1>5. /\ data' \in [Slots -> Byte]
      /\ \A k \in 0 .. Usable :
           data'[Masked(tail + k)]
             = IF k < size THEN buf[k + 1] ELSE data[Masked(tail + k)]
  BY WrittenSlots DEF TypeOK
<1>6. /\ Held' \in Seq(Byte)
      /\ Len(Held') = left + size
      /\ \A k \in 1 .. left + size : Held'[k] = data'[Masked(head' + (k - 1))]
  <2>1. Held' = Copied(data', head', left + size)
    BY <1>4 DEF Held
  <2> HIDE DEF left, size
  <2>2. QED
    BY <1>2, <1>3, <1>5, <2>1, CopiedType
<1>7. /\ w \in Seq(Byte)
      /\ Len(w) = left + size
      /\ \A k \in 1 .. left + size :
           w[k] = IF drop + k <= held THEN Held[drop + k] ELSE buf[drop + k - held]
  <2>1. /\ w \in Seq(Byte)
        /\ Len(w) = left + size
        /\ \A k \in 1 .. left + size :
             w[k] = LET j == held + size - (left + size) + k
                    IN IF j <= held THEN Held[j] ELSE buf[j - held]
    BY NewestOfBoth
  <2>2. ASSUME NEW k \in 1 .. left + size
        PROVE  w[k] = IF drop + k <= held THEN Held[drop + k] ELSE buf[drop + k - held]
    <3> DEFINE j == held + size - (left + size) + k
    <3>1. w[k] = IF j <= held THEN Held[j] ELSE buf[j - held]
      BY <2>1
    <3> HIDE DEF left, held, size
    <3>2. j = drop + k /\ j \in Int /\ drop + k \in Int /\ held \in Int /\ j - held = drop + k - held
      BY <1>1, <1>2
    <3> HIDE DEF j, w
    <3>3. QED
      BY <3>1, <3>2
  <2>3. QED
    BY <2>1, <2>2
<1>8. ASSUME NEW k \in 1 .. left + size, drop + k <= held
      PROVE  Held'[k] = w[k]
  (* A byte that was held already: its slot is not one ringbuf_write fills. *)
  <2> DEFINE i == drop + (k - 1)
             m == Capacity - held + i
  <2> HIDE DEF held, size
  <2>1. /\ i \in Nat /\ i < held /\ k - 1 \in 0 .. Usable /\ drop \in 0 .. Usable
        /\ drop + (k - 1) <= Usable /\ ~ (m < size)
        /\ drop + k \in 1 .. held /\ i = (drop + k) - 1
    BY <1>1, <1>2, <1>8, CapacityAssumption DEF Usable
  <2>2. Masked(head' + (k - 1)) = Masked(head + i)
    BY <2>1, MaskedTwice DEF TypeOK
  <2>3. m \in 0 .. Usable /\ Masked(tail + m) = Masked(head + i)
    BY <2>1, HeldSlot DEF TypeOK, held
  <2>4. data'[Masked(head + i)] = data[Masked(head + i)]
    BY <1>5, <2>1, <2>3
  <2>5. Held[drop + k] = data[Masked(head + i)]
    <3>1. Held[drop + k] = data[Masked(head + ((drop + k) - 1))]
      BY <1>1, <2>1, CopiedType DEF TypeOK, Held, held
    <3> HIDE DEF i
    <3>2. QED
      BY <2>1, <3>1
  <2>6. QED
    BY <1>6, <1>7, <1>8, <2>2, <2>4, <2>5
<1>9. ASSUME NEW k \in 1 .. left + size, ~ (drop + k <= held)
      PROVE  Held'[k] = w[k]
  (* A new byte: the slots after those still held are the ones from tail on. *)
  <2> DEFINE m == drop + k - held - 1
  <2> HIDE DEF held, size
  <2>1. /\ m \in Nat /\ m < size /\ left + m <= Usable /\ m \in 0 .. Usable
        /\ k - 1 = left + m /\ m + 1 = drop + k - held
    BY <1>1, <1>2, <1>9
  <2>2. Masked(head' + (k - 1)) = Masked(tail + m)
    BY <1>3, <2>1, FreeSlot DEF TypeOK
  <2>3. data'[Masked(tail + m)] = buf[drop + k - held]
    BY <1>5, <2>1
  <2>4. QED
    BY <1>6, <1>7, <1>9, <2>2, <2>3
<1>10. QED
  <2>1. \A k \in 1 .. left + size : Held'[k] = w[k]
    BY <1>8, <1>9
  <2> HIDE DEF w, left, size
  <2>2. Held' = w
    BY <1>6, <1>7, <2>1, SeqEqual
  <2>3. QED
    BY <2>2 DEF w

LEMMA PushRefines ==
  ASSUME TypeOK, NEW buf \in Buffers, Push(buf)
  PROVE  Window!Push(buf)
<1> DEFINE size == Len(buf)
           held == Remaining(head, tail)
           available == Available(head, tail)
           drop == IF size > available THEN size - available ELSE 0
<1>1. /\ buf \in Seq(Byte) /\ size \in Nat
      /\ held \in 0 .. Usable /\ available = Usable - held
      /\ Usable \in Nat
  BY BuffersAssumption, CountersAddUp, CapacityAssumption DEF TypeOK, Usable
<1>2. CASE size >= Usable /\ tail' = 0 /\ head' = 1
           /\ data' = [i \in Slots |->
                         IF i = 0 THEN data[0] ELSE buf[size - Usable + i]]
  <2>1. data' \in [Slots -> Byte]
    BY PushType DEF TypeOK
  <2>2. \A i \in Slots : i # 0 => data'[i] = buf[size - Usable + i]
    BY <1>2
  <2>3. QED
    BY <1>1, <1>2, <2>1, <2>2, ReplaceRefines DEF Window!Push, Push
<1>3. CASE size < Usable
           /\ head' = (IF size > available THEN Masked(head + (size - available))
                                           ELSE head)
           /\ data' = Written(data, tail, buf)
           /\ tail' = Masked(tail + size)
  <2>1. drop \in 0 .. held /\ held - drop + size = Min2(Usable, held + size)
    <3>1. size < Usable
      BY <1>3
    <3> HIDE DEF held, available, size
    <3>2. QED
      BY <1>1, <3>1 DEF Min2
  <2>2. head' = Masked(head + drop)
    <3>1. CASE size > available
      BY <1>3, <3>1
    <3>2. CASE ~ (size > available)
      <4>1. head \in 0 .. 2 * Capacity - 1 /\ head < Capacity /\ head + 0 = head
        BY CapacityAssumption DEF TypeOK, Slots
      <4>2. QED
        BY <1>3, <3>2, <4>1, MaskedOnce
    <3>3. QED
      BY <3>1, <3>2
  <2>3. QED
    BY <1>1, <1>3, <2>1, <2>2, AppendRefines DEF Window!Push, Push
<1>4. QED
  BY <1>2, <1>3 DEF Push

(* The ring implements the window, for every capacity: overflow drops the  *)
(* oldest bytes and only those, and the others come out once, in the order *)
(* they were pushed (the calls of ringbuf.c, one at a time), when every    *)
(* request fits in its offset as those of the Rust crate do.               *)
THEOREM Implements ==
  ASSUME ReadsWithinOffset
  PROVE  Spec => ImplementsWindow
<1>1. Init => Window!Init
  <2>1. Init => Remaining(head, tail) = 0
    BY DEF Init, Remaining, RemainingWhen
  <2>2. QED
    BY <2>1, NothingCopied DEF Init, Window!Init, Held
<1>2. TypeOK /\ [Next]_vars => [Window!Next]_(Window!vars)
  <2> SUFFICES ASSUME TypeOK, [Next]_vars
               PROVE  [Window!Next]_(Window!vars)
    OBVIOUS
  <2>1. ASSUME NEW buf \in Buffers, Push(buf), call' = <<"push", buf>>
        PROVE  Window!Next
    BY <2>1, PushRefines DEF Window!Next
  <2>2. ASSUME NEW r \in Reads,
               \/ PopFront(r.size) /\ call' = <<"pop_front", r>>
               \/ PopBack(r.size) /\ call' = <<"pop_back", r>>
               \/ PopBackFrom(r.size, r.offset) /\ call' = <<"pop_back_from", r>>
        PROVE  Window!Next
    <3>1. r.size <= r.offset
      BY DEF ReadsWithinOffset
    <3>2. CASE PopFront(r.size) /\ call' = <<"pop_front", r>>
      BY <3>2, PopFrontRefines DEF Window!Next
    <3>3. CASE PopBack(r.size) /\ call' = <<"pop_back", r>>
      BY <3>3, PopBackRefines DEF Window!Next
    <3>4. CASE PopBackFrom(r.size, r.offset) /\ call' = <<"pop_back_from", r>>
      BY <3>1, <3>4, PopBackFromRefines DEF Window!Next
    <3>5. QED
      BY <2>2, <3>2, <3>3, <3>4
  <2>3. CASE Flush /\ call' = <<"flush">>
    <3>1. Remaining(head', tail') = 0
      BY <2>3 DEF Flush, Remaining, RemainingWhen
    <3>2. Held' = <<>>
      BY <3>1, NothingCopied DEF Held
    <3>3. QED
      BY <2>3, <3>2 DEF Flush, Window!Flush, Window!Next
  <2>4. CASE UNCHANGED vars
    BY <2>4 DEF vars, Window!vars, Held
  <2>5. QED
    BY <2>1, <2>2, <2>3, <2>4 DEF Next
<1>3. QED
  BY <1>1, <1>2, TypeCorrect, PTL DEF Spec, Window!Spec, ImplementsWindow

LEMMA OldestLength ==
  ASSUME NEW s \in Seq(Byte), NEW n \in Nat
  PROVE  Len(Window!Oldest(s, n)) = Min2(n, Len(s))
<1>1. Len(s) \in Nat /\ \A i \in 1 .. Len(s) : s[i] \in Byte
  OBVIOUS
<1>2. CASE Len(s) <= n
  BY <1>1, <1>2 DEF Window!Oldest, Min2
<1>3. CASE n < Len(s)
  <2>1. /\ \A i \in 1 .. n : s[i] \in Byte
        /\ ~ (Len(s) <= n) /\ n \in Int /\ Min2(n, Len(s)) = n
    BY <1>1, <1>3 DEF Min2
  <2>2. Len(SubSeq(s, 1, n)) = n
    BY <2>1, SubSeqProperties
  <2>3. QED
    BY <2>1, <2>2 DEF Window!Oldest
<1>4. QED
  BY <1>1, <1>2, <1>3

(* What a pop of the window hands out and what it leaves are together no   *)
(* longer than what was held.                                              *)
LEMMA WindowPopsTake ==
  ASSUME TypeOK, NEW r \in Reads,
         \/ Window!PopFront(r.size)
         \/ Window!PopBack(r.size)
         \/ Window!PopBackFrom(r.size, r.offset)
  PROVE  Len(result') + Len(Held') <= Len(Held)
<1>1. Held \in Seq(Byte) /\ Len(Held) \in Nat /\ r.size \in Nat /\ r.offset \in Nat
  BY HeldType, ReadsAssumption
<1>2. ASSUME NEW s \in Seq(Byte), Len(s) <= Len(Held),
             result' = Window!Oldest(s, r.size),
             Held' = Window!Newest(s, Len(s) - Len(result'))
      PROVE  Len(result') + Len(Held') <= Len(Held)
  <2>1. Len(s) \in Nat
    OBVIOUS
  <2>2. Len(result') = Min2(r.size, Len(s))
    BY <1>1, <1>2, OldestLength
  <2>3. Len(s) - Len(result') \in Nat /\ Len(result') \in Nat
        /\ Len(result') <= Len(s)
    BY <1>1, <2>1, <2>2 DEF Min2
  <2>4. Len(Held') = Min2(Len(s) - Len(result'), Len(s))
    BY <1>2, <2>3, NewestElements
  <2>5. QED
    BY <1>1, <1>2, <2>1, <2>3, <2>4 DEF Min2
<1>3. CASE Window!PopFront(r.size)
  BY <1>1, <1>2, <1>3 DEF Window!PopFront
<1>4. CASE Window!PopBack(r.size)
  <2>1. Len(result') = Min2(r.size, Len(Held)) /\ Len(Held') = 0
    BY <1>1, <1>4, NewestElements DEF Window!PopBack
  <2>2. QED
    BY <1>1, <2>1 DEF Min2
<1>5. CASE Window!PopBackFrom(r.size, r.offset)
  <2> DEFINE kept == Window!Newest(Held, r.offset)
  <2>1. kept \in Seq(Byte) /\ Len(kept) = Min2(r.offset, Len(Held))
    BY <1>1, NewestElements
  <2>2. Len(kept) <= Len(Held)
    BY <1>1, <2>1 DEF Min2
  <2>3. QED
    BY <1>2, <1>5, <2>1, <2>2 DEF Window!PopBackFrom
<1>6. QED
  BY <1>3, <1>4, <1>5

(* No pop hands out bytes it leaves on the ring or bytes that were never   *)
(* held, for every capacity, when every request fits in its offset; the    *)
(* assumption is the one ringbuf_pop_back_from needs.                      *)
THEOREM PopsTake ==
  ASSUME ReadsWithinOffset
  PROVE  Spec => PopsTakeHeldBytes
<1> DEFINE A == result' # <<>> =>
                  Len(result') + Remaining(head', tail') <= Remaining(head, tail)
<1>1. TypeOK /\ TypeOK' /\ [Next]_vars => [A]_vars
  <2> SUFFICES ASSUME TypeOK, TypeOK', Next, result' # <<>>
               PROVE  Len(result') + Remaining(head', tail') <= Remaining(head, tail)
    OBVIOUS
  <2>1. PICK r \in Reads :
          PopFront(r.size) \/ PopBack(r.size) \/ PopBackFrom(r.size, r.offset)
    BY DEF Next, Push, Flush
  <2>2. r.size <= r.offset
    BY DEF ReadsWithinOffset
  <2>3. Len(result') + Len(Held') <= Len(Held)
    BY <2>1, <2>2, PopFrontRefines, PopBackRefines, PopBackFromRefines,
       WindowPopsTake
  <2>4. Len(Held) = Remaining(head, tail)
    BY HeldType
  <2>5. Len(Held') = Remaining(head', tail')
    BY CountersAddUp, CopiedType DEF TypeOK, Held
  <2>6. QED
    BY <2>3, <2>4, <2>5
<1>2. QED
  BY <1>1, TypeCorrect, PTL DEF Spec, PopsTakeHeldBytes

=============================================================================
