------------------------- MODULE PacketProcessorProofs -------------------------
(***************************************************************************)
(* Proofs about PacketFormat and PacketProcessor, for every stream of      *)
(* messages, content of the uninitialised buffer, size of the buffer and   *)
(* range of the count.                                                     *)
(***************************************************************************)
EXTENDS PacketProcessor, FiniteSetTheorems, FunctionTheorems, SequenceTheorems,
        WellFoundedInduction, TLAPS

Weights == {1, 2, 4, 8, 16, 32, 64, 128}

\* A part of a finite set of indices is finite, so its parity is a bit.
LEMMA ParityIsBit ==
  ASSUME NEW f, NEW I, IsFiniteSet(I), NEW w
  PROVE  Parity(f, I, w) \in {0, 1}
<1> DEFINE T == {i \in I : Bit(f[i], w) = 1}
<1>1. IsFiniteSet(T)
  BY FS_Subset
<1>2. Cardinality(T) \in Nat
  BY <1>1, FS_CardinalityType
<1> HIDE DEF T
<1>3. Cardinality(T) % 2 \in {0, 1}
  BY <1>2
<1> QED
  BY <1>3 DEF T, Parity

\* Exclusive or of bytes is a byte, and its bits are the parities.
LEMMA XorBits ==
  ASSUME NEW f, NEW I, IsFiniteSet(I)
  PROVE  /\ XorOf(f, I) \in Byte
         /\ \A w \in Weights : Bit(XorOf(f, I), w) = Parity(f, I, w)
<1> DEFINE p(w) == Parity(f, I, w)
<1>1. \A w : p(w) \in {0, 1}
  BY ParityIsBit
<1>2. XorOf(f, I) = 128 * p(128) + 64 * p(64) + 32 * p(32) + 16 * p(16)
                      + 8 * p(8) + 4 * p(4) + 2 * p(2) + p(1)
  BY DEF XorOf
<1> HIDE DEF p
<1>3. ASSUME NEW a \in {0, 1}, NEW b \in {0, 1}, NEW c \in {0, 1},
             NEW d \in {0, 1}, NEW e \in {0, 1}, NEW g \in {0, 1},
             NEW h \in {0, 1}, NEW k \in {0, 1}, NEW x,
             x = 128 * a + 64 * b + 32 * c + 16 * d + 8 * e + 4 * g + 2 * h + k
      PROVE  /\ x \in 0..255
             /\ (x \div 128) % 2 = a /\ (x \div 64) % 2 = b
             /\ (x \div 32) % 2 = c /\ (x \div 16) % 2 = d
             /\ (x \div 8) % 2 = e /\ (x \div 4) % 2 = g
             /\ (x \div 2) % 2 = h /\ (x \div 1) % 2 = k
  BY <1>3, SMTT(60)
<1>4. /\ XorOf(f, I) \in 0..255
      /\ (XorOf(f, I) \div 128) % 2 = p(128) /\ (XorOf(f, I) \div 64) % 2 = p(64)
      /\ (XorOf(f, I) \div 32) % 2 = p(32) /\ (XorOf(f, I) \div 16) % 2 = p(16)
      /\ (XorOf(f, I) \div 8) % 2 = p(8) /\ (XorOf(f, I) \div 4) % 2 = p(4)
      /\ (XorOf(f, I) \div 2) % 2 = p(2) /\ (XorOf(f, I) \div 1) % 2 = p(1)
  BY <1>1, <1>2, <1>3
<1> QED
  BY <1>4 DEF p, Byte, Weights, Bit

LEMMA XorOfBytesBits ==
  ASSUME NEW x, NEW y
  PROVE  /\ XorOfBytes(x, y) \in Byte
         /\ \A w \in Weights :
              Bit(XorOfBytes(x, y), w) = Parity(<<x, y>>, {1, 2}, w)
<1>1. IsFiniteSet({1, 2})
  <2>1. IsFiniteSet({1})
    BY FS_Singleton
  <2>2. IsFiniteSet({1} \cup {2})
    BY <2>1, FS_AddElement
  <2>3. {1} \cup {2} = {1, 2}
    OBVIOUS
  <2> QED
    BY <2>2, <2>3
<1> QED
  BY <1>1, XorBits DEF XorOfBytes

\* A byte is determined by its bits.
LEMMA ByteOfBits ==
  ASSUME NEW x \in Byte, NEW y \in Byte, \A w \in Weights : Bit(x, w) = Bit(y, w)
  PROVE  x = y
<1>1. ASSUME NEW z \in Byte
      PROVE  z = 128 * Bit(z, 128) + 64 * Bit(z, 64) + 32 * Bit(z, 32)
                   + 16 * Bit(z, 16) + 8 * Bit(z, 8) + 4 * Bit(z, 4)
                   + 2 * Bit(z, 2) + Bit(z, 1)
  BY SMTT(60) DEF Byte, Bit
<1>2. /\ Bit(x, 128) = Bit(y, 128) /\ Bit(x, 64) = Bit(y, 64)
      /\ Bit(x, 32) = Bit(y, 32) /\ Bit(x, 16) = Bit(y, 16)
      /\ Bit(x, 8) = Bit(y, 8) /\ Bit(x, 4) = Bit(y, 4)
      /\ Bit(x, 2) = Bit(y, 2) /\ Bit(x, 1) = Bit(y, 1)
  BY DEF Weights
<1> HIDE DEF Bit
<1> QED
  BY <1>1, <1>2

\* Parities of two disjoint sets of indices add up.
LEMMA ParityOfUnion ==
  ASSUME NEW f, NEW I, NEW J, IsFiniteSet(I), IsFiniteSet(J), I \cap J = {},
         NEW w
  PROVE  Parity(f, I \cup J, w) = (Parity(f, I, w) + Parity(f, J, w)) % 2
<1> DEFINE A == {i \in I : Bit(f[i], w) = 1}
           B == {i \in J : Bit(f[i], w) = 1}
<1>1. IsFiniteSet(A) /\ IsFiniteSet(B)
  BY FS_Subset
<1>2. A \cap B = {} /\ A \cup B = {i \in I \cup J : Bit(f[i], w) = 1}
  OBVIOUS
<1>3. Cardinality(A) \in Nat /\ Cardinality(B) \in Nat
  BY <1>1, FS_CardinalityType
<1>6. /\ Parity(f, I, w) = Cardinality(A) % 2
      /\ Parity(f, J, w) = Cardinality(B) % 2
      /\ Parity(f, I \cup J, w) = Cardinality(A \cup B) % 2
  BY <1>2 DEF Parity
<1> HIDE DEF A, B
<1>4. Cardinality(A \cup B) = Cardinality(A) + Cardinality(B)
  <2>1. Cardinality(A \cup B)
          = Cardinality(A) + Cardinality(B) - Cardinality(A \cap B)
    BY <1>1, FS_Union
  <2>2. Cardinality(A \cap B) = 0
    BY <1>2, FS_EmptySet
  <2> QED
    BY <1>3, <2>1, <2>2
<1>5. (Cardinality(A) + Cardinality(B)) % 2
        = ((Cardinality(A) % 2) + (Cardinality(B) % 2)) % 2
  BY <1>3
<1>7. Parity(f, I, w) \in {0, 1} /\ Parity(f, J, w) \in {0, 1}
  BY ParityIsBit
<1> QED
  BY <1>3, <1>4, <1>5, <1>6, <1>7

\* One index: its bit.
LEMMA ParityOfOne ==
  ASSUME NEW f, NEW i, f[i] \in Byte, NEW w \in Weights
  PROVE  Parity(f, {i}, w) = Bit(f[i], w)
<1>1. Bit(f[i], w) \in {0, 1}
  BY DEF Bit, Byte, Weights
<1>2. CASE Bit(f[i], w) = 1
  <2>1. {j \in {i} : Bit(f[j], w) = 1} = {i}
    BY <1>2
  <2> QED
    BY <1>2, <2>1, FS_Singleton DEF Parity
<1>3. CASE Bit(f[i], w) = 0
  <2>1. {j \in {i} : Bit(f[j], w) = 1} = {}
    BY <1>3
  <2> QED
    BY <1>3, <2>1, FS_EmptySet DEF Parity
<1> QED
  BY <1>1, <1>2, <1>3

\* The same bytes one place on have the same parity.
LEMMA ParityShift ==
  ASSUME NEW f, NEW g, NEW len \in Nat, NEW w,
         \A i \in 4..13+len : f[i] = g[i + 1]
  PROVE  Parity(f, 4..13+len, w) = Parity(g, 5..14+len, w)
<1> DEFINE A == {i \in 4..13+len : Bit(f[i], w) = 1}
           B == {i \in 5..14+len : Bit(g[i], w) = 1}
           h == [i \in A |-> i + 1]
<1>1. IsFiniteSet(A)
  <2>1. 4 \in Int /\ 13 + len \in Int
    OBVIOUS
  <2> QED
    BY <2>1, FS_Interval, FS_Subset
<1>2. h \in [A -> B] /\ \A i, j \in A : h[i] = h[j] => i = j
  OBVIOUS
<1>3. \A k \in B : \E i \in A : h[i] = k
  <2> TAKE k \in B
  <2>1. k - 1 \in 4..13+len /\ (k - 1) + 1 = k
    OBVIOUS
  <2>2. k - 1 \in A
    BY <2>1
  <2> WITNESS k - 1 \in A
  <2> QED
    BY <2>1, <2>2
<1>4. h \in Bijection(A, B)
  BY <1>2, <1>3, Fun_IsBij
<1>5. Cardinality(A) = Cardinality(B)
  BY <1>1, <1>4, FS_Bijection DEF ExistsBijection
<1> QED
  BY <1>5 DEF Parity

-----------------------------------------------------------------------------
\* What a message is made of.
LEMMA MessageParts ==
  ASSUME NEW m \in Message
  PROVE  /\ m.kind \in {"packet", "ack"}
         /\ m.id \in U16 /\ m.dest \in U16 /\ m.src \in U16 /\ m.msgID \in U16
         /\ m.body \in Seq(Byte) /\ Len(m.body) \in Byte
         /\ m.kind = "ack" => Len(m.body) = 3
         /\ Size(m) \in Nat /\ Size(m) >= 14
         /\ m.kind = "packet" => Size(m) = 14 + Len(m.body)
         /\ m.kind = "ack" => Size(m) = 16
<1>1. /\ m \in [kind : {"packet", "ack"}, id : U16, dest : U16, src : U16,
                msgID : U16, body : Seq(Byte)]
      /\ IF m.kind = "packet" THEN Len(m.body) \in Byte ELSE Len(m.body) = 3
  BY DEF Message
<1>2. /\ m.kind \in {"packet", "ack"}
      /\ m.id \in U16 /\ m.dest \in U16 /\ m.src \in U16 /\ m.msgID \in U16
      /\ m.body \in Seq(Byte)
  BY <1>1
<1>3. Len(m.body) \in Byte /\ (m.kind = "ack" => Len(m.body) = 3)
  BY <1>1 DEF Byte
<1>4. /\ Size(m) \in Nat /\ Size(m) >= 14
      /\ m.kind = "packet" => Size(m) = 14 + Len(m.body)
      /\ m.kind = "ack" => Size(m) = 16
  <2>1. Len(m.body) \in Nat
    BY <1>3 DEF Byte
  <2>2. CASE m.kind = "packet"
    BY <2>1, <2>2 DEF Size
  <2>3. CASE m.kind = "ack"
    <3>1. Size(m) = 13 + 0 + Len(m.body)
      BY <2>3 DEF Size
    <3>2. Len(m.body) = 3
      BY <1>3, <2>3
    <3> QED
      BY <2>3, <3>1, <3>2
  <2> QED
    BY <1>2, <2>2, <2>3
<1> QED
  BY <1>2, <1>3, <1>4

\* A field of 16 bits is two bytes, and they give it back.
LEMMA HalvesOfU16 ==
  ASSUME NEW x \in U16
  PROVE  Lo(x) \in Byte /\ Hi(x) \in Byte /\ Hi(x) * 256 + Lo(x) = x
BY DEF U16, Byte, Lo, Hi

LEMMA FixedBytes ==
  ASSUME NEW m \in Message
  PROVE  /\ Fixed(m) \in Seq(Byte) /\ Len(Fixed(m)) = 12
         /\ \A i \in 1..4 : Fixed(m)[i] = Header(m.kind)[i]
<1>1. Header(m.kind)[4] \in Byte
      /\ Header(m.kind)[1] = 238 /\ Header(m.kind)[2] = 255
      /\ Header(m.kind)[3] = 192
  BY MessageParts DEF Header, HEADER, ACK_HEADER, Byte
<1>2. /\ Lo(m.id) \in Byte /\ Hi(m.id) \in Byte
      /\ Lo(m.dest) \in Byte /\ Hi(m.dest) \in Byte
      /\ Lo(m.src) \in Byte /\ Hi(m.src) \in Byte
      /\ Lo(m.msgID) \in Byte /\ Hi(m.msgID) \in Byte
  BY MessageParts, HalvesOfU16
<1>3. 238 \in Byte /\ 255 \in Byte /\ 192 \in Byte
  BY DEF Byte
<1> HIDE DEF Byte
<1>4. Fixed(m) \in Seq(Byte) /\ Len(Fixed(m)) = 12
  BY <1>1, <1>2, <1>3 DEF Fixed
<1>5. /\ Fixed(m)[1] = 238 /\ Fixed(m)[2] = 255 /\ Fixed(m)[3] = 192
      /\ Fixed(m)[4] = Header(m.kind)[4]
  BY DEF Fixed
<1> QED
  BY <1>1, <1>4, <1>5

\* Two sequences one after the other, by places.
LEMMA ConcatPlaces ==
  ASSUME NEW S, NEW s \in Seq(S), NEW t \in Seq(S)
  PROVE  /\ s \o t \in Seq(S)
         /\ Len(s \o t) = Len(s) + Len(t)
         /\ \A i \in 1..Len(s) : (s \o t)[i] = s[i]
         /\ \A i \in 1..Len(t) : (s \o t)[Len(s) + i] = t[i]
OBVIOUS

\* The bytes of a message before its checksum byte, by their places.
LEMMA UnsealedBytes ==
  ASSUME NEW m \in Message
  PROVE  LET u == Unsealed(m)
         IN /\ u \in Seq(Byte) /\ Len(u) = Size(m) - 1
            /\ \A i \in 1..12 : u[i] = Fixed(m)[i]
            /\ m.kind = "packet" => /\ u[13] = Len(m.body)
                                    /\ \A i \in 1..Len(m.body) :
                                         u[13 + i] = m.body[i]
            /\ m.kind = "ack" => \A i \in 1..3 : u[12 + i] = m.body[i]
<1>1. Fixed(m) \in Seq(Byte) /\ Len(Fixed(m)) = 12
  BY FixedBytes
<1>2. /\ m.body \in Seq(Byte) /\ Len(m.body) \in Byte /\ Len(m.body) \in Nat
      /\ m.kind \in {"packet", "ack"}
  BY MessageParts DEF Byte
<1>3. CASE m.kind = "packet"
  <2> DEFINE l == <<Len(m.body)>>
             u == Fixed(m) \o l \o m.body
  <2>1. l \in Seq(Byte) /\ Len(l) = 1 /\ l[1] = Len(m.body)
    BY <1>2
  <2>2. Unsealed(m) = u
    BY <1>3 DEF Unsealed
  <2> HIDE DEF l
  <2>3. /\ u \in Seq(Byte) /\ Len(u) = 12 + 1 + Len(m.body)
        /\ \A i \in 1..12 : u[i] = Fixed(m)[i]
        /\ \A i \in 1..1 : u[12 + i] = l[i]
        /\ \A i \in 1..Len(m.body) : u[12 + 1 + i] = m.body[i]
    <3> DEFINE f == Fixed(m)
               d == m.body
    <3>1. f \in Seq(Byte) /\ l \in Seq(Byte) /\ d \in Seq(Byte)
      BY <1>1, <1>2, <2>1
    <3> HIDE DEF f, d
    <3>2. /\ f \o l \o d \in Seq(Byte)
          /\ Len(f \o l \o d) = Len(f) + Len(l) + Len(d)
          /\ \A i \in 1..Len(f) : (f \o l \o d)[i] = f[i]
          /\ \A i \in 1..Len(l) : (f \o l \o d)[Len(f) + i] = l[i]
          /\ \A i \in 1..Len(d) : (f \o l \o d)[Len(f) + Len(l) + i] = d[i]
      BY <3>1
    <3>3. u = f \o l \o d /\ Len(f) = 12
      BY <1>1 DEF f, d
    <3> HIDE DEF u
    <3> QED
      BY <2>1, <3>2, <3>3 DEF f, d
  <2> HIDE DEF u
  <2>4. 12 + 1 + Len(m.body) = Size(m) - 1
    BY <1>2, <1>3, MessageParts
  <2>5. u[13] = Len(m.body)
    BY <2>1, <2>3
  <2>6. \A i \in 1..Len(m.body) : u[13 + i] = m.body[i]
    BY <2>3
  <2> QED
    BY <1>3, <2>2, <2>3, <2>4, <2>5, <2>6
<1>4. CASE m.kind = "ack"
  <2> DEFINE l == << >>
             u == Fixed(m) \o l \o m.body
  <2>1. l \in Seq(Byte) /\ Len(l) = 0 /\ Len(m.body) = 3
    BY <1>4, MessageParts
  <2>2. Unsealed(m) = u
    BY <1>4 DEF Unsealed
  <2> HIDE DEF l
  <2>3. /\ u \in Seq(Byte) /\ Len(u) = 12 + 0 + 3
        /\ \A i \in 1..12 : u[i] = Fixed(m)[i]
        /\ \A i \in 1..3 : u[12 + 0 + i] = m.body[i]
    <3> DEFINE f == Fixed(m)
               d == m.body
    <3>1. f \in Seq(Byte) /\ l \in Seq(Byte) /\ d \in Seq(Byte)
      BY <1>1, <1>2, <2>1
    <3> HIDE DEF f, d
    <3>2. /\ f \o l \o d \in Seq(Byte)
          /\ Len(f \o l \o d) = Len(f) + Len(l) + Len(d)
          /\ \A i \in 1..Len(f) : (f \o l \o d)[i] = f[i]
          /\ \A i \in 1..Len(l) : (f \o l \o d)[Len(f) + i] = l[i]
          /\ \A i \in 1..Len(d) : (f \o l \o d)[Len(f) + Len(l) + i] = d[i]
      BY <3>1
    <3>3. u = f \o l \o d /\ Len(f) = 12
      BY <1>1 DEF f, d
    <3> HIDE DEF u
    <3> QED
      BY <2>1, <3>2, <3>3 DEF f, d
  <2> HIDE DEF u
  <2>4. 12 + 0 + 3 = Size(m) - 1
    BY <1>4, MessageParts
  <2>5. \A i \in 1..3 : u[12 + i] = m.body[i]
    BY <2>3
  <2> QED
    BY <1>4, <2>2, <2>3, <2>4, <2>5
<1> QED
  BY <1>2, <1>3, <1>4

\* The checksum is a byte, and the last one on the wire.
LEMMA WireBytes ==
  ASSUME NEW m \in Message
  PROVE  /\ Checksum(m) \in Byte
         /\ Wire(m) \in Seq(Byte) /\ Len(Wire(m)) = Size(m)
         /\ \A i \in 1..Size(m)-1 : Wire(m)[i] = Unsealed(m)[i]
         /\ Wire(m)[Size(m)] = Checksum(m)
<1>1. Unsealed(m) \in Seq(Byte) /\ Len(Unsealed(m)) = Size(m) - 1
  BY UnsealedBytes
<1>2. Size(m) \in Nat
  BY MessageParts
<1>3. Checksum(m) \in Byte
  <2>1. IsFiniteSet(7..Len(Unsealed(m))) /\ IsFiniteSet(5..14)
    <3>1. Len(Unsealed(m)) \in Int
      BY <1>1, <1>2
    <3>2. IsFiniteSet(7..Len(Unsealed(m)))
      BY <3>1, FS_Interval
    <3>3. IsFiniteSet(5..14)
      <4>1. 5 \in Int /\ 14 \in Int
        OBVIOUS
      <4> QED
        BY <4>1, FS_Interval, Zenon
    <3> QED
      BY <3>2, <3>3
  <2> QED
    BY <2>1, XorBits DEF Checksum
<1>4. /\ Wire(m) \in Seq(Byte) /\ Len(Wire(m)) = Len(Unsealed(m)) + 1
      /\ \A i \in 1..Len(Unsealed(m)) : Wire(m)[i] = Unsealed(m)[i]
      /\ Wire(m)[Len(Unsealed(m)) + 1] = Checksum(m)
  BY <1>1, <1>3, AppendProperties DEF Wire
<1> QED
  BY <1>1, <1>2, <1>3, <1>4

\* The header of a message on the wire is that of its kind.
LEMMA WireHeader ==
  ASSUME NEW m \in Message
  PROVE  /\ \A i \in 1..4 : Wire(m)[i] = Header(m.kind)[i]
         /\ Wire(m)[1] = 238
<1>1. \A i \in 1..4 : i \in 1..12 /\ i \in 1..Size(m)-1
  BY MessageParts
<1>2. ASSUME NEW i \in 1..4
      PROVE  Wire(m)[i] = Header(m.kind)[i]
  <2>1. Wire(m)[i] = Unsealed(m)[i]
    BY <1>1, WireBytes
  <2>2. Unsealed(m)[i] = Fixed(m)[i]
    BY <1>1, UnsealedBytes
  <2> QED
    BY <2>1, <2>2, FixedBytes
<1> QED
  BY <1>2, MessageParts DEF Header, HEADER, ACK_HEADER

-----------------------------------------------------------------------------
\* Messages are short enough for the count a pop returns.
Short == /\ \A i \in DOMAIN unsent : Size(unsent[i]) < CountMod
         /\ \A i \in DOMAIN sent : Size(sent[i]) < CountMod

\* A deserializer's payload bytes are those of the messages it has read, which
\* lie before the place it reads at.
ScanOK == at <= n => IF nth = 0 THEN payload = <<>> /\ cksum = 0
                                ELSE Len(payload) + 14 <= at

\* The stream is the messages sent, one after the other.
StreamOK ==
  /\ Len(stream) = Start(Len(sent) + 1)
  /\ \A i \in 1..Len(sent) :
       /\ Start(i) \in Nat /\ ends[i] = Start(i) + Size(sent[i])
       /\ \A o \in 1..Size(sent[i]) : stream[Start(i) + o] = Wire(sent[i])[o]
  /\ \A i, j \in 1..Len(sent) : i < j => ends[i] <= Start(j)
  /\ \A p \in 1..Len(stream) :
       \E i \in 1..Len(sent) : Start(i) < p /\ p <= ends[i]

\* The buffer's front is the last chunk, as far as its count goes.
BufferOK == /\ base + n <= pos
            /\ \A i \in 0..n-1 : bufferBytes[i] = stream[base + i + 1]

\* The i-th message begins before the place that will be read next.
Passed(i) == Start(i) < pos /\ (phase # "pop" => Start(i) < base + at)

AcksPlaced ==
  \E f \in [1..Len(acks) -> 1..Len(sent)] :
    /\ Increasing(f, Len(acks))
    /\ \A i \in 1..Len(acks) : Passed(f[i]) /\ acks[i] = sent[f[i]]

PacketsPlaced ==
  \E f \in [1..Len(packets) -> 1..Len(sent)] :
    /\ Increasing(f, Len(packets))
    /\ \A i \in 1..Len(packets) :
         /\ Passed(f[i])
         /\ Headless(packets[i].msg) = Headless(sent[f[i]])
         /\ packets[i].nth = 1 => packets[i].msg = sent[f[i]]

\* A chunk that is one message has been popped and not been read yet.
Pending == phase # "pop" /\ at = 0 /\ nth = 0
AcksTo(k) == {j \in 1..k : sent[j].kind = "ack"}
PacketsTo(k) == {j \in 1..k : sent[j].kind = "packet" /\ Acceptable(sent[j])}
\* The first k messages have been handed on, those that should be.
HandedOn(k) == /\ Lists(acks, sent, AcksTo(k))
               /\ Lists(Msgs(packets), sent, PacketsTo(k))

AlignedOK ==
  aligned =>
    /\ pops <= Len(sent) /\ pos = Start(pops + 1) /\ cntr = 0
    /\ Pending => /\ pops # 0 /\ base = Start(pops)
                  /\ n = Size(sent[pops]) /\ phase = sent[pops].kind
                  /\ HandedOn(pops - 1)
    /\ ~Pending => /\ phase # "pop" => at >= n
                   /\ HandedOn(pops)

Inv == /\ TypeOK /\ Short /\ ScanOK /\ StreamOK /\ BufferOK
       /\ Unmistakable => AcksPlaced /\ PacketsPlaced
       /\ AlignedOK

-----------------------------------------------------------------------------
LEMMA InitInv == Init => Inv
<1> SUFFICES ASSUME Init
             PROVE  Inv
  OBVIOUS
<1> USE DEF Init
<1>1. /\ sent = <<>> /\ stream = <<>> /\ ends = <<>> /\ packets = <<>> /\ acks = <<>>
      /\ Len(sent) = 0 /\ Len(stream) = 0 /\ Len(packets) = 0 /\ Len(acks) = 0
  OBVIOUS
<1>2. TypeOK
  <2>1. unsent \in Seq(Message)
    BY StreamAssumption
  <2>2. bufferBytes \in [0..PopBuf-1 -> Byte]
    BY ProcessorAssumption
  <2>3. /\ base \in 0..pos /\ pos \in 0..Len(stream) /\ n \in 0..CountMod-1
        /\ cntr \in 0..CountMod-1 /\ at \in 0..n+4 /\ pops \in 0..MaxPops
        /\ Len(payload) <= DataSize
    BY ProcessorAssumption DEF DataSize
  <2> QED
    BY <2>1, <2>2, <2>3 DEF TypeOK, Byte
<1>3. Short
  BY StreamAssumption DEF Short
<1>4. ScanOK
  BY DEF ScanOK
<1>5. StreamOK
  BY <1>1 DEF StreamOK, Start
<1>6. BufferOK
  BY DEF BufferOK
<1> DEFINE g == [i \in 1..0 |-> 0]
<1>7. AcksPlaced
  <2>1. g \in [1..Len(acks) -> 1..Len(sent)]
    BY <1>1
  <2>2. 1..Len(acks) = {}
    BY <1>1
  <2> QED
    BY <2>1, <2>2, Zenon DEF AcksPlaced, Increasing
<1>8. PacketsPlaced
  <2>1. g \in [1..Len(packets) -> 1..Len(sent)]
    BY <1>1
  <2>2. 1..Len(packets) = {}
    BY <1>1
  <2> QED
    BY <2>1, <2>2, Zenon DEF PacketsPlaced, Increasing
<1>9. AlignedOK
  <2>1. ~Pending /\ pops = 0 /\ AcksTo(0) = {} /\ PacketsTo(0) = {}
    BY DEF Pending, AcksTo, PacketsTo
  <2>2. Len(Msgs(packets)) = 0
    BY <1>1 DEF Msgs
  <2>3. Lists(acks, sent, {}) /\ Lists(Msgs(packets), sent, {})
    <3>1. g \in [1..Len(acks) -> {}] /\ g \in [1..Len(Msgs(packets)) -> {}]
      BY <1>1, <2>2
    <3> QED
      BY <1>1, <2>2, <3>1 DEF Lists, Increasing
  <2> QED
    BY <1>1, <2>1, <2>3 DEF AlignedOK, HandedOn, Start
<1> QED
  BY <1>2, <1>3, <1>4, <1>5, <1>6, <1>7, <1>8, <1>9 DEF Inv

-----------------------------------------------------------------------------
\* The constants, as the arithmetic below uses them.
LEMMA Consts ==
  /\ PopBuf \in Nat /\ CountMod \in Nat /\ CountMod > 0 /\ MaxPops \in Nat
  /\ CountMod + 3 <= PopBuf /\ DataSize \in Nat /\ DataSize = PopBuf - 14
BY ProcessorAssumption DEF DataSize

LEMMA SendTypes ==
  ASSUME TypeOK, Short, Send
  PROVE  TypeOK' /\ Short'
<1> DEFINE m == Head(unsent)
<1>1. unsent # <<>> /\ unsent \in Seq(Message) /\ sent \in Seq(Message)
      /\ stream \in Seq(Byte) /\ ends \in Seq(0..Len(stream))
      /\ Len(ends) = Len(sent)
  BY DEF TypeOK, Send
<1>2. m \in Message /\ Size(m) < CountMod /\ unsent' \in Seq(Message)
      /\ \A i \in DOMAIN unsent' : Size(unsent'[i]) < CountMod
  <2>1. m = unsent[1] /\ 1 \in DOMAIN unsent /\ m \in Message
    BY <1>1
  <2>2. unsent' = Tail(unsent)
    BY DEF Send
  <2>3. unsent' \in Seq(Message)
    BY <1>1, <2>2
  <2>4. \A i \in DOMAIN unsent' : i + 1 \in DOMAIN unsent /\ unsent'[i] = unsent[i+1]
    BY <1>1, <2>2
  <2> QED
    BY <2>1, <2>3, <2>4 DEF Short
<1>3. /\ sent' = Append(sent, m) /\ stream' = stream \o Wire(m)
      /\ ends' = Append(ends, Len(stream) + Size(m))
  BY DEF Send
<1> HIDE DEF m
<1>4. sent' \in Seq(Message) /\ \A i \in DOMAIN sent' : Size(sent'[i]) < CountMod
  <2>1. /\ sent' \in Seq(Message) /\ Len(sent') = Len(sent) + 1
        /\ \A i \in 1..Len(sent) : sent'[i] = sent[i]
        /\ sent'[Len(sent) + 1] = m
    BY <1>1, <1>2, <1>3
  <2>2. ASSUME NEW i \in DOMAIN sent'
        PROVE  (i \in DOMAIN sent /\ sent'[i] = sent[i]) \/ sent'[i] = m
    BY <1>1, <2>1
  <2>3. \A i \in DOMAIN sent' : Size(sent'[i]) < CountMod
    <3> TAKE i \in DOMAIN sent'
    <3>1. CASE i \in DOMAIN sent /\ sent'[i] = sent[i]
      BY <3>1 DEF Short
    <3>2. CASE sent'[i] = m
      BY <1>2, <3>2
    <3> QED
      BY <2>2, <3>1, <3>2
  <2> QED
    BY <2>1, <2>3
<1>5. stream' \in Seq(Byte) /\ Len(stream') = Len(stream) + Size(m)
      /\ Size(m) \in Nat /\ Len(stream) \in Nat
  <2>1. Wire(m) \in Seq(Byte) /\ Len(Wire(m)) = Size(m) /\ Size(m) \in Nat
    BY <1>2, WireBytes, MessageParts
  <2> DEFINE w == Wire(m)
  <2>2. w \in Seq(Byte) /\ stream' = stream \o w
    BY <1>3, <2>1
  <2> HIDE DEF w
  <2>3. stream \o w \in Seq(Byte) /\ Len(stream \o w) = Len(stream) + Len(w)
    BY <1>1, <2>2, ConcatPlaces
  <2> QED
    BY <1>1, <2>1, <2>2, <2>3 DEF w
<1>6. ends' \in Seq(0..Len(stream')) /\ Len(ends') = Len(sent')
  <2>1. ends \in Seq(0..Len(stream'))
    BY <1>1, <1>5
  <2>2. Len(stream) + Size(m) \in 0..Len(stream')
    BY <1>5
  <2> QED
    BY <1>1, <1>3, <2>1, <2>2
<1>7. pos' \in 0..Len(stream')
  BY <1>5 DEF TypeOK, Send, chunkVars
<1>8. TypeOK'
  BY <1>2, <1>4, <1>5, <1>6, <1>7 DEF TypeOK, Send, chunkVars, DataSize
<1> QED
  BY <1>2, <1>4, <1>8 DEF Short

LEMMA FilledType ==
  ASSUME TypeOK, NEW k \in 1..Len(stream) - pos, k <= PopBuf
  PROVE  /\ Filled(k) \in [0..PopBuf-1 -> Byte]
         /\ \A i \in 0..k-1 : Filled(k)[i] = stream[pos + i + 1]
         /\ k \in Nat /\ k > 0 /\ pos + k \in 0..Len(stream)
         /\ Returned(k) \in 0..CountMod-1 /\ Returned(k) <= k
<1>1. /\ stream \in Seq(Byte) /\ pos \in 0..Len(stream) /\ Len(stream) \in Nat
      /\ bufferBytes \in [0..PopBuf-1 -> Byte] /\ PopBuf \in Nat /\ CountMod \in Nat
      /\ CountMod > 0
  BY Consts DEF TypeOK
<1>2. k \in Nat /\ k > 0 /\ pos + k \in 0..Len(stream)
  BY <1>1
<1>3. \A i \in 0..PopBuf-1 : i < k => pos + i + 1 \in 1..Len(stream)
  BY <1>1, <1>2
<1>4. Filled(k) \in [0..PopBuf-1 -> Byte]
  BY <1>1, <1>3 DEF Filled
<1>5. \A i \in 0..k-1 : i \in 0..PopBuf-1 /\ i < k
  BY <1>1, <1>2
<1>6. \A i \in 0..k-1 : Filled(k)[i] = stream[pos + i + 1]
  BY <1>5 DEF Filled
<1>7. Returned(k) \in 0..CountMod-1 /\ Returned(k) <= k
  BY <1>1, <1>2 DEF Returned
<1> QED
  BY <1>2, <1>4, <1>6, <1>7

\* The first match is one.
LEMMA LeastMatch ==
  ASSUME NEW S \in SUBSET Nat, S # {}
  PROVE  Least(S) \in S /\ \A y \in S : Least(S) <= y
<1>1. \E x \in S : \A y \in S : ~ (<<y, x>> \in OpToRel(<, Nat))
  BY NatLessThanWellFounded, WFMin, Zenon
<1>2. \A x, y \in S : <<y, x>> \in OpToRel(<, Nat) <=> y < x
  BY DEF OpToRel
<1>3. \E x \in S : \A y \in S : x <= y
  <2>1. PICK z \in S : \A y \in S : ~ (<<y, z>> \in OpToRel(<, Nat))
    BY <1>1
  <2>2. \A y \in S : ~ (y < z)
    BY <1>2, <2>1
  <2>3. \A y \in S : z <= y
    BY <2>2
  <2> WITNESS z \in S
  <2> QED
    BY <2>3
<1> QED
  BY <1>3 DEF Least

\* What a pop reads and where it leaves the search.
LEMMA PopTypes ==
  ASSUME TypeOK, Short, NEW k \in 1..Len(stream) - pos, k <= PopBuf, Pop(k)
  PROVE  TypeOK' /\ Short'
<1> DEFINE b == Filled(k)
           r == Returned(k)
           m == Matches(b, r)
<1>1. /\ b \in [0..PopBuf-1 -> Byte] /\ k \in Nat /\ pos + k \in 0..Len(stream)
      /\ r \in 0..CountMod-1
  BY FilledType
<1>2. bufferBytes' = b /\ n' = r /\ base' = pos /\ pos' = pos + k
      /\ cntr' = (IF m # {} THEN Least(m) ELSE Scanned(r))
      /\ phase' \in {"pop", "packet", "ack"}
  BY DEF Pop
<1>3. cntr \in Nat /\ cntr < CountMod /\ CountMod \in Nat
  BY Consts DEF TypeOK
<1> HIDE DEF b, r
<1>4. cntr' \in 0..CountMod-1
  <2>1. CASE m # {}
    <3>1. m \in SUBSET (cntr..r-3)
      BY DEF Matches
    <3>2. m \in SUBSET Nat /\ \A x \in m : x <= r - 3
      BY <1>1, <1>3, <3>1
    <3> HIDE DEF m
    <3>3. Least(m) \in m
      BY <2>1, <3>2, LeastMatch
    <3>4. Least(m) \in Nat /\ Least(m) <= r - 3
      BY <3>2, <3>3
    <3>5. cntr' = Least(m)
      BY <1>2, <2>1
    <3> QED
      BY <1>1, <1>3, <3>4, <3>5
  <2>2. CASE m = {}
    BY <1>1, <1>2, <1>3, <2>2 DEF Scanned
  <2> QED
    BY <2>1, <2>2
<1>5. base' \in 0..pos' /\ pos' \in 0..Len(stream')
  BY <1>1, <1>2 DEF TypeOK, Pop, peerVars
<1>6. pops' \in 0..MaxPops /\ aligned' \in BOOLEAN
  BY Consts DEF TypeOK, Pop
<1>7. /\ at' \in 0..n'+4 /\ cksum' \in Byte /\ payload' \in Seq(Byte)
      /\ Len(payload') <= DataSize /\ nth' \in Nat
  BY <1>1, <1>2, Consts DEF Pop, Byte
<1>8. /\ unsent' = unsent /\ sent' = sent /\ stream' = stream /\ ends' = ends
      /\ packets' = packets /\ acks' = acks
  BY DEF Pop, peerVars
<1> QED
  BY <1>1, <1>2, <1>4, <1>5, <1>6, <1>7, <1>8 DEF TypeOK, Short

\* What a deserializer that finds a header reads is inside the buffer.
LEMMA ReadTypes ==
  ASSUME TypeOK, phase # "pop", at <= n
  PROVE  /\ at \in Nat /\ n \in Nat /\ n < CountMod
         /\ \A i \in 0..n+3 : i \in 0..PopBuf-1 /\ bufferBytes[i] \in Byte
BY Consts DEF TypeOK

LEMMA U16AtIs ==
  ASSUME NEW b, NEW c \in Nat, NEW x \in Byte, NEW y \in Byte,
         b[c] = x, b[c + 1] = y
  PROVE  U16At(b, c) = y * 256 + x /\ U16At(b, c) \in U16
BY DEF U16At, U16, Byte

\* The fields a deserializer reads are those of a message.
LEMMA FieldsType ==
  ASSUME TypeOK, phase # "pop", at <= n, at + 12 <= n,
         NEW kind \in {"packet", "ack"}, NEW body \in Seq(Byte),
         IF kind = "packet" THEN Len(body) \in Byte ELSE Len(body) = 3
  PROVE  Fields(bufferBytes, at, kind, body) \in Message
<1>1. /\ at \in Nat /\ n \in Nat
      /\ \A i \in 0..n+3 : bufferBytes[i] \in Byte
  BY ReadTypes
<1>2. \A i \in 4..11 : bufferBytes[at + i] \in Byte
  BY <1>1
<1>3. /\ U16At(bufferBytes, at + 4) \in U16 /\ U16At(bufferBytes, at + 6) \in U16
      /\ U16At(bufferBytes, at + 8) \in U16 /\ U16At(bufferBytes, at + 10) \in U16
  <2>1. ASSUME NEW d \in {4, 6, 8, 10}
        PROVE  U16At(bufferBytes, at + d) \in U16
    <3>1. d \in 4..11 /\ d + 1 \in 4..11
      OBVIOUS
    <3>2. /\ bufferBytes[at + d] \in Byte /\ bufferBytes[at + (d + 1)] \in Byte
          /\ at + d \in Nat /\ at + (d + 1) = (at + d) + 1
      BY <1>1, <1>2, <3>1
    <3> QED
      BY <3>2, U16AtIs
  <2> QED
    BY <2>1
<1> QED
  BY <1>3 DEF Fields, Message

\* What one more message adds to the payload bytes.
LEMMA PayloadTypes ==
  ASSUME TypeOK, phase # "pop", at <= n, PacketIsWhole
  PROVE  LET len == bufferBytes[at + 12]
             p   == payload \o Payload(bufferBytes, at)
         IN /\ len \in Byte /\ len \in Nat /\ at + 13 + len <= n
            /\ Payload(bufferBytes, at) \in Seq(Byte)
            /\ Len(Payload(bufferBytes, at)) = len
            /\ p \in Seq(Byte) /\ Len(p) = Len(payload) + len
            /\ SubSeq(p, 1, len) \in Seq(Byte) /\ Len(SubSeq(p, 1, len)) = len
<1> DEFINE len == bufferBytes[at + 12]
           q == Payload(bufferBytes, at)
           p == payload \o q
<1>1. /\ at \in Nat /\ n \in Nat
      /\ \A i \in 0..n+3 : bufferBytes[i] \in Byte
  BY ReadTypes
<1>2. len \in Byte /\ len \in Nat /\ at + 13 + len <= n
  <2>1. len \in Byte
    BY <1>1 DEF PacketIsWhole
  <2> QED
    BY <1>1, <2>1 DEF PacketIsWhole, PacketLast, Byte
<1>3. q \in Seq(Byte) /\ Len(q) = len
  <2>1. \A i \in 1..len : bufferBytes[at + 12 + i] \in Byte
    BY <1>1, <1>2
  <2>2. q = [i \in 1..len |-> bufferBytes[at + 12 + i]]
    BY DEF Payload
  <2> HIDE DEF q, len
  <2>3. q \in [1..len -> Byte]
    BY <2>1, <2>2
  <2> QED
    BY <1>2, <2>3
<1> HIDE DEF len, q
<1>4. p \in Seq(Byte) /\ Len(p) = Len(payload) + len
  <2>1. payload \in Seq(Byte)
    BY DEF TypeOK
  <2> QED
    BY <1>3, <2>1
<1>5. Len(payload) \in Nat
  BY DEF TypeOK
<1> HIDE DEF p
<1>6. SubSeq(p, 1, len) \in Seq(Byte) /\ Len(SubSeq(p, 1, len)) = len
  BY <1>2, <1>4, <1>5
<1> QED
  BY <1>2, <1>3, <1>4, <1>6 DEF len, q, p

LEMMA PayloadBehind ==
  ASSUME TypeOK, ScanOK, at <= n
  PROVE  /\ Len(payload) \in Nat /\ Len(payload) <= at
         /\ nth # 0 => Len(payload) + 14 <= at
         /\ nth = 0 => Len(payload) = 0
<1>1. at \in Nat /\ Len(payload) \in Nat /\ nth \in Nat
  BY DEF TypeOK
<1>2. CASE nth = 0
  <2>1. payload = <<>>
    BY <1>2 DEF ScanOK
  <2> QED
    BY <1>1, <1>2, <2>1
<1>3. CASE nth # 0
  BY <1>1, <1>3 DEF ScanOK
<1> QED
  BY <1>2, <1>3

LEMMA ReadPacketTypes ==
  ASSUME TypeOK, Short, ScanOK, ReadPacket
  PROVE  TypeOK' /\ ScanOK'
<1> DEFINE len == bufferBytes[at + 12]
           p   == payload \o Payload(bufferBytes, at)
           msg == Fields(bufferBytes, at, "packet", SubSeq(p, 1, len))
<1>1. /\ phase # "pop" /\ at <= n /\ PacketIsWhole
  BY DEF ReadPacket, Reading
<1>2. /\ len \in Byte /\ len \in Nat /\ at + 13 + len <= n
      /\ p \in Seq(Byte) /\ Len(p) = Len(payload) + len
      /\ SubSeq(p, 1, len) \in Seq(Byte) /\ Len(SubSeq(p, 1, len)) = len
  BY <1>1, PayloadTypes
<1>3. at \in Nat /\ n \in Nat /\ n < CountMod /\ nth \in Nat /\ Len(payload) \in Nat
  BY <1>1, ReadTypes DEF TypeOK
<1>4. /\ payload' = p /\ nth' = nth + 1 /\ at' = at + 14 + len /\ n' = n
      /\ cksum' = XorOfBytes(cksum, ReadBack(bufferBytes, len))
      /\ packets' = (IF cksum' # 0 THEN packets
                     ELSE Append(packets, [msg |-> msg, nth |-> nth + 1]))
  <2>1. /\ payload' = p /\ nth' = nth + 1 /\ n' = n
        /\ cksum' = XorOfBytes(cksum, ReadBack(bufferBytes, len))
        /\ packets' = (IF cksum' # 0 THEN packets
                       ELSE Append(packets,
                              [msg |-> Fields(bufferBytes, at, "packet",
                                              SubSeq(payload', 1, len)),
                               nth |-> nth + 1]))
        /\ at' = PacketLast(bufferBytes, at) + 1
    BY DEF ReadPacket, chunkVars
  <2>2. at' = at + 13 + len + 1
    BY <2>1 DEF PacketLast
  <2> HIDE DEF len, p
  <2>3. at' = at + 14 + len
    BY <1>2, <1>3, <2>2
  <2> QED
    BY <2>1, <2>3
<1>5. cksum' \in Byte
  BY <1>4, XorOfBytesBits
<1>6. msg \in Message
  <2>1. at + 12 <= n
    BY <1>2, <1>3
  <2> QED
    BY <1>1, <1>2, <2>1, FieldsType
<1> HIDE DEF len, p, msg
<1>7. packets' \in Seq([msg : Message, nth : Nat])
  <2>1. packets \in Seq([msg : Message, nth : Nat])
    BY DEF TypeOK
  <2>2. [msg |-> msg, nth |-> nth + 1] \in [msg : Message, nth : Nat]
    BY <1>3, <1>6
  <2>3. CASE cksum' # 0
    BY <1>4, <2>1, <2>3
  <2>4. CASE cksum' = 0
    BY <1>4, <2>1, <2>2, <2>4, AppendProperties
  <2> QED
    BY <2>3, <2>4
<1>8. Len(payload) <= at
  BY <1>1, PayloadBehind
<1>9. /\ payload' \in Seq(Byte) /\ Len(payload') <= DataSize
      /\ Len(payload') + 14 <= at'
      /\ nth' \in Nat /\ nth' # 0 /\ at' \in 0..n'+4
  BY <1>2, <1>3, <1>4, <1>8, Consts
<1>10. /\ unsent' = unsent /\ sent' = sent /\ stream' = stream /\ ends' = ends
       /\ base' = base /\ pos' = pos /\ bufferBytes' = bufferBytes /\ n' = n
       /\ cntr' = cntr /\ pops' = pops /\ aligned' = aligned /\ phase' = phase
       /\ acks' = acks
  BY DEF ReadPacket, peerVars, chunkVars
<1>11. TypeOK'
  BY <1>5, <1>7, <1>9, <1>10 DEF TypeOK
<1> QED
  BY <1>9, <1>11 DEF ScanOK

LEMMA TruncatedPacketTypes ==
  ASSUME TypeOK, ScanOK, TruncatedPacket
  PROVE  TypeOK' /\ ScanOK'
<1> DEFINE q == [i \in 1..n - at - 12 |-> bufferBytes[at + 12 + i]]
<1>1. phase # "pop" /\ at <= n /\ payload' = payload \o q /\ at' = n + 1
  BY DEF TruncatedPacket, Reading
<1>2. /\ at \in Nat /\ n \in Nat /\ n < CountMod
      /\ \A i \in 0..n+3 : bufferBytes[i] \in Byte
  BY <1>1, ReadTypes
<1>3. /\ Len(payload) \in Nat
      /\ nth # 0 => Len(payload) + 14 <= at
      /\ nth = 0 => Len(payload) = 0
  BY <1>1, PayloadBehind
<1>4. \A i \in 1..n - at - 12 : bufferBytes[at + 12 + i] \in Byte
  BY <1>2
<1>5. q \in [1..n - at - 12 -> Byte]
  BY <1>4
<1> HIDE DEF q
<1>6. q \in Seq(Byte) /\ Len(q) = (IF at + 12 <= n THEN n - at - 12 ELSE 0)
  <2>1. CASE at + 12 <= n
    <3>1. n - at - 12 \in Nat
      BY <1>2, <2>1
    <3> QED
      BY <1>5, <2>1, <3>1
  <2>2. CASE ~(at + 12 <= n)
    <3>1. 1..n - at - 12 = 1..0
      BY <1>2, <2>2
    <3>2. q \in [1..0 -> Byte]
      BY <1>5, <3>1
    <3> QED
      BY <2>2, <3>2
  <2> QED
    BY <2>1, <2>2
<1>7. payload' \in Seq(Byte) /\ Len(payload') = Len(payload) + Len(q)
  <2>1. payload \in Seq(Byte)
    BY DEF TypeOK
  <2> QED
    BY <1>1, <1>6, <2>1
<1>8. Len(payload') <= DataSize
  <2>1. CASE at + 12 <= n
    BY <1>2, <1>3, <1>6, <1>7, <2>1, Consts
  <2>2. CASE ~(at + 12 <= n)
    <3>1. at <= n /\ Len(payload') = Len(payload)
      BY <1>1, <1>3, <1>6, <1>7, <2>2
    <3>2. Len(payload) + 14 <= at \/ Len(payload) = 0
      BY <1>3
    <3> QED
      BY <1>2, <1>3, <3>1, <3>2, Consts
  <2> QED
    BY <2>1, <2>2
<1>9. /\ unsent' = unsent /\ sent' = sent /\ stream' = stream /\ ends' = ends
      /\ base' = base /\ pos' = pos /\ bufferBytes' = bufferBytes /\ n' = n
      /\ cntr' = cntr /\ pops' = pops /\ aligned' = aligned /\ phase' = phase
      /\ cksum' = cksum /\ nth' = nth /\ packets' = packets /\ acks' = acks
  BY DEF TruncatedPacket, peerVars, chunkVars
<1>10. at' \in 0..n'+4 /\ ~(at' <= n')
  BY <1>1, <1>2, <1>9
<1>11. TypeOK'
  BY <1>7, <1>8, <1>9, <1>10 DEF TypeOK
<1> QED
  BY <1>10, <1>11 DEF ScanOK

LEMMA ReadAckTypes ==
  ASSUME TypeOK, ScanOK, ReadAck
  PROVE  TypeOK' /\ ScanOK'
<1> DEFINE msg == Fields(bufferBytes, at, "ack", AckBody(bufferBytes, at))
<1>1. /\ phase # "pop" /\ at <= n /\ AckLast(at) <= n
      /\ acks' = Append(acks, msg) /\ at' = AckLast(at) + 1 /\ nth' = nth + 1
  BY DEF ReadAck, Reading
<1>2. /\ at \in Nat /\ n \in Nat
      /\ \A i \in 0..n+3 : bufferBytes[i] \in Byte
  BY <1>1, ReadTypes
<1>3. at + 15 <= n /\ at + 12 <= n /\ at' = at + 16
  BY <1>1, <1>2 DEF AckLast
<1>4. AckBody(bufferBytes, at) \in Seq(Byte) /\ Len(AckBody(bufferBytes, at)) = 3
  <2>1. /\ bufferBytes[at + 12] \in Byte /\ bufferBytes[at + 13] \in Byte
        /\ bufferBytes[at + 14] \in Byte
    BY <1>2, <1>3
  <2> QED
    BY <2>1 DEF AckBody
<1>5. msg \in Message
  BY <1>1, <1>3, <1>4, FieldsType
<1> HIDE DEF msg
<1>6. acks' \in Seq(Message)
  <2>1. acks \in Seq(Message)
    BY DEF TypeOK
  <2> QED
    BY <1>1, <1>5, <2>1
<1>7. Len(payload) \in Nat /\ Len(payload) <= at
  BY <1>1, PayloadBehind
<1>8. /\ unsent' = unsent /\ sent' = sent /\ stream' = stream /\ ends' = ends
      /\ base' = base /\ pos' = pos /\ bufferBytes' = bufferBytes /\ n' = n
      /\ cntr' = cntr /\ pops' = pops /\ aligned' = aligned /\ phase' = phase
      /\ cksum' = cksum /\ payload' = payload /\ packets' = packets
  BY DEF ReadAck, peerVars, chunkVars
<1>9. nth \in Nat /\ nth' \in Nat /\ nth' # 0
  BY <1>1 DEF TypeOK
<1>10. at' \in 0..n'+4 /\ Len(payload') + 14 <= at'
  BY <1>2, <1>3, <1>7, <1>8
<1>11. TypeOK'
  BY <1>6, <1>8, <1>9, <1>10 DEF TypeOK
<1> QED
  BY <1>9, <1>10, <1>11 DEF ScanOK

\* The steps that only move on in the chunk.
LEMMA MoveOnTypes ==
  ASSUME TypeOK, ScanOK, SkipFour \/ Finish \/ TruncatedAck
  PROVE  TypeOK' /\ ScanOK'
<1>1. /\ unsent' = unsent /\ sent' = sent /\ stream' = stream /\ ends' = ends
      /\ base' = base /\ pos' = pos /\ bufferBytes' = bufferBytes /\ n' = n
      /\ cntr' = cntr /\ pops' = pops /\ aligned' = aligned
      /\ cksum' = cksum /\ payload' = payload /\ nth' = nth
      /\ packets' = packets /\ acks' = acks
  BY DEF SkipFour, Finish, TruncatedAck, peerVars, chunkVars
<1>2. at \in Nat /\ n \in Nat /\ at <= n + 4
  BY DEF TypeOK
<1>3. /\ phase' \in {"pop", "packet", "ack"}
      /\ \/ at' = at /\ at > n
         \/ at' = at + 4 /\ at <= n
         \/ at' = n + 1
  BY DEF SkipFour, Finish, TruncatedAck, TypeOK
<1>4. at' \in 0..n'+4
  BY <1>1, <1>2, <1>3
<1>5. TypeOK'
  BY <1>1, <1>3, <1>4 DEF TypeOK
<1>6. ScanOK'
  <2> SUFFICES ASSUME at' <= n'
               PROVE  IF nth = 0 THEN payload = <<>> /\ cksum = 0
                                 ELSE Len(payload) + 14 <= at'
    BY <1>1 DEF ScanOK
  <2>1. at <= n /\ at <= at' /\ at' \in Nat
    BY <1>1, <1>2, <1>3
  <2>2. CASE nth = 0
    BY <2>1, <2>2 DEF ScanOK
  <2>3. CASE nth # 0
    <3>1. Len(payload) \in Nat /\ Len(payload) + 14 <= at
      BY <2>1, <2>3, PayloadBehind
    <3> QED
      BY <1>2, <2>1, <2>3, <3>1
  <2> QED
    BY <2>2, <2>3
<1> QED
  BY <1>5, <1>6

\* Every step of the processor keeps the types and the scan.
LEMMA TypesStep ==
  ASSUME TypeOK, Short, ScanOK, [Next]_vars
  PROVE  TypeOK' /\ Short' /\ ScanOK'
<1>1. CASE Send
  <2>1. TypeOK' /\ Short'
    BY <1>1, SendTypes
  <2> QED
    BY <1>1, <2>1 DEF ScanOK, Send, chunkVars
<1>2. CASE Popping
  <2>1. PICK k \in 1..Len(stream) - pos : k <= PopBuf /\ Pop(k)
    BY <1>2 DEF Popping
  <2>2. TypeOK' /\ Short'
    BY <2>1, PopTypes
  <2>3. nth' = 0 /\ payload' = <<>> /\ cksum' = 0
    BY <2>1 DEF Pop
  <2> QED
    BY <2>2, <2>3 DEF ScanOK
<1>3. CASE ReadPacket
  BY <1>3, ReadPacketTypes DEF Short, ReadPacket, peerVars
<1>4. CASE TruncatedPacket
  BY <1>4, TruncatedPacketTypes DEF Short, TruncatedPacket, peerVars
<1>5. CASE ReadAck
  BY <1>5, ReadAckTypes DEF Short, ReadAck, peerVars
<1>6. CASE SkipFour \/ Finish \/ TruncatedAck
  BY <1>6, MoveOnTypes DEF Short, SkipFour, Finish, TruncatedAck, peerVars
<1>7. CASE UNCHANGED vars
  BY <1>7 DEF TypeOK, Short, ScanOK, vars, peerVars, chunkVars
<1> QED
  BY <1>1, <1>2, <1>3, <1>4, <1>5, <1>6, <1>7 DEF Next

-----------------------------------------------------------------------------
\* Messages lie in the stream one behind the other.
LEMMA Places ==
  ASSUME TypeOK, StreamOK
  PROVE  /\ Len(sent) \in Nat /\ Len(stream) \in Nat
         /\ \A i \in 1..Len(sent) :
              /\ sent[i] \in Message /\ Size(sent[i]) \in Nat /\ Size(sent[i]) >= 14
              /\ Start(i) \in Nat /\ ends[i] \in Nat
              /\ ends[i] = Start(i) + Size(sent[i]) /\ ends[i] <= Len(stream)
         /\ \A i, j \in 1..Len(sent) : i < j => Start(i) < Start(j)
         /\ \A i, j \in 1..Len(sent) : Start(i) < Start(j) => i < j
         /\ \A i, j \in 1..Len(sent) : Start(i) = Start(j) => i = j
<1>1. /\ sent \in Seq(Message) /\ Len(sent) \in Nat /\ Len(stream) \in Nat
      /\ ends \in Seq(0..Len(stream)) /\ Len(ends) = Len(sent)
  BY DEF TypeOK
<1>2. ASSUME NEW i \in 1..Len(sent)
      PROVE  /\ sent[i] \in Message /\ Size(sent[i]) \in Nat /\ Size(sent[i]) >= 14
             /\ Start(i) \in Nat /\ ends[i] \in Nat
             /\ ends[i] = Start(i) + Size(sent[i]) /\ ends[i] <= Len(stream)
  <2>1. sent[i] \in Message /\ ends[i] \in 0..Len(stream)
    BY <1>1
  <2>2. Start(i) \in Nat /\ ends[i] = Start(i) + Size(sent[i])
    BY DEF StreamOK
  <2> QED
    BY <1>1, <2>1, <2>2, MessageParts
<1>3. ASSUME NEW i \in 1..Len(sent), NEW j \in 1..Len(sent), i < j
      PROVE  Start(i) < Start(j)
  <2>1. ends[i] <= Start(j)
    BY <1>3 DEF StreamOK
  <2> QED
    BY <1>2, <2>1
<1>4. ASSUME NEW i \in 1..Len(sent), NEW j \in 1..Len(sent), ~(i < j)
      PROVE  i = j \/ Start(j) < Start(i)
  <2>1. i = j \/ j < i
    BY <1>1, <1>4
  <2> QED
    BY <1>3, <2>1
<1>5. \A i, j \in 1..Len(sent) : Start(i) < Start(j) => i < j
  BY <1>2, <1>4
<1>6. \A i, j \in 1..Len(sent) : Start(i) = Start(j) => i = j
  BY <1>2, <1>3, <1>4
<1> QED
  BY <1>1, <1>2, <1>3, <1>5, <1>6

\* The peer's next message goes to the end of the stream.
LEMMA SendPlaces ==
  ASSUME TypeOK, StreamOK, Send
  PROVE  /\ Len(sent') = Len(sent) + 1
         /\ \A i \in 1..Len(sent) : sent'[i] = sent[i] /\ ends'[i] = ends[i]
         /\ \A i \in 1..Len(sent)+1 : Start(i)' = Start(i)
         /\ \A i \in 1..Len(stream) : stream'[i] = stream[i]
<1> DEFINE m == Head(unsent)
<1>1. /\ sent \in Seq(Message) /\ stream \in Seq(Byte)
      /\ ends \in Seq(0..Len(stream)) /\ Len(ends) = Len(sent) /\ Len(sent) \in Nat
  BY DEF TypeOK
<1>2. /\ sent' = Append(sent, m) /\ stream' = stream \o Wire(m)
      /\ ends' = Append(ends, Len(stream) + Size(m)) /\ m \in Message
  <2>1. unsent # <<>> /\ unsent \in Seq(Message)
    BY DEF TypeOK, Send
  <2>2. m \in Message
    BY <2>1
  <2> QED
    BY <2>2 DEF Send
<1> HIDE DEF m
<1>3. /\ Len(sent') = Len(sent) + 1
      /\ \A i \in 1..Len(sent) : sent'[i] = sent[i]
      /\ \A i \in 1..Len(sent) : ends'[i] = ends[i]
  BY <1>1, <1>2
<1>4. ASSUME NEW i \in 1..Len(sent)+1
      PROVE  Start(i)' = Start(i)
  <2>1. CASE i = 1
    BY <2>1 DEF Start
  <2>2. CASE i # 1
    <3>1. i - 1 \in 1..Len(sent)
      BY <1>1, <2>2
    <3>2. ends'[i - 1] = ends[i - 1]
      BY <1>3, <3>1
    <3> QED
      BY <2>2, <3>2 DEF Start
  <2> QED
    BY <2>1, <2>2
<1>5. \A i \in 1..Len(stream) : stream'[i] = stream[i]
  <2> DEFINE w == Wire(m)
  <2>1. w \in Seq(Byte)
    BY <1>2, WireBytes
  <2> HIDE DEF w
  <2>2. \A i \in 1..Len(stream) : (stream \o w)[i] = stream[i]
    BY <1>1, <2>1
  <2> QED
    BY <1>2, <2>2 DEF w
<1> QED
  BY <1>3, <1>4, <1>5

LEMMA SendStream ==
  ASSUME TypeOK, StreamOK, Send
  PROVE  StreamOK'
<1> SUFFICES ASSUME NEW l \in Nat, l = Len(sent) + 1
             PROVE  StreamOK'
  BY DEF TypeOK
<1> DEFINE m == Head(unsent)
<1>1. /\ sent \in Seq(Message) /\ stream \in Seq(Byte) /\ Len(stream) \in Nat
      /\ ends \in Seq(0..Len(stream)) /\ Len(ends) = Len(sent) /\ Len(sent) \in Nat
      /\ l = Len(sent) + 1
  BY DEF TypeOK
<1>2. /\ sent' = Append(sent, m) /\ stream' = stream \o Wire(m)
      /\ ends' = Append(ends, Len(stream) + Size(m)) /\ m \in Message
  <2>1. unsent # <<>> /\ unsent \in Seq(Message)
    BY DEF TypeOK, Send
  <2>2. m \in Message
    BY <2>1
  <2> QED
    BY <2>2 DEF Send
<1> HIDE DEF m
<1>3. /\ Len(sent') = l
      /\ \A i \in 1..Len(sent) : sent'[i] = sent[i] /\ ends'[i] = ends[i]
      /\ \A i \in 1..l : Start(i)' = Start(i)
      /\ \A i \in 1..Len(stream) : stream'[i] = stream[i]
  BY SendPlaces
<1>4. sent'[l] = m /\ ends'[l] = Len(stream) + Size(m) /\ l \in Nat /\ l > 0
  BY <1>1, <1>2
<1>5. /\ Size(m) \in Nat /\ Size(m) >= 14 /\ Len(stream') = Len(stream) + Size(m)
      /\ \A o \in 1..Size(m) : stream'[Len(stream) + o] = Wire(m)[o]
  <2> DEFINE w == Wire(m)
  <2>1. w \in Seq(Byte) /\ Len(w) = Size(m) /\ Size(m) \in Nat /\ Size(m) >= 14
    BY <1>2, WireBytes, MessageParts
  <2> HIDE DEF w
  <2>2. /\ Len(stream \o w) = Len(stream) + Len(w)
        /\ \A o \in 1..Len(w) : (stream \o w)[Len(stream) + o] = w[o]
    <3>1. stream \in Seq(Byte) /\ w \in Seq(Byte)
      BY <1>1, <2>1
    <3> QED
      BY <3>1
  <2> QED
    BY <1>2, <2>1, <2>2 DEF w
<1>6. Start(l) = Len(stream)
  BY <1>1 DEF StreamOK
<1>7. Len(stream') = Start(Len(sent) + 1)'
  <2>1. Len(sent') + 1 # 1 /\ (Len(sent') + 1) - 1 = l
    BY <1>3, <1>4
  <2>2. Start(Len(sent) + 1)' = ends'[l]
    BY <2>1 DEF Start
  <2> QED
    BY <1>4, <1>5, <2>2
<1>8. ASSUME NEW i \in 1..Len(sent')
      PROVE  /\ Start(i)' \in Nat /\ ends'[i] = Start(i)' + Size(sent'[i])
             /\ \A o \in 1..Size(sent'[i]) : stream'[Start(i)' + o] = Wire(sent'[i])[o]
  <2>0. i \in 1..l /\ Start(i)' = Start(i)
    BY <1>3
  <2>1. CASE i = l
    BY <1>1, <1>4, <1>5, <1>6, <2>0, <2>1
  <2>2. CASE i \in 1..Len(sent)
    <3>1. sent'[i] = sent[i] /\ ends'[i] = ends[i]
      BY <1>3, <2>2
    <3>2. /\ Start(i) \in Nat /\ ends[i] = Start(i) + Size(sent[i])
          /\ Size(sent[i]) \in Nat /\ ends[i] <= Len(stream)
      BY <2>2, Places
    <3>3. ASSUME NEW o \in 1..Size(sent[i])
          PROVE  stream'[Start(i) + o] = Wire(sent[i])[o]
      <4>1. Start(i) + o \in 1..Len(stream)
        BY <1>1, <3>2
      <4>2. stream[Start(i) + o] = Wire(sent[i])[o]
        BY <2>2 DEF StreamOK
      <4> QED
        BY <1>3, <4>1, <4>2
    <3> QED
      BY <2>0, <3>1, <3>2, <3>3
  <2>3. i = l \/ i \in 1..Len(sent)
    BY <1>1, <2>0
  <2> QED
    BY <2>1, <2>2, <2>3
<1>9. ASSUME NEW i \in 1..Len(sent'), NEW j \in 1..Len(sent'), i < j
      PROVE  ends'[i] <= Start(j)'
  <2>1. i \in 1..Len(sent) /\ ends'[i] = ends[i] /\ Start(j)' = Start(j)
    <3>1. i \in 1..Len(sent)
      BY <1>1, <1>3, <1>9
    <3> QED
      BY <1>3, <3>1
  <2>2. CASE j = l
    BY <1>6, <2>1, <2>2, Places
  <2>3. CASE j \in 1..Len(sent)
    BY <1>9, <2>1, <2>3 DEF StreamOK
  <2>4. j = l \/ j \in 1..Len(sent)
    BY <1>1, <1>3
  <2> QED
    BY <2>2, <2>3, <2>4
<1>10. ASSUME NEW p \in 1..Len(stream')
       PROVE  \E i \in 1..Len(sent') : Start(i)' < p /\ p <= ends'[i]
  <2>1. CASE p \in 1..Len(stream)
    <3>1. PICK i \in 1..Len(sent) : Start(i) < p /\ p <= ends[i]
      BY <2>1 DEF StreamOK
    <3>2. i \in 1..Len(sent') /\ Start(i)' = Start(i) /\ ends'[i] = ends[i]
      BY <1>1, <1>3
    <3> QED
      BY <3>1, <3>2
  <2>2. CASE Len(stream) < p
    <3>1. l \in 1..Len(sent') /\ Start(l)' = Len(stream)
      BY <1>1, <1>3, <1>4, <1>6
    <3>2. p <= ends'[l]
      BY <1>4, <1>5
    <3> QED
      BY <2>2, <3>1, <3>2
  <2> QED
    BY <1>1, <1>5, <2>1, <2>2
<1> QED
  BY <1>7, <1>8, <1>9, <1>10 DEF StreamOK

LEMMA StreamStep ==
  ASSUME TypeOK, StreamOK, [Next]_vars
  PROVE  StreamOK'
<1>1. CASE Send
  BY <1>1, SendStream
<1>2. CASE peerVars' = peerVars
  BY <1>2 DEF StreamOK, Start, peerVars
<1> QED
  BY <1>1, <1>2 DEF Next, vars, Popping, Pop, SkipFour, Finish, ReadPacket,
                    TruncatedPacket, ReadAck, TruncatedAck

LEMMA BufferStep ==
  ASSUME TypeOK, StreamOK, BufferOK, [Next]_vars
  PROVE  BufferOK'
<1>1. CASE Send
  <2>1. n' = n /\ base' = base /\ pos' = pos /\ bufferBytes' = bufferBytes
    BY <1>1 DEF Send, chunkVars
  <2>2. /\ base \in Nat /\ n \in Nat /\ pos \in Nat /\ Len(stream) \in Nat
        /\ pos <= Len(stream) /\ base + n <= pos
    BY DEF TypeOK, BufferOK
  <2>3. ASSUME NEW i \in 0..n-1
        PROVE  bufferBytes[i] = stream'[base + i + 1]
    <3>1. base + i + 1 \in 1..Len(stream)
      BY <2>2
    <3>2. stream'[base + i + 1] = stream[base + i + 1]
      BY <1>1, <3>1, SendPlaces
    <3> QED
      BY <3>2 DEF BufferOK
  <2> QED
    BY <2>1, <2>2, <2>3 DEF BufferOK
<1>2. CASE Popping
  <2>1. PICK k \in 1..Len(stream) - pos : k <= PopBuf /\ Pop(k)
    BY <1>2 DEF Popping
  <2>2. /\ n' = Returned(k) /\ base' = pos /\ pos' = pos + k
        /\ bufferBytes' = Filled(k) /\ stream' = stream
    BY <2>1 DEF Pop, peerVars
  <2>3. /\ \A i \in 0..k-1 : Filled(k)[i] = stream[pos + i + 1]
        /\ k \in Nat /\ Returned(k) \in 0..CountMod-1 /\ Returned(k) <= k
    BY <2>1, FilledType
  <2>4. CountMod \in Nat /\ pos \in Nat
    BY Consts DEF TypeOK
  <2> DEFINE r == Returned(k)
  <2> HIDE DEF r
  <2>5. \A i \in 0..r-1 : i \in 0..k-1
    BY <2>3, <2>4 DEF r
  <2>6. base' + n' <= pos'
    BY <2>2, <2>3, <2>4
  <2>7. \A i \in 0..r-1 : Filled(k)[i] = stream[pos + i + 1]
    BY <2>3, <2>5
  <2> QED
    BY <2>2, <2>6, <2>7 DEF BufferOK, r
<1>3. CASE chunkVars' = chunkVars /\ stream' = stream
  BY <1>3 DEF BufferOK, chunkVars
<1> QED
  BY <1>1, <1>2, <1>3 DEF Next, vars, peerVars, SkipFour, Finish, ReadPacket,
                          TruncatedPacket, ReadAck, TruncatedAck

-----------------------------------------------------------------------------
\* Where the buffer holds the header of a message, all of it popped, a message
\* of that kind begins, unless one looks like another inside.  The bytes of a
\* header that straddled two messages would include the first one of the second.
LEMMA MessageAt ==
  ASSUME TypeOK, StreamOK, BufferOK, Unmistakable,
         NEW kind \in {"packet", "ack"}, Found(kind), at + 12 <= n
  PROVE  \E j \in 1..Len(sent) : Start(j) = base + at /\ sent[j].kind = kind
<1>1. /\ at \in Nat /\ n \in Nat /\ base \in Nat /\ pos \in Nat /\ Len(stream) \in Nat
      /\ base + n <= pos /\ pos <= Len(stream) /\ at + 12 <= n
  BY DEF TypeOK, BufferOK
<1>0. PICK p \in Nat : p = base + at + 1
  BY <1>1
<1>2. /\ Header(kind)[1] = 238
      /\ Header(kind)[2] # 238 /\ Header(kind)[3] # 238 /\ Header(kind)[4] # 238
      /\ Header("packet")[4] # Header("ack")[4]
  BY DEF Header, HEADER, ACK_HEADER
<1>3. ASSUME NEW i \in 1..4
      PROVE  stream[p + i - 1] = Header(kind)[i]
  <2>1. at + i - 1 \in 0..n-1 /\ base + (at + i - 1) + 1 = p + i - 1
    BY <1>0, <1>1
  <2>2. bufferBytes[at + i - 1] = Header(kind)[i]
    BY DEF Found, IsHeader
  <2>3. bufferBytes[at + i - 1] = stream[base + (at + i - 1) + 1]
    BY <2>1 DEF BufferOK
  <2> QED
    BY <2>1, <2>2, <2>3
<1>4. PICK j \in 1..Len(sent) : Start(j) < p /\ p <= ends[j]
  <2>1. p \in 1..Len(stream)
    BY <1>0, <1>1
  <2> QED
    BY <2>1 DEF StreamOK
<1>5. /\ sent[j] \in Message /\ Size(sent[j]) \in Nat /\ Size(sent[j]) >= 14
      /\ Start(j) \in Nat /\ ends[j] = Start(j) + Size(sent[j]) /\ ends[j] <= Len(stream)
      /\ \A o \in 1..Size(sent[j]) : stream[Start(j) + o] = Wire(sent[j])[o]
  BY Places DEF StreamOK
<1>11. PICK s \in Nat : s = Start(j)
  BY <1>5
<1>12. PICK z \in Nat : z = Size(sent[j])
  BY <1>5
<1>13. PICK c \in Nat : p = s + c
  <2>1. s < p
    BY <1>4, <1>11
  <2>2. p - s \in Nat /\ p = s + (p - s)
    BY <2>1
  <2> QED
    BY <2>2
<1>14. PICK l \in Nat : l = Len(stream)
  BY <1>1
<1> DEFINE w == Wire(sent[j])
<1>6. /\ c >= 1 /\ c <= z /\ z >= 14 /\ s + z <= l /\ ends[j] = s + z
      /\ \A o \in 1..z : stream[s + o] = w[o]
  <2>1. ends[j] = s + z /\ z >= 14 /\ s + z <= l
    BY <1>5, <1>11, <1>12, <1>14
  <2>2. s < p /\ p <= s + z
    BY <1>4, <1>11, <2>1
  <2>3. c >= 1 /\ c <= z
    BY <1>13, <2>2
  <2> QED
    BY <1>5, <1>11, <1>12, <2>1, <2>3
<1>7. Len(w) = z
  BY <1>5, <1>12, WireBytes
<1>8. CASE c = 1
  <2>1. Start(j) = base + at
    BY <1>0, <1>1, <1>8, <1>11, <1>13
  <2>2. w[4] = Header(kind)[4]
    <3>1. stream[p + 4 - 1] = Header(kind)[4]
      BY <1>3
    <3>2. p + 4 - 1 = s + 4 /\ 4 \in 1..z
      BY <1>6, <1>8, <1>13
    <3>3. stream[s + 4] = w[4]
      BY <1>6, <3>2
    <3> QED
      BY <3>1, <3>2, <3>3
  <2>3. w[4] = Header(sent[j].kind)[4]
    BY <1>5, WireHeader
  <2>4. sent[j].kind \in {"packet", "ack"}
    BY <1>5, MessageParts
  <2>5. sent[j].kind = kind
    <3>1. \A x, y \in {"packet", "ack"} : Header(x)[4] = Header(y)[4] => x = y
      BY <1>2
    <3> QED
      BY <2>2, <2>3, <2>4, <3>1
  <2> QED
    BY <2>1, <2>5
<1>9. CASE c >= 2 /\ c + 3 <= z
  <2>1. ASSUME NEW i \in 1..4
        PROVE  w[c + i - 1] = Header(kind)[i]
    <3>1. c + i - 1 \in 1..z /\ s + (c + i - 1) = p + i - 1
      BY <1>9, <1>13
    <3>2. stream[s + (c + i - 1)] = w[c + i - 1]
      BY <1>6, <3>1
    <3> QED
      BY <1>3, <3>1, <3>2
  <2>2. c \in 2..Len(w)-3
    BY <1>7, <1>9
  <2>3. HeaderInside(w)
    BY <2>1, <2>2 DEF HeaderInside, IsHeader
  <2>4. j \in DOMAIN sent
    BY DEF TypeOK
  <2> QED
    BY <2>3, <2>4 DEF Unmistakable
<1>10. CASE c >= 2 /\ c + 3 > z
  <2>8. PICK q \in Nat : q = s + z + 1
    OBVIOUS
  <2>9. PICK d \in 1..3 : d = z - c + 1
    BY <1>6, <1>10
  <2>1. q = p + d /\ q \in 1..l
    <3>1. q = p + d
      BY <1>13, <2>8, <2>9
    <3>2. p + d <= l
      BY <1>0, <1>1, <1>14
    <3> QED
      BY <3>1, <3>2
  <2>2. stream[q] # 238
    <3>1. d + 1 \in 1..4 /\ p + (d + 1) - 1 = q
      BY <2>1
    <3>2. stream[p + (d + 1) - 1] = Header(kind)[d + 1]
      BY <1>3, <3>1
    <3>3. d + 1 = 2 \/ d + 1 = 3 \/ d + 1 = 4
      OBVIOUS
    <3>4. Header(kind)[d + 1] # 238
      BY <1>2, <3>3
    <3> QED
      BY <3>1, <3>2, <3>4
  <2>3. PICK i \in 1..Len(sent) : Start(i) < q /\ q <= ends[i]
    BY <1>14, <2>1 DEF StreamOK
  <2>4. /\ sent[i] \in Message /\ Size(sent[i]) \in Nat /\ Size(sent[i]) >= 14
        /\ Start(i) \in Nat /\ ends[i] \in Nat
    BY Places
  <2>5. j < i
    <3>1. CASE i = j
      <4>1. q <= s + z
        BY <1>6, <2>3, <3>1
      <4> QED
        BY <2>8, <4>1
    <3>2. CASE i < j
      <4>1. ends[i] <= s
        BY <1>11, <3>2 DEF StreamOK
      <4> QED
        BY <2>3, <2>4, <2>8, <4>1
    <3> QED
      BY <3>1, <3>2
  <2>6. Start(i) = s + z
    <3>1. s + z <= Start(i)
      BY <1>6, <2>5 DEF StreamOK
    <3> QED
      BY <2>3, <2>4, <2>8, <3>1
  <2>7. stream[q] = Wire(sent[i])[1]
    <3>1. 1 \in 1..Size(sent[i])
      BY <2>4
    <3>2. stream[Start(i) + 1] = Wire(sent[i])[1]
      BY <3>1 DEF StreamOK
    <3> QED
      BY <2>6, <2>8, <3>2
  <2> QED
    BY <2>2, <2>4, <2>7, WireHeader
<1> QED
  BY <1>6, <1>8, <1>9, <1>10

\* The two-byte fields of a message on the wire.
LEMMA WireFields ==
  ASSUME NEW m \in Message
  PROVE  /\ Wire(m)[5] = Lo(m.id) /\ Wire(m)[6] = Hi(m.id)
         /\ Wire(m)[7] = Lo(m.dest) /\ Wire(m)[8] = Hi(m.dest)
         /\ Wire(m)[9] = Lo(m.src) /\ Wire(m)[10] = Hi(m.src)
         /\ Wire(m)[11] = Lo(m.msgID) /\ Wire(m)[12] = Hi(m.msgID)
         /\ m.kind = "packet" => /\ Wire(m)[13] = Len(m.body)
                                 /\ \A i \in 1..Len(m.body) :
                                      Wire(m)[13 + i] = m.body[i]
         /\ m.kind = "ack" => \A i \in 1..3 : Wire(m)[12 + i] = m.body[i]
<1>1. /\ Size(m) \in Nat /\ Size(m) >= 14 /\ Len(m.body) \in Nat
      /\ m.kind = "packet" => Size(m) = 14 + Len(m.body)
      /\ m.kind = "ack" => Size(m) = 16
  BY MessageParts DEF Byte
<1>2. \A i \in 1..Size(m)-1 : Wire(m)[i] = Unsealed(m)[i]
  BY WireBytes
<1>3. \A i \in 1..12 : Wire(m)[i] = Fixed(m)[i]
  <2> TAKE i \in 1..12
  <2>1. i \in 1..Size(m)-1
    BY <1>1
  <2>2. Unsealed(m)[i] = Fixed(m)[i]
    BY UnsealedBytes
  <2> QED
    BY <1>2, <2>1, <2>2
<1>4. /\ Fixed(m)[5] = Lo(m.id) /\ Fixed(m)[6] = Hi(m.id)
      /\ Fixed(m)[7] = Lo(m.dest) /\ Fixed(m)[8] = Hi(m.dest)
      /\ Fixed(m)[9] = Lo(m.src) /\ Fixed(m)[10] = Hi(m.src)
      /\ Fixed(m)[11] = Lo(m.msgID) /\ Fixed(m)[12] = Hi(m.msgID)
  BY DEF Fixed
<1>5. ASSUME m.kind = "packet"
      PROVE  /\ Wire(m)[13] = Len(m.body)
             /\ \A i \in 1..Len(m.body) : Wire(m)[13 + i] = m.body[i]
  <2>1. 13 \in 1..Size(m)-1 /\ \A i \in 1..Len(m.body) : 13 + i \in 1..Size(m)-1
    BY <1>1, <1>5
  <2>2. /\ Unsealed(m)[13] = Len(m.body)
        /\ \A i \in 1..Len(m.body) : Unsealed(m)[13 + i] = m.body[i]
    BY <1>5, UnsealedBytes
  <2> QED
    BY <1>2, <2>1, <2>2
<1>6. ASSUME m.kind = "ack"
      PROVE  \A i \in 1..3 : Wire(m)[12 + i] = m.body[i]
  <2>1. \A i \in 1..3 : 12 + i \in 1..Size(m)-1
    BY <1>1, <1>6
  <2>2. \A i \in 1..3 : Unsealed(m)[12 + i] = m.body[i]
    BY <1>6, UnsealedBytes
  <2> QED
    BY <1>2, <2>1, <2>2
<1> QED
  BY <1>3, <1>4, <1>5, <1>6

\* Where a message lies in the buffer, the buffer holds its bytes.
LEMMA BytesAt ==
  ASSUME TypeOK, StreamOK, BufferOK,
         NEW j \in 1..Len(sent), Start(j) = base + at
  PROVE  \A o \in 1..Size(sent[j]) :
           at + o <= n => bufferBytes[at + o - 1] = Wire(sent[j])[o]
<1> TAKE o \in 1..Size(sent[j])
<1> HAVE at + o <= n
<1>1. /\ at \in Nat /\ n \in Nat /\ base \in Nat /\ Size(sent[j]) \in Nat
      /\ at + o <= n
  BY Places DEF TypeOK
<1>2. at + o - 1 \in 0..n-1 /\ base + (at + o - 1) + 1 = (base + at) + o
  BY <1>1
<1>3. bufferBytes[at + o - 1] = stream[base + (at + o - 1) + 1]
  BY <1>2 DEF BufferOK
<1>4. stream[Start(j) + o] = Wire(sent[j])[o]
  BY DEF StreamOK
<1> QED
  BY <1>2, <1>3, <1>4

\* Its fields are read as they were sent.
LEMMA FieldsAt ==
  ASSUME TypeOK, StreamOK, BufferOK,
         NEW j \in 1..Len(sent), Start(j) = base + at, at + 12 <= n,
         NEW kind, NEW body
  PROVE  Fields(bufferBytes, at, kind, body)
           = [kind |-> kind, id |-> sent[j].id, dest |-> sent[j].dest,
              src |-> sent[j].src, msgID |-> sent[j].msgID, body |-> body]
<1> DEFINE m == sent[j]
<1>1. /\ m \in Message /\ Size(m) \in Nat /\ Size(m) >= 14 /\ at \in Nat /\ n \in Nat
      /\ at + 12 <= n
  BY Places DEF TypeOK
<1>2. \A o \in 1..12 : bufferBytes[at + o - 1] = Wire(m)[o]
  <2>1. \A o \in 1..12 : o \in 1..Size(m) /\ at + o <= n
    BY <1>1
  <2> QED
    BY <2>1, BytesAt
<1>3. m.id \in U16 /\ m.dest \in U16 /\ m.src \in U16 /\ m.msgID \in U16
  BY <1>1, MessageParts
<1> HIDE DEF m
<1>4. ASSUME NEW d \in {4, 6, 8, 10}, NEW x \in U16,
             Wire(m)[d + 1] = Lo(x), Wire(m)[d + 2] = Hi(x)
      PROVE  U16At(bufferBytes, at + d) = x
  <2>1. d + 1 \in 1..12 /\ d + 2 \in 1..12
    OBVIOUS
  <2>2. bufferBytes[at + (d + 1) - 1] = Lo(x) /\ bufferBytes[at + (d + 2) - 1] = Hi(x)
    BY <1>2, <1>4, <2>1
  <2>3. /\ at + d \in Nat /\ at + (d + 1) - 1 = at + d
        /\ at + (d + 2) - 1 = (at + d) + 1
    BY <1>1
  <2>4. Lo(x) \in Byte /\ Hi(x) \in Byte /\ Hi(x) * 256 + Lo(x) = x
    BY HalvesOfU16
  <2> QED
    BY <2>2, <2>3, <2>4, U16AtIs
<1>5. /\ U16At(bufferBytes, at + 4) = m.id /\ U16At(bufferBytes, at + 6) = m.dest
      /\ U16At(bufferBytes, at + 8) = m.src /\ U16At(bufferBytes, at + 10) = m.msgID
  <2>1. /\ Wire(m)[4 + 1] = Lo(m.id) /\ Wire(m)[4 + 2] = Hi(m.id)
        /\ Wire(m)[6 + 1] = Lo(m.dest) /\ Wire(m)[6 + 2] = Hi(m.dest)
        /\ Wire(m)[8 + 1] = Lo(m.src) /\ Wire(m)[8 + 2] = Hi(m.src)
        /\ Wire(m)[10 + 1] = Lo(m.msgID) /\ Wire(m)[10 + 2] = Hi(m.msgID)
    <3>1. /\ 4 + 1 = 5 /\ 4 + 2 = 6 /\ 6 + 1 = 7 /\ 6 + 2 = 8
          /\ 8 + 1 = 9 /\ 8 + 2 = 10 /\ 10 + 1 = 11 /\ 10 + 2 = 12
      OBVIOUS
    <3>2. /\ Wire(m)[5] = Lo(m.id) /\ Wire(m)[6] = Hi(m.id)
          /\ Wire(m)[7] = Lo(m.dest) /\ Wire(m)[8] = Hi(m.dest)
          /\ Wire(m)[9] = Lo(m.src) /\ Wire(m)[10] = Hi(m.src)
          /\ Wire(m)[11] = Lo(m.msgID) /\ Wire(m)[12] = Hi(m.msgID)
      BY <1>1, WireFields
    <3> QED
      BY <3>1, <3>2
  <2>2. U16At(bufferBytes, at + 4) = m.id
    BY <1>3, <1>4, <2>1
  <2>3. U16At(bufferBytes, at + 6) = m.dest
    BY <1>3, <1>4, <2>1
  <2>4. U16At(bufferBytes, at + 8) = m.src
    BY <1>3, <1>4, <2>1
  <2>5. U16At(bufferBytes, at + 10) = m.msgID
    BY <1>3, <1>4, <2>1
  <2> QED
    BY <2>2, <2>3, <2>4, <2>5
<1> QED
  BY <1>5 DEF Fields, m

LEMMA MessageIs ==
  ASSUME NEW m \in Message
  PROVE  m = [kind |-> m.kind, id |-> m.id, dest |-> m.dest, src |-> m.src,
              msgID |-> m.msgID, body |-> m.body]
<1>1. m \in [kind : {"packet", "ack"}, id : U16, dest : U16, src : U16,
             msgID : U16, body : Seq(Byte)]
  BY DEF Message
<1> QED
  BY <1>1

\* An ack is read as it was sent.
LEMMA AckAt ==
  ASSUME TypeOK, StreamOK, BufferOK,
         NEW j \in 1..Len(sent), Start(j) = base + at, sent[j].kind = "ack",
         at + 15 <= n
  PROVE  Fields(bufferBytes, at, "ack", AckBody(bufferBytes, at)) = sent[j]
<1> DEFINE m == sent[j]
<1>1. /\ m \in Message /\ Size(m) = 16 /\ at \in Nat /\ n \in Nat /\ at + 15 <= n
      /\ m.body \in Seq(Byte) /\ Len(m.body) = 3 /\ m.kind = "ack"
  BY Places, MessageParts DEF TypeOK
<1>2. \A o \in 13..15 : bufferBytes[at + o - 1] = Wire(m)[o]
  <2>1. \A o \in 13..15 : o \in 1..Size(m) /\ at + o <= n
    BY <1>1
  <2> QED
    BY <2>1, BytesAt
<1>3. \A i \in 1..3 : Wire(m)[12 + i] = m.body[i]
  BY <1>1, WireFields
<1>4. /\ bufferBytes[at + 12] = m.body[1] /\ bufferBytes[at + 13] = m.body[2]
      /\ bufferBytes[at + 14] = m.body[3]
  <2>1. /\ bufferBytes[at + 13 - 1] = m.body[1] /\ bufferBytes[at + 14 - 1] = m.body[2]
        /\ bufferBytes[at + 15 - 1] = m.body[3]
    BY <1>2, <1>3
  <2>2. at + 13 - 1 = at + 12 /\ at + 14 - 1 = at + 13 /\ at + 15 - 1 = at + 14
    BY <1>1
  <2> QED
    BY <2>1, <2>2
<1>5. AckBody(bufferBytes, at) = m.body
  <2> DEFINE b == m.body
  <2>1. b \in Seq(Byte) /\ Len(b) = 3
    BY <1>1
  <2> HIDE DEF b
  <2>2. b = <<b[1], b[2], b[3]>>
    BY <2>1
  <2> QED
    BY <1>4, <2>2 DEF AckBody, b
<1>6. at + 12 <= n
  BY <1>1
<1>7. Fields(bufferBytes, at, "ack", AckBody(bufferBytes, at))
        = [kind |-> "ack", id |-> m.id, dest |-> m.dest, src |-> m.src,
           msgID |-> m.msgID, body |-> AckBody(bufferBytes, at)]
  BY <1>6, FieldsAt
<1> QED
  BY <1>1, <1>5, <1>7, MessageIs

LEMMA HeadlessIs ==
  ASSUME NEW m \in Message
  PROVE  Headless(m) = [kind |-> m.kind, id |-> m.id, dest |-> m.dest,
                        src |-> m.src, msgID |-> m.msgID, body |-> Len(m.body)]
<1>1. m \in [kind : {"packet", "ack"}, id : U16, dest : U16, src : U16,
             msgID : U16, body : Seq(Byte)]
  BY DEF Message
<1> QED
  BY <1>1 DEF Headless

\* A packet is read as it was sent, but for its payload if it is not the first
\* one of its chunk.
LEMMA PacketAt ==
  ASSUME TypeOK, ScanOK, StreamOK, BufferOK, phase # "pop", at <= n, PacketIsWhole,
         NEW j \in 1..Len(sent), Start(j) = base + at, sent[j].kind = "packet"
  PROVE  LET len == bufferBytes[at + 12]
             p   == payload \o Payload(bufferBytes, at)
             msg == Fields(bufferBytes, at, "packet", SubSeq(p, 1, len))
         IN /\ len = Len(sent[j].body) /\ Payload(bufferBytes, at) = sent[j].body
            /\ Headless(msg) = Headless(sent[j])
            /\ nth = 0 => msg = sent[j]
<1> DEFINE m == sent[j]
           len == bufferBytes[at + 12]
           q == Payload(bufferBytes, at)
           p == payload \o q
           msg == Fields(bufferBytes, at, "packet", SubSeq(p, 1, len))
<1>1. /\ m \in Message /\ Size(m) \in Nat /\ at \in Nat /\ n \in Nat
      /\ m.body \in Seq(Byte) /\ m.kind = "packet"
      /\ Len(m.body) \in Nat /\ Size(m) = 14 + Len(m.body)
  <2>1. m \in Message /\ at \in Nat /\ n \in Nat
    BY Places DEF TypeOK
  <2>2. Len(m.body) \in Byte
    BY <2>1, MessageParts
  <2>3. Len(m.body) \in Nat
    BY <2>2 DEF Byte
  <2> QED
    BY <2>1, <2>3, MessageParts
<1>2. /\ len \in Nat /\ at + 13 + len <= n
      /\ q \in Seq(Byte) /\ Len(q) = len
      /\ p \in Seq(Byte) /\ Len(p) = Len(payload) + len
      /\ SubSeq(p, 1, len) \in Seq(Byte) /\ Len(SubSeq(p, 1, len)) = len
  BY PayloadTypes
<1>3. len = Len(m.body)
  <2>1. 13 \in 1..Size(m) /\ at + 13 <= n /\ at + 13 - 1 = at + 12
    BY <1>1, <1>2
  <2>2. bufferBytes[at + 13 - 1] = Wire(m)[13]
    BY <2>1, BytesAt
  <2>3. Wire(m)[13] = Len(m.body)
    BY <1>1, WireFields
  <2> QED
    BY <2>1, <2>2, <2>3
<1>4. q = m.body
  <2>1. ASSUME NEW i \in 1..len
        PROVE  q[i] = m.body[i]
    <3>1. PICK o \in 1..Size(m) : o = 13 + i
      BY <1>1, <1>2, <1>3
    <3>2. at + o <= n /\ at + o - 1 = at + 12 + i
      BY <1>1, <1>2, <3>1
    <3>3. bufferBytes[at + o - 1] = Wire(m)[o]
      BY <3>2, BytesAt
    <3>4. Wire(m)[13 + i] = m.body[i]
      BY <1>1, <1>3, WireFields
    <3>5. q[i] = bufferBytes[at + 12 + i]
      BY DEF Payload
    <3> QED
      BY <3>1, <3>2, <3>3, <3>4, <3>5
  <2> DEFINE b == m.body
  <2>2. b \in Seq(Byte) /\ Len(b) = len /\ \A i \in 1..len : q[i] = b[i]
    BY <1>1, <1>3, <2>1
  <2> HIDE DEF q, b, len
  <2>3. q = b
    BY <1>2, <2>2
  <2> QED
    BY <2>3 DEF b
<1>5. at + 12 <= n
  BY <1>1, <1>2
<1>6. msg = [kind |-> "packet", id |-> m.id, dest |-> m.dest, src |-> m.src,
             msgID |-> m.msgID, body |-> SubSeq(p, 1, len)]
  BY <1>5, FieldsAt
<1>7. msg \in Message
  <2>1. len \in Byte
    BY <1>1, <1>3, MessageParts
  <2> QED
    BY <1>2, <1>5, <2>1, FieldsType
<1> HIDE DEF p, len, msg, q, m
<1>8. Headless(msg) = Headless(m)
  <2>1. /\ msg.kind = "packet" /\ msg.id = m.id /\ msg.dest = m.dest
        /\ msg.src = m.src /\ msg.msgID = m.msgID /\ Len(msg.body) = len
    BY <1>2, <1>6
  <2> QED
    BY <1>1, <1>3, <1>7, <2>1, HeadlessIs
<1>9. ASSUME nth = 0
      PROVE  msg = m
  <2>1. payload = <<>>
    BY <1>9 DEF ScanOK
  <2>2. p = q
    BY <1>2, <2>1 DEF p
  <2>3. SubSeq(p, 1, len) = q
    BY <1>2, <2>2
  <2> QED
    BY <1>1, <1>4, <1>6, <2>3, MessageIs
<1> QED
  BY <1>3, <1>4, <1>8, <1>9 DEF p, len, msg, q, m

-----------------------------------------------------------------------------
\* What a step leaves alone of the messages sent.
LEMMA SentStays ==
  ASSUME TypeOK, StreamOK, [Next]_vars
  PROVE  /\ Len(sent) \in Nat /\ Len(sent') \in Nat /\ Len(sent) <= Len(sent')
         /\ \A i \in 1..Len(sent) : /\ i \in 1..Len(sent')
                                    /\ sent'[i] = sent[i] /\ Start(i)' = Start(i)
<1>1. Len(sent) \in Nat
  BY DEF TypeOK
<1>2. CASE Send
  <2>1. /\ Len(sent') = Len(sent) + 1
        /\ \A i \in 1..Len(sent) : sent'[i] = sent[i]
        /\ \A i \in 1..Len(sent)+1 : Start(i)' = Start(i)
    BY <1>2, SendPlaces
  <2>2. \A i \in 1..Len(sent) : i \in 1..Len(sent) + 1
    BY <1>1
  <2> QED
    BY <1>1, <2>1, <2>2
<1>3. CASE peerVars' = peerVars
  BY <1>1, <1>3 DEF peerVars, Start
<1> QED
  BY <1>2, <1>3 DEF Next, vars, Popping, Pop, SkipFour, Finish, ReadPacket,
                    TruncatedPacket, ReadAck, TruncatedAck

\* The deserializer moves on only.
LEMMA MovesOn ==
  ASSUME TypeOK, phase # "pop", at <= n,
         SkipFour \/ ReadPacket \/ TruncatedPacket \/ ReadAck \/ TruncatedAck
  PROVE  /\ at' \in Nat /\ at < at' /\ phase' = phase /\ base' = base /\ pos' = pos
<1>1. at \in Nat /\ n \in Nat
  BY DEF TypeOK
<1>2. phase' = phase /\ base' = base /\ pos' = pos
  BY DEF SkipFour, ReadPacket, TruncatedPacket, ReadAck, TruncatedAck, chunkVars
<1>3. CASE SkipFour
  BY <1>1, <1>2, <1>3 DEF SkipFour
<1>4. CASE TruncatedPacket \/ TruncatedAck
  BY <1>1, <1>2, <1>4 DEF TruncatedPacket, TruncatedAck
<1>5. CASE ReadAck
  BY <1>1, <1>2, <1>5 DEF ReadAck, AckLast
<1>6. CASE ReadPacket
  <2> DEFINE len == bufferBytes[at + 12]
  <2>1. PacketIsWhole /\ at' = at + 13 + len + 1
    BY <1>6 DEF ReadPacket, PacketLast
  <2>2. len \in Nat
    BY <2>1, PayloadTypes
  <2> HIDE DEF len
  <2> QED
    BY <1>1, <1>2, <2>1, <2>2
<1> QED
  BY <1>3, <1>4, <1>5, <1>6

\* What has been passed stays passed.
LEMMA PassedStays ==
  ASSUME TypeOK, StreamOK, BufferOK, [Next]_vars
  PROVE  \A i \in 1..Len(sent) : Passed(i) => Passed(i)'
<1> SUFFICES ASSUME NEW i \in 1..Len(sent), Passed(i)
             PROVE  Passed(i)'
  OBVIOUS
<1>1. Start(i)' = Start(i) /\ Start(i) \in Nat /\ Start(i) < pos
      /\ (phase # "pop" => Start(i) < base + at)
  BY SentStays, Places DEF Passed
<1>2. base \in Nat /\ pos \in Nat /\ at \in Nat
  BY DEF TypeOK
<1>3. CASE Popping
  <2>1. PICK k \in 1..Len(stream) - pos : k <= PopBuf /\ Pop(k)
    BY <1>3 DEF Popping
  <2>2. base' = pos /\ pos' = pos + k /\ at' = 0 /\ k \in Nat
    BY <2>1, FilledType DEF Pop
  <2> QED
    BY <1>1, <1>2, <2>2 DEF Passed
<1>4. CASE Finish
  BY <1>1, <1>4 DEF Finish, Passed, chunkVars
<1>5. CASE SkipFour \/ ReadPacket \/ TruncatedPacket \/ ReadAck \/ TruncatedAck
  <2>1. phase # "pop" /\ at <= n
    BY <1>5 DEF SkipFour, ReadPacket, TruncatedPacket, ReadAck, TruncatedAck, Reading
  <2>2. at' \in Nat /\ at < at' /\ phase' = phase /\ base' = base /\ pos' = pos
    BY <1>5, <2>1, MovesOn
  <2> QED
    BY <1>1, <1>2, <2>1, <2>2 DEF Passed
<1>6. CASE Send \/ UNCHANGED vars
  <2>1. phase' = phase /\ base' = base /\ pos' = pos /\ at' = at
    BY <1>6 DEF Send, vars, chunkVars
  <2> QED
    BY <1>1, <2>1 DEF Passed
<1> QED
  BY <1>3, <1>4, <1>5, <1>6 DEF Next

\* The acks handed on, and the packets, where the messages they are lie.
LEMMA AcksPlacedStep ==
  ASSUME TypeOK, StreamOK, BufferOK, Unmistakable, AcksPlaced, [Next]_vars
  PROVE  AcksPlaced'
<1> PICK f \in [1..Len(acks) -> 1..Len(sent)] :
      /\ Increasing(f, Len(acks))
      /\ \A i \in 1..Len(acks) : Passed(f[i]) /\ acks[i] = sent[f[i]]
  BY DEF AcksPlaced
<1>1. \A i \in 1..Len(sent) : /\ i \in 1..Len(sent')
                              /\ sent'[i] = sent[i] /\ Start(i)' = Start(i)
                              /\ Passed(i) => Passed(i)'
  BY SentStays, PassedStays
<1>2. CASE acks' = acks
  <2>1. f \in [1..Len(acks') -> 1..Len(sent')]
    BY <1>1, <1>2
  <2>2. \A i \in 1..Len(acks') : Passed(f[i])' /\ acks'[i] = sent'[f[i]]
    BY <1>1, <1>2
  <2>3. Increasing(f, Len(acks'))
    BY <1>2
  <2> QED
    BY <2>1, <2>2, <2>3 DEF AcksPlaced
<1>3. CASE ReadAck
  <2> DEFINE msg == Fields(bufferBytes, at, "ack", AckBody(bufferBytes, at))
  <2>1. /\ phase # "pop" /\ at <= n /\ Found("ack") /\ AckLast(at) <= n
        /\ acks' = Append(acks, msg) /\ at' = AckLast(at) + 1
        /\ phase' = phase /\ base' = base /\ pos' = pos
        /\ sent' = sent
    BY <1>3 DEF ReadAck, Reading, chunkVars, peerVars
  <2>2. at \in Nat /\ n \in Nat /\ base \in Nat /\ pos \in Nat /\ base + n <= pos
    BY DEF TypeOK, BufferOK
  <2>3. at + 12 <= n /\ at + 15 <= n /\ at' = at + 16
    BY <2>1, <2>2 DEF AckLast
  <2>4. PICK j \in 1..Len(sent) : Start(j) = base + at /\ sent[j].kind = "ack"
    BY <2>1, <2>3, MessageAt
  <2>5. msg = sent[j]
    BY <2>3, <2>4, AckAt
  <2> HIDE DEF msg
  <2>6. PICK l \in Nat : l = Len(acks)
    BY DEF TypeOK
  <2>7. /\ Len(acks') = l + 1 /\ acks'[l + 1] = sent[j]
        /\ \A i \in 1..l : acks'[i] = acks[i]
    <3>1. acks \in Seq(Message) /\ msg \in Message
      BY <2>5, Places DEF TypeOK
    <3> QED
      BY <2>1, <2>5, <2>6, <3>1
  <2>8. Passed(j)'
    BY <1>1, <2>1, <2>2, <2>3, <2>4 DEF Passed
  <2>9. \A i \in 1..l : f[i] < j
    <3> TAKE i \in 1..l
    <3>1. f[i] \in 1..Len(sent) /\ Passed(f[i])
      BY <2>6
    <3>2. Start(f[i]) < Start(j)
      BY <2>1, <2>4, <3>1 DEF Passed
    <3> QED
      BY <3>1, <3>2, Places
  <2> DEFINE g == [i \in 1..l+1 |-> IF i = l + 1 THEN j ELSE f[i]]
  <2>10. \A i \in 1..l+1 : i = l + 1 \/ (i \in 1..l /\ i # l + 1)
    OBVIOUS
  <2>11. g \in [1..Len(acks') -> 1..Len(sent')]
    BY <1>1, <2>6, <2>7, <2>10
  <2>12. \A i \in 1..l : g[i] = f[i]
    BY <2>10
  <2>13. g[l + 1] = j
    OBVIOUS
  <2> HIDE DEF g
  <2>14. \A i \in 1..Len(acks') : Passed(g[i])' /\ acks'[i] = sent'[g[i]]
    <3> TAKE i \in 1..Len(acks')
    <3>1. CASE i = l + 1
      BY <1>1, <2>7, <2>8, <2>13, <3>1
    <3>2. CASE i \in 1..l
      <4>1. f[i] \in 1..Len(sent) /\ Passed(f[i]) /\ acks[i] = sent[f[i]]
        BY <2>6, <3>2
      <4> QED
        BY <1>1, <2>7, <2>12, <3>2, <4>1
    <3> QED
      BY <2>7, <2>10, <3>1, <3>2
  <2>15. Increasing(g, Len(acks'))
    <3> SUFFICES ASSUME NEW x \in 1..l+1, NEW y \in 1..l+1, x < y
                 PROVE  g[x] < g[y]
      BY <2>7 DEF Increasing
    <3>1. x \in 1..l
      OBVIOUS
    <3>2. CASE y = l + 1
      BY <2>9, <2>12, <2>13, <3>1, <3>2
    <3>3. CASE y \in 1..l
      BY <2>6, <2>12, <3>1, <3>3 DEF Increasing
    <3> QED
      BY <2>10, <3>2, <3>3
  <2> QED
    BY <2>11, <2>14, <2>15 DEF AcksPlaced
<1> QED
  BY <1>2, <1>3 DEF Next, vars, Send, Popping, Pop, SkipFour, Finish, ReadPacket,
                    TruncatedPacket, TruncatedAck

LEMMA PacketsPlacedStep ==
  ASSUME TypeOK, ScanOK, StreamOK, BufferOK, Unmistakable, PacketsPlaced, [Next]_vars
  PROVE  PacketsPlaced'
<1> DEFINE Is(e, m) == /\ Headless(e.msg) = Headless(m)
                       /\ e.nth = 1 => e.msg = m
<1> PICK f \in [1..Len(packets) -> 1..Len(sent)] :
      /\ Increasing(f, Len(packets))
      /\ \A i \in 1..Len(packets) : Passed(f[i]) /\ Is(packets[i], sent[f[i]])
  BY DEF PacketsPlaced
<1> HIDE DEF Is
<1>1. \A i \in 1..Len(sent) : /\ i \in 1..Len(sent')
                              /\ sent'[i] = sent[i] /\ Start(i)' = Start(i)
                              /\ Passed(i) => Passed(i)'
  BY SentStays, PassedStays
<1>2. CASE packets' = packets
  <2>1. f \in [1..Len(packets') -> 1..Len(sent')]
    BY <1>1, <1>2
  <2>2. \A i \in 1..Len(packets') : Passed(f[i])' /\ Is(packets'[i], sent'[f[i]])
    BY <1>1, <1>2
  <2>3. Increasing(f, Len(packets'))
    BY <1>2
  <2> QED
    BY <2>1, <2>2, <2>3 DEF PacketsPlaced, Is
<1>3. CASE ReadPacket /\ packets' # packets
  <2> DEFINE len == bufferBytes[at + 12]
             p   == payload \o Payload(bufferBytes, at)
             msg == Fields(bufferBytes, at, "packet", SubSeq(p, 1, len))
             e   == [msg |-> msg, nth |-> nth + 1]
  <2>1. /\ phase # "pop" /\ at <= n /\ Found("packet") /\ PacketIsWhole
        /\ packets' = Append(packets, e)
        /\ phase' = phase /\ base' = base /\ pos' = pos /\ sent' = sent
    BY <1>3 DEF ReadPacket, Reading, chunkVars, peerVars
  <2>2. /\ at \in Nat /\ n \in Nat /\ base \in Nat /\ pos \in Nat /\ base + n <= pos
        /\ nth \in Nat
    BY DEF TypeOK, BufferOK
  <2>3. /\ len \in Nat /\ at + 13 + len <= n /\ len \in Byte
        /\ SubSeq(p, 1, len) \in Seq(Byte) /\ Len(SubSeq(p, 1, len)) = len
    BY <2>1, PayloadTypes
  <2>4. at + 12 <= n /\ at < at' /\ at' \in Nat
    BY <1>3, <2>1, <2>2, <2>3, MovesOn
  <2>5. PICK j \in 1..Len(sent) : Start(j) = base + at /\ sent[j].kind = "packet"
    BY <2>1, <2>4, MessageAt
  <2>6. Headless(msg) = Headless(sent[j]) /\ (nth = 0 => msg = sent[j])
    BY <2>1, <2>5, PacketAt
  <2>7. msg \in Message
    BY <2>1, <2>3, <2>4, FieldsType
  <2> HIDE DEF len, p, msg
  <2>8. Is(e, sent[j]) /\ e \in [msg : Message, nth : Nat]
    <3>1. e.msg = msg /\ e.nth = nth + 1
      OBVIOUS
    <3>2. e.nth = 1 => nth = 0
      BY <2>2, <3>1
    <3> QED
      BY <2>2, <2>6, <2>7, <3>1, <3>2 DEF Is
  <2> HIDE DEF e
  <2>9. PICK l \in Nat : l = Len(packets)
    BY DEF TypeOK
  <2>10. /\ Len(packets') = l + 1 /\ packets'[l + 1] = e
         /\ \A i \in 1..l : packets'[i] = packets[i]
    <3>1. packets \in Seq([msg : Message, nth : Nat])
      BY DEF TypeOK
    <3> QED
      BY <2>1, <2>8, <2>9, <3>1
  <2>11. Passed(j)'
    BY <1>1, <2>1, <2>2, <2>4, <2>5 DEF Passed
  <2>12. \A i \in 1..l : f[i] < j
    <3> TAKE i \in 1..l
    <3>1. f[i] \in 1..Len(sent) /\ Passed(f[i])
      BY <2>9
    <3>2. Start(f[i]) < Start(j)
      BY <2>1, <2>5, <3>1 DEF Passed
    <3> QED
      BY <3>1, <3>2, Places
  <2> DEFINE g == [i \in 1..l+1 |-> IF i = l + 1 THEN j ELSE f[i]]
  <2>13. \A i \in 1..l+1 : i = l + 1 \/ (i \in 1..l /\ i # l + 1)
    OBVIOUS
  <2>14. g \in [1..Len(packets') -> 1..Len(sent')]
    BY <1>1, <2>9, <2>10, <2>13
  <2>15. \A i \in 1..l : g[i] = f[i]
    BY <2>13
  <2>16. g[l + 1] = j
    OBVIOUS
  <2> HIDE DEF g
  <2>17. \A i \in 1..Len(packets') : Passed(g[i])' /\ Is(packets'[i], sent'[g[i]])
    <3> TAKE i \in 1..Len(packets')
    <3>1. CASE i = l + 1
      BY <1>1, <2>8, <2>10, <2>11, <2>16, <3>1
    <3>2. CASE i \in 1..l
      <4>1. f[i] \in 1..Len(sent) /\ Passed(f[i]) /\ Is(packets[i], sent[f[i]])
        BY <2>9, <3>2
      <4> QED
        BY <1>1, <2>10, <2>15, <3>2, <4>1
    <3> QED
      BY <2>10, <2>13, <3>1, <3>2
  <2>18. Increasing(g, Len(packets'))
    <3> SUFFICES ASSUME NEW x \in 1..l+1, NEW y \in 1..l+1, x < y
                 PROVE  g[x] < g[y]
      BY <2>10 DEF Increasing
    <3>1. x \in 1..l
      OBVIOUS
    <3>2. CASE y = l + 1
      BY <2>12, <2>15, <2>16, <3>1, <3>2
    <3>3. CASE y \in 1..l
      BY <2>9, <2>15, <3>1, <3>3 DEF Increasing
    <3> QED
      BY <2>13, <3>2, <3>3
  <2> QED
    BY <2>14, <2>17, <2>18 DEF PacketsPlaced, Is
<1> QED
  BY <1>2, <1>3 DEF Next, vars, Send, Popping, Pop, SkipFour, Finish, ReadAck,
                    TruncatedPacket, TruncatedAck

-----------------------------------------------------------------------------
\* The receiver's exclusive or of a packet alone at the front of the buffer: the
\* payload and the addresses cancel out, the two bytes of the ID remain.
LEMMA ReadBackBits ==
  ASSUME NEW m \in Message, m.kind = "packet", NEW len \in Nat, Size(m) = 14 + len,
         NEW b, \A i \in 4..13+len : b[i] = Wire(m)[i + 1], NEW w \in Weights
  PROVE  Bit(ReadBack(b, len), w) = (Bit(Lo(m.id), w) + Bit(Hi(m.id), w)) % 2
<1> DEFINE v == Wire(m)
           u == Unsealed(m)
           Q == 7..13+len
<1>1. /\ u \in Seq(Byte) /\ Len(u) = 13 + len /\ Size(m) = 14 + len
      /\ \A i \in 1..13+len : v[i] = u[i]
      /\ v[14 + len] = Checksum(m) /\ Checksum(m) \in Byte
      /\ v[5] = Lo(m.id) /\ v[6] = Hi(m.id)
  <2>1. Size(m) = 14 + len /\ Size(m) - 1 = 13 + len
    BY MessageParts
  <2>2. /\ u \in Seq(Byte) /\ Len(u) = 13 + len
        /\ \A i \in 1..13+len : v[i] = u[i]
    BY <2>1, UnsealedBytes, WireBytes
  <2>3. v[14 + len] = Checksum(m) /\ Checksum(m) \in Byte
    BY <2>1, WireBytes
  <2> QED
    BY <2>1, <2>2, <2>3, WireFields
<1>2. /\ IsFiniteSet(4..13+len) /\ IsFiniteSet(Q)
      /\ IsFiniteSet({5}) /\ IsFiniteSet({6}) /\ IsFiniteSet({14 + len})
  <2>1. 4 \in Int /\ 7 \in Int /\ 13 + len \in Int
    OBVIOUS
  <2>2. IsFiniteSet(4..13+len) /\ IsFiniteSet(Q)
    BY <2>1, FS_Interval
  <2> QED
    BY <2>2, FS_Singleton
<1>3. Bit(Checksum(m), w) = Parity(v, Q, w)
  <2>1. Checksum(m) = XorOf(u, 7..Len(u))
    BY DEF Checksum
  <2>2. Checksum(m) = XorOf(u, Q)
    BY <1>1, <2>1
  <2>3. Bit(Checksum(m), w) = Parity(u, Q, w)
    BY <1>2, <2>2, XorBits
  <2>4. \A i \in Q : v[i] = u[i]
    BY <1>1
  <2>5. {i \in Q : Bit(v[i], w) = 1} = {i \in Q : Bit(u[i], w) = 1}
    BY <2>4
  <2>6. Parity(u, Q, w) = Parity(v, Q, w)
    BY <2>5 DEF Parity
  <2> QED
    BY <2>3, <2>6
<1>4. Parity(b, 4..13+len, w) = Parity(v, 5..14+len, w)
  <2>1. \A i \in 4..13+len : b[i] = v[i + 1]
    OBVIOUS
  <2> HIDE DEF v
  <2> QED
    BY <2>1, ParityShift
<1>5. /\ Parity(v, {5}, w) = Bit(Lo(m.id), w) /\ Parity(v, {6}, w) = Bit(Hi(m.id), w)
      /\ Parity(v, {14 + len}, w) = Bit(Checksum(m), w)
  <2>1. Lo(m.id) \in Byte /\ Hi(m.id) \in Byte
    BY MessageParts, HalvesOfU16
  <2> HIDE DEF v, u, Q
  <2>2. v[5] \in Byte /\ v[6] \in Byte /\ v[14 + len] \in Byte
    BY <1>1, <2>1
  <2>3. /\ Parity(v, {5}, w) = Bit(v[5], w) /\ Parity(v, {6}, w) = Bit(v[6], w)
        /\ Parity(v, {14 + len}, w) = Bit(v[14 + len], w)
    BY <2>2, ParityOfOne
  <2> QED
    BY <1>1, <2>3
<1> HIDE DEF v, u, Q
<1>6. IsFiniteSet({5} \cup {6}) /\ IsFiniteSet(Q \cup {14 + len})
  BY <1>2, FS_Union
<1>7. Parity(v, {5} \cup {6}, w) = (Parity(v, {5}, w) + Parity(v, {6}, w)) % 2
  <2>1. {5} \cap {6} = {}
    OBVIOUS
  <2> QED
    BY <1>2, <2>1, ParityOfUnion
<1>8. Parity(v, Q \cup {14 + len}, w)
        = (Parity(v, Q, w) + Parity(v, {14 + len}, w)) % 2
  <2>1. Q \cap {14 + len} = {}
    BY DEF Q
  <2> QED
    BY <1>2, <2>1, ParityOfUnion
<1>9. Parity(v, 5..14+len, w)
        = (Parity(v, {5} \cup {6}, w) + Parity(v, Q \cup {14 + len}, w)) % 2
  <2>1. ({5} \cup {6}) \cap (Q \cup {14 + len}) = {}
    BY DEF Q
  <2>2. 5..14+len = ({5} \cup {6}) \cup (Q \cup {14 + len})
    BY DEF Q
  <2>3. Parity(v, ({5} \cup {6}) \cup (Q \cup {14 + len}), w)
          = (Parity(v, {5} \cup {6}, w) + Parity(v, Q \cup {14 + len}, w)) % 2
    <3> DEFINE I == {5} \cup {6}
               J == Q \cup {14 + len}
    <3>1. IsFiniteSet(I) /\ IsFiniteSet(J) /\ I \cap J = {}
      BY <1>6, <2>1
    <3> HIDE DEF I, J
    <3>2. Parity(v, I \cup J, w) = (Parity(v, I, w) + Parity(v, J, w)) % 2
      BY <3>1, ParityOfUnion
    <3> QED
      BY <3>2 DEF I, J
  <2> QED
    BY <2>2, <2>3
<1>10. Bit(ReadBack(b, len), w) = Parity(b, 4..13+len, w)
  BY <1>2, XorBits DEF ReadBack
<1>11. /\ Parity(v, {5}, w) \in {0, 1} /\ Parity(v, {6}, w) \in {0, 1}
       /\ Parity(v, Q, w) \in {0, 1}
  BY <1>2, ParityIsBit
<1>12. ASSUME NEW x \in {0, 1}, NEW y \in {0, 1}, NEW z \in {0, 1}
       PROVE  (((x + y) % 2) + ((z + z) % 2)) % 2 = (x + y) % 2
  OBVIOUS
<1>13. Parity(v, 5..14+len, w) = (Parity(v, {5}, w) + Parity(v, {6}, w)) % 2
  <2>1. PICK x \in {0, 1} : x = Parity(v, {5}, w)
    BY <1>11
  <2>2. PICK y \in {0, 1} : y = Parity(v, {6}, w)
    BY <1>11
  <2>3. PICK z \in {0, 1} : z = Parity(v, Q, w)
    BY <1>11
  <2>4. Parity(v, {14 + len}, w) = z
    BY <1>3, <1>5, <2>3
  <2>5. Parity(v, 5..14+len, w) = (((x + y) % 2) + ((z + z) % 2)) % 2
    BY <1>7, <1>8, <1>9, <2>1, <2>2, <2>3, <2>4
  <2> QED
    BY <1>12, <2>1, <2>2, <2>5
<1> QED
  BY <1>4, <1>5, <1>10, <1>13

\* So the first packet of a chunk is accepted if and only if they are equal.
LEMMA AcceptedIff ==
  ASSUME NEW m \in Message, m.kind = "packet", NEW len \in Nat, Size(m) = 14 + len,
         NEW b, \A i \in 4..13+len : b[i] = Wire(m)[i + 1]
  PROVE  XorOfBytes(0, ReadBack(b, len)) = 0 <=> Acceptable(m)
<1> DEFINE r == ReadBack(b, len)
           x == XorOfBytes(0, r)
           lo == Lo(m.id)
           hi == Hi(m.id)
<1>1. r \in Byte
  <2>1. 4 \in Int /\ 13 + len \in Int
    OBVIOUS
  <2>2. IsFiniteSet(4..13+len)
    BY <2>1, FS_Interval
  <2> QED
    BY <2>2, XorBits DEF ReadBack
<1>2. \A w \in Weights : Bit(r, w) = (Bit(lo, w) + Bit(hi, w)) % 2
  BY ReadBackBits
<1>3. lo \in Byte /\ hi \in Byte /\ 0 \in Byte
  <2>1. 0 \in Byte
    BY DEF Byte
  <2>2. m.id \in U16
    BY MessageParts
  <2> QED
    BY <2>1, <2>2, HalvesOfU16
<1>4. x \in Byte /\ \A w \in Weights : Bit(x, w) = Parity(<<0, r>>, {1, 2}, w)
  BY XorOfBytesBits
<1> HIDE DEF r, x, lo, hi
<1>5. \A y \in Byte : \A w \in Weights : Bit(y, w) \in {0, 1}
  BY DEF Byte, Weights, Bit
<1>6. \A w \in Weights : Bit(0, w) = 0
  BY DEF Weights, Bit
<1>7. x = r
  <2>1. ASSUME NEW w \in Weights
        PROVE  Bit(x, w) = Bit(r, w)
    <3> DEFINE g == <<0, r>>
    <3>1. g[1] = 0 /\ g[2] = r
      OBVIOUS
    <3> HIDE DEF g
    <3>9. g[1] \in Byte /\ g[2] \in Byte
      BY <1>1, <1>3, <3>1
    <3>2. Parity(g, {1}, w) = Bit(0, w) /\ Parity(g, {2}, w) = Bit(r, w)
      <4>1. Parity(g, {1}, w) = Bit(g[1], w)
        BY <3>9, ParityOfOne
      <4>2. Parity(g, {2}, w) = Bit(g[2], w)
        BY <3>9, ParityOfOne
      <4> QED
        BY <3>1, <4>1, <4>2
    <3>3. IsFiniteSet({1}) /\ IsFiniteSet({2}) /\ {1} \cap {2} = {}
      <4>1. IsFiniteSet({1}) /\ IsFiniteSet({2})
        BY FS_Singleton
      <4> QED
        BY <4>1
    <3>4. Parity(g, {1} \cup {2}, w) = (Parity(g, {1}, w) + Parity(g, {2}, w)) % 2
      BY <3>3, ParityOfUnion
    <3>5. {1} \cup {2} = {1, 2}
      OBVIOUS
    <3>6. Bit(x, w) = (Bit(0, w) + Bit(r, w)) % 2
      BY <1>4, <3>2, <3>4, <3>5 DEF g
    <3>7. Bit(r, w) \in {0, 1} /\ Bit(0, w) = 0
      BY <1>1, <1>5, <1>6
    <3>8. \A c \in {0, 1} : (0 + c) % 2 = c
      OBVIOUS
    <3> QED
      BY <3>6, <3>7, <3>8
  <2> QED
    BY <1>1, <1>4, <2>1, ByteOfBits
<1>8. ASSUME NEW c \in {0, 1}, NEW d \in {0, 1}
      PROVE  (c + d) % 2 = 0 <=> c = d
  OBVIOUS
<1>9. ASSUME r = 0
      PROVE  lo = hi
  <2>1. \A w \in Weights : Bit(lo, w) = Bit(hi, w)
    BY <1>2, <1>3, <1>5, <1>6, <1>8, <1>9
  <2> QED
    BY <1>3, <2>1, ByteOfBits
<1>10. ASSUME lo = hi
       PROVE  r = 0
  <2>1. \A w \in Weights : Bit(r, w) = Bit(0, w)
    BY <1>2, <1>3, <1>5, <1>6, <1>8, <1>10
  <2> QED
    BY <1>1, <1>3, <2>1, ByteOfBits
<1>11. Acceptable(m) <=> lo = hi
  BY DEF Acceptable, lo, hi
<1> QED
  BY <1>7, <1>9, <1>10, <1>11 DEF r, x

-----------------------------------------------------------------------------
\* What a list of chosen elements depends on, and how it grows at its end.
LEMMA ListsKeep ==
  ASSUME NEW s, NEW t, NEW u, NEW J, Lists(s, t, J), \A j \in J : u[j] = t[j]
  PROVE  Lists(s, u, J)
<1> PICK f \in [1..Len(s) -> J] :
      /\ Increasing(f, Len(s))
      /\ \A j \in J : \E i \in 1..Len(s) : f[i] = j
      /\ \A i \in 1..Len(s) : s[i] = t[f[i]]
  BY DEF Lists
<1>1. \A i \in 1..Len(s) : s[i] = u[f[i]]
  OBVIOUS
<1> QED
  BY <1>1 DEF Lists

LEMMA ListsAppend ==
  ASSUME NEW S, NEW s \in Seq(S), NEW e \in S, NEW t, NEW J \in SUBSET Nat,
         NEW j \in Nat, \A x \in J : x < j, t[j] = e, Lists(s, t, J)
  PROVE  Lists(Append(s, e), t, J \cup {j})
<1> PICK f \in [1..Len(s) -> J] :
      /\ Increasing(f, Len(s))
      /\ \A x \in J : \E i \in 1..Len(s) : f[i] = x
      /\ \A i \in 1..Len(s) : s[i] = t[f[i]]
  BY DEF Lists
<1>1. PICK l \in Nat : l = Len(s)
  OBVIOUS
<1> DEFINE a == Append(s, e)
           g == [i \in 1..l+1 |-> IF i = l + 1 THEN j ELSE f[i]]
<1>2. /\ Len(a) = l + 1 /\ a[l + 1] = e
      /\ \A i \in 1..l : a[i] = s[i]
  BY <1>1
<1>3. \A i \in 1..l+1 : i = l + 1 \/ (i \in 1..l /\ i # l + 1)
  OBVIOUS
<1>4. g \in [1..l+1 -> J \cup {j}]
  BY <1>1, <1>3
<1>5. g[l + 1] = j /\ \A i \in 1..l : g[i] = f[i]
  BY <1>3
<1> HIDE DEF g, a
<1>6. Increasing(g, l + 1)
  <2> SUFFICES ASSUME NEW x \in 1..l+1, NEW y \in 1..l+1, x < y
               PROVE  g[x] < g[y]
    BY DEF Increasing
  <2>1. x \in 1..l
    OBVIOUS
  <2>2. f[x] \in J
    BY <1>1, <2>1
  <2>3. CASE y = l + 1
    BY <1>5, <2>1, <2>2, <2>3
  <2>4. CASE y \in 1..l
    BY <1>1, <1>5, <2>1, <2>4 DEF Increasing
  <2> QED
    BY <1>3, <2>3, <2>4
<1>7. ASSUME NEW x \in J \cup {j}
      PROVE  \E i \in 1..l+1 : g[i] = x
  <2>1. CASE x = j
    <3>1. l + 1 \in 1..l+1
      OBVIOUS
    <3> QED
      BY <1>5, <2>1, <3>1
  <2>2. CASE x \in J
    <3>1. PICK i \in 1..l : f[i] = x
      BY <1>1, <2>2
    <3>2. i \in 1..l+1
      OBVIOUS
    <3> QED
      BY <1>5, <3>1, <3>2
  <2> QED
    BY <2>1, <2>2
<1>8. ASSUME NEW i \in 1..l+1
      PROVE  a[i] = t[g[i]]
  <2>1. CASE i = l + 1
    BY <1>2, <1>5, <2>1
  <2>2. CASE i \in 1..l
    BY <1>1, <1>2, <1>5, <2>2
  <2> QED
    BY <1>3, <2>1, <2>2
<1> QED
  BY <1>2, <1>4, <1>6, <1>7, <1>8 DEF Lists, a

LEMMA MsgsType ==
  ASSUME NEW ps \in Seq([msg : Message, nth : Nat])
  PROVE  /\ Msgs(ps) \in Seq(Message) /\ Len(Msgs(ps)) = Len(ps)
         /\ \A i \in 1..Len(ps) : Msgs(ps)[i] = ps[i].msg
<1>1. PICK l \in Nat : l = Len(ps)
  OBVIOUS
<1>2. DOMAIN ps = 1..l /\ \A i \in 1..l : ps[i].msg \in Message
  <2> DEFINE E == [msg : Message, nth : Nat]
  <2>1. \A e \in E : e.msg \in Message
    OBVIOUS
  <2>2. ps \in Seq(E)
    OBVIOUS
  <2> HIDE DEF E
  <2>3. DOMAIN ps = 1..l /\ \A i \in 1..l : ps[i] \in E
    BY <1>1, <2>2
  <2> QED
    BY <2>1, <2>3
<1>3. Msgs(ps) = [i \in 1..l |-> ps[i].msg]
  BY <1>2 DEF Msgs
<1>4. Msgs(ps) \in [1..l -> Message]
  BY <1>2, <1>3
<1>5. Msgs(ps) \in Seq(Message) /\ Len(Msgs(ps)) = l
  BY <1>4
<1> QED
  BY <1>1, <1>3, <1>5

LEMMA MsgsAppend ==
  ASSUME NEW ps \in Seq([msg : Message, nth : Nat]),
         NEW e \in [msg : Message, nth : Nat]
  PROVE  /\ Msgs(ps) \in Seq(Message) /\ e.msg \in Message
         /\ Msgs(Append(ps, e)) = Append(Msgs(ps), e.msg)
<1>1. PICK l \in Nat : l = Len(ps)
  OBVIOUS
<1> DEFINE a == Append(ps, e)
           x == Msgs(a)
           q == Msgs(ps)
           y == Append(q, e.msg)
<1>2. /\ a \in Seq([msg : Message, nth : Nat]) /\ Len(a) = l + 1
      /\ a[l + 1] = e
      /\ \A i \in 1..l : a[i] = ps[i]
  BY <1>1
<1>3. q \in Seq(Message) /\ Len(q) = l /\ \A i \in 1..l : q[i] = ps[i].msg
  BY <1>1, MsgsType
<1> HIDE DEF q, a
<1>4. x \in Seq(Message) /\ Len(x) = l + 1 /\ \A i \in 1..l+1 : x[i] = a[i].msg
  BY <1>2, MsgsType
<1>5. /\ y \in Seq(Message) /\ Len(y) = l + 1 /\ y[l + 1] = e.msg
      /\ \A i \in 1..l : y[i] = q[i]
  BY <1>3
<1> HIDE DEF x, y
<1>6. \A i \in 1..l+1 : x[i] = y[i]
  <2> TAKE i \in 1..l+1
  <2>1. CASE i = l + 1
    BY <1>2, <1>4, <1>5, <2>1
  <2>2. CASE i \in 1..l
    BY <1>2, <1>3, <1>4, <1>5, <2>2
  <2> QED
    BY <2>1, <2>2
<1>7. x = y
  BY <1>4, <1>5, <1>6, SeqEqual
<1> QED
  BY <1>3, <1>7 DEF x, y, a, q

-----------------------------------------------------------------------------
\* A chunk that is one message: its bytes fill the front of the buffer, so its
\* header is found and it is not cut off.
LEMMA PendingFound ==
  ASSUME TypeOK, StreamOK, BufferOK, Pending,
         NEW j \in 1..Len(sent), Start(j) = base, n = Size(sent[j]),
         phase = sent[j].kind
  PROVE  /\ n \in Nat /\ n >= 14 /\ at = 0 /\ nth = 0 /\ at <= n
         /\ sent[j] \in Message /\ Start(j) = base + at
         /\ Found(phase)
         /\ \A o \in 1..n : bufferBytes[o - 1] = Wire(sent[j])[o]
         /\ phase = "packet" => /\ n = 14 + Len(sent[j].body)
                                /\ Len(sent[j].body) \in Nat
                                /\ bufferBytes[12] = Len(sent[j].body)
                                /\ PacketIsWhole
         /\ phase = "ack" => n = 16 /\ AckLast(at) <= n
<1> DEFINE m == sent[j]
<1>1. m \in Message /\ n \in Nat /\ n >= 14 /\ at = 0 /\ nth = 0 /\ base \in Nat
  BY Places DEF Pending, TypeOK
<1>2. Start(j) = base + at
  BY <1>1
<1>3. ASSUME NEW o \in 1..n
      PROVE  bufferBytes[o - 1] = Wire(m)[o]
  <2>1. at + o <= n /\ at + o - 1 = o - 1 /\ o \in 1..Size(sent[j])
    BY <1>1
  <2>2. bufferBytes[at + o - 1] = Wire(sent[j])[o]
    BY <1>2, <2>1, BytesAt
  <2> QED
    BY <2>1, <2>2
<1>4. Found(phase)
  <2>1. ASSUME NEW i \in 1..4
        PROVE  bufferBytes[at + i - 1] = Header(phase)[i]
    <3>1. i \in 1..n /\ at + i - 1 = i - 1
      BY <1>1
    <3>2. bufferBytes[i - 1] = Wire(m)[i]
      BY <1>3, <3>1
    <3>3. Wire(m)[i] = Header(m.kind)[i]
      BY <1>1, WireHeader
    <3> QED
      BY <3>1, <3>2, <3>3
  <2> QED
    BY <2>1 DEF Found, IsHeader
<1>5. ASSUME phase = "packet"
      PROVE  /\ n = 14 + Len(m.body) /\ Len(m.body) \in Nat
             /\ bufferBytes[12] = Len(m.body) /\ PacketIsWhole
  <2>1. m.kind = "packet"
    BY <1>5
  <2>2. PICK l \in Nat : l = Len(m.body)
    <3>1. Len(m.body) \in Byte
      BY <1>1, MessageParts
    <3>2. Len(m.body) \in Nat
      BY <3>1 DEF Byte
    <3> QED
      BY <3>2, Zenon
  <2>3. n = 14 + l
    <3>1. Size(m) = 14 + Len(m.body)
      BY <1>1, <2>1, MessageParts
    <3> QED
      BY <2>2, <3>1
  <2>4. bufferBytes[12] = l
    <3>1. 13 \in 1..n /\ 13 - 1 = 12
      BY <1>1
    <3>2. bufferBytes[13 - 1] = Wire(m)[13]
      BY <1>3, <3>1
    <3>3. Wire(m)[13] = Len(m.body)
      BY <1>1, <2>1, WireFields
    <3> QED
      BY <2>2, <3>1, <3>2, <3>3
  <2>5. PacketIsWhole
    <3>1. at + 12 = 12 /\ at + 13 + l <= n /\ 12 <= n
      BY <1>1, <2>3
    <3>2. PacketLast(bufferBytes, at) = at + 13 + l
      BY <2>4, <3>1 DEF PacketLast
    <3> QED
      BY <3>1, <3>2 DEF PacketIsWhole
  <2> QED
    BY <2>2, <2>3, <2>4, <2>5
<1>6. ASSUME phase = "ack"
      PROVE  n = 16 /\ AckLast(at) <= n
  <2>1. n = 16
    BY <1>1, <1>6, MessageParts
  <2> QED
    BY <1>1, <2>1 DEF AckLast
<1> QED
  BY <1>1, <1>2, <1>3, <1>4, <1>5, <1>6

\* Which messages are handed on, of the first k: those before, and the k-th.
LEMMA ToNext ==
  ASSUME NEW k \in Nat, k # 0
  PROVE  /\ AcksTo(k - 1) \in SUBSET Nat /\ PacketsTo(k - 1) \in SUBSET Nat
         /\ \A j \in AcksTo(k - 1) \cup PacketsTo(k - 1) : j < k
         /\ sent[k].kind = "ack" => /\ AcksTo(k) = AcksTo(k - 1) \cup {k}
                                    /\ PacketsTo(k) = PacketsTo(k - 1)
         /\ sent[k].kind = "packet" /\ Acceptable(sent[k]) =>
              /\ AcksTo(k) = AcksTo(k - 1)
              /\ PacketsTo(k) = PacketsTo(k - 1) \cup {k}
         /\ sent[k].kind = "packet" /\ ~Acceptable(sent[k]) =>
              AcksTo(k) = AcksTo(k - 1) /\ PacketsTo(k) = PacketsTo(k - 1)
<1>1. \A j : j \in 1..k <=> (j \in 1..k-1 \/ j = k)
  OBVIOUS
<1>2. \A j \in 1..k-1 : j \in Nat /\ j < k
  OBVIOUS
<1>3. AcksTo(k - 1) \in SUBSET (1..k-1) /\ PacketsTo(k - 1) \in SUBSET (1..k-1)
  BY DEF AcksTo, PacketsTo
<1>4. ASSUME sent[k].kind = "ack"
      PROVE  AcksTo(k) = AcksTo(k - 1) \cup {k} /\ PacketsTo(k) = PacketsTo(k - 1)
  BY <1>1, <1>4 DEF AcksTo, PacketsTo
<1>5. ASSUME sent[k].kind = "packet", Acceptable(sent[k])
      PROVE  AcksTo(k) = AcksTo(k - 1) /\ PacketsTo(k) = PacketsTo(k - 1) \cup {k}
  BY <1>1, <1>5 DEF AcksTo, PacketsTo
<1>6. ASSUME sent[k].kind = "packet", ~Acceptable(sent[k])
      PROVE  AcksTo(k) = AcksTo(k - 1) /\ PacketsTo(k) = PacketsTo(k - 1)
  BY <1>1, <1>6 DEF AcksTo, PacketsTo
<1> QED
  BY <1>2, <1>3, <1>4, <1>5, <1>6

-----------------------------------------------------------------------------
\* A pop that finds exactly one message leaves it pending: it is the next one,
\* its header is the first match, and the deserializer for its kind begins.
LEMMA AlignedPop ==
  ASSUME TypeOK, Short, StreamOK, AlignedOK,
         NEW k \in 1..Len(stream) - pos, k <= PopBuf, Pop(k)
  PROVE  AlignedOK'
<1> SUFFICES ASSUME aligned'
             PROVE  AlignedOK'
  BY DEF AlignedOK
<1> DEFINE b == Filled(k)
           M == Matches(b, k)
<1>1. /\ phase = "pop" /\ pops' = pops + 1 /\ base' = pos /\ pos' = pos + k
      /\ at' = 0 /\ nth' = 0 /\ n' = Returned(k)
      /\ sent' = sent /\ ends' = ends /\ acks' = acks /\ packets' = packets
      /\ aligned /\ Whole(pos, pos + k) # {}
  BY DEF Pop, peerVars
<1>2. /\ pops <= Len(sent) /\ pos = Start(pops + 1) /\ cntr = 0
      /\ HandedOn(pops)
  BY <1>1 DEF AlignedOK, Pending
<1>3. PICK i \in 1..Len(sent) : Start(i) = pos /\ ends[i] = pos + k
  BY <1>1 DEF Whole
<1>4. /\ pops \in Nat /\ pos \in Nat /\ k \in Nat /\ Len(sent) \in Nat
      /\ Len(stream) \in Nat /\ pos < Len(stream) /\ CountMod \in Nat
  BY Consts DEF TypeOK
<1>5. i = pops + 1
  <2>1. PICK q \in Nat : q = pops + 1
    BY <1>4
  <2>2. Start(q) = pos
    BY <1>2, <2>1
  <2>3. CASE q = Len(sent) + 1
    BY <1>4, <2>2, <2>3 DEF StreamOK
  <2>4. CASE q \in 1..Len(sent)
    BY <1>3, <2>1, <2>2, <2>4, Places
  <2> QED
    BY <1>2, <1>4, <2>1, <2>3, <2>4
<1> DEFINE m == sent[i]
<1>6. m \in Message /\ k = Size(m) /\ k >= 14
  <2>1. ends[i] = Start(i) + Size(m) /\ m \in Message /\ Size(m) \in Nat
    BY Places
  <2>2. Size(m) >= 14
    BY Places
  <2> QED
    BY <1>3, <1>4, <2>1, <2>2
<1>7. Returned(k) = k
  <2>1. Size(m) < CountMod
    BY DEF Short
  <2>2. k < CountMod
    BY <1>6, <2>1
  <2> QED
    BY <1>4, <2>2 DEF Returned
<1>8. \A o \in 1..4 : b[o - 1] = Header(m.kind)[o]
  <2> TAKE o \in 1..4
  <2>1. PICK z \in 0..k-1 : z = o - 1
    BY <1>6
  <2>2. b[z] = stream[pos + z + 1]
    BY <2>1, FilledType
  <2>3. pos + z + 1 = Start(i) + o
    BY <1>3, <1>4, <2>1
  <2>4. o \in 1..Size(m)
    BY <1>6
  <2>5. stream[Start(i) + o] = Wire(m)[o]
    BY <2>4 DEF StreamOK
  <2>6. Wire(m)[o] = Header(m.kind)[o]
    BY <1>6, WireHeader
  <2> QED
    BY <2>1, <2>2, <2>3, <2>5, <2>6
<1> HIDE DEF b, M
<1>9. IsHeader(b, 0, m.kind) /\ (m.kind = "ack" => ~IsHeader(b, 0, "packet"))
  <2>1. \A o \in 1..4 : 0 + o - 1 = o - 1
    OBVIOUS
  <2>2. IsHeader(b, 0, m.kind)
    BY <1>8, <2>1 DEF IsHeader
  <2>3. ASSUME m.kind = "ack", IsHeader(b, 0, "packet")
        PROVE  FALSE
    <3>1. 4 \in 1..4 /\ 0 + 4 - 1 = 3 /\ 4 - 1 = 3
      OBVIOUS
    <3>2. b[3] = Header("ack")[4]
      BY <1>8, <2>3, <3>1
    <3>3. b[3] = Header("packet")[4]
      BY <2>3, <3>1 DEF IsHeader
    <3>4. Header("ack")[4] = 1 /\ Header("packet")[4] = 170
      BY DEF Header, HEADER, ACK_HEADER
    <3> QED
      BY <3>2, <3>3, <3>4
  <2> QED
    BY <2>2, <2>3
<1>10. M # {} /\ Least(M) = 0
  <2>1. M \in SUBSET Nat
    BY <1>2, <1>4 DEF M, Matches
  <2>2. m.kind \in {"packet", "ack"}
    BY <1>6, MessageParts
  <2>3. 0 \in cntr..k-3
    BY <1>2, <1>4, <1>6
  <2>4. 0 \in M
    BY <1>9, <2>2, <2>3 DEF M, Matches
  <2>5. Least(M) \in M /\ Least(M) <= 0
    <3>1. M # {}
      BY <2>4
    <3> QED
      BY <2>1, <2>4, <3>1, LeastMatch
  <2>6. Least(M) \in Nat
    BY <2>1, <2>5
  <2>7. \A x \in Nat : x <= 0 => x = 0
    OBVIOUS
  <2> QED
    BY <2>4, <2>5, <2>6, <2>7
<1>11. cntr' = 0 /\ phase' = m.kind
  <2> DEFINE S == Matches(Filled(k), Returned(k))
  <2>2. /\ cntr' = IF S # {} THEN Least(S) ELSE Scanned(Returned(k))
        /\ phase' = IF S = {} THEN "pop"
                    ELSE IF IsHeader(Filled(k), Least(S), "packet") THEN "packet"
                    ELSE "ack"
    BY DEF Pop
  <2>3. S = M
    BY <1>7 DEF M, b
  <2> HIDE DEF S
  <2>1. /\ cntr' = Least(M)
        /\ phase' = IF IsHeader(b, Least(M), "packet") THEN "packet" ELSE "ack"
    BY <1>10, <2>2, <2>3 DEF b
  <2> QED
    BY <1>6, <1>9, <1>10, <2>1, MessageParts
<1>12. Pending'
  <2>1. phase' # "pop"
    BY <1>6, <1>11, MessageParts
  <2> QED
    BY <1>1, <2>1 DEF Pending
<1>13. /\ pops' <= Len(sent') /\ pops' = i /\ pops' # 0 /\ pops' - 1 = pops
  BY <1>1, <1>4, <1>5
<1>14. Start(pops)' = base'
  BY <1>1, <1>3, <1>5 DEF Start
<1>15. Start(pops + 1)' = pos'
  <2>1. PICK q \in Nat : q = pops + 1
    BY <1>4
  <2>2. q + 1 # 1 /\ q + 1 - 1 = q /\ ends[q] = pos + k
    BY <1>3, <1>5, <2>1
  <2> QED
    BY <1>1, <2>1, <2>2 DEF Start
<1>16. HandedOn(pops - 1)'
  BY <1>1, <1>2, <1>13 DEF HandedOn, AcksTo, PacketsTo, Msgs
<1> QED
  BY <1>1, <1>6, <1>7, <1>11, <1>12, <1>13, <1>14, <1>15, <1>16 DEF AlignedOK

\* Reading the ack that is pending hands it on.
LEMMA AlignedReadAck ==
  ASSUME TypeOK, StreamOK, BufferOK, AlignedOK, aligned, Pending, ReadAck
  PROVE  AlignedOK'
<1>1. /\ pops <= Len(sent) /\ pos = Start(pops + 1) /\ cntr = 0
      /\ pops # 0 /\ base = Start(pops) /\ n = Size(sent[pops])
      /\ phase = sent[pops].kind /\ HandedOn(pops - 1)
  BY DEF AlignedOK
<1>2. PICK k \in Nat : k = pops
  BY DEF TypeOK
<1>3. k \in 1..Len(sent) /\ Start(k) = base /\ n = Size(sent[k]) /\ phase = sent[k].kind
  BY <1>1, <1>2 DEF TypeOK
<1>4. /\ phase = "ack" /\ acks' = Append(acks, Fields(bufferBytes, at, "ack",
                                                  AckBody(bufferBytes, at)))
      /\ at' = AckLast(at) + 1 /\ nth' = nth + 1 /\ phase' = phase
      /\ sent' = sent /\ ends' = ends /\ packets' = packets
      /\ pops' = pops /\ pos' = pos /\ cntr' = cntr /\ base' = base /\ n' = n
  BY DEF ReadAck, Reading, peerVars, chunkVars
<1>5. /\ n = 16 /\ at = 0 /\ nth = 0 /\ sent[k] \in Message
      /\ Start(k) = base + at
  BY <1>3, <1>4, PendingFound
<1>6. sent[k].kind = "ack"
  BY <1>3, <1>4
<1>7. Fields(bufferBytes, at, "ack", AckBody(bufferBytes, at)) = sent[k]
  <2>1. at + 15 <= n
    BY <1>5
  <2> QED
    BY <1>3, <1>5, <1>6, <2>1, AckAt
<1>8. acks' = Append(acks, sent[k]) /\ acks \in Seq(Message)
  BY <1>4, <1>7 DEF TypeOK
<1>9. /\ Lists(acks', sent, AcksTo(k))
      /\ Lists(Msgs(packets), sent, PacketsTo(k))
  <2>1. /\ Lists(acks, sent, AcksTo(k - 1))
        /\ Lists(Msgs(packets), sent, PacketsTo(k - 1))
    BY <1>1, <1>2 DEF HandedOn
  <2>2. /\ AcksTo(k - 1) \in SUBSET Nat /\ \A j \in AcksTo(k - 1) : j < k
        /\ AcksTo(k) = AcksTo(k - 1) \cup {k} /\ PacketsTo(k) = PacketsTo(k - 1)
    BY <1>1, <1>2, <1>6, ToNext
  <2>3. Lists(Append(acks, sent[k]), sent, AcksTo(k - 1) \cup {k})
    BY <1>5, <1>8, <2>1, <2>2, ListsAppend
  <2> QED
    BY <1>8, <2>1, <2>2, <2>3
<1>10. HandedOn(pops)'
  BY <1>2, <1>4, <1>9 DEF HandedOn, AcksTo, PacketsTo, Msgs
<1>11. ~Pending' /\ at' >= n'
  BY <1>4, <1>5 DEF Pending, AckLast
<1>12. pops' <= Len(sent') /\ pos' = Start(pops + 1)' /\ cntr' = 0
  BY <1>1, <1>4 DEF Start
<1> QED
  BY <1>10, <1>11, <1>12 DEF AlignedOK

\* Reading the packet that is pending hands it on if it is acceptable.
LEMMA AlignedReadPacket ==
  ASSUME TypeOK, ScanOK, StreamOK, BufferOK, AlignedOK, aligned, Pending, ReadPacket
  PROVE  AlignedOK'
<1> DEFINE l == bufferBytes[at + 12]
           p == payload \o Payload(bufferBytes, at)
           msg == Fields(bufferBytes, at, "packet", SubSeq(p, 1, l))
           e == [msg |-> msg, nth |-> nth + 1]
<1>1. /\ pops <= Len(sent) /\ pos = Start(pops + 1) /\ cntr = 0
      /\ pops # 0 /\ base = Start(pops) /\ n = Size(sent[pops])
      /\ phase = sent[pops].kind /\ HandedOn(pops - 1)
  BY DEF AlignedOK
<1>2. PICK k \in Nat : k = pops
  BY DEF TypeOK
<1>3. k \in 1..Len(sent) /\ Start(k) = base /\ n = Size(sent[k]) /\ phase = sent[k].kind
  BY <1>1, <1>2 DEF TypeOK
<1>4. /\ phase = "packet" /\ at <= n /\ PacketIsWhole
      /\ cksum' = XorOfBytes(cksum, ReadBack(bufferBytes, l))
      /\ packets' = IF cksum' # 0 THEN packets ELSE Append(packets, e)
      /\ at' = PacketLast(bufferBytes, at) + 1 /\ nth' = nth + 1 /\ phase' = phase
      /\ sent' = sent /\ ends' = ends /\ acks' = acks
      /\ pops' = pops /\ pos' = pos /\ cntr' = cntr /\ base' = base /\ n' = n
  BY DEF ReadPacket, Reading, peerVars, chunkVars
<1>5. /\ at = 0 /\ nth = 0 /\ sent[k] \in Message /\ Start(k) = base + at /\ n \in Nat
      /\ \A o \in 1..n : bufferBytes[o - 1] = Wire(sent[k])[o]
      /\ n = 14 + Len(sent[k].body) /\ Len(sent[k].body) \in Nat
      /\ bufferBytes[12] = Len(sent[k].body)
  BY <1>3, <1>4, PendingFound
<1>6. sent[k].kind = "packet"
  BY <1>3, <1>4
<1>7. PICK len \in Nat : len = l /\ n = 14 + len
  <2>1. at + 12 = 12
    BY <1>5
  <2>2. l = Len(sent[k].body)
    BY <1>5, <2>1
  <2> QED
    BY <1>5, <2>2
<1>8. msg = sent[k]
  BY <1>3, <1>4, <1>5, <1>6, PacketAt
<1>9. cksum' = 0 <=> Acceptable(sent[k])
  <2>1. cksum = 0
    BY <1>4, <1>5 DEF ScanOK
  <2>2. \A i \in 4..13+len : bufferBytes[i] = Wire(sent[k])[i + 1]
    <3> TAKE i \in 4..13+len
    <3>1. PICK o \in 1..n : o = i + 1
      BY <1>7
    <3>2. bufferBytes[o - 1] = Wire(sent[k])[o]
      BY <1>5
    <3>3. o - 1 = i
      BY <3>1
    <3> QED
      BY <3>1, <3>2, <3>3
  <2>3. Size(sent[k]) = 14 + len
    BY <1>3, <1>7
  <2>4. XorOfBytes(0, ReadBack(bufferBytes, len)) = 0 <=> Acceptable(sent[k])
    BY <1>5, <1>6, <2>2, <2>3, AcceptedIff
  <2> QED
    BY <1>4, <1>7, <2>1, <2>4
<1> HIDE DEF msg, p, l
<1>10. e \in [msg : Message, nth : Nat] /\ e.msg = sent[k]
  BY <1>5, <1>8
<1> HIDE DEF e
<1>11. Msgs(packets') = IF Acceptable(sent[k]) THEN Append(Msgs(packets), sent[k])
                        ELSE Msgs(packets)
  <2>1. packets \in Seq([msg : Message, nth : Nat])
    BY DEF TypeOK
  <2>2. Msgs(Append(packets, e)) = Append(Msgs(packets), e.msg)
    BY <1>10, <2>1, MsgsAppend
  <2>3. packets' = IF Acceptable(sent[k]) THEN Append(packets, e) ELSE packets
    BY <1>4, <1>9
  <2> QED
    BY <1>10, <2>2, <2>3
<1>12. /\ Lists(acks, sent, AcksTo(k))
       /\ Lists(Msgs(packets'), sent, PacketsTo(k))
  <2>1. /\ Lists(acks, sent, AcksTo(k - 1))
        /\ Lists(Msgs(packets), sent, PacketsTo(k - 1))
    BY <1>1, <1>2 DEF HandedOn
  <2>2. /\ PacketsTo(k - 1) \in SUBSET Nat /\ \A j \in PacketsTo(k - 1) : j < k
        /\ AcksTo(k) = AcksTo(k - 1)
        /\ PacketsTo(k) = IF Acceptable(sent[k]) THEN PacketsTo(k - 1) \cup {k}
                          ELSE PacketsTo(k - 1)
    BY <1>1, <1>2, <1>6, ToNext
  <2>3. CASE Acceptable(sent[k])
    <3>1. Msgs(packets) \in Seq(Message)
      BY MsgsType DEF TypeOK
    <3> DEFINE q == Msgs(packets)
    <3>2. q \in Seq(Message) /\ Lists(q, sent, PacketsTo(k - 1))
      BY <2>1, <3>1
    <3> HIDE DEF q
    <3>3. Lists(Append(q, sent[k]), sent, PacketsTo(k - 1) \cup {k})
      BY <1>5, <2>2, <3>2, ListsAppend
    <3> QED
      BY <1>11, <2>1, <2>2, <2>3, <3>3 DEF q
  <2>4. CASE ~Acceptable(sent[k])
    BY <1>11, <2>1, <2>2, <2>4
  <2> QED
    BY <2>3, <2>4
<1>13. HandedOn(pops)'
  BY <1>2, <1>4, <1>12 DEF HandedOn, AcksTo, PacketsTo, Msgs
<1>14. ~Pending' /\ at' >= n'
  <2>1. at' = at + 13 + len + 1
    BY <1>4, <1>7 DEF PacketLast, l
  <2> QED
    BY <1>4, <1>5, <1>7, <2>1 DEF Pending
<1>15. pops' <= Len(sent') /\ pos' = Start(pops + 1)' /\ cntr' = 0
  BY <1>1, <1>4 DEF Start
<1> QED
  BY <1>13, <1>14, <1>15 DEF AlignedOK

\* A pending message is neither skipped nor cut off; once it is read, the place
\* that is read next is past all but the last byte of the chunk, too late for
\* another message.
LEMMA AlignedMoves ==
  ASSUME TypeOK, StreamOK, BufferOK, AlignedOK, aligned,
         \/ SkipFour \/ Finish \/ TruncatedPacket \/ TruncatedAck
         \/ ~Pending /\ (ReadPacket \/ ReadAck)
  PROVE  AlignedOK'
<1>1. at \in Nat /\ n \in Nat /\ pops \in Nat
  BY DEF TypeOK
<1>2. phase # "pop"
  BY DEF SkipFour, Finish, TruncatedPacket, TruncatedAck, ReadPacket, ReadAck, Reading
<1>3. ~Pending
  <2> SUFFICES ASSUME Pending,
                      SkipFour \/ Finish \/ TruncatedPacket \/ TruncatedAck
               PROVE  FALSE
    OBVIOUS
  <2>1. PICK k \in Nat : k = pops
    BY <1>1
  <2>2. k \in 1..Len(sent) /\ Start(k) = base /\ n = Size(sent[k]) /\ phase = sent[k].kind
    BY <2>1 DEF AlignedOK, TypeOK
  <2>3. /\ at <= n /\ Found(phase)
        /\ phase = "packet" => PacketIsWhole
        /\ phase = "ack" => AckLast(at) <= n
    BY <2>2, PendingFound
  <2>4. CASE SkipFour
    BY <2>3, <2>4 DEF SkipFour
  <2>5. CASE Finish
    BY <1>1, <2>3, <2>5 DEF Finish
  <2>6. CASE TruncatedPacket
    BY <2>3, <2>6 DEF TruncatedPacket, Reading
  <2>7. CASE TruncatedAck
    BY <1>1, <2>3, <2>7 DEF TruncatedAck, Reading, AckLast
  <2> QED
    BY <2>4, <2>5, <2>6, <2>7
<1>4. /\ pops <= Len(sent) /\ pos = Start(pops + 1) /\ cntr = 0
      /\ at >= n /\ HandedOn(pops)
  BY <1>2, <1>3 DEF AlignedOK
<1>5. ~ReadPacket /\ ~ReadAck
  BY <1>1, <1>4 DEF ReadPacket, PacketIsWhole, ReadAck, AckLast
<1>6. /\ sent' = sent /\ ends' = ends /\ acks' = acks /\ packets' = packets
      /\ pops' = pops /\ pos' = pos /\ cntr' = cntr /\ n' = n
  BY <1>5 DEF SkipFour, Finish, TruncatedPacket, TruncatedAck, peerVars, chunkVars
<1>7. ~Pending' /\ (phase' # "pop" => at' >= n')
  <2>1. CASE Finish
    BY <2>1 DEF Finish, Pending
  <2>2. CASE SkipFour
    BY <1>1, <1>4, <1>6, <2>2 DEF SkipFour, Pending
  <2>3. CASE TruncatedPacket \/ TruncatedAck
    BY <1>1, <1>4, <1>6, <2>3 DEF TruncatedPacket, TruncatedAck, Pending
  <2> QED
    BY <1>5, <2>1, <2>2, <2>3
<1>8. HandedOn(pops)'
  BY <1>4, <1>6 DEF HandedOn, AcksTo, PacketsTo, Msgs
<1>9. pops' <= Len(sent') /\ pos' = Start(pops + 1)' /\ cntr' = 0
  BY <1>4, <1>6 DEF Start
<1> QED
  BY <1>7, <1>8, <1>9 DEF AlignedOK

\* The messages sent before stay where they were in the lists.
LEMMA AlignedSend ==
  ASSUME TypeOK, StreamOK, AlignedOK, aligned, Send
  PROVE  AlignedOK'
<1>1. /\ pops \in Nat /\ pops <= Len(sent) /\ pos = Start(pops + 1) /\ cntr = 0
      /\ Len(sent) \in Nat
  BY DEF AlignedOK, TypeOK
<1>2. /\ Len(sent') = Len(sent) + 1
      /\ \A i \in 1..Len(sent) : sent'[i] = sent[i] /\ ends'[i] = ends[i]
      /\ \A i \in 1..Len(sent)+1 : Start(i)' = Start(i)
  BY SendPlaces
<1>3. /\ acks' = acks /\ packets' = packets /\ pops' = pops /\ pos' = pos
      /\ cntr' = cntr /\ n' = n /\ base' = base /\ phase' = phase /\ at' = at
      /\ nth' = nth
  BY DEF Send, chunkVars
<1>4. ASSUME NEW k \in Nat, k <= Len(sent), HandedOn(k)
      PROVE  HandedOn(k)'
  <2>1. \A j \in 1..k : sent'[j] = sent[j]
    BY <1>1, <1>2, <1>4
  <2>2. AcksTo(k)' = AcksTo(k) /\ PacketsTo(k)' = PacketsTo(k)
    BY <2>1 DEF AcksTo, PacketsTo
  <2>3. AcksTo(k) \subseteq 1..k /\ PacketsTo(k) \subseteq 1..k
    BY DEF AcksTo, PacketsTo
  <2>4. Lists(acks, sent, AcksTo(k)) /\ Lists(Msgs(packets), sent, PacketsTo(k))
    BY <1>4 DEF HandedOn
  <2>5. Lists(acks, sent', AcksTo(k)) /\ Lists(Msgs(packets), sent', PacketsTo(k))
    BY <2>1, <2>3, <2>4, ListsKeep
  <2> QED
    BY <1>3, <2>2, <2>5 DEF HandedOn, Msgs
<1>5. PICK k \in Nat : k = pops
  BY <1>1
<1>6. Start(pops + 1)' = pos'
  <2>1. PICK q \in Nat : q = pops + 1
    BY <1>1
  <2>2. q \in 1..Len(sent)+1
    BY <1>1, <2>1
  <2>3. Start(q)' = Start(q)
    BY <1>2, <2>2
  <2> QED
    BY <1>1, <1>3, <2>1, <2>3 DEF Start
<1>7. pops' <= Len(sent') /\ cntr' = 0
  BY <1>1, <1>2, <1>3
<1>8. CASE Pending
  <2>1. /\ k # 0 /\ base = Start(k) /\ n = Size(sent[k]) /\ phase = sent[k].kind
        /\ HandedOn(k - 1)
    BY <1>5, <1>8 DEF AlignedOK
  <2>2. PICK l \in Nat : l = k - 1 /\ l <= Len(sent)
    BY <1>1, <1>5, <2>1
  <2>3. HandedOn(l)'
    BY <1>4, <2>1, <2>2
  <2>4. HandedOn(pops - 1)'
    BY <1>3, <1>5, <2>2, <2>3 DEF HandedOn, AcksTo, PacketsTo
  <2>5. k \in 1..Len(sent) /\ k \in 1..Len(sent)+1
    BY <1>1, <1>5, <2>1
  <2>6. Start(k)' = Start(k) /\ sent'[k] = sent[k]
    BY <1>2, <2>5
  <2>7. base' = Start(pops)'
    BY <1>3, <1>5, <2>1, <2>6 DEF Start
  <2>8. pops' # 0 /\ n' = Size(sent'[pops']) /\ phase' = sent'[pops'].kind
    BY <1>3, <1>5, <2>1, <2>6
  <2>9. Pending'
    BY <1>3, <1>8 DEF Pending
  <2> QED
    BY <1>6, <1>7, <2>4, <2>7, <2>8, <2>9 DEF AlignedOK
<1>9. CASE ~Pending
  <2>1. (phase # "pop" => at >= n) /\ HandedOn(k)
    BY <1>5, <1>9 DEF AlignedOK
  <2>2. HandedOn(k)'
    BY <1>1, <1>4, <1>5, <2>1
  <2>3. HandedOn(pops)'
    BY <1>3, <1>5, <2>2 DEF HandedOn, AcksTo, PacketsTo
  <2>4. ~Pending'
    BY <1>3, <1>9 DEF Pending
  <2> QED
    BY <1>3, <1>6, <1>7, <2>1, <2>3, <2>4 DEF AlignedOK
<1> QED
  BY <1>8, <1>9

LEMMA AlignedStep ==
  ASSUME TypeOK, Short, ScanOK, StreamOK, BufferOK, AlignedOK, [Next]_vars
  PROVE  AlignedOK'
<1>1. CASE ~aligned'
  BY <1>1 DEF AlignedOK
<1>2. CASE Popping
  BY <1>2, AlignedPop DEF Popping
<1>3. CASE Send /\ aligned
  BY <1>3, AlignedSend
<1>4. CASE aligned /\ (SkipFour \/ Finish \/ TruncatedPacket \/ TruncatedAck)
  BY <1>4, AlignedMoves
<1>5. CASE aligned /\ ReadPacket
  BY <1>5, AlignedReadPacket, AlignedMoves
<1>6. CASE aligned /\ ReadAck
  BY <1>6, AlignedReadAck, AlignedMoves
<1>7. CASE UNCHANGED vars
  BY <1>7 DEF vars, peerVars, chunkVars, AlignedOK, Start, Pending, HandedOn,
              AcksTo, PacketsTo, Msgs
<1>8. aligned' => aligned \/ UNCHANGED vars
  BY DEF Next, vars, chunkVars, Send, Popping, Pop, SkipFour, Finish, ReadPacket,
         TruncatedPacket, ReadAck, TruncatedAck
<1> QED
  BY <1>1, <1>2, <1>3, <1>4, <1>5, <1>6, <1>7, <1>8 DEF Next

-----------------------------------------------------------------------------
\* What has been sent is never taken back.
LEMMA UnmistakableBefore ==
  ASSUME TypeOK, StreamOK, [Next]_vars, Unmistakable'
  PROVE  Unmistakable
<1>1. \A i \in 1..Len(sent) : i \in 1..Len(sent') /\ sent'[i] = sent[i]
  BY SentStays
<1>2. DOMAIN sent = 1..Len(sent)
  BY DEF TypeOK
<1>3. TypeOK' => DOMAIN sent' = 1..Len(sent')
  BY DEF TypeOK
<1>4. \A i \in DOMAIN sent' : ~HeaderInside(Wire(sent'[i]))
  BY DEF Unmistakable
<1>5. \A i \in 1..Len(sent) : i \in DOMAIN sent'
  <2>1. CASE Send
    <3>1. sent' \in Seq(Message)
      <4>1. /\ unsent # <<>> /\ unsent \in Seq(Message) /\ sent \in Seq(Message)
            /\ sent' = Append(sent, Head(unsent))
        BY <2>1 DEF Send, TypeOK
      <4> QED
        BY <4>1
    <3> QED
      BY <1>1, <3>1
  <2>2. CASE sent' = sent
    BY <1>1, <1>2, <2>2
  <2> QED
    BY <2>1, <2>2 DEF Next, vars, peerVars, Popping, Pop, SkipFour, Finish,
                      ReadPacket, TruncatedPacket, ReadAck, TruncatedAck
<1> QED
  BY <1>1, <1>2, <1>4, <1>5 DEF Unmistakable

LEMMA InvStep == Inv /\ [Next]_vars => Inv'
<1> SUFFICES ASSUME Inv, [Next]_vars
             PROVE  Inv'
  OBVIOUS
<1>1. /\ TypeOK /\ Short /\ ScanOK /\ StreamOK /\ BufferOK /\ AlignedOK
      /\ Unmistakable => AcksPlaced /\ PacketsPlaced
  BY DEF Inv
<1>2. TypeOK' /\ Short' /\ ScanOK'
  BY <1>1, TypesStep
<1>3. StreamOK' /\ BufferOK'
  BY <1>1, StreamStep, BufferStep
<1>4. AlignedOK'
  BY <1>1, AlignedStep
<1>5. ASSUME Unmistakable'
      PROVE  AcksPlaced' /\ PacketsPlaced'
  <2>1. Unmistakable
    BY <1>1, <1>5, UnmistakableBefore
  <2> QED
    BY <1>1, <2>1, AcksPlacedStep, PacketsPlacedStep
<1> QED
  BY <1>2, <1>3, <1>4, <1>5 DEF Inv

LEMMA Invariant == Spec => []Inv
<1>1. Init => Inv
  BY InitInv
<1>2. Inv /\ [Next]_vars => Inv'
  BY InvStep
<1> QED
  BY <1>1, <1>2, PTL DEF Spec

\* For every stream of messages, every way it is cut into chunks and every
\* content the buffer starts with: packetProcessor and its deserializers read
\* bufferBytes inside its bounds only, m_payload takes all they write although
\* payloadSizeCntr is never reset, and what they hand on is a message.
THEOREM TypeCorrect == Spec => []TypeOK
<1>1. Inv => TypeOK
  BY DEF Inv
<1> QED
  BY <1>1, Invariant, PTL

\* No ack is invented, doubled or reordered by ackPacketDeserializer, as long as
\* no message carries the bytes of a header inside.
THEOREM NoAckInvented == Spec => []AcksFaithful
<1>1. Inv => AcksFaithful
  <2> SUFFICES ASSUME Inv, Unmistakable
               PROVE  IsSubsequence(acks, sent)
    BY DEF AcksFaithful
  <2>1. PICK f \in [1..Len(acks) -> 1..Len(sent)] :
          /\ Increasing(f, Len(acks))
          /\ \A i \in 1..Len(acks) : Passed(f[i]) /\ acks[i] = sent[f[i]]
    BY DEF Inv, AcksPlaced
  <2> QED
    BY <2>1 DEF IsSubsequence
<1> QED
  BY <1>1, Invariant, PTL

\* Nor is a packet by packetDeserializer: what it hands on has the ID, addresses,
\* message ID and length of a packet sent, each in its turn.
THEOREM NoPacketInvented == Spec => []HeadersFaithful
<1>1. Inv => HeadersFaithful
  <2> DEFINE s == [i \in DOMAIN packets |-> Headless(packets[i].msg)]
             t == [i \in DOMAIN sent |-> Headless(sent[i])]
  <2> SUFFICES ASSUME Inv, Unmistakable
               PROVE  IsSubsequence(s, t)
    BY DEF HeadersFaithful
  <2>1. PICK f \in [1..Len(packets) -> 1..Len(sent)] :
          /\ Increasing(f, Len(packets))
          /\ \A i \in 1..Len(packets) :
               /\ Passed(f[i])
               /\ Headless(packets[i].msg) = Headless(sent[f[i]])
               /\ packets[i].nth = 1 => packets[i].msg = sent[f[i]]
    BY DEF Inv, PacketsPlaced
  <2>2. PICK k \in Nat : k = Len(packets) /\ DOMAIN packets = 1..k
    BY DEF Inv, TypeOK
  <2>3. PICK l \in Nat : l = Len(sent) /\ DOMAIN sent = 1..l
    BY DEF Inv, TypeOK
  <2>4. s = [i \in 1..k |-> Headless(packets[i].msg)]
        /\ t = [i \in 1..l |-> Headless(sent[i])]
    BY <2>2, <2>3
  <2> HIDE DEF s, t
  <2>5. Len(s) = k /\ Len(t) = l
    BY <2>2, <2>3, <2>4
  <2>6. f \in [1..k -> 1..l] /\ Increasing(f, k)
    BY <2>1, <2>2, <2>3
  <2>7. \A i \in 1..k : s[i] = t[f[i]]
    BY <2>1, <2>2, <2>3, <2>4, <2>6
  <2> QED
    BY <2>5, <2>6, <2>7 DEF IsSubsequence
<1> QED
  BY <1>1, Invariant, PTL

\* The first packet of a chunk has the payload it was sent with: before it,
\* nothing was written to m_payload.
THEOREM FirstPacketIntact == Spec => []FirstOfChunkFaithful
<1>1. Inv => FirstOfChunkFaithful
  <2> SUFFICES ASSUME Inv, Unmistakable, NEW i \in DOMAIN packets,
                      packets[i].nth = 1
               PROVE  \E j \in DOMAIN sent : packets[i].msg = sent[j]
    BY DEF FirstOfChunkFaithful
  <2>1. PICK f \in [1..Len(packets) -> 1..Len(sent)] :
          \A k \in 1..Len(packets) :
               packets[k].nth = 1 => packets[k].msg = sent[f[k]]
    BY DEF Inv, PacketsPlaced
  <2>2. i \in 1..Len(packets) /\ DOMAIN sent = 1..Len(sent)
    BY DEF Inv, TypeOK
  <2> QED
    BY <2>1, <2>2
<1> QED
  BY <1>1, Invariant, PTL

\* One message at a time, the receiver keeps every ack and exactly those packets
\* whose two ID bytes are equal, in the order sent and unharmed.
THEOREM OneByOneDelivered == Spec => []AlignedDelivery
<1>1. Inv => AlignedDelivery
  <2> SUFFICES ASSUME Inv, aligned, phase = "pop"
               PROVE  HandedOn(pops)
    BY DEF AlignedDelivery, HandedOn, AcksTo, PacketsTo
  <2>1. ~Pending
    BY DEF Pending
  <2> QED
    BY <2>1 DEF Inv, AlignedOK
<1> QED
  BY <1>1, Invariant, PTL
=============================================================================
