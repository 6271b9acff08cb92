---------------------------- MODULE SendPathProofs ----------------------------
(***************************************************************************)
(* Proofs about SendPath, for any number of threads, addresses and calls   *)
(* and any width of the counter.                                           *)
(***************************************************************************)
EXTENDS SendPath, TLAPS

\* A counter of two bytes has at least four values.
LEMMA CntrModNat == CntrMod \in Nat /\ CntrMod > 1
BY SendAssumption, SMT DEF CntrMod

\* The increment either moves on by one or wraps to zero.
LEMMA IncrementedCases ==
  ASSUME NEW n \in 0..CntrMod-1
  PROVE  /\ Incremented(n) \in 0..CntrMod-1
         /\ Incremented(n) = IF n + 1 = CntrMod THEN 0 ELSE n + 1
<1> DEFINE M == CntrMod
<1>1. M \in Nat /\ M > 1
  BY CntrModNat
<1>2. n \in 0..M-1
  OBVIOUS
<1>3. Incremented(n) = (n + 1) % M
  BY DEF Incremented
<1> HIDE DEF M
<1>4. /\ (n + 1) % M \in 0..M-1
      /\ (n + 1) % M = IF n + 1 = M THEN 0 ELSE n + 1
  BY <1>1, <1>2, SMT
<1> QED
  BY <1>3, <1>4 DEF M

\* The two bytes of an ID are checksum terms of the counter.
LEMMA HighLow ==
  ASSUME NEW n \in 0..CntrMod-1
  PROVE  /\ High(n) \subseteq CounterBytes /\ Low(n) \subseteq CounterBytes
         /\ High(n) \in Sums /\ Low(n) \in Sums
<1>1. n \in Nat /\ n < Half * Half
  BY CntrModNat, SMT DEF CntrMod
<1>2. n \div Half \in 0..Half-1
  BY <1>1, SendAssumption, SMT
<1>3. n % Half \in 0..Half-1
  BY <1>1, SendAssumption, SMT
<1>4. ASSUME NEW b \in 0..Half-1 PROVE ByteOf(b) \subseteq CounterBytes
  <2>1. CASE b = 0
    BY <2>1 DEF ByteOf
  <2>2. CASE b # 0
    <3>1. b \in 1..Half-1
      BY <2>2, SendAssumption, SMT
    <3>2. <<"byte", b>> \in CounterBytes
      BY <3>1 DEF CounterBytes
    <3> QED
      BY <2>2, <3>2 DEF ByteOf
  <2> QED
    BY <2>1, <2>2
<1>5. High(n) \subseteq CounterBytes /\ Low(n) \subseteq CounterBytes
  BY <1>2, <1>3, <1>4 DEF High, Low
<1> QED
  BY <1>5 DEF Sums

\* Exclusive or keeps to the checksum terms.
LEMMA XorSums ==
  ASSUME NEW a \in Sums, NEW b \in Sums
  PROVE  Xor(a, b) \in Sums
BY DEF Xor, Sums

LEMMA AddrSumType ==
  ASSUME NEW d \in Addrs, NEW s \in Addrs
  PROVE  AddrSum(d, s) \in Sums
BY DEF AddrSum, Sums

LEMMA BodySumType ==
  ASSUME NEW b \in Bodies \cup {None}
  PROVE  BodySum(b) \in Sums
BY DEF BodySum, Sums

LEMMA CarriedType ==
  ASSUME NEW m \in Objects
  PROVE  CarriedSum(m) \in Sums /\ CarriedSumWithID(m) \in Sums
<1>1. m.dest \in Addrs /\ m.src \in Addrs /\ m.body \in Bodies \cup {None}
      /\ m.id \in 0..CntrMod-1
  BY DEF Objects
<1>2. CarriedSum(m) \in Sums
  BY <1>1, AddrSumType, BodySumType, XorSums DEF CarriedSum
<1>3. Xor(High(m.id), Low(m.id)) \in Sums
  BY <1>1, HighLow, XorSums
<1> QED
  BY <1>2, <1>3, XorSums DEF CarriedSumWithID

-----------------------------------------------------------------------------
LEMMA NewTypes ==
  ASSUME NEW d \in Addrs, NEW s \in Addrs
  PROVE  /\ NewPacket(d, s) \in Objects
         /\ \A b \in Bodies : NewAck(d, s, b) \in Objects
<1>1. 0 \in 0..CntrMod-1
  BY CntrModNat
<1>2. AddrSum(d, s) \in Sums /\ {} \in Sums
  BY AddrSumType DEF Sums
<1> QED
  BY <1>1, <1>2 DEF NewPacket, NewAck, Objects, Uses

LEMMA SerializedType ==
  ASSUME NEW o \in Objects, NEW b \in Bodies
  PROVE  [Serialized(o, b) EXCEPT
           !.use = IF @ = "fresh" THEN "sealed" ELSE "spoiled"] \in Objects
<1>1. Xor(o.cksum, BodySum(b)) \in Sums
  BY BodySumType, XorSums DEF Objects
<1> QED
  BY <1>1 DEF Serialized, Objects, Uses, Sums

\* A call of an object's owner replaces the object and counts.
LEMMA CallType ==
  ASSUME TypeOK, NEW t \in Threads, NEW o \in Objects, Call(t, o)
  PROVE  TypeOK'
BY SendAssumption DEF TypeOK, Call

\* Every variable keeps its type; the counter stays within its 16 bits.
THEOREM TypeCorrect == Spec => []TypeOK
<1>1. Init => TypeOK
  <2> SUFFICES ASSUME Init PROVE TypeOK
    OBVIOUS
  <2>1. obj \in [Threads -> Objects]
    BY NewTypes DEF Init
  <2> QED
    <3>1. 0 \in 0..CntrMod-1 /\ 0 \in 0..MaxCalls
      BY CntrModNat, SendAssumption
    <3>2. issued \in Seq(0..CntrMod-1)
      BY DEF Init
    <3> QED
      BY <2>1, <3>1, <3>2 DEF Init, TypeOK
<1>2. TypeOK /\ [Next]_vars => TypeOK'
  <2> SUFFICES ASSUME TypeOK, [Next]_vars PROVE TypeOK'
    OBVIOUS
  <2>1. ASSUME NEW t \in Threads, Construct(t) PROVE TypeOK'
    BY <2>1, NewTypes, CallType DEF Construct
  <2>2. ASSUME NEW t \in Threads, Serialize(t) PROVE TypeOK'
    <3>1. obj[t] \in Objects
      BY DEF TypeOK
    <3> QED
      BY <2>2, <3>1, SerializedType, CallType DEF Serialize
  <2>3. ASSUME NEW t \in Threads, setDestID(t) PROVE TypeOK'
    <3>0. obj[t] \in Objects
      BY DEF TypeOK
    <3>1. \A d \in Addrs : [obj[t] EXCEPT !.dest = d, !.use = "spoiled"] \in Objects
      BY <3>0 DEF Objects, Uses
    <3> QED
      BY <2>3, <3>1, CallType DEF setDestID
  <2>4. ASSUME NEW t \in Threads, setSrcID(t) PROVE TypeOK'
    <3>0. obj[t] \in Objects
      BY DEF TypeOK
    <3>1. \A s \in Addrs : [obj[t] EXCEPT !.src = s, !.use = "spoiled"] \in Objects
      BY <3>0 DEF Objects, Uses
    <3> QED
      BY <2>4, <3>1, CallType DEF setSrcID
  <2>5. ASSUME NEW t \in Threads, setPktID(t) PROVE TypeOK'
    <3>0. obj[t] \in Objects
      BY DEF TypeOK
    <3>1. \A i \in 0..CntrMod-1 : [obj[t] EXCEPT !.id = i] \in Objects
      BY <3>0 DEF Objects
    <3> QED
      BY <2>5, <3>1, CallType DEF setPktID
  <2>6. ASSUME NEW t \in Threads, calCulateChecksum(t) PROVE TypeOK'
    <3>1. obj[t] \in Objects
      BY DEF TypeOK
    <3>2. [obj[t] EXCEPT !.cksum = CarriedSumWithID(obj[t])] \in Objects
      BY <3>1, CarriedType DEF Objects
    <3> QED
      BY <2>6, <3>2, CallType DEF calCulateChecksum
  <2>7. ASSUME NEW t \in Threads, Send(t) PROVE TypeOK'
    <3>1. obj[t] \in Objects
      BY DEF TypeOK
    <3>2. [obj[t] EXCEPT !.use = IF @ = "fresh" THEN "spoiled" ELSE @] \in Objects
      BY <3>1 DEF Objects, Uses
    <3>3. obj' \in [Threads -> Objects]
      BY <2>7, <3>2 DEF Send, TypeOK
    <3>4. calls' \in 0..MaxCalls
      BY <2>7, SendAssumption DEF Send, TypeOK
    <3> QED
      BY <2>7, <3>3, <3>4 DEF Send, TypeOK, At, Goto
  <2>8. ASSUME NEW t \in Threads, Store(t) PROVE TypeOK'
    <3>1. reg[t] \in 0..CntrMod-1 /\ obj[t] \in Objects
      BY DEF TypeOK
    <3>2. Incremented(reg[t]) \in 0..CntrMod-1
      BY <3>1, IncrementedCases
    <3>3. [obj[t] EXCEPT !.id = reg[t]] \in Objects
      BY <3>1 DEF Objects
    <3>4. obj' \in [Threads -> Objects]
      BY <2>8, <3>3 DEF Store, TypeOK
    <3>5. issued' \in Seq(0..CntrMod-1)
      BY <2>8, <3>1 DEF Store, TypeOK
    <3> QED
      BY <2>8, <3>2, <3>4, <3>5 DEF Store, TypeOK, At, Goto
  <2>9. ASSUME NEW t \in Threads, EnterHigh(t) \/ EnterLow(t) PROVE TypeOK'
    <3>1. obj[t] \in Objects /\ High(pktIDCntr) \in Sums /\ Low(pktIDCntr) \in Sums
      BY HighLow DEF TypeOK
    <3>2. \A b \in {High(pktIDCntr), Low(pktIDCntr)} :
            [obj[t] EXCEPT !.cksum = Xor(@, b)] \in Objects
      BY <3>1, XorSums DEF Objects
    <3>3. obj' \in [Threads -> Objects]
      BY <2>9, <3>2 DEF EnterHigh, EnterLow, TypeOK
    <3> QED
      BY <2>9, <3>3 DEF EnterHigh, EnterLow, TypeOK, At, Goto
  <2>10. ASSUME NEW t \in Threads, Add(t) PROVE TypeOK'
    <3>1. obj[t] \in Objects
      BY DEF TypeOK
    <3>2. wire' \subseteq Objects
      BY <2>10, <3>1 DEF Add, TypeOK
    <3> QED
      BY <2>10, <3>2 DEF Add, TypeOK, At, Goto
  <2>12. ASSUME NEW t \in Threads, Sum(t) PROVE TypeOK'
    <3>1. obj[t] \in Objects
      BY DEF TypeOK
    <3>2. [obj[t] EXCEPT !.cksum = CarriedSumWithID(obj[t])] \in Objects
      BY <3>1, CarriedType DEF Objects
    <3>3. obj' \in [Threads -> Objects]
      BY <2>12, <3>2 DEF Sum, TypeOK
    <3> QED
      BY <2>12, <3>3 DEF Sum, TypeOK, At, Goto
  <2>11. CASE UNCHANGED vars
    BY <2>11 DEF vars, TypeOK
  <2> QED
    BY <2>1, <2>2, <2>3, <2>4, <2>5, <2>6, <2>7, <2>8, <2>9, <2>10, <2>11,
       <2>12 DEF Next
<1> QED
  BY <1>1, <1>2, PTL DEF Spec

-----------------------------------------------------------------------------
\* As long as no increment is lost, the k-th ID is k - 1 and the counter is the
\* number of IDs issued, both up to whole turns of the counter.
Turns(n, r) == \E q \in Nat : n = q * CntrMod + r
InStep ==
  ~raced => /\ \A k \in DOMAIN issued : Turns(k - 1, issued[k])
            /\ Turns(Len(issued), pktIDCntr)

\* Two numbers with the same rest are equal or a whole turn apart.
LEMMA WholeTurns ==
  ASSUME NEW m \in Nat, NEW n \in Nat, NEW r \in 0..CntrMod-1,
         Turns(m, r), Turns(n, r)
  PROVE  m = n \/ m - n >= CntrMod \/ n - m >= CntrMod
<1> DEFINE M == CntrMod
<1>1. M \in Nat /\ M > 1
  BY CntrModNat
<1>2. PICK p \in Nat : m = p * M + r
  BY DEF Turns
<1>3. PICK q \in Nat : n = q * M + r
  BY DEF Turns
<1>4. r \in Nat
  BY <1>1
<1> HIDE DEF M
<1>5. CASE p = q
  BY <1>5, <1>2, <1>3
<1>6. CASE p >= q + 1
  <2>1. p * M >= (q + 1) * M
    BY <1>6, <1>1, SMT
  <2>2. (q + 1) * M = q * M + M
    BY <1>1, SMT
  <2>3. p * M \in Nat /\ q * M \in Nat
    BY <1>1, SMT
  <2>4. m - n >= M
    BY <2>1, <2>2, <2>3, <1>1, <1>2, <1>3, <1>4, SMT
  <2> QED
    BY <2>4 DEF M
<1>7. CASE q >= p + 1
  <2>1. q * M >= (p + 1) * M
    BY <1>7, <1>1, SMT
  <2>2. (p + 1) * M = p * M + M
    BY <1>1, SMT
  <2>3. p * M \in Nat /\ q * M \in Nat
    BY <1>1, SMT
  <2>4. n - m >= M
    BY <2>1, <2>2, <2>3, <1>1, <1>2, <1>3, <1>4, SMT
  <2> QED
    BY <2>4 DEF M
<1>8. p = q \/ p >= q + 1 \/ q >= p + 1
  BY SMT
<1> QED
  BY <1>5, <1>6, <1>7, <1>8

\* Counting on from n by one is counting on from its rest.
LEMMA TurnsNext ==
  ASSUME NEW n \in Nat, NEW r \in 0..CntrMod-1, Turns(n, r)
  PROVE  Turns(n + 1, Incremented(r))
<1> DEFINE M == CntrMod
           i == Incremented(r)
<1>1. M \in Nat /\ M > 1
  BY CntrModNat
<1>2. PICK q \in Nat : n = q * M + r
  BY DEF Turns
<1>3. i = IF r + 1 = M THEN 0 ELSE r + 1
  BY IncrementedCases
<1>4. r \in Nat
  BY <1>1
<1> HIDE DEF M, i
<1>5. q * M \in Nat /\ (q + 1) * M = q * M + M
  BY <1>1, SMT
<1>6. CASE r + 1 = M
  <2>1. n + 1 = (q + 1) * M + i
    BY <1>1, <1>2, <1>3, <1>4, <1>5, <1>6, SMT
  <2> QED
    BY <2>1 DEF Turns, M, i
<1>7. CASE r + 1 # M
  <2>1. n + 1 = q * M + i
    BY <1>1, <1>2, <1>3, <1>4, <1>5, <1>7, SMT
  <2> QED
    BY <2>1 DEF Turns, M, i
<1> QED
  BY <1>6, <1>7

\* UniqueIDs: without a lost increment, no ID comes twice within one turn of
\* the counter, in whatever order several threads' reads of it fall.
THEOREM IDsUnique == Spec => []UniqueIDs
<1>1. Init => InStep
  <2> SUFFICES ASSUME Init PROVE InStep
    OBVIOUS
  <2>1. 0 = 0 * CntrMod + 0
    BY CntrModNat, SMT
  <2>2. Turns(0, 0)
    BY <2>1 DEF Turns
  <2> QED
    BY <2>2 DEF Init, InStep
<1>2. TypeOK /\ InStep /\ [Next]_vars => InStep'
  <2> SUFFICES ASSUME TypeOK, InStep, [Next]_vars PROVE InStep'
    OBVIOUS
  <2>1. ASSUME NEW t \in Threads, Store(t), ~raced' PROVE InStep'
    <3>1. /\ issued' = Append(issued, reg[t]) /\ pktIDCntr' = Incremented(reg[t])
          /\ reg[t] = pktIDCntr /\ ~raced
      BY <2>1 DEF Store
    <3>2. issued \in Seq(0..CntrMod-1) /\ pktIDCntr \in 0..CntrMod-1
      BY DEF TypeOK
    <3>3. Turns(Len(issued), pktIDCntr)
      BY <3>1 DEF InStep
    <3>4. Len(issued) \in Nat
      BY <3>2
    <3>5. Turns(Len(issued) + 1, pktIDCntr')
      BY <3>1, <3>2, <3>3, <3>4, TurnsNext
    <3>6. Len(issued') = Len(issued) + 1
      BY <3>1, <3>2
    <3>7. ASSUME NEW k \in DOMAIN issued' PROVE Turns(k - 1, issued'[k])
      <4>1. CASE k = Len(issued) + 1
        <5>1. issued'[k] = pktIDCntr /\ k - 1 = Len(issued)
          BY <4>1, <3>1, <3>2, <3>4
        <5> QED
          BY <5>1, <3>3
      <4>2. CASE k # Len(issued) + 1
        <5>1. k \in DOMAIN issued /\ issued'[k] = issued[k]
          BY <4>2, <3>1, <3>2
        <5> QED
          BY <5>1, <3>1 DEF InStep
      <4> QED
        BY <4>1, <4>2
    <3> QED
      BY <3>5, <3>6, <3>7 DEF InStep, Turns
  <2>2. ASSUME NEW t \in Threads, Store(t), raced' PROVE InStep'
    BY <2>2 DEF InStep
  <2>3. CASE UNCHANGED <<pktIDCntr, issued, raced>>
    BY <2>3 DEF InStep, Turns
  <2>4. ASSUME NEW t \in Threads,
               Construct(t) \/ Serialize(t) \/ setDestID(t) \/ setSrcID(t)
                 \/ setPktID(t) \/ calCulateChecksum(t)
        PROVE  UNCHANGED <<pktIDCntr, issued, raced>>
    BY <2>4 DEF Construct, Serialize, setDestID, setSrcID, setPktID,
                calCulateChecksum, Call
  <2>5. ASSUME NEW t \in Threads,
               Send(t) \/ EnterHigh(t) \/ EnterLow(t) \/ Sum(t) \/ Add(t)
        PROVE  UNCHANGED <<pktIDCntr, issued, raced>>
    BY <2>5 DEF Send, EnterHigh, EnterLow, Sum, Add
  <2>6. CASE UNCHANGED vars
    BY <2>6, <2>3 DEF vars
  <2> QED
    BY <2>1, <2>2, <2>3, <2>4, <2>5, <2>6 DEF Next
<1>3. TypeOK /\ InStep => UniqueIDs
  <2> SUFFICES ASSUME TypeOK, InStep, ~raced,
                      NEW j \in DOMAIN issued, NEW k \in DOMAIN issued,
                      issued[j] = issued[k]
               PROVE  j = k \/ j - k >= CntrMod \/ k - j >= CntrMod
    BY DEF UniqueIDs
  <2> DEFINE IDs == 0..CntrMod-1
  <2>0. issued \in Seq(IDs)
    BY DEF TypeOK
  <2> HIDE DEF IDs
  <2>1. j - 1 \in Nat /\ k - 1 \in Nat /\ issued[k] \in 0..CntrMod-1
    <3>1. issued[k] \in IDs
      BY <2>0
    <3>2. j \in 1..Len(issued) /\ k \in 1..Len(issued) /\ Len(issued) \in Nat
      BY <2>0
    <3> QED
      BY <3>1, <3>2 DEF IDs
  <2>2. Turns(j - 1, issued[k]) /\ Turns(k - 1, issued[k])
    BY DEF InStep
  <2>3. j - 1 = k - 1 \/ (j - 1) - (k - 1) >= CntrMod
          \/ (k - 1) - (j - 1) >= CntrMod
    BY <2>1, <2>2, WholeTurns
  <2>4. j \in Nat /\ k \in Nat /\ CntrMod \in Nat
    <3>1. DOMAIN issued = 1..Len(issued) /\ Len(issued) \in Nat
      BY <2>0
    <3> QED
      BY <3>1, CntrModNat
  <2> QED
    BY <2>3, <2>4
<1> QED
  BY <1>1, <1>2, <1>3, TypeCorrect, PTL DEF Spec

-----------------------------------------------------------------------------
\* What Serialize leaves of an object's sums, and sends do not spoil.
SealHolds(o) ==
  IF o.body \in Full THEN Xor(o.cksum, CarriedSum(o)) \subseteq CounterBytes
  ELSE o.seal = CarriedSum(o)

\* A fresh packet holds the sum of its addresses, a sealed one is sealed with
\* the sum of what it carries, and an empty one has a zero behind it.
ObjectSums(o) ==
  /\ o.kind = "packet" /\ o.use = "fresh"
       => o.body = None /\ o.cksum = AddrSum(o.dest, o.src)
  /\ o.use = "sealed" => o.kind = "packet" /\ o.body # None /\ SealHolds(o)
  /\ o.kind = "packet" /\ o.body = None => o.seal = {}

\* Only an ack is summed anew, and one that is ready to go has its sum.
Summed(t) ==
  /\ pc[t] = "sum" => obj[t].kind = "ack"
  /\ pc[t] = "add" /\ obj[t].kind = "ack"
       => obj[t].cksum = CarriedSumWithID(obj[t])

SumsKept ==
  /\ \A t \in Threads : ObjectSums(obj[t]) /\ Summed(t)
  /\ \A t \in Threads : pc[t] # "idle" => obj[t].use # "fresh"
  /\ ChecksumsMatch

\* A call of a method keeps the sums of the object and leaves the wire alone.
LEMMA CallSums ==
  ASSUME TypeOK, SumsKept, NEW t \in Threads, NEW o, ObjectSums(o), Call(t, o)
  PROVE  SumsKept'
<1>1. \A u \in Threads : ObjectSums(obj'[u])
  BY DEF SumsKept, Call, TypeOK
<1>2. ChecksumsMatch'
  BY DEF SumsKept, Call, ChecksumsMatch
<1>3. \A u \in Threads : pc'[u] # "idle" => obj'[u].use # "fresh"
  BY DEF SumsKept, Call, TypeOK
<1>4. ASSUME NEW u \in Threads PROVE Summed(u)'
  BY DEF SumsKept, Summed, Call, TypeOK
<1> QED
  BY <1>1, <1>2, <1>3, <1>4 DEF SumsKept

\* Bytes of the counter that enter m_cksum leave only bytes of the counter
\* between it and the sum of what a packet carries.
LEMMA OnlyCounterBytes ==
  ASSUME NEW c, NEW e, NEW h, Xor(c, e) \subseteq CounterBytes,
         h \subseteq CounterBytes
  PROVE  Xor(Xor(c, h), e) \subseteq CounterBytes
BY DEF Xor

\* Serialize seals a fresh packet.
LEMMA SerializeSeals ==
  ASSUME NEW o \in Objects, o.kind = "packet", ObjectSums(o), NEW b \in Bodies
  PROVE  ObjectSums([Serialized(o, b) EXCEPT
                       !.use = IF @ = "fresh" THEN "sealed" ELSE "spoiled"])
<1> DEFINE n == [Serialized(o, b) EXCEPT
                   !.use = IF @ = "fresh" THEN "sealed" ELSE "spoiled"]
<1>1. n.kind = "packet" /\ n.use # "fresh" /\ (n.use = "sealed" => o.use = "fresh")
  BY DEF Objects, Serialized
<1>2. /\ n.dest = o.dest /\ n.src = o.src /\ n.body = b
      /\ n.cksum = Xor(o.cksum, BodySum(b))
      /\ b \notin Full => n.seal = Xor(o.cksum, BodySum(b))
  BY DEF Objects, Serialized
<1>3. b # None
  BY SendAssumption
<1> HIDE DEF n
<1>4. ASSUME n.use = "sealed" PROVE SealHolds(n)
  <2>1. o.cksum = AddrSum(o.dest, o.src)
    BY <1>1, <1>4 DEF ObjectSums
  <2>2. n.cksum = CarriedSum(n)
    BY <1>2, <2>1 DEF CarriedSum
  <2>3. Xor(n.cksum, CarriedSum(n)) = {}
    BY <2>2 DEF Xor
  <2> QED
    BY <1>2, <2>2, <2>3 DEF SealHolds
<1>5. ObjectSums(n)
  BY <1>1, <1>2, <1>3, <1>4 DEF ObjectSums
<1> QED
  BY <1>5 DEF n

\* ChecksumsMatch: whoever else moves the counter, a packet sealed by
\* Serialize goes out with the sum of what it carries, on which, if it is
\* full, only bytes of the counter come; one never serialized with a zero;
\* and an ack with the sum of what it carries and its ID.
THEOREM SealsMatch == Spec => []ChecksumsMatch
<1>1. Init => SumsKept
  <2> SUFFICES ASSUME Init PROVE SumsKept
    OBVIOUS
  <2>1. ASSUME NEW t \in Threads
        PROVE  ObjectSums(obj[t]) /\ Summed(t) /\ pc[t] = "idle"
    <3>1. PICK d \in Addrs, s \in Addrs : obj[t] = NewPacket(d, s)
      BY DEF Init
    <3>2. pc[t] = "idle"
      BY DEF Init
    <3> QED
      BY <3>1, <3>2 DEF ObjectSums, Summed, NewPacket
  <2> QED
    BY <2>1 DEF Init, SumsKept, ChecksumsMatch
<1>2. TypeOK /\ SumsKept /\ [Next]_vars => SumsKept'
  <2> SUFFICES ASSUME TypeOK, SumsKept, [Next]_vars PROVE SumsKept'
    OBVIOUS
  <2>1. ASSUME NEW t \in Threads, Construct(t) PROVE SumsKept'
    <3>1. \A d, s \in Addrs : ObjectSums(NewPacket(d, s))
      BY DEF ObjectSums, NewPacket
    <3>2. \A d, s \in Addrs : \A b \in Bodies : ObjectSums(NewAck(d, s, b))
      BY DEF ObjectSums, NewAck
    <3> QED
      BY <2>1, <3>1, <3>2, CallSums DEF Construct
  <2>2. ASSUME NEW t \in Threads, Serialize(t) PROVE SumsKept'
    <3>1. obj[t] \in Objects /\ obj[t].kind = "packet" /\ ObjectSums(obj[t])
      BY <2>2 DEF Serialize, TypeOK, SumsKept
    <3> QED
      BY <2>2, <3>1, SerializeSeals, CallSums DEF Serialize
  <2>3. ASSUME NEW t \in Threads, setDestID(t) \/ setSrcID(t) PROVE SumsKept'
    <3>0. obj[t] \in Objects /\ ObjectSums(obj[t])
      BY DEF TypeOK, SumsKept
    <3>1. \A d \in Addrs :
            ObjectSums([obj[t] EXCEPT !.dest = d, !.use = "spoiled"])
      BY <3>0 DEF ObjectSums, Objects
    <3>2. \A s \in Addrs :
            ObjectSums([obj[t] EXCEPT !.src = s, !.use = "spoiled"])
      BY <3>0 DEF ObjectSums, Objects
    <3> QED
      BY <2>3, <3>1, <3>2, CallSums DEF setDestID, setSrcID
  <2>4. ASSUME NEW t \in Threads, setPktID(t) PROVE SumsKept'
    <3>0. obj[t] \in Objects /\ obj[t].kind = "ack" /\ ObjectSums(obj[t])
      BY <2>4 DEF setPktID, TypeOK, SumsKept
    <3>1. \A i \in 0..CntrMod-1 : ObjectSums([obj[t] EXCEPT !.id = i])
      BY <3>0 DEF ObjectSums, Objects
    <3> QED
      BY <2>4, <3>1, CallSums DEF setPktID
  <2>5. ASSUME NEW t \in Threads, calCulateChecksum(t) PROVE SumsKept'
    <3>0. obj[t] \in Objects /\ obj[t].kind = "ack" /\ ObjectSums(obj[t])
      BY <2>5 DEF calCulateChecksum, TypeOK, SumsKept
    <3>1. ObjectSums([obj[t] EXCEPT !.cksum = CarriedSumWithID(obj[t])])
      BY <3>0 DEF ObjectSums, Objects
    <3> QED
      BY <2>5, <3>1, CallSums DEF calCulateChecksum
  <2>6. ASSUME NEW t \in Threads,
               Send(t) \/ Store(t) \/ EnterHigh(t) \/ EnterLow(t) \/ Sum(t)
        PROVE  SumsKept'
    <3>0. obj[t] \in Objects /\ ObjectSums(obj[t])
      BY DEF TypeOK, SumsKept
    <3> DEFINE n == obj'[t]
    <3>1. \A u \in Threads \ {t} : obj'[u] = obj[u] /\ pc'[u] = pc[u]
      BY <2>6 DEF Send, Store, EnterHigh, EnterLow, Sum, Goto, TypeOK
    <3>2. /\ n.kind = obj[t].kind /\ n.dest = obj[t].dest /\ n.src = obj[t].src
          /\ n.body = obj[t].body /\ n.seal = obj[t].seal
      BY <2>6, <3>0 DEF Send, Store, EnterHigh, EnterLow, Sum, TypeOK, Objects
    <3>3. n.use # "fresh" /\ (n.use = "sealed" => obj[t].use = "sealed")
      <4>1. CASE Send(t)
        BY <4>1, <3>0 DEF Send, TypeOK, Objects
      <4>2. CASE Store(t) \/ EnterHigh(t) \/ EnterLow(t) \/ Sum(t)
        <5>1. n.use = obj[t].use /\ pc[t] # "idle"
          BY <4>2, <3>0 DEF Store, EnterHigh, EnterLow, Sum, At, TypeOK, Objects
        <5> QED
          BY <5>1 DEF SumsKept
      <4> QED
        BY <2>6, <4>1, <4>2
    <3>4. wire' = wire
      BY <2>6 DEF Send, Store, EnterHigh, EnterLow, Sum
    <3>5. ASSUME n.kind = "packet"
          PROVE  \E h : h \subseteq CounterBytes /\ n.cksum = Xor(obj[t].cksum, h)
      <4>0. {} \subseteq CounterBytes /\ obj[t].cksum = Xor(obj[t].cksum, {})
        BY DEF Xor
      <4>1. CASE Send(t) \/ Store(t)
        <5>1. n.cksum = obj[t].cksum
          BY <4>1, <3>0 DEF Send, Store, TypeOK, Objects
        <5> QED
          BY <4>0, <5>1
      <4>2. CASE EnterHigh(t) \/ EnterLow(t)
        <5>1. High(pktIDCntr) \subseteq CounterBytes
              /\ Low(pktIDCntr) \subseteq CounterBytes
          BY HighLow DEF TypeOK
        <5>2. n.cksum \in {Xor(obj[t].cksum, High(pktIDCntr)),
                           Xor(obj[t].cksum, Low(pktIDCntr))}
          BY <4>2, <3>0 DEF EnterHigh, EnterLow, TypeOK, Objects
        <5> QED
          BY <5>1, <5>2
      <4>3. CASE Sum(t)
        <5>1. pc[t] = "sum"
          BY <4>3 DEF Sum, At
        <5>2. obj[t].kind = "packet"
          BY <3>2, <3>5
        <5> QED
          BY <5>1, <5>2 DEF SumsKept, Summed
      <4> QED
        BY <2>6, <4>1, <4>2, <4>3
    <3>6. ObjectSums(n)
      <4>1. ASSUME n.use = "sealed"
            PROVE  n.kind = "packet" /\ n.body # None /\ SealHolds(n)
        <5>1. /\ obj[t].kind = "packet" /\ obj[t].body # None
              /\ SealHolds(obj[t])
          BY <3>0, <3>3, <4>1 DEF ObjectSums
        <5>2. CarriedSum(n) = CarriedSum(obj[t])
          BY <3>2 DEF CarriedSum
        <5>3. CASE n.body \notin Full
          BY <3>2, <5>1, <5>2, <5>3 DEF SealHolds
        <5>4. CASE n.body \in Full
          <6>1. Xor(obj[t].cksum, CarriedSum(n)) \subseteq CounterBytes
            BY <3>2, <5>1, <5>2, <5>4 DEF SealHolds
          <6>2. PICK h : h \subseteq CounterBytes /\ n.cksum = Xor(obj[t].cksum, h)
            BY <3>2, <3>5, <5>1
          <6>3. Xor(n.cksum, CarriedSum(n)) \subseteq CounterBytes
            BY <6>1, <6>2, OnlyCounterBytes
          <6> QED
            BY <3>2, <5>1, <5>4, <6>3 DEF SealHolds
        <5> QED
          BY <5>3, <5>4
      <4> QED
        BY <3>0, <3>2, <3>3, <4>1 DEF ObjectSums
    <3>7. \A u \in Threads : ObjectSums(obj'[u])
      BY <3>1, <3>6 DEF SumsKept
    <3>8. \A u \in Threads : pc'[u] # "idle" => obj'[u].use # "fresh"
      BY <3>1, <3>3 DEF SumsKept
    <3>9. ASSUME NEW u \in Threads PROVE Summed(u)'
      <4>1. CASE u # t
        BY <3>1, <4>1 DEF SumsKept, Summed
      <4>2. CASE u = t /\ Sum(t)
        <5>1. n.cksum = CarriedSumWithID(obj[t]) /\ n.id = obj[t].id
              /\ pc'[t] = "add"
          BY <4>2, <3>0 DEF Sum, Goto, TypeOK, Objects
        <5>2. CarriedSumWithID(n) = CarriedSumWithID(obj[t])
          BY <3>2, <5>1 DEF CarriedSumWithID, CarriedSum
        <5> QED
          BY <4>2, <5>1, <5>2 DEF Summed
      <4>3. CASE u = t /\ EnterLow(t)
        <5>1. /\ pc'[t] = IF obj[t].kind = "ack" THEN "sum" ELSE "add"
          BY <4>3 DEF EnterLow, Goto, TypeOK
        <5> QED
          BY <4>3, <3>2, <5>1 DEF Summed
      <4>4. CASE u = t /\ (Send(t) \/ Store(t) \/ EnterHigh(t))
        <5>1. pc'[t] \in {"store", "high", "low"}
          BY <4>4 DEF Send, Store, EnterHigh, Goto, TypeOK
        <5> QED
          BY <4>4, <5>1 DEF Summed
      <4> QED
        BY <2>6, <4>1, <4>2, <4>3, <4>4
    <3> QED
      BY <3>4, <3>7, <3>8, <3>9 DEF SumsKept, ChecksumsMatch
  <2>7. ASSUME NEW t \in Threads, Add(t) PROVE SumsKept'
    <3>0. /\ obj[t] \in Objects /\ ObjectSums(obj[t]) /\ Summed(t)
          /\ pc[t] = "add" /\ obj' = obj
      BY <2>7 DEF Add, At, TypeOK, SumsKept
    <3> DEFINE n == obj[t]
    <3>1. /\ n.use = "sealed" =>
               IF n.body \in Full
               THEN Xor(CheckByte(n), CarriedSum(n)) \subseteq CounterBytes
               ELSE CheckByte(n) = CarriedSum(n)
          /\ n.kind = "packet" /\ n.body = None => CheckByte(n) = {}
          /\ n.kind = "ack" => CheckByte(n) = CarriedSumWithID(n)
      <4>1. None \notin Full
        BY SendAssumption
      <4> QED
        BY <3>0, <4>1 DEF ObjectSums, SealHolds, Summed, CheckByte
    <3>2. wire' \subseteq wire \cup {n} /\ pc' = [pc EXCEPT ![t] = "idle"]
      BY <2>7 DEF Add, Goto
    <3>3. ChecksumsMatch'
      BY <3>1, <3>2 DEF SumsKept, ChecksumsMatch
    <3>4. \A u \in Threads : pc'[u] # "idle" => obj'[u].use # "fresh"
      BY <3>0, <3>2 DEF SumsKept, TypeOK
    <3>5. \A u \in Threads : Summed(u)'
      BY <3>0, <3>2 DEF SumsKept, Summed, TypeOK
    <3>6. \A u \in Threads : ObjectSums(obj'[u])
      BY <3>0 DEF SumsKept
    <3> QED
      BY <3>3, <3>4, <3>5, <3>6 DEF SumsKept
  <2>8. CASE UNCHANGED vars
    BY <2>8 DEF vars, SumsKept, ChecksumsMatch, Summed
  <2> QED
    BY <2>1, <2>2, <2>3, <2>4, <2>5, <2>6, <2>7, <2>8 DEF Next
<1> QED
  BY <1>1, <1>2, TypeCorrect, PTL DEF Spec, SumsKept
=============================================================================
