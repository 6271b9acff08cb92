--------------------------- MODULE SocketLinkProofs ---------------------------
(***************************************************************************)
(* Proofs about SocketLink for every size of buffer, count and message.    *)
(***************************************************************************)
EXTENDS SocketLink, FiniteSetTheorems, SequenceTheorems, TLAPS

\* A prefix and the rest of a sequence are sequences over the same set, and
\* together they are the sequence.
LEMMA Split ==
  ASSUME NEW S, NEW s \in Seq(S), NEW k \in 0..Len(s)
  PROVE  /\ First(s, k) \in Seq(S) /\ Len(First(s, k)) = k
         /\ From(s, k + 1) \in Seq(S)
         /\ First(s, k) \o From(s, k + 1) = s
<1>1. /\ Len(s) \in Nat
      /\ \A i \in 1..Len(s) : s[i] \in S
  BY LenProperties, ElementOfSeq
<1>2. First(s, k) \in Seq(S) /\ Len(First(s, k)) = k
  <2>1. \A i \in 1..k : s[i] \in S
    BY <1>1
  <2> QED BY <1>1, <2>1, SubSeqProperties DEF First
<1>3. From(s, k + 1) \in Seq(S)
  <2>1. \A i \in k+1..Len(s) : s[i] \in S
    BY <1>1
  <2> QED BY <1>1, <2>1, SubSeqProperties DEF From
<1>4. SubSeq(s, 1, k) \o SubSeq(s, k + 1, Len(s)) = SubSeq(s, 1, Len(s))
  <2>1. 1 \in 1..Len(s)+1 /\ k \in 1-1..Len(s) /\ Len(s) \in k..Len(s)
    BY <1>1
  <2> QED BY <2>1, ConcatAdjacentSubSeq, Zenon
<1>5. SubSeq(s, 1, Len(s)) = s
  BY SubSeqFull
<1> QED BY <1>2, <1>3, <1>4, <1>5 DEF First, From

\* The count a Pop function returns never exceeds the bytes it popped, and is
\* exact below CountMod.
LEMMA ReturnedBound ==
  ASSUME NEW k \in Nat
  PROVE  Returned(k) \in 0..k /\ (k < CountMod => Returned(k) = k)
  BY LinkAssumption DEF Returned

LEMMA LesserBound ==
  ASSUME NEW a \in Nat, NEW b \in Nat
  PROVE  Lesser(a, b) \in 0..a /\ (a # 0 /\ b # 0 => Lesser(a, b) \in 1..a)
  BY DEF Lesser

\* What a Pop function takes off a queue and reports of it stays within it.
LEMMA PopBounds ==
  ASSUME NEW S, NEW s \in Seq(S), NEW B \in Nat,
         NEW k, k = Lesser(Len(s), B), NEW r, r = Returned(k)
  PROVE  k \in 0..Len(s) /\ r \in 0..k /\ r \in 0..Len(s)
<1>1. Len(s) \in Nat
  BY LenProperties
<1>2. k \in 0..Len(s)
  BY <1>1, LesserBound
<1>3. k \in Nat
  BY <1>1, <1>2
<1>4. r \in 0..k
  BY <1>3, ReturnedBound
<1> QED BY <1>1, <1>2, <1>4

\* Growing the set of bytes keeps sequences and sets of bytes what they are.
LEMMA MoreBytes ==
  ASSUME NEW m \in Nat, NEW n \in Nat
  PROVE  1..m \subseteq 1..(m+n) /\ Seq(1..m) \subseteq Seq(1..(m+n))
<1>1. 1..m \subseteq 1..(m+n)
  OBVIOUS
<1>2. \A s \in Seq(1..m) : s \in Seq(1..(m+n))
  BY <1>1, SeqMonotonic
<1> QED BY <1>1, <1>2

LEMMA TypeInit == Init => TypeOK
<1> SUFFICES ASSUME Init PROVE TypeOK
  OBVIOUS
<1>1. \A S : <<>> \in Seq(S)
  BY EmptySeq
<1> QED BY <1>1, LinkAssumption DEF Init, TypeOK, Bytes

LEMMA TypeStep == TypeOK /\ [Next]_vars => TypeOK'
<1> SUFFICES ASSUME TypeOK, [Next]_vars PROVE TypeOK'
  OBVIOUS
<1> USE LinkAssumption
<1>a. \A s \in Seq(Bytes) : Range(s) \subseteq Bytes
  BY RangeOfSeq
<1>b. \A s \in Seq(Bytes) : Len(s) \in Nat /\ \A i \in 1..Len(s) : s[i] \in Bytes
  BY LenProperties, ElementOfSeq
<1>c. \A s, t \in Seq(Bytes) : s \o t \in Seq(Bytes)
  BY ConcatProperties
<1>d. \A s \in Seq(Bytes) : \A k \in 0..Len(s) :
        First(s, k) \in Seq(Bytes) /\ From(s, k + 1) \in Seq(Bytes)
  BY Split
<1>e. <<>> \in Seq(Bytes)
  BY EmptySeq
<1>1. ASSUME NEW n \in Sizes, AddToTxBuffer(n) PROVE TypeOK'
  <2>1. n \in Nat /\ total \in Nat /\ total' = total + n /\ total' \in 0..MaxTotal
    BY <1>1 DEF AddToTxBuffer, TypeOK
  <2>2. Bytes \subseteq Bytes' /\ Seq(Bytes) \subseteq Seq(Bytes')
    BY <2>1, MoreBytes, Zenon DEF Bytes
  <2>3. [i \in 1..n |-> total + i] \in Seq(Bytes')
    <3>1. \A i \in 1..n : total + i \in Bytes'
      BY <2>1 DEF Bytes
    <3> QED BY <2>1, <3>1, SeqDef
  <2>4. tx' \in Seq(Bytes')
    BY <1>1, <2>2, <2>3, ConcatProperties DEF AddToTxBuffer, Enqueue, TypeOK
  <2>5. full' \subseteq {"tx", "rx"}
    BY <1>1 DEF AddToTxBuffer, TypeOK
  <2> QED BY <1>1, <2>1, <2>2, <2>4, <2>5 DEF AddToTxBuffer, TypeOK
<1>2. CASE PopTx
  <2> DEFINE k == Lesser(Len(tx), SendBuf)
             r == Returned(k)
  <2>1. k \in 0..Len(tx) /\ r \in 0..k /\ r \in 0..Len(tx)
    BY PopBounds, Zenon DEF TypeOK
  <2>2. \A i \in 1..k : tx[i] \in Bytes
    BY <1>b, <2>1 DEF TypeOK
  <2>3. /\ tx' = From(tx, k + 1)
        /\ lostTx' = lostTx \cup {tx[i] : i \in r+1..k}
        /\ out' = IF conn = "noFd" THEN <<>> ELSE First(tx, r)
        /\ cut' = IF conn = "noFd" THEN cut \cup {tx[i] : i \in 1..r}
                  ELSE cut
    BY <1>2 DEF PopTx
  <2>5. tx' \in Seq(Bytes) /\ out' \in Seq(Bytes)
    BY <1>d, <1>e, <2>1, <2>3, Zenon DEF TypeOK
  <2>6. {tx[i] : i \in r+1..k} \subseteq Bytes /\ {tx[i] : i \in 1..r} \subseteq Bytes
    <3>1. r+1..k \subseteq 1..k /\ 1..r \subseteq 1..k
      BY <1>b, <2>1 DEF TypeOK
    <3> QED BY <3>1, <2>2, Zenon
  <2>7. lostTx' \subseteq Bytes /\ cut' \subseteq Bytes
    BY <2>3, <2>6, Zenon DEF TypeOK
  <2> QED BY <1>2, <2>5, <2>7 DEF PopTx, TypeOK, Bytes
<1>3. CASE Send
  BY <1>3, <1>c, <1>e DEF Send, TypeOK, Bytes
<1>4. CASE SendShort
  <2>1. PICK k \in 1..Len(out)-1 : net' = net \o First(out, k)
    BY <1>4 DEF SendShort
  <2>2. First(out, k) \in Seq(Bytes)
    BY <1>b, <1>d DEF TypeOK
  <2>3. net' \in Seq(Bytes)
    BY <1>c, <2>1, <2>2 DEF TypeOK
  <2> QED BY <1>4, <2>3 DEF SendShort, TypeOK, Bytes
<1>5. CASE SendDown
  BY <1>5, <1>a, <1>e DEF SendDown, TypeOK, Bytes
<1>6. CASE Recv
  <2>1. PICK k \in 1..Lesser(Len(net), RecvBuf) :
             /\ rx' = Enqueue(rx, First(net, k))
             /\ net' = From(net, k + 1)
             /\ full' = IF Len(rx) + k >= CountMod THEN full \cup {"rx"}
                        ELSE full
    BY <1>6 DEF Recv
  <2>2. k \in 0..Len(net)
    <3>1. Len(net) \in Nat /\ RecvBuf \in Nat
      BY <1>b DEF TypeOK
    <3>2. Lesser(Len(net), RecvBuf) \in 0..Len(net)
      BY <3>1, LesserBound
    <3> QED BY <3>1, <3>2
  <2>3. rx' \in Seq(Bytes) /\ net' \in Seq(Bytes)
    BY <1>c, <1>d, <2>1, <2>2 DEF TypeOK, Enqueue
  <2> QED BY <1>6, <2>1, <2>3 DEF Recv, TypeOK, Bytes
<1>7. CASE PopRx
  <2> DEFINE k == Lesser(Len(rx), PopBuf)
             r == Returned(k)
  <2>1. k \in 0..Len(rx) /\ r \in 0..k /\ r \in 0..Len(rx)
    BY PopBounds, Zenon DEF TypeOK
  <2>2. /\ rx' = From(rx, k + 1)
        /\ got' = got \o First(rx, r)
        /\ lostRx' = lostRx \cup {rx[i] : i \in r+1..k}
    BY <1>7 DEF PopRx
  <2>3. First(rx, r) \in Seq(Bytes) /\ From(rx, k + 1) \in Seq(Bytes)
    BY <1>d, <2>1, Zenon DEF TypeOK
  <2>4. rx' \in Seq(Bytes) /\ got' \in Seq(Bytes)
    BY <1>c, <2>2, <2>3, Zenon DEF TypeOK
  <2>5. lostRx' \subseteq Bytes
    <3>1. \A i \in r+1..k : rx[i] \in Bytes
      BY <1>b, <2>1 DEF TypeOK
    <3> QED BY <2>2, <3>1, Zenon DEF TypeOK
  <2> QED BY <1>7, <2>4, <2>5 DEF PopRx, TypeOK, Bytes
<1>8. CASE Reset
  <2>1. PICK k \in 0..Len(net) :
             /\ net' = First(net, k)
             /\ cut' = cut \cup {net[i] : i \in k+1..Len(net)}
    BY <1>8 DEF Reset
  <2>2. \A i \in k+1..Len(net) : net[i] \in Bytes
    BY <1>b DEF TypeOK
  <2>3. cut' \subseteq Bytes
    BY <2>1, <2>2, Zenon DEF TypeOK
  <2>4. net' \in Seq(Bytes)
    BY <1>d, <2>1 DEF TypeOK
  <2> QED BY <1>8, <2>3, <2>4 DEF Reset, TypeOK, Bytes
<1>9. CASE SenderExit
  BY <1>9, <1>a, <1>e DEF SenderExit, TypeOK, Bytes
<1>10. CASE ReceiverExit
  BY <1>10, <1>a, <1>e DEF ReceiverExit, TypeOK, Bytes
<1>11. CASE UNCHANGED vars
  BY <1>11 DEF vars, TypeOK, Bytes
<1> QED BY <1>1, <1>2, <1>3, <1>4, <1>5, <1>6, <1>7, <1>8, <1>9, <1>10,
           <1>11 DEF Next

\* SocketLink's queues and sets hold bytes that were handed over, in every
\* reachable state and for every choice of sizes, bounds and faults.
THEOREM TypeCorrect == Spec => []TypeOK
  BY TypeInit, TypeStep, PTL DEF Spec

-----------------------------------------------------------------------------
\* No element is forgotten when a sequence is cut at r and at k.
LEMMA CutRange ==
  ASSUME NEW S, NEW s \in Seq(S), NEW k \in 0..Len(s), NEW r \in 0..k
  PROVE  Range(s) \subseteq Range(First(s, r)) \cup {s[i] : i \in r+1..k}
                            \cup Range(From(s, k + 1))
<1> DEFINE a == First(s, r)
           c == From(s, k + 1)
<1>1. Len(s) \in Nat /\ r \in 0..Len(s)
  BY LenProperties
<1>2. Range(s) = {s[i] : i \in 1..Len(s)}
  BY RangeEquality
<1>3. /\ a \in Seq(S) /\ Len(a) = r
      /\ \A i \in 1..r : a[i] = s[i]
  <2>1. \A i \in 1..r : s[i] \in S
    BY <1>1, ElementOfSeq
  <2> QED BY <1>1, <2>1, SubSeqProperties DEF First
<1>4. /\ c \in Seq(S) /\ Len(c) = Len(s) - k
      /\ \A i \in 1..Len(s)-k : c[i] = s[k + i]
  <2>1. \A i \in k+1..Len(s) : s[i] \in S
    BY <1>1, ElementOfSeq
  <2> QED BY <1>1, <2>1, SubSeqProperties DEF From
<1>5. Range(a) = {a[i] : i \in 1..r} /\ Range(c) = {c[i] : i \in 1..Len(s)-k}
  BY <1>3, <1>4, RangeEquality
<1>6. ASSUME NEW i \in 1..Len(s)
      PROVE  s[i] \in Range(a) \cup {s[j] : j \in r+1..k} \cup Range(c)
  <2>1. CASE i <= r
    BY <2>1, <1>1, <1>3, <1>5
  <2>2. CASE i > r /\ i <= k
    BY <2>2, <1>1
  <2>3. CASE i > k
    <3>1. i - k \in 1..Len(s)-k /\ c[i - k] = s[i]
      BY <2>3, <1>1, <1>4
    <3> QED BY <3>1, <1>5
  <2> QED BY <2>1, <2>2, <2>3, <1>1
<1> QED BY <1>2, <1>6

\* Cutting a sequence once.
LEMMA CutRangeOnce ==
  ASSUME NEW S, NEW s \in Seq(S), NEW k \in 0..Len(s)
  PROVE  Range(s) \subseteq Range(First(s, k)) \cup Range(From(s, k + 1))
<1>1. Len(s) \in Nat
  BY LenProperties
<1>2. k \in 0..k /\ k+1..k = {}
  BY <1>1
<1>3. {s[i] : i \in k+1..k} = {}
  BY <1>2, Zenon
<1> QED BY <1>2, <1>3, CutRange

\* The elements of five sequences put together.
LEMMA RangeOfFive ==
  ASSUME NEW S, NEW a \in Seq(S), NEW b \in Seq(S), NEW c \in Seq(S),
         NEW d \in Seq(S), NEW e \in Seq(S)
  PROVE  Range(a \o b \o c \o d \o e) =
           Range(a) \cup Range(b) \cup Range(c) \cup Range(d) \cup Range(e)
<1>1. a \o b \in Seq(S) /\ a \o b \o c \in Seq(S) /\ a \o b \o c \o d \in Seq(S)
  BY ConcatProperties
<1>2. Range(a \o b) = Range(a) \cup Range(b)
  BY RangeConcatenation
<1>3. Range(a \o b \o c) = Range(a \o b) \cup Range(c)
  BY <1>1, RangeConcatenation
<1>4. Range(a \o b \o c \o d) = Range(a \o b \o c) \cup Range(d)
  BY <1>1, RangeConcatenation
<1>5. Range(a \o b \o c \o d \o e) = Range(a \o b \o c \o d) \cup Range(e)
  BY <1>1, RangeConcatenation
<1> QED BY <1>2, <1>3, <1>4, <1>5, Zenon

\* The bytes still in the pipe, queue by queue.
Held == Range(got) \cup Range(rx) \cup Range(net) \cup Range(out) \cup Range(tx)

LEMMA AccountedStep == TypeOK /\ Accounted /\ [Next]_vars => Accounted'
<1> SUFFICES ASSUME TypeOK, Accounted, [Next]_vars PROVE Accounted'
  OBVIOUS
<1> USE LinkAssumption
<1>t. TypeOK'
  BY TypeStep
<1>p. Range(Pipeline) = Held
  BY RangeOfFive DEF Pipeline, Held, TypeOK
<1>q. Range(Pipeline)' = Held'
  BY <1>t, RangeOfFive DEF Pipeline, Held, TypeOK
<1> DEFINE Lost == lostTx \cup lostRx \cup cut
<1>h. Bytes \subseteq Held \cup Lost
  BY <1>p, Zenon DEF Accounted
<1>s. SUFFICES Bytes' \subseteq Held' \cup Lost'
  BY <1>q, Zenon DEF Accounted
<1>n. Range(<<>>) = {}
  BY DEF Range
<1>c. \A s, t \in Seq(Bytes) : Range(s \o t) = Range(s) \cup Range(t)
  BY RangeConcatenation
<1>f. \A s \in Seq(Bytes) : \A k \in 0..Len(s) :
        First(s, k) \in Seq(Bytes) /\ From(s, k + 1) \in Seq(Bytes)
  BY Split
<1>1. ASSUME NEW n \in Sizes, AddToTxBuffer(n)
      PROVE  Bytes' \subseteq Held' \cup Lost'
  <2> DEFINE new == [i \in 1..n |-> total + i]
  <2>1. n \in Nat /\ total \in Nat
    BY DEF TypeOK
  <2>2. Range(new) = {total + i : i \in 1..n}
    BY DEF Range
  <2>3. Bytes' \subseteq Bytes \cup Range(new)
    <3>1. ASSUME NEW b \in 1..total+n, b \notin 1..total
          PROVE  \E i \in 1..n : b = total + i
      <4>1. b - total \in 1..n /\ b = total + (b - total)
        BY <2>1, <3>1
      <4> QED BY <4>1
    <3> QED BY <1>1, <2>1, <2>2, <3>1 DEF AddToTxBuffer, Bytes
  <2>4. Range(tx') = Range(tx) \cup Range(new)
    <3>1. new \in Seq(Nat)
      <4>1. \A i \in 1..n : total + i \in Nat
        BY <2>1
      <4> QED BY <2>1, <4>1, SeqDef
    <3>2. tx \in Seq(Nat)
      <4>1. Bytes \subseteq Nat
        BY <2>1 DEF Bytes
      <4> QED BY <4>1, SeqMonotonic DEF TypeOK
    <3> QED BY <1>1, <3>1, <3>2, RangeConcatenation DEF AddToTxBuffer, Enqueue
  <2> HIDE DEF new
  <2>5. UNCHANGED <<got, rx, net, out, lostTx, lostRx, cut>>
    BY <1>1 DEF AddToTxBuffer
  <2> QED BY <1>h, <2>3, <2>4, <2>5, Zenon DEF Held
<1>2. CASE PopTx
  <2> DEFINE k == Lesser(Len(tx), SendBuf)
             r == Returned(k)
  <2>1. k \in 0..Len(tx) /\ r \in 0..k /\ r \in 0..Len(tx)
    BY PopBounds, Zenon DEF TypeOK
  <2>2. /\ tx' = From(tx, k + 1)
        /\ lostTx' = lostTx \cup {tx[i] : i \in r+1..k}
        /\ out' = IF conn = "noFd" THEN <<>> ELSE First(tx, r)
        /\ cut' = IF conn = "noFd" THEN cut \cup {tx[i] : i \in 1..r}
                  ELSE cut
        /\ out = <<>>
        /\ UNCHANGED <<got, rx, net, lostRx, total>>
    BY <1>2 DEF PopTx
  <2>3. Range(tx) \subseteq Range(First(tx, r)) \cup {tx[i] : i \in r+1..k}
                          \cup Range(From(tx, k + 1))
    BY <2>1, CutRange, Zenon DEF TypeOK
  <2>4. Range(First(tx, r)) \subseteq {tx[i] : i \in 1..r}
    <3>1. \A i \in 1..r : tx[i] \in Bytes
      BY <2>1, LenProperties, ElementOfSeq DEF TypeOK
    <3>2. r \in Nat
      BY <2>1, LenProperties DEF TypeOK
    <3>3. /\ First(tx, r) \in Seq(Bytes) /\ Len(First(tx, r)) = r
          /\ \A i \in 1..r : First(tx, r)[i] = tx[i]
      BY <3>1, <3>2, SubSeqProperties DEF First
    <3>4. Range(First(tx, r)) = {First(tx, r)[i] : i \in 1..r}
      BY <3>3, RangeEquality, Zenon
    <3> QED BY <3>3, <3>4, Zenon
  <2>5. Range(First(tx, r)) \subseteq Range(out') \cup cut' /\ cut \subseteq cut'
    BY <2>2, <2>4, Zenon
  <2>6. Bytes' = Bytes
    BY <2>2 DEF Bytes
  <2>7. Range(out) = {}
    BY <2>2, <1>n
  <2> QED BY <1>h, <2>2, <2>3, <2>5, <2>6, <2>7, Zenon DEF Held
<1>3. CASE Send
  <2>1. Range(net') = Range(net) \cup Range(out)
    BY <1>3, <1>c DEF Send, TypeOK
  <2>2. UNCHANGED <<tx, rx, got, lostTx, lostRx, cut, total>>
    BY <1>3 DEF Send
  <2> QED BY <1>h, <2>1, <2>2, Zenon DEF Held, Bytes
<1>4. CASE SendShort
  <2>1. PICK k \in 1..Len(out)-1 : net' = net \o First(out, k)
    BY <1>4 DEF SendShort
  <2>2. Range(net) \subseteq Range(net')
    <3>1. k \in 0..Len(out)
      BY LenProperties DEF TypeOK
    <3>2. First(out, k) \in Seq(Bytes)
      BY <1>f, <3>1 DEF TypeOK
    <3> QED BY <1>c, <2>1, <3>2, Zenon DEF TypeOK
  <2>3. UNCHANGED <<tx, out, rx, got, lostTx, lostRx, cut, total>>
    BY <1>4 DEF SendShort
  <2> QED BY <1>h, <2>2, <2>3, Zenon DEF Held, Bytes
<1>5. CASE SendDown
  <2>1. /\ Range(out) \subseteq cut' /\ cut \subseteq cut'
        /\ Range(tx) \subseteq Range(tx') \cup cut'
    BY <1>5 DEF SendDown
  <2>2. UNCHANGED <<net, rx, got, lostTx, lostRx, total>>
    BY <1>5 DEF SendDown
  <2> QED BY <1>h, <2>1, <2>2, Zenon DEF Held, Bytes
<1>6. CASE Recv
  <2>1. PICK k \in 1..Lesser(Len(net), RecvBuf) :
             rx' = Enqueue(rx, First(net, k)) /\ net' = From(net, k + 1)
    BY <1>6 DEF Recv
  <2>2. k \in 0..Len(net)
    <3>1. Len(net) \in Nat /\ RecvBuf \in Nat
      BY LenProperties DEF TypeOK
    <3>2. Lesser(Len(net), RecvBuf) \in 0..Len(net)
      BY <3>1, LesserBound
    <3> QED BY <3>1, <3>2
  <2>3. Range(net) \subseteq Range(First(net, k)) \cup Range(net')
    BY <2>1, <2>2, CutRangeOnce, Zenon DEF TypeOK
  <2>4. Range(rx') = Range(rx) \cup Range(First(net, k))
    BY <1>c, <1>f, <2>1, <2>2, Zenon DEF TypeOK, Enqueue
  <2>5. UNCHANGED <<tx, out, got, lostTx, lostRx, cut, total>>
    BY <1>6 DEF Recv
  <2> QED BY <1>h, <2>3, <2>4, <2>5, Zenon DEF Held, Bytes
<1>7. CASE PopRx
  <2> DEFINE k == Lesser(Len(rx), PopBuf)
             r == Returned(k)
  <2>1. k \in 0..Len(rx) /\ r \in 0..k /\ r \in 0..Len(rx)
    BY PopBounds, Zenon DEF TypeOK
  <2>2. /\ rx' = From(rx, k + 1)
        /\ got' = got \o First(rx, r)
        /\ lostRx' = lostRx \cup {rx[i] : i \in r+1..k}
        /\ UNCHANGED <<tx, out, net, lostTx, cut, total>>
    BY <1>7 DEF PopRx
  <2>3. Range(rx) \subseteq Range(First(rx, r)) \cup {rx[i] : i \in r+1..k}
                          \cup Range(From(rx, k + 1))
    BY <2>1, CutRange, Zenon DEF TypeOK
  <2>4. Range(got') = Range(got) \cup Range(First(rx, r))
    BY <1>c, <1>f, <2>1, <2>2, Zenon DEF TypeOK
  <2> QED BY <1>h, <2>2, <2>3, <2>4, Zenon DEF Held, Bytes
<1>8. CASE Reset
  <2>1. PICK k \in 0..Len(net) :
             /\ net' = First(net, k)
             /\ cut' = cut \cup {net[i] : i \in k+1..Len(net)}
    BY <1>8 DEF Reset
  <2>2. Range(net) \subseteq Range(net') \cup cut'
    <3>1. Len(net) \in 0..Len(net) /\ k \in 0..Len(net)
      BY LenProperties DEF TypeOK
    <3>2. From(net, Len(net) + 1) = <<>>
      <4>1. Len(net) \in Nat
        BY LenProperties DEF TypeOK
      <4> QED BY <4>1, SubSeqEmpty DEF From
    <3>3. Range(net) \subseteq Range(First(net, k))
             \cup {net[i] : i \in k+1..Len(net)} \cup Range(From(net, Len(net) + 1))
      BY <3>1, CutRange, Zenon DEF TypeOK
    <3> QED BY <1>n, <2>1, <3>2, <3>3, Zenon
  <2>3. UNCHANGED <<tx, out, rx, got, lostTx, lostRx, total>> /\ cut \subseteq cut'
    BY <1>8, <2>1 DEF Reset
  <2> QED BY <1>h, <2>2, <2>3, Zenon DEF Held, Bytes
<1>9. CASE SenderExit
  <2>1. cut' = cut \cup Range(tx) \cup Range(out)
        /\ UNCHANGED <<net, rx, got, total, lostTx, lostRx>>
    BY <1>9 DEF SenderExit
  <2> QED BY <1>h, <2>1, Zenon DEF Held, Bytes
<1>10. CASE ReceiverExit
  <2>1. cut' = cut \cup Range(net) \cup Range(rx)
        /\ UNCHANGED <<tx, out, got, total, lostTx, lostRx>>
    BY <1>10 DEF ReceiverExit
  <2> QED BY <1>h, <2>1, Zenon DEF Held, Bytes
<1>11. CASE UNCHANGED vars
  BY <1>h, <1>11 DEF vars, Held, Bytes
<1> QED BY <1>1, <1>2, <1>3, <1>4, <1>5, <1>6, <1>7, <1>8, <1>9, <1>10,
           <1>11 DEF Next

\* Every byte handed to AddToTxBuffer is in the pipe, was received, or was
\* lost to one of the three known causes, whatever the sizes and the faults.
THEOREM NoByteUnaccounted == Spec => []Accounted
<1>1. Init => Accounted
  <2>1. Init => Bytes = {}
    BY DEF Init, Bytes
  <2> QED BY <2>1 DEF Accounted
<1> QED BY <1>1, TypeInit, TypeStep, AccountedStep, PTL DEF Spec

\* Concatenation of sequences of bytes, in the form the regroupings below use.
LEMMA ConcatAssoc == \A x, y, z \in Seq(Nat) : (x \o y) \o z = x \o (y \o z)
<1>1. ASSUME NEW x \in Seq(Nat), NEW y \in Seq(Nat), NEW z \in Seq(Nat)
      PROVE  (x \o y) \o z = x \o (y \o z)
  BY ConcatAssociative
<1> QED BY <1>1, Zenon

LEMMA ConcatSeq == \A x, y \in Seq(Nat) : x \o y \in Seq(Nat)
<1>1. ASSUME NEW x \in Seq(Nat), NEW y \in Seq(Nat)
      PROVE  x \o y \in Seq(Nat)
  BY ConcatProperties
<1> QED BY <1>1, Zenon

LEMMA ConcatEmpty == \A x \in Seq(Nat) : x \o <<>> = x
BY ConcatEmptySeq

LEMMA EmptyRange ==
  ASSUME NEW S, NEW s \in Seq(S), Range(s) = {}
  PROVE  s = <<>>
<1>1. Len(s) \in Nat /\ Range(s) = {s[i] : i \in 1..Len(s)}
  BY LenProperties, RangeEquality
<1>2. 1..Len(s) = {}
  BY <1>1, Zenon
<1>3. Len(s) = 0
  BY <1>1, <1>2
<1> QED BY <1>3, EmptySeq

\* The strengthening that makes IntactWhenPaced inductive: the history says
\* of each deque that it has always been, so is now, below CountMod.
BelowCount ==
  /\ "tx" \notin full => Len(tx) < CountMod
  /\ "rx" \notin full => Len(rx) < CountMod

Intact == Pipeline = [i \in Bytes |-> i] /\ lostTx = {} /\ lostRx = {}
Paced  == full = {} /\ cut = {} /\ short = 0

LEMMA BelowCountStep == TypeOK /\ BelowCount /\ [Next]_vars => BelowCount'
<1> SUFFICES ASSUME TypeOK, BelowCount, [Next]_vars PROVE BelowCount'
  OBVIOUS
<1> USE LinkAssumption
<1>l. \A s \in Seq(Bytes) : Len(s) \in Nat
  BY LenProperties
<1>s. \A s \in Seq(Bytes) : \A k \in 0..Len(s) : Len(From(s, k + 1)) <= Len(s)
  <2> SUFFICES ASSUME NEW s \in Seq(Bytes), NEW k \in 0..Len(s)
               PROVE  Len(From(s, k + 1)) <= Len(s)
    OBVIOUS
  <2>1. Len(s) \in Nat /\ \A i \in k+1..Len(s) : s[i] \in Bytes
    BY <1>l, ElementOfSeq
  <2> QED BY <2>1, SubSeqProperties DEF From
<1>e. Len(<<>>) = 0
  OBVIOUS
<1>1. ASSUME NEW n \in Sizes, AddToTxBuffer(n) PROVE BelowCount'
  <2>1. n \in Nat /\ total \in Nat /\ Len(tx) \in Nat
    BY <1>l DEF TypeOK
  <2>2. tx \in Seq(Nat) /\ [i \in 1..n |-> total + i] \in Seq(Nat)
        /\ Len([i \in 1..n |-> total + i]) = n
    <3>1. Bytes \subseteq Nat
      BY <2>1 DEF Bytes
    <3>2. \A i \in 1..n : total + i \in Nat
      BY <2>1
    <3>3. tx \in Seq(Nat)
      BY <3>1, SeqMonotonic DEF TypeOK
    <3>4. [i \in 1..n |-> total + i] \in Seq(Nat)
      BY <2>1, <3>2, SeqDef
    <3> QED BY <2>1, <3>3, <3>4, LenProperties
  <2>3. Len(tx') = Len(tx) + n
    BY <1>1, <2>2, ConcatProperties DEF AddToTxBuffer, Enqueue
  <2>4. /\ full' = IF Len(tx) + n >= CountMod THEN full \cup {"tx"} ELSE full
        /\ rx' = rx
    BY <1>1 DEF AddToTxBuffer
  <2>5. "tx" \notin full' => Len(tx') < CountMod
    BY <2>1, <2>3, <2>4
  <2>6. "rx" \notin full' => "rx" \notin full
    BY <2>4
  <2> QED BY <2>4, <2>5, <2>6 DEF BelowCount
<1>2. CASE PopTx
  <2>1. Lesser(Len(tx), SendBuf) \in 0..Len(tx)
    BY <1>l, LesserBound DEF TypeOK
  <2>2. Len(tx') <= Len(tx) /\ UNCHANGED <<rx, full>>
    BY <1>2, <1>s, <2>1 DEF PopTx, TypeOK
  <2>3. Len(tx) \in Nat /\ Len(tx') \in Nat
    BY <1>l, TypeStep, LenProperties DEF TypeOK
  <2> QED BY <2>2, <2>3 DEF BelowCount
<1>3. CASE Send
  BY <1>3 DEF Send, BelowCount
<1>4. CASE SendShort
  BY <1>4 DEF SendShort, BelowCount
<1>5. CASE SendDown
  BY <1>5, <1>e DEF SendDown, BelowCount
<1>6. CASE Recv
  <2>1. PICK k \in 1..Lesser(Len(net), RecvBuf) :
             /\ rx' = Enqueue(rx, First(net, k))
             /\ full' = IF Len(rx) + k >= CountMod THEN full \cup {"rx"}
                        ELSE full
    BY <1>6 DEF Recv
  <2>2. k \in 0..Len(net) /\ Len(rx) \in Nat /\ k \in Nat
    <3>1. Len(net) \in Nat /\ RecvBuf \in Nat /\ Len(rx) \in Nat
      BY <1>l DEF TypeOK
    <3>2. Lesser(Len(net), RecvBuf) \in 0..Len(net)
      BY <3>1, LesserBound
    <3> QED BY <3>1, <3>2
  <2>3. First(net, k) \in Seq(Bytes) /\ Len(First(net, k)) = k
    BY <2>2, Split DEF TypeOK
  <2>4. Len(rx') = Len(rx) + k
    BY <2>1, <2>3, ConcatProperties DEF TypeOK, Enqueue
  <2>5. "rx" \notin full' => Len(rx') < CountMod
    BY <2>1, <2>2, <2>4
  <2>6. tx' = tx /\ ("tx" \notin full' => "tx" \notin full)
    BY <1>6, <2>1 DEF Recv
  <2> QED BY <2>5, <2>6 DEF BelowCount
<1>7. CASE PopRx
  <2>1. Lesser(Len(rx), PopBuf) \in 0..Len(rx)
    BY <1>l, LesserBound DEF TypeOK
  <2>2. Len(rx') <= Len(rx) /\ UNCHANGED <<tx, full>>
    BY <1>7, <1>s, <2>1 DEF PopRx, TypeOK
  <2>3. Len(rx) \in Nat /\ Len(rx') \in Nat
    BY <1>l, TypeStep, LenProperties DEF TypeOK
  <2> QED BY <2>2, <2>3 DEF BelowCount
<1>8. CASE Reset
  BY <1>8 DEF Reset, BelowCount
<1>9. CASE SenderExit
  BY <1>9, <1>e DEF SenderExit, BelowCount
<1>10. CASE ReceiverExit
  BY <1>10, <1>e DEF ReceiverExit, BelowCount
<1>11. CASE UNCHANGED vars
  BY <1>11 DEF vars, BelowCount
<1> QED BY <1>1, <1>2, <1>3, <1>4, <1>5, <1>6, <1>7, <1>8, <1>9, <1>10,
           <1>11 DEF Next

LEMMA IntactStep ==
  TypeOK /\ BelowCount /\ IntactWhenPaced /\ [Next]_vars => IntactWhenPaced'
<1> SUFFICES ASSUME TypeOK, BelowCount, IntactWhenPaced, [Next]_vars, Paced'
             PROVE  Intact'
  BY DEF IntactWhenPaced, Paced, Intact
<1> USE LinkAssumption
<1>t. TypeOK'
  BY TypeStep
<1>e. <<>> \in Seq(Bytes)
  BY EmptySeq
<1>l. \A s \in Seq(Bytes) : Len(s) \in Nat /\ (s # <<>> => Len(s) # 0)
  BY LenProperties, EmptySeq
<1>f. \A s \in Seq(Bytes) : \A k \in 0..Len(s) :
        /\ First(s, k) \in Seq(Bytes) /\ From(s, k + 1) \in Seq(Bytes)
        /\ First(s, k) \o From(s, k + 1) = s
  BY Split
<1>n. \A s \in Seq(Bytes) : s \in Seq(Nat)
  <2>1. Bytes \subseteq Nat
    BY DEF Bytes, TypeOK
  <2> QED BY <2>1, SeqMonotonic
<1>got. got \in Seq(Nat) /\ rx \in Seq(Nat) /\ net \in Seq(Nat)
        /\ out \in Seq(Nat) /\ tx \in Seq(Nat)
  BY <1>n, Zenon DEF TypeOK
<1>p2. got \o rx \in Seq(Nat)
  BY <1>got, ConcatSeq, Zenon
<1>p3. got \o rx \o net \in Seq(Nat)
  BY <1>got, <1>p2, ConcatSeq, Zenon
<1>p4. got \o rx \o net \o out \in Seq(Nat)
  BY <1>got, <1>p3, ConcatSeq, Zenon
\* Two neighbours of the pipe, joined.
<1>a. ASSUME NEW x \in Seq(Nat), NEW y \in Seq(Nat), NEW z \in Seq(Nat)
      PROVE  x \o (y \o z) = x \o y \o z
  BY ConcatAssoc, Zenon
<1>i. Paced => Intact
  BY DEF IntactWhenPaced, Paced, Intact
\* A queue below CountMod is popped whole and reported whole.
<1>r. ASSUME NEW s \in Seq(Bytes), NEW B \in Nat \ {0}, s # <<>>, Len(s) < CountMod,
             NEW k, k = Lesser(Len(s), B)
      PROVE  Returned(k) = k /\ k \in 1..Len(s)
  <2>1. Len(s) \in Nat /\ Len(s) # 0
    BY <1>l, <1>r
  <2>2. k \in 0..Len(s) /\ k \in 1..Len(s)
    BY <1>r, <2>1, LesserBound
  <2>3. k \in Nat /\ k < CountMod
    BY <1>r, <2>1, <2>2
  <2> QED BY <2>2, <2>3, ReturnedBound
\* Steps that leave the contents of the pipe as they are.
<1>u. ASSUME Paced, Pipeline' = Pipeline,
             UNCHANGED <<total, lostTx, lostRx>>
      PROVE  Intact'
  BY <1>i, <1>u DEF Intact, Bytes
<1>1. ASSUME NEW n \in Sizes, AddToTxBuffer(n) PROVE Intact'
  <2> DEFINE new == [i \in 1..n |-> total + i]
  <2>1. n \in Nat /\ total \in Nat /\ total' = total + n
    BY <1>1 DEF TypeOK, AddToTxBuffer
  <2>2. Paced
    BY <1>1 DEF AddToTxBuffer, Paced
  <2>4. new \in Seq(Nat) /\ Len(new) = n
    <3>1. \A i \in 1..n : total + i \in Nat
      BY <2>1
    <3>2. new \in Seq(Nat)
      BY <2>1, <3>1, SeqDef
    <3> QED BY <2>1, <3>2, LenProperties
  <2>5. Pipeline' = Pipeline \o new
    <3>1. tx \in Seq(Nat) /\ new \in Seq(Nat)
      BY <1>got, <2>4
    <3> HIDE DEF new
    <3>3. (got \o rx \o net \o out) \o (tx \o new) = got \o rx \o net \o out \o tx \o new
      BY <1>p4, <3>1, <1>a, Zenon
    <3>2. tx' = tx \o new /\ UNCHANGED <<got, rx, net, out>>
      BY <1>1 DEF AddToTxBuffer, Enqueue, new
    <3> QED BY <3>2, <3>3, Zenon DEF Pipeline
  <2>6. Pipeline = [i \in 1..total |-> i] /\ lostTx = {} /\ lostRx = {}
    BY <1>i, <2>2 DEF Intact, Bytes
  <2>7. Pipeline \in Seq(Nat) /\ Len(Pipeline) = total
    <3>1. [i \in 1..total |-> i] \in Seq(Nat)
      <4>1. \A i \in 1..total : i \in Nat
        BY <2>1
      <4> QED BY <2>1, <4>1, SeqDef
    <3> QED BY <2>1, <2>6, <3>1, LenProperties
  <2> HIDE DEF Pipeline
  <2>8. /\ Pipeline \o new \in Seq(Nat) /\ Len(Pipeline \o new) = total + n
        /\ \A i \in 1..total+n : (Pipeline \o new)[i] = i
    <3>1. /\ Pipeline \o new \in Seq(Nat) /\ Len(Pipeline \o new) = total + n
          /\ \A i \in 1..total+n : (Pipeline \o new)[i] =
               IF i <= total THEN Pipeline[i] ELSE new[i - total]
      <4> HIDE DEF new
      <4> DEFINE P == Pipeline
      <4>1. P \in Seq(Nat) /\ Len(P) = total /\ new \in Seq(Nat) /\ Len(new) = n
        BY <2>4, <2>7
      <4> HIDE DEF P
      <4>2. /\ P \o new \in Seq(Nat) /\ Len(P \o new) = total + n
            /\ \A i \in 1..total+n : (P \o new)[i] =
                 IF i <= total THEN P[i] ELSE new[i - total]
        BY <4>1, ConcatProperties
      <4> QED BY <4>2 DEF P
    <3>2. \A i \in 1..total+n : i <= total => Pipeline[i] = i
      BY <2>1, <2>6
    <3>3. \A i \in 1..total+n : ~(i <= total) => new[i - total] = i
      BY <2>1
    <3> QED BY <3>1, <3>2, <3>3
  <2>9. Pipeline \o new = [i \in 1..total+n |-> i]
    <3>1. Pipeline \o new = [i \in 1..total+n |-> (Pipeline \o new)[i]]
      BY <2>1, <2>8, LenProperties
    <3> QED BY <2>8, <3>1
  <2> QED BY <1>1, <2>1, <2>5, <2>6, <2>9 DEF Intact, Bytes, AddToTxBuffer
<1>2. CASE PopTx
  <2> DEFINE k == Lesser(Len(tx), SendBuf)
             r == Returned(k)
  <2>1. /\ HasData(tx) /\ out = <<>>
        /\ tx' = From(tx, k + 1)
        /\ lostTx' = lostTx \cup {tx[i] : i \in r+1..k}
        /\ out' = IF conn = "noFd" THEN <<>> ELSE First(tx, r)
        /\ cut' = IF conn = "noFd" THEN cut \cup {tx[i] : i \in 1..r} ELSE cut
        /\ UNCHANGED <<net, rx, got, total, lostRx, short, full>>
    BY <1>2 DEF PopTx
  <2>2. Len(tx) < CountMod /\ tx # <<>> /\ tx \in Seq(Bytes)
    BY <2>1 DEF BelowCount, Paced, HasData, TypeOK
  <2>3. r = k /\ k \in 1..Len(tx)
    BY <1>r, <2>2, Zenon
  <2> HIDE DEF k, r
  <2>4. k \in 0..Len(tx) /\ r+1..k = {} /\ k \in 1..k
    BY <1>l, <2>2, <2>3
  <2>5. conn # "noFd"
    <3>1. {tx[i] : i \in 1..k} # {}
      BY <2>4, Zenon
    <3>2. cut' = {}
      BY DEF Paced
    <3> QED BY <2>1, <2>3, <3>1, <3>2, Zenon
  <2>6. {tx[i] : i \in r+1..k} = {}
    BY <2>4, Zenon
  <2>7. Paced /\ lostTx' = lostTx
    BY <2>1, <2>5, <2>6, Zenon DEF Paced
  <2>8. /\ First(tx, k) \in Seq(Bytes) /\ tx' \in Seq(Bytes)
        /\ First(tx, k) \o tx' = tx /\ out' = First(tx, k)
    BY <1>f, <2>1, <2>2, <2>3, <2>4, <2>5, Zenon
  <2>p. First(tx, k) \in Seq(Nat) /\ tx' \in Seq(Nat)
    BY <1>n, <2>8, Zenon
  <2>o. got \o rx \o net \o <<>> = got \o rx \o net
    BY <1>p3, ConcatEmpty, Zenon
  <2>9. (got \o rx \o net) \o (First(tx, k) \o tx') =
          got \o rx \o net \o First(tx, k) \o tx'
    BY <1>p3, <2>p, <1>a, Zenon
  <2>10. Pipeline' = Pipeline
    BY <2>1, <2>8, <2>o, <2>9, Zenon DEF Pipeline
  <2> QED BY <1>u, <2>1, <2>7, <2>10
<1>3. CASE Send
  <2>1. net' = net \o out /\ out' = <<>>
        /\ UNCHANGED <<tx, rx, got, total, lostTx, lostRx, cut, short, full>>
    BY <1>3 DEF Send
  <2>2. (got \o rx) \o (net \o out) = got \o rx \o net \o out
    BY <1>p2, <1>got, <1>a, Zenon
  <2>o. got \o rx \o net \o out \o <<>> = got \o rx \o net \o out
    BY <1>p4, ConcatEmpty, Zenon
  <2>3. Pipeline' = Pipeline
    BY <2>1, <2>2, <2>o, Zenon DEF Pipeline
  <2> QED BY <1>u, <2>1, <2>3 DEF Paced
<1>4. CASE SendShort
  <2>1. short' = short + 1 /\ short' = 0 /\ short \in Nat
    BY <1>4 DEF SendShort, Paced, TypeOK
  <2> QED BY <2>1
<1>5. CASE SendDown
  <2>1. Range(out) \subseteq cut' /\ cut' = {} /\ out # <<>>
    BY <1>5 DEF SendDown, Paced
  <2> QED BY <2>1, EmptyRange DEF TypeOK
<1>6. CASE Recv
  <2>1. PICK k \in 1..Lesser(Len(net), RecvBuf) :
             /\ rx' = Enqueue(rx, First(net, k)) /\ net' = From(net, k + 1)
             /\ full' = IF Len(rx) + k >= CountMod THEN full \cup {"rx"}
                        ELSE full
    BY <1>6 DEF Recv
  <2>2. k \in 0..Len(net)
    <3>1. Len(net) \in Nat /\ RecvBuf \in Nat
      BY <1>l DEF TypeOK
    <3>2. Lesser(Len(net), RecvBuf) \in 0..Len(net)
      BY <3>1, LesserBound
    <3> QED BY <3>1, <3>2
  <2>3. First(net, k) \in Seq(Bytes) /\ net' \in Seq(Bytes)
        /\ First(net, k) \o net' = net
    BY <1>f, <2>1, <2>2, Zenon DEF TypeOK
  <2>p. First(net, k) \in Seq(Nat) /\ net' \in Seq(Nat)
    BY <1>n, <2>3, Zenon
  <2>q. got \o (rx \o First(net, k)) = got \o rx \o First(net, k)
    BY <1>got, <2>p, <1>a, Zenon
  <2>4. (got \o rx) \o (First(net, k) \o net') = got \o rx \o First(net, k) \o net'
    BY <1>p2, <2>p, <1>a, Zenon
  <2>5. UNCHANGED <<tx, out, got, total, lostTx, lostRx, cut, short>>
    BY <1>6 DEF Recv
  <2>6. Pipeline' = Pipeline
    BY <2>1, <2>3, <2>q, <2>4, <2>5, Zenon DEF Pipeline, Enqueue
  <2>7. Paced
    BY <2>1, <2>5 DEF Paced
  <2> QED BY <1>u, <2>5, <2>6, <2>7
<1>7. CASE PopRx
  <2> DEFINE k == Lesser(Len(rx), PopBuf)
             r == Returned(k)
  <2>1. /\ HasData(rx) /\ rx' = From(rx, k + 1)
        /\ got' = got \o First(rx, r)
        /\ lostRx' = lostRx \cup {rx[i] : i \in r+1..k}
        /\ UNCHANGED <<tx, out, net, total, lostTx, cut, short, full>>
    BY <1>7 DEF PopRx
  <2>2. Len(rx) < CountMod /\ rx # <<>> /\ rx \in Seq(Bytes) /\ Paced
    BY <2>1 DEF BelowCount, Paced, HasData, TypeOK
  <2>3. r = k /\ k \in 1..Len(rx)
    BY <1>r, <2>2, Zenon
  <2> HIDE DEF k, r
  <2>4. k \in 0..Len(rx) /\ r+1..k = {}
    BY <1>l, <2>2, <2>3
  <2>5. lostRx' = lostRx
    BY <2>1, <2>4, Zenon
  <2>6. First(rx, k) \in Seq(Bytes) /\ rx' \in Seq(Bytes)
        /\ First(rx, k) \o rx' = rx /\ got' = got \o First(rx, k)
    BY <1>f, <2>1, <2>2, <2>3, <2>4, Zenon
  <2>p. First(rx, k) \in Seq(Nat) /\ rx' \in Seq(Nat)
    BY <1>n, <2>6, Zenon
  <2>7. got \o (First(rx, k) \o rx') = got \o First(rx, k) \o rx'
    BY <1>got, <2>p, <1>a, Zenon
  <2>8. Pipeline' = Pipeline
    BY <2>1, <2>6, <2>7, Zenon DEF Pipeline
  <2> QED BY <1>u, <2>1, <2>2, <2>5, <2>8
<1>8. CASE Reset
  <2>1. PICK k \in 0..Len(net) :
             /\ net' = First(net, k)
             /\ cut' = cut \cup {net[i] : i \in k+1..Len(net)}
    BY <1>8 DEF Reset
  <2>2. cut' = {}
    BY DEF Paced
  <2>3. k+1..Len(net) = {}
    BY <2>1, <2>2, Zenon
  <2>4. k = Len(net)
    <3>1. Len(net) \in Nat
      BY <1>l DEF TypeOK
    <3> QED BY <2>3, <3>1
  <2>5. net' = net
    BY <2>1, <2>4, SubSeqFull, Zenon DEF First, TypeOK
  <2>6. UNCHANGED <<tx, out, rx, got, total, lostTx, lostRx, short, full>>
    BY <1>8 DEF Reset
  <2>7. Paced
    BY <2>1, <2>2, <2>6, Zenon DEF Paced
  <2>8. Pipeline' = Pipeline
    BY <2>5, <2>6 DEF Pipeline
  <2> QED BY <1>u, <2>6, <2>7, <2>8
<1>9. CASE SenderExit
  <2>1. /\ cut' = cut \cup Range(tx) \cup Range(out) /\ tx' = <<>> /\ out' = <<>>
        /\ UNCHANGED <<net, rx, got, total, lostTx, lostRx, short, full>>
    BY <1>9 DEF SenderExit
  <2>2. cut' = {} /\ Range(tx) = {} /\ Range(out) = {}
    BY <2>1, Zenon DEF Paced
  <2>3. tx' = tx /\ out' = out
    BY <2>1, <2>2, EmptyRange DEF TypeOK
  <2>4. Paced /\ Pipeline' = Pipeline
    BY <2>1, <2>2, <2>3, Zenon DEF Paced, Pipeline
  <2> QED BY <1>u, <2>1, <2>4
<1>10. CASE ReceiverExit
  <2>1. /\ cut' = cut \cup Range(net) \cup Range(rx) /\ net' = <<>> /\ rx' = <<>>
        /\ UNCHANGED <<tx, out, got, total, lostTx, lostRx, short, full>>
    BY <1>10 DEF ReceiverExit
  <2>2. cut' = {} /\ Range(net) = {} /\ Range(rx) = {}
    BY <2>1, Zenon DEF Paced
  <2>3. net' = net /\ rx' = rx
    BY <2>1, <2>2, EmptyRange DEF TypeOK
  <2>4. Paced /\ Pipeline' = Pipeline
    BY <2>1, <2>2, <2>3, Zenon DEF Paced, Pipeline
  <2> QED BY <1>u, <2>1, <2>4
<1>11. CASE UNCHANGED vars
  BY <1>11, <1>u DEF vars, Paced, Pipeline
<1> QED BY <1>1, <1>2, <1>3, <1>4, <1>5, <1>6, <1>7, <1>8, <1>9, <1>10,
           <1>11 DEF Next

\* A connection that stays up and whose deques never reach CountMod bytes is
\* an exact FIFO pipe, for every value of the constants: no byte is lost,
\* doubled or reordered.
THEOREM ExactWhenPaced == Spec => []IntactWhenPaced
<1>1. Init => BelowCount
  BY LinkAssumption DEF Init, BelowCount
<1>2. Init => IntactWhenPaced
  <2> SUFFICES ASSUME Init PROVE IntactWhenPaced
    OBVIOUS
  <2>1. <<>> \o <<>> = <<>>
    BY EmptySeq, ConcatEmptySeq
  <2>2. Pipeline = <<>> /\ Bytes = {}
    BY <2>1 DEF Init, Pipeline, Bytes
  <2> QED BY <2>2 DEF Init, IntactWhenPaced
<1> QED BY <1>1, <1>2, TypeInit, TypeStep, BelowCountStep, IntactStep,
           PTL DEF Spec

-----------------------------------------------------------------------------
Increasing(s) == \A i, j \in DOMAIN s : i < j => s[i] < s[j]

LEMMA Joined ==
  \A x, y \in Seq(Nat) :
    /\ x \o y \in Seq(Nat) /\ Len(x \o y) = Len(x) + Len(y)
    /\ \A i \in 1..Len(x)+Len(y) :
         (x \o y)[i] = IF i <= Len(x) THEN x[i] ELSE y[i - Len(x)]
<1>1. ASSUME NEW x \in Seq(Nat), NEW y \in Seq(Nat)
      PROVE  /\ x \o y \in Seq(Nat) /\ Len(x \o y) = Len(x) + Len(y)
             /\ \A i \in 1..Len(x)+Len(y) :
                  (x \o y)[i] = IF i <= Len(x) THEN x[i] ELSE y[i - Len(x)]
  BY ConcatProperties
<1> QED BY <1>1, Zenon

\* An increasing sequence stays one when a piece is taken out of its middle:
\* what the Pop functions, a reset and an exit do to the pipe.
LEMMA DropMiddle ==
  ASSUME NEW a \in Seq(Nat), NEW m \in Seq(Nat), NEW z \in Seq(Nat),
         Increasing(a \o m \o z)
  PROVE  Increasing(a \o z)
<1> DEFINE s == a \o m \o z
           t == a \o z
           f(i) == IF i <= Len(a) THEN i ELSE i + Len(m)
<1>1. Len(a) \in Nat /\ Len(m) \in Nat /\ Len(z) \in Nat
  BY LenProperties
<1>2. /\ a \o m \in Seq(Nat) /\ Len(a \o m) = Len(a) + Len(m)
      /\ \A i \in 1..Len(a)+Len(m) :
           (a \o m)[i] = IF i <= Len(a) THEN a[i] ELSE m[i - Len(a)]
  BY ConcatProperties
<1>3. /\ s \in Seq(Nat) /\ Len(s) = Len(a) + Len(m) + Len(z)
      /\ \A i \in 1..Len(a)+Len(m)+Len(z) :
           s[i] = IF i <= Len(a) + Len(m) THEN (a \o m)[i]
                  ELSE z[i - (Len(a) + Len(m))]
  <2>1. /\ s \in Seq(Nat) /\ Len(s) = Len(a \o m) + Len(z)
        /\ \A i \in 1..Len(a \o m)+Len(z) :
             s[i] = IF i <= Len(a \o m) THEN (a \o m)[i]
                    ELSE z[i - Len(a \o m)]
    BY <1>2, Joined, Zenon
  <2> HIDE DEF s
  <2> QED BY <1>2, <2>1, Zenon
<1>4. /\ t \in Seq(Nat) /\ Len(t) = Len(a) + Len(z)
      /\ \A i \in 1..Len(a)+Len(z) :
           t[i] = IF i <= Len(a) THEN a[i] ELSE z[i - Len(a)]
  BY ConcatProperties
<1>5. DOMAIN s = 1..Len(a)+Len(m)+Len(z) /\ DOMAIN t = 1..Len(a)+Len(z)
  BY <1>3, <1>4, LenProperties
<1>6. Increasing(s)
  BY Zenon
<1> HIDE DEF s, t
<1>7. \A i \in DOMAIN t : f(i) \in DOMAIN s /\ t[i] = s[f(i)]
  <2> SUFFICES ASSUME NEW i \in DOMAIN t PROVE f(i) \in DOMAIN s /\ t[i] = s[f(i)]
    OBVIOUS
  <2>1. i \in 1..Len(a)+Len(z)
    BY <1>5
  <2>2. CASE i <= Len(a)
    <3>1. i \in 1..Len(a)+Len(m) /\ i \in 1..Len(a)+Len(m)+Len(z)
          /\ i <= Len(a) + Len(m) /\ f(i) = i
      BY <1>1, <2>1, <2>2
    <3>2. t[i] = a[i]
      BY <1>4, <2>1, <2>2
    <3>3. (a \o m)[i] = a[i]
      BY <1>2, <2>2, <3>1
    <3>4. s[i] = (a \o m)[i]
      BY <1>3, <3>1
    <3> HIDE DEF f
    <3> QED BY <1>5, <3>1, <3>2, <3>3, <3>4, Zenon
  <2>3. CASE ~(i <= Len(a))
    <3>1. f(i) = i + Len(m) /\ f(i) \in 1..Len(a)+Len(m)+Len(z)
          /\ ~(f(i) <= Len(a) + Len(m)) /\ f(i) - (Len(a) + Len(m)) = i - Len(a)
      BY <1>1, <2>1, <2>3
    <3>2. t[i] = z[i - Len(a)]
      BY <1>4, <2>1, <2>3
    <3>3. s[f(i)] = z[f(i) - (Len(a) + Len(m))]
      BY <1>3, <3>1
    <3> HIDE DEF f
    <3> QED BY <1>5, <3>1, <3>2, <3>3
  <2> QED BY <2>2, <2>3
<1>8. \A i, j \in DOMAIN t : i < j => f(i) < f(j)
  BY <1>1, <1>5
<1> HIDE DEF f
<1>9. \A i, j \in DOMAIN t : i < j => t[i] < t[j]
  BY <1>6, <1>7, <1>8 DEF Increasing
<1> QED BY <1>9 DEF Increasing, t

LEMMA FrontOrdered ==
  \A a, m \in Seq(Nat) : Increasing(a \o m) => Increasing(a)
<1> SUFFICES ASSUME NEW a \in Seq(Nat), NEW m \in Seq(Nat), Increasing(a \o m)
             PROVE  Increasing(a)
  OBVIOUS
<1>1. <<>> \in Seq(Nat) /\ a \o m \o <<>> = a \o m /\ a \o <<>> = a
  BY EmptySeq, ConcatEmpty, ConcatSeq, Zenon
<1> QED BY <1>1, DropMiddle, Zenon

\* An increasing sequence of numbers up to n may be followed by the numbers
\* from n + 1 on: what AddToTxBuffer does to the pipe.
LEMMA AppendGreater ==
  ASSUME NEW n \in Nat, NEW k \in Nat, NEW s \in Seq(1..n), Increasing(s)
  PROVE  Increasing(s \o [i \in 1..k |-> n + i])
<1> DEFINE new == [i \in 1..k |-> n + i]
<1>1. new \in Seq(Nat) /\ Len(new) = k /\ s \in Seq(Nat) /\ Len(s) \in Nat
  <2>1. \A i \in 1..k : n + i \in Nat
    OBVIOUS
  <2>2. new \in Seq(Nat)
    BY <2>1, SeqDef
  <2>3. 1..n \subseteq Nat
    OBVIOUS
  <2> QED BY <2>2, <2>3, SeqMonotonic, LenProperties
<1>2. \A i \in 1..Len(s) : s[i] \in 1..n
  BY ElementOfSeq
<1>3. \A i \in 1..k : new[i] = n + i
  OBVIOUS
<1> HIDE DEF new
<1>4. /\ s \o new \in Seq(Nat) /\ Len(s \o new) = Len(s) + k
      /\ \A i \in 1..Len(s)+k :
           (s \o new)[i] = IF i <= Len(s) THEN s[i] ELSE new[i - Len(s)]
  BY <1>1, ConcatProperties
<1>5. DOMAIN (s \o new) = 1..Len(s)+k /\ DOMAIN s = 1..Len(s)
  BY <1>1, <1>4, LenProperties
<1>6. ASSUME NEW i \in 1..Len(s)+k, NEW j \in 1..Len(s)+k, i < j
      PROVE  (s \o new)[i] < (s \o new)[j]
  <2>1. CASE j <= Len(s)
    <3>1. i \in 1..Len(s) /\ j \in 1..Len(s)
      BY <1>1, <1>6, <2>1
    <3>2. s[i] < s[j]
      BY <1>5, <1>6, <3>1 DEF Increasing
    <3> QED BY <1>4, <3>1, <3>2
  <2>2. CASE ~(j <= Len(s)) /\ i <= Len(s)
    <3>1. i \in 1..Len(s) /\ j - Len(s) \in 1..k
      BY <1>1, <1>6, <2>2
    <3>2. (s \o new)[i] = s[i] /\ (s \o new)[j] = n + (j - Len(s))
      BY <1>3, <1>4, <2>2, <3>1
    <3>3. s[i] \in 1..n
      BY <1>2, <3>1
    <3> QED BY <3>1, <3>2, <3>3
  <2>3. CASE ~(j <= Len(s)) /\ ~(i <= Len(s))
    <3>1. i - Len(s) \in 1..k /\ j - Len(s) \in 1..k
      BY <1>1, <1>6, <2>3
    <3>2. /\ (s \o new)[i] = n + (i - Len(s))
          /\ (s \o new)[j] = n + (j - Len(s))
      BY <1>3, <1>4, <2>3, <3>1
    <3> QED BY <1>1, <1>6, <3>1, <3>2
  <2> QED BY <2>1, <2>2, <2>3
<1> QED BY <1>5, <1>6 DEF Increasing, new

\* Sequences of three taken together.
LEMMA Group3 ==
  ASSUME NEW x \in Seq(Nat), NEW y \in Seq(Nat), NEW z \in Seq(Nat)
  PROVE  x \o (y \o z) = x \o y \o z
BY ConcatAssoc, Zenon

\* What a Pop function reports, what it swallows, and what it leaves.
LEMMA PopSplit ==
  ASSUME NEW s \in Seq(Nat), NEW k \in 0..Len(s), NEW r \in 0..k
  PROVE  /\ First(s, r) \in Seq(Nat) /\ From(s, k + 1) \in Seq(Nat)
         /\ From(First(s, k), r + 1) \in Seq(Nat)
         /\ First(s, r) \o From(First(s, k), r + 1) \o From(s, k + 1) = s
<1> DEFINE f == First(s, k)
           z == From(s, k + 1)
<1>1. Len(s) \in Nat
  BY LenProperties
<1>2. f \in Seq(Nat) /\ Len(f) = k /\ z \in Seq(Nat) /\ f \o z = s
  BY Split, Zenon
<1>3. First(f, r) = First(s, r)
  <2>1. 1 \in 1..Len(s)+1 /\ k \in Nat /\ r \in Nat /\ r <= k /\ k <= Len(s)
    BY <1>1
  <2> QED BY <2>1 DEF First
<1> HIDE DEF f, z
<1>4. r \in 0..Len(f)
  BY <1>2
<1>5. First(f, r) \in Seq(Nat) /\ From(f, r + 1) \in Seq(Nat)
      /\ First(f, r) \o From(f, r + 1) = f
  BY <1>2, <1>4, Split, Zenon
<1> QED BY <1>2, <1>3, <1>5, Zenon DEF f, z

LEMMA OrderInit == Init => InOrder
<1>1. <<>> \o <<>> = <<>>
  BY EmptySeq, ConcatEmptySeq
<1>2. Init => Pipeline = <<>>
  BY <1>1 DEF Init, Pipeline
<1> QED BY <1>2 DEF InOrder

\* Each step regroups the pipe, takes a piece out of it, or adds at its end.
LEMMA OrderStep == TypeOK /\ InOrder /\ [Next]_vars => InOrder'
<1> SUFFICES ASSUME TypeOK, InOrder, [Next]_vars, short' = 0
             PROVE  Increasing(Pipeline')
  BY DEF InOrder, Increasing
<1> USE LinkAssumption
<1>e. <<>> \in Seq(Nat) /\ \A x \in Seq(Nat) : x \o <<>> = x
  BY EmptySeq, ConcatEmpty
<1>n. \A s \in Seq(Bytes) : s \in Seq(Nat)
  <2>1. Bytes \subseteq Nat
    BY DEF Bytes, TypeOK
  <2> QED BY <2>1, SeqMonotonic
<1>s. got \in Seq(Nat) /\ rx \in Seq(Nat) /\ net \in Seq(Nat)
      /\ out \in Seq(Nat) /\ tx \in Seq(Nat)
  BY <1>n, Zenon DEF TypeOK
<1>p2. got \o rx \in Seq(Nat)
  BY <1>s, ConcatSeq, Zenon
<1>p3. got \o rx \o net \in Seq(Nat)
  BY <1>s, <1>p2, ConcatSeq, Zenon
<1>p4. got \o rx \o net \o out \in Seq(Nat)
  BY <1>s, <1>p3, ConcatSeq, Zenon
<1>l. \A s \in Seq(Nat) : Len(s) \in Nat
  BY LenProperties
\* Only SendShort counts up, so the order held before the step.
<1>o. short = 0 => Increasing(Pipeline)
  BY DEF InOrder, Increasing
<1>d. \A a, m, z \in Seq(Nat) : Increasing(a \o m \o z) => Increasing(a \o z)
  BY DropMiddle
<1>x. \A a, m \in Seq(Nat) : Increasing(a \o m) => Increasing(a)
  BY FrontOrdered
<1>1. ASSUME NEW n \in Sizes, AddToTxBuffer(n) PROVE Increasing(Pipeline')
  <2> DEFINE new == [i \in 1..n |-> total + i]
  <2>1. n \in Nat /\ total \in Nat /\ short = 0
    BY <1>1 DEF TypeOK, AddToTxBuffer
  <2>2. new \in Seq(Nat)
    <3>1. \A i \in 1..n : total + i \in Nat
      BY <2>1
    <3> QED BY <2>1, <3>1, SeqDef
  <2>3. Pipeline \in Seq(1..total)
    BY ConcatProperties, Zenon DEF Pipeline, TypeOK, Bytes
  <2>4. Increasing(Pipeline \o new)
    <3> HIDE DEF Pipeline
    <3>1. Increasing(Pipeline)
      BY <1>o, <2>1
    <3> QED BY <2>1, <2>3, <3>1, AppendGreater
  <2>5. tx' = tx \o new /\ UNCHANGED <<got, rx, net, out>>
    BY <1>1 DEF AddToTxBuffer, Enqueue
  <2> HIDE DEF new
  <2>6. Pipeline' = Pipeline \o new
    <3>1. (got \o rx \o net \o out) \o (tx \o new)
            = got \o rx \o net \o out \o tx \o new
      BY <1>s, <1>p4, <2>2, Group3, Zenon
    <3> QED BY <2>5, <3>1, Zenon DEF Pipeline
  <2> QED BY <2>4, <2>6, Zenon
<1>2. CASE PopTx
  <2> DEFINE k == Lesser(Len(tx), SendBuf)
             r == Returned(k)
             P == got \o rx \o net
  <2>1. /\ out = <<>> /\ short = 0 /\ tx' = From(tx, k + 1)
        /\ out' = IF conn = "noFd" THEN <<>> ELSE First(tx, r)
        /\ UNCHANGED <<net, rx, got>>
    BY <1>2 DEF PopTx
  <2>2. k \in 0..Len(tx) /\ r \in 0..k
    BY <1>s, PopBounds, Zenon
  <2> HIDE DEF k, r
  <2>3. P \in Seq(Nat) /\ P \o <<>> = P /\ Pipeline = P \o tx
    BY <1>e, <1>p3, <2>1, Zenon DEF Pipeline
  <2>4. Pipeline' = P \o out' \o tx'
    BY <2>1, Zenon DEF Pipeline
  <2> HIDE DEF P
  <2>5. CASE conn = "noFd"
    <3>1. First(tx, k) \in Seq(Nat) /\ tx' \in Seq(Nat)
          /\ First(tx, k) \o tx' = tx
      BY <1>s, <2>1, <2>2, Split, Zenon
    <3>2. P \o (First(tx, k) \o tx') = P \o First(tx, k) \o tx'
      BY <2>3, <3>1, Group3, Zenon
    <3>3. Increasing(P \o First(tx, k) \o tx')
      BY <1>o, <2>1, <2>3, <3>1, <3>2, Zenon
    <3>4. Increasing(P \o tx')
      BY <1>d, <2>3, <3>1, <3>3, Zenon
    <3>5. Pipeline' = P \o tx'
      BY <2>1, <2>3, <2>4, <2>5, Zenon
    <3> QED BY <3>4, <3>5, Zenon
  <2>6. CASE conn # "noFd"
    <3> DEFINE m == From(First(tx, k), r + 1)
               f == First(tx, r)
    <3>1. f \in Seq(Nat) /\ m \in Seq(Nat) /\ tx' \in Seq(Nat)
          /\ f \o m \o tx' = tx /\ out' = f
      BY <1>s, <2>1, <2>2, <2>6, PopSplit, Zenon
    <3> HIDE DEF f, m
    <3>2. P \o f \in Seq(Nat)
      BY <2>3, <3>1, ConcatSeq, Zenon
    <3>3. P \o (f \o m \o tx') = P \o f \o m \o tx'
      <4>1. tx' \in Seq(Nat)
        BY <3>1
      <4>2. P \o (f \o m) = P \o f \o m
        BY <2>3, <3>1, Group3, Zenon
      <4>3. f \o m \in Seq(Nat)
        BY <3>1, ConcatSeq, Zenon
      <4>4. P \o ((f \o m) \o tx') = P \o (f \o m) \o tx'
        BY <2>3, <4>1, <4>3, Group3, Zenon
      <4> QED BY <4>2, <4>4, Zenon
    <3>4. Increasing(P \o f \o m \o tx')
      BY <1>o, <2>1, <2>3, <3>1, <3>3, Zenon
    <3>5. Increasing(P \o f \o tx')
      BY <1>d, <3>1, <3>2, <3>4, Zenon
    <3> QED BY <2>4, <3>1, <3>5, Zenon
  <2> QED BY <2>5, <2>6
<1>3. CASE Send
  <2>1. net' = net \o out /\ out' = <<>> /\ short = 0
        /\ UNCHANGED <<tx, rx, got>>
    BY <1>3 DEF Send
  <2>2. (got \o rx) \o (net \o out) = got \o rx \o net \o out
    BY <1>s, <1>p2, Group3, Zenon
  <2>3. Pipeline' = Pipeline
    BY <1>e, <1>p4, <2>1, <2>2, Zenon DEF Pipeline
  <2> QED BY <1>o, <2>1, <2>3, Zenon
<1>4. CASE SendShort
  <2>1. short' = short + 1 /\ short \in Nat
    BY <1>4 DEF SendShort, TypeOK
  <2> QED BY <2>1
\* A step that takes the front of the pipe's sender half, or all of it.
<1>c. ASSUME short = 0, out' = <<>>, tx' \in {tx, <<>>},
             UNCHANGED <<net, rx, got>>
      PROVE  Increasing(Pipeline')
  <2> DEFINE P == got \o rx \o net
  <2>1. P \in Seq(Nat) /\ P \o out \in Seq(Nat) /\ P \o <<>> = P
        /\ Pipeline = P \o out \o tx /\ Pipeline' = P \o <<>> \o tx'
    BY <1>c, <1>e, <1>p3, <1>p4, Zenon DEF Pipeline
  <2> HIDE DEF P
  <2>2. CASE tx' = tx
    BY <1>c, <1>d, <1>o, <1>s, <2>1, <2>2, Zenon
  <2>3. CASE tx' = <<>>
    <3>1. Increasing(P \o out)
      BY <1>c, <1>o, <1>s, <1>x, <2>1, Zenon
    <3>2. Increasing(P)
      BY <1>s, <1>x, <2>1, <3>1, Zenon
    <3> QED BY <2>1, <2>3, <3>2, Zenon
  <2> QED BY <1>c, <2>2, <2>3
<1>5. CASE SendDown
  <2>1. short = 0 /\ out' = <<>> /\ tx' \in {tx, <<>>}
        /\ UNCHANGED <<net, rx, got>>
    BY <1>5 DEF SendDown
  <2> QED BY <1>c, <2>1, Zenon
<1>6. CASE Recv
  <2>1. PICK k \in 1..Lesser(Len(net), RecvBuf) :
             rx' = Enqueue(rx, First(net, k)) /\ net' = From(net, k + 1)
    BY <1>6 DEF Recv
  <2>2. k \in 0..Len(net)
    <3>1. Len(net) \in Nat /\ RecvBuf \in Nat
      BY <1>l, <1>s
    <3>2. Lesser(Len(net), RecvBuf) \in 0..Len(net)
      BY <3>1, LesserBound
    <3> QED BY <3>1, <3>2
  <2> DEFINE f == First(net, k)
  <2>3. f \in Seq(Nat) /\ net' \in Seq(Nat) /\ f \o net' = net
    BY <1>s, <2>1, <2>2, Split, Zenon
  <2>4. short = 0 /\ rx' = rx \o f /\ UNCHANGED <<tx, out, got>>
    BY <1>6, <2>1 DEF Recv, Enqueue
  <2> HIDE DEF f
  <2>5. got \o (rx \o f) = got \o rx \o f
    <3>1. got \in Seq(Nat) /\ rx \in Seq(Nat) /\ f \in Seq(Nat)
      BY <1>s, <2>3
    <3> QED BY <3>1, Group3, Zenon
  <2>7. (got \o rx) \o (f \o net') = got \o rx \o f \o net'
    BY <1>p2, <2>3, Group3, Zenon
  <2>6. Pipeline' = Pipeline
    BY <2>3, <2>4, <2>5, <2>7, Zenon DEF Pipeline
  <2> QED BY <1>o, <2>4, <2>6, Zenon
<1>7. CASE PopRx
  <2> DEFINE k == Lesser(Len(rx), PopBuf)
             r == Returned(k)
             f == First(rx, r)
             m == From(First(rx, k), r + 1)
             z == net \o out \o tx
  <2>1. /\ short = 0 /\ rx' = From(rx, k + 1) /\ got' = got \o f
        /\ UNCHANGED <<tx, out, net>>
    BY <1>7 DEF PopRx
  <2>2. k \in 0..Len(rx) /\ r \in 0..k
    BY <1>s, PopBounds, Zenon
  <2> HIDE DEF k, r
  <2>3. f \in Seq(Nat) /\ m \in Seq(Nat) /\ rx' \in Seq(Nat)
        /\ f \o m \o rx' = rx
    BY <1>s, <2>1, <2>2, PopSplit, Zenon
  <2>4. z \in Seq(Nat) /\ net \o out \in Seq(Nat)
    BY <1>s, ConcatSeq, Zenon
  <2>5. ASSUME NEW a \in Seq(Nat)
        PROVE  a \o net \o out \o tx = a \o z
    <3>1. a \o (net \o out) = a \o net \o out
      BY <1>s, <2>5, Group3, Zenon
    <3>2. a \o ((net \o out) \o tx) = a \o (net \o out) \o tx
      BY <1>s, <2>4, <2>5, Group3, Zenon
    <3> QED BY <3>1, <3>2, Zenon
  <2> HIDE DEF f, m, z
  <2>6. got \o f \in Seq(Nat) /\ got \o f \o rx' \in Seq(Nat)
        /\ rx' \o z \in Seq(Nat)
    BY <1>s, <2>3, <2>4, ConcatSeq, Zenon
  <2>7. Pipeline = (got \o f) \o m \o (rx' \o z)
    <3>1. got \o rx \o z = Pipeline
      BY <1>p2, <2>5, Zenon DEF Pipeline
    <3>2. got \o (f \o m \o rx') = got \o f \o m \o rx'
      <4>s. got \in Seq(Nat) /\ f \in Seq(Nat) /\ m \in Seq(Nat)
        BY <1>s, <2>3
      <4>1. got \o (f \o m) = got \o f \o m
        BY <4>s, Group3, Zenon
      <4>2. f \o m \in Seq(Nat)
        BY <2>3, ConcatSeq, Zenon
      <4>3. got \o ((f \o m) \o rx') = got \o (f \o m) \o rx'
        <5>1. rx' \in Seq(Nat)
          BY <2>3
        <5> QED BY <4>s, <4>2, <5>1, Group3, Zenon
      <4> QED BY <4>1, <4>3, Zenon
    <3>4. got \o f \o m \in Seq(Nat)
      BY <2>3, <2>6, ConcatSeq, Zenon
    <3>5. got \o f \o m \o rx' \o z = (got \o f \o m) \o (rx' \o z)
      BY <2>3, <2>4, <3>4, Group3, Zenon
    <3> QED BY <2>3, <3>1, <3>2, <3>5, Zenon
  <2>8. Pipeline' = (got \o f) \o (rx' \o z)
    <3>1. Pipeline' = (got \o f \o rx') \o net \o out \o tx
      BY <2>1, Zenon DEF Pipeline
    <3>2. Pipeline' = (got \o f \o rx') \o z
      BY <2>5, <2>6, <3>1, Zenon
    <3>3. (got \o f) \o (rx' \o z) = got \o f \o rx' \o z
      <4>1. got \o f \in Seq(Nat) /\ rx' \in Seq(Nat) /\ z \in Seq(Nat)
        BY <2>3, <2>4, <2>6, Zenon
      <4> QED BY <4>1, Group3, Zenon
    <3> QED BY <3>2, <3>3, Zenon
  <2> QED BY <1>d, <1>o, <2>1, <2>3, <2>6, <2>7, <2>8, Zenon
<1>8. CASE Reset
  <2>1. PICK k \in 0..Len(net) : net' = First(net, k)
    BY <1>8 DEF Reset
  <2> DEFINE m == From(net, k + 1)
             z == out \o tx
  <2>2. short = 0 /\ UNCHANGED <<tx, out, rx, got>>
    BY <1>8 DEF Reset
  <2>3. net' \in Seq(Nat) /\ m \in Seq(Nat) /\ net' \o m = net
    BY <1>s, <2>1, Split, Zenon
  <2>4. z \in Seq(Nat)
    BY <1>s, ConcatSeq, Zenon
  <2>5. ASSUME NEW a \in Seq(Nat) PROVE a \o out \o tx = a \o z
    BY <1>s, <2>5, Group3, Zenon
  <2> HIDE DEF m, z
  <2>6. got \o rx \o net' \in Seq(Nat)
    BY <1>p2, <2>3, ConcatSeq, Zenon
  <2>7. (got \o rx) \o (net' \o m) = got \o rx \o net' \o m
    BY <1>p2, <2>3, Group3, Zenon
  <2>8. Pipeline = (got \o rx \o net') \o m \o z
    BY <1>p3, <2>3, <2>5, <2>7, Zenon DEF Pipeline
  <2>9. Pipeline' = (got \o rx \o net') \o z
    BY <2>2, <2>5, <2>6, Zenon DEF Pipeline
  <2> QED BY <1>d, <1>o, <2>2, <2>3, <2>4, <2>6, <2>8, <2>9, Zenon
<1>9. CASE SenderExit
  <2>1. short = 0 /\ out' = <<>> /\ tx' \in {tx, <<>>}
        /\ UNCHANGED <<net, rx, got>>
    BY <1>9 DEF SenderExit
  <2> QED BY <1>c, <2>1, Zenon
<1>10. CASE ReceiverExit
  <2> DEFINE z == out \o tx
  <2>1. short = 0 /\ net' = <<>> /\ rx' = <<>> /\ UNCHANGED <<tx, out, got>>
    BY <1>10 DEF ReceiverExit
  <2>2. z \in Seq(Nat) /\ rx \o net \in Seq(Nat)
    BY <1>s, ConcatSeq, Zenon
  <2>3. ASSUME NEW a \in Seq(Nat) PROVE a \o out \o tx = a \o z
    BY <1>s, <2>3, Group3, Zenon
  <2> HIDE DEF z
  <2>4. got \o rx \o net = got \o (rx \o net) /\ got \o <<>> \o <<>> = got
    BY <1>e, <1>s, Group3, Zenon
  <2>5. Pipeline = got \o (rx \o net) \o z
    BY <1>p3, <2>3, <2>4, Zenon DEF Pipeline
  <2>6. Pipeline' = got \o z
    BY <1>s, <2>1, <2>3, <2>4, Zenon DEF Pipeline
  <2> QED BY <1>d, <1>o, <1>s, <2>1, <2>2, <2>5, <2>6, Zenon
<1>11. CASE UNCHANGED vars
  BY <1>11, <1>o DEF vars, Pipeline
<1> QED BY <1>1, <1>2, <1>3, <1>4, <1>5, <1>6, <1>7, <1>8, <1>9, <1>10,
           <1>11 DEF Next

\* Whatever is dropped and wherever it breaks, the bytes in the pipe and at
\* the receiver are in the order in which they were handed over, each once,
\* as long as no send was partial.
THEOREM OrderKept == Spec => []InOrder
  BY TypeInit, TypeStep, OrderInit, OrderStep, PTL DEF Spec

\* One direction of a connection implements LossyStream, for every buffer
\* size, count width and fault set.
THEOREM LinkImplementsStream == Spec => ImplementsStream
<1>1. Init => Stream!Init
  BY DEF Init, Stream!Init
<1>2. TypeOK /\ TypeOK' /\ InOrder' /\ [Next]_vars =>
        [Stream!Hand \/ Stream!Tear \/ Stream!Deliver]_<<total, got, short # 0>>
  <2> SUFFICES ASSUME TypeOK, TypeOK', InOrder', [Next]_vars
               PROVE  [Stream!Hand \/ Stream!Tear \/ Stream!Deliver]_
                        <<total, got, short # 0>>
    OBVIOUS
  <2>1. ASSUME NEW n \in Sizes, AddToTxBuffer(n) PROVE Stream!Hand
    <3>1. n \in Nat \ {0} /\ total \in Nat
      BY LinkAssumption DEF TypeOK
    <3>2. total' = total + n /\ UNCHANGED <<got, short>>
      BY <2>1 DEF AddToTxBuffer
    <3> QED BY <3>1, <3>2 DEF Stream!Hand
  <2>2. CASE PopRx
    <3> DEFINE f == First(rx, Returned(Lesser(Len(rx), PopBuf)))
    <3>1. got' = got \o f /\ UNCHANGED <<total, short>>
      BY <2>2 DEF PopRx
    <3>2. got \in Seq(Bytes) /\ got' \in Seq(Bytes) /\ f \in Seq(Bytes)
      <4>1. \A k, r : k = Lesser(Len(rx), PopBuf) /\ r = Returned(k) =>
                r \in 0..Len(rx)
        BY PopBounds, LinkAssumption, Zenon DEF TypeOK
      <4>2. f \in Seq(Bytes)
        BY <4>1, Split, Zenon DEF TypeOK
      <4>3. got' \in Seq(Bytes)
        BY <3>1 DEF TypeOK, Bytes
      <4> QED BY <4>2, <4>3 DEF TypeOK
    <3> HIDE DEF f
    <3>3. got' = got \o SubSeq(got', Len(got) + 1, Len(got'))
      <4>1. Len(got) \in Nat /\ Len(got') = Len(got) + Len(f) /\ Len(f) \in Nat
        BY <3>1, <3>2, ConcatProperties, LenProperties
      <4>2. Len(got) \in 0..Len(got')
        BY <4>1
      <4>3. First(got', Len(got)) \o From(got', Len(got) + 1) = got'
            /\ First(got', Len(got)) \in Seq(Bytes)
            /\ Len(First(got', Len(got))) = Len(got)
        BY <3>2, <4>2, Split, Zenon
      <4>4. First(got', Len(got)) = got
        <5>1. \A i \in 1..Len(got) : First(got', Len(got))[i] = got'[i]
          BY <4>1, <3>2 DEF First
        <5>2. \A i \in 1..Len(got) : got'[i] = got[i]
          BY <3>1, <3>2, <4>1, ConcatProperties
        <5> QED BY <3>2, <4>3, <5>1, <5>2, SeqEqual
      <4> QED BY <4>3, <4>4, Zenon DEF From
    <3>4. \A i \in DOMAIN got' : got'[i] \in 1..total
      BY <3>2, ElementOfSeq, LenProperties DEF Bytes
    <3>5. short # 0 \/ Stream!Increasing(got')
      <4>1. CASE short = 0
        <5>1. Increasing(Pipeline')
          BY <2>2, <4>1 DEF InOrder, Increasing, PopRx
        <5>2. got' \in Seq(Nat) /\ rx' \in Seq(Nat) /\ net' \in Seq(Nat)
              /\ out' \in Seq(Nat) /\ tx' \in Seq(Nat)
          <6>1. Bytes' \subseteq Nat
            BY DEF Bytes
          <6> QED BY <6>1, SeqMonotonic DEF TypeOK
        <5>3. /\ got' \o rx' \in Seq(Nat) /\ got' \o rx' \o net' \in Seq(Nat)
              /\ got' \o rx' \o net' \o out' \in Seq(Nat)
          BY <5>2, ConcatSeq, Zenon
        <5>4. Pipeline' = got' \o rx' \o net' \o out' \o tx'
          BY DEF Pipeline
        <5>5. Increasing(got')
          BY <5>1, <5>2, <5>3, <5>4, FrontOrdered, Zenon
        <5> QED BY <5>5 DEF Increasing, Stream!Increasing
      <4> QED BY <4>1
    <3> QED BY <3>1, <3>3, <3>4, <3>5 DEF Stream!Deliver
  <2>3. CASE SendShort
    <3>1. short' = short + 1 /\ short \in Nat /\ UNCHANGED <<total, got>>
      BY <2>3 DEF SendShort, TypeOK
    <3>2. (short # 0)' = TRUE
      BY <3>1
    <3> QED BY <3>1, <3>2 DEF Stream!Tear
  <2>4. CASE PopTx \/ Send \/ SendDown \/ Recv \/ Reset \/ SenderExit
             \/ ReceiverExit \/ UNCHANGED vars
    BY <2>4 DEF PopTx, Send, SendDown, Recv, Reset, SenderExit, ReceiverExit, vars
  <2> QED BY <2>1, <2>2, <2>3, <2>4 DEF Next
<1> QED BY <1>1, <1>2, TypeInit, TypeStep, OrderInit, OrderStep, PTL
        DEF Spec, ImplementsStream, Stream!Spec

-----------------------------------------------------------------------------
LEMMA WholeBlocks ==
  ASSUME NEW q \in Int, NEW z, z = q * CountMod
  PROVE  z % CountMod = 0
<1>1. CountMod \in Nat \ {0}
  BY LinkAssumption
<1> QED
  BY <1>1

\* What a count leaves unreported is a whole number of blocks.
LEMMA Unreported ==
  ASSUME NEW k \in Nat
  PROVE  (k - Returned(k)) % CountMod = 0
<1>1. CountMod \in Nat \ {0}
  BY LinkAssumption
<1>2. k = CountMod * (k \div CountMod) + (k % CountMod)
  BY <1>1
<1>3. k \div CountMod \in Nat /\ k % CountMod \in Nat
  BY <1>1
<1>4. k - (k % CountMod) = (k \div CountMod) * CountMod
  BY <1>1, <1>2, <1>3
<1> QED
  BY <1>3, <1>4, WholeBlocks DEF Returned

LEMMA SumOfBlocks ==
  ASSUME NEW x \in Nat, NEW y \in Nat, x % CountMod = 0, y % CountMod = 0
  PROVE  (x + y) % CountMod = 0
<1>1. CountMod \in Nat \ {0}
  BY LinkAssumption
<1>2. PICK p \in Int : x = p * CountMod
  BY <1>1
<1>3. PICK q \in Int : y = q * CountMod
  BY <1>1
<1>4. x + y = (p + q) * CountMod /\ p + q \in Int
  BY <1>1, <1>2, <1>3
<1> QED
  BY <1>4, WholeBlocks

LEMMA Swallowed ==
  ASSUME NEW s \in Seq(Nat), Increasing(s), NEW k \in 0..Len(s), NEW r \in 0..k
  PROVE  LET D == {s[i] : i \in r+1..k}
         IN  IsFiniteSet(D) /\ Cardinality(D) = k - r
<1> DEFINE D == {s[i] : i \in r+1..k}
           f == [i \in r+1..k |-> s[i]]
<1>1. Len(s) \in Nat /\ k \in Nat /\ r \in Nat /\ r+1..k \subseteq 1..Len(s)
  BY LenProperties
<1>2. DOMAIN s = 1..Len(s) /\ \A i \in 1..Len(s) : s[i] \in Nat
  BY LenProperties, ElementOfSeq
<1>3. \A i, j \in r+1..k : s[i] = s[j] => i = j
  <2> SUFFICES ASSUME NEW i \in r+1..k, NEW j \in r+1..k, s[i] = s[j], i # j
               PROVE  FALSE
    OBVIOUS
  <2>1. i \in 1..Len(s) /\ j \in 1..Len(s)
    BY <1>1
  <2>2. s[i] \in Nat /\ i \in Int /\ j \in Int
    BY <1>2, <2>1
  <2>3. CASE i < j
    BY <1>2, <2>1, <2>2, <2>3 DEF Increasing
  <2>4. CASE j < i
    BY <1>2, <2>1, <2>2, <2>4 DEF Increasing
  <2> QED
    BY <2>2, <2>3, <2>4
<1>4. f \in Bijection(r+1..k, D)
  <2>1. f \in [r+1..k -> D]
    OBVIOUS
  <2>2. f \in Injection(r+1..k, D)
    BY <1>3, <2>1 DEF Injection, IsInjective
  <2>3. f \in Surjection(r+1..k, D)
    BY <2>1 DEF Surjection
  <2> QED
    BY <2>2, <2>3 DEF Bijection
<1>5. ExistsBijection(r+1..k, D)
  BY <1>4 DEF ExistsBijection
<1>6. IsFiniteSet(r+1..k) /\ Cardinality(r+1..k) = k - r
  <2>1. r + 1 \in Int /\ k \in Int
    BY <1>1
  <2>2. /\ IsFiniteSet(r+1..k)
        /\ Cardinality(r+1..k) = IF r + 1 > k THEN 0 ELSE k - (r + 1) + 1
    BY <2>1, FS_Interval, Zenon
  <2>3. r <= k
    BY <1>1
  <2> QED
    BY <1>1, <2>2, <2>3
<1> HIDE DEF D
<1>7. IsFiniteSet(D) /\ Cardinality(D) = Cardinality(r+1..k)
  BY <1>5, <1>6, FS_Bijection
<1> QED
  BY <1>6, <1>7 DEF D

\* The elements of one set are below those of another.
Below(L, R) == \A x \in L : \A y \in R : x < y

LEMMA PartsOrdered ==
  ASSUME NEW x \in Seq(Nat), NEW y \in Seq(Nat), Increasing(x \o y)
  PROVE  /\ Increasing(x) /\ Increasing(y) /\ Below(Range(x), Range(y))
         /\ x \o y \in Seq(Nat) /\ Range(x \o y) = Range(x) \cup Range(y)
<1> DEFINE z == x \o y
<1>1. /\ Len(x) \in Nat /\ Len(y) \in Nat
      /\ z \in Seq(Nat) /\ Len(z) = Len(x) + Len(y)
      /\ \A i \in 1..Len(x)+Len(y) :
           z[i] = IF i <= Len(x) THEN x[i] ELSE y[i - Len(x)]
  BY LenProperties, Joined
<1>2. /\ DOMAIN x = 1..Len(x) /\ DOMAIN y = 1..Len(y) /\ DOMAIN z = 1..Len(x)+Len(y)
  BY <1>1, LenProperties
<1>3. \A i, j \in 1..Len(x)+Len(y) : i < j => z[i] < z[j]
  BY <1>2 DEF Increasing
<1> HIDE DEF z
<1>4. \A i \in 1..Len(x) : i \in 1..Len(x)+Len(y) /\ z[i] = x[i]
  BY <1>1
<1>5. \A j \in 1..Len(y) : Len(x) + j \in 1..Len(x)+Len(y) /\ z[Len(x) + j] = y[j]
  <2> SUFFICES ASSUME NEW j \in 1..Len(y)
               PROVE  Len(x) + j \in 1..Len(x)+Len(y) /\ z[Len(x) + j] = y[j]
    OBVIOUS
  <2>1. PICK i \in Nat : i = Len(x) + j
    BY <1>1
  <2>2. i \in 1..Len(x)+Len(y) /\ ~(i <= Len(x)) /\ i - Len(x) = j
    BY <1>1, <2>1
  <2> QED
    BY <1>1, <2>1, <2>2
<1>6. Increasing(x)
  BY <1>2, <1>3, <1>4 DEF Increasing
<1>7. Increasing(y)
  <2> SUFFICES ASSUME NEW i \in 1..Len(y), NEW j \in 1..Len(y), i < j
               PROVE  y[i] < y[j]
    BY <1>2 DEF Increasing
  <2>1. Len(x) + i < Len(x) + j
    BY <1>1
  <2> QED
    BY <1>3, <1>5, <2>1
<1>8. \A i \in 1..Len(x), j \in 1..Len(y) : x[i] < y[j]
  <2> TAKE i \in 1..Len(x), j \in 1..Len(y)
  <2>1. i < Len(x) + j
    BY <1>1
  <2> QED
    BY <1>3, <1>4, <1>5, <2>1
<1>9. /\ Range(x) = {x[i] : i \in 1..Len(x)} /\ Range(y) = {y[i] : i \in 1..Len(y)}
      /\ Range(x \o y) = Range(x) \cup Range(y)
  BY RangeEquality, RangeConcatenation
<1>10. Below(Range(x), Range(y))
  BY <1>8, <1>9, Zenon DEF Below
<1> QED
  BY <1>1, <1>6, <1>7, <1>9, <1>10 DEF z

\* The pieces of a pipe that is in order.
LEMMA PipeOrdered ==
  ASSUME TypeOK, Increasing(Pipeline)
  PROVE  /\ Increasing(tx) /\ Increasing(rx)
         /\ Below(Range(rx), Range(net) \cup Range(out) \cup Range(tx))
         /\ tx \in Seq(Nat) /\ rx \in Seq(Nat)
<1>1. Bytes \subseteq Nat
  BY DEF Bytes, TypeOK
<1>2. /\ got \in Seq(Nat) /\ rx \in Seq(Nat) /\ net \in Seq(Nat)
      /\ out \in Seq(Nat) /\ tx \in Seq(Nat)
  <2>1. \A s \in Seq(Bytes) : s \in Seq(Nat)
    BY <1>1, SeqMonotonic
  <2> QED
    BY <2>1, Zenon DEF TypeOK
<1> DEFINE a == got \o rx
           b == a \o net
           c == b \o out
<1>3. a \in Seq(Nat) /\ b \in Seq(Nat) /\ c \in Seq(Nat)
  BY <1>2, ConcatProperties
<1>4. Increasing(c \o tx)
  BY DEF Pipeline
<1> HIDE DEF c
<1>5. Increasing(c) /\ Increasing(tx) /\ Below(Range(c), Range(tx))
  BY <1>2, <1>3, <1>4, PartsOrdered
<1> USE DEF c
<1> HIDE DEF b
<1>6. Increasing(b) /\ Below(Range(b), Range(out)) /\ Range(b) \subseteq Range(c)
  BY <1>2, <1>3, <1>5, PartsOrdered
<1> USE DEF b
<1> HIDE DEF a
<1>7. Increasing(a) /\ Below(Range(a), Range(net)) /\ Range(a) \subseteq Range(b)
  BY <1>2, <1>3, <1>6, PartsOrdered
<1> USE DEF a
<1>8. Increasing(rx) /\ Range(rx) \subseteq Range(a)
  BY <1>2, <1>7, PartsOrdered
<1> HIDE DEF a, b, c
<1> QED
  BY <1>2, <1>5, <1>6, <1>7, <1>8, Zenon DEF Below

\* What a Pop function swallows comes before what it leaves.
LEMMA PopLeaves ==
  ASSUME NEW s \in Seq(Nat), Increasing(s), NEW k \in 0..Len(s), NEW r \in 0..k
  PROVE  /\ {s[i] : i \in r+1..k} \subseteq Range(s)
         /\ Below({s[i] : i \in r+1..k}, Range(From(s, k + 1)))
         /\ Range(From(s, k + 1)) \subseteq Range(s)
<1> DEFINE f == First(s, k)
           z == From(s, k + 1)
<1>1. f \in Seq(Nat) /\ z \in Seq(Nat) /\ f \o z = s /\ Len(f) = k
  BY Split
<1> HIDE DEF f, z
<1>2. Below(Range(f), Range(z)) /\ Range(s) = Range(f) \cup Range(z)
  BY <1>1, PartsOrdered
<1>3. \A i \in r+1..k : s[i] \in Range(f)
  <2> SUFFICES ASSUME NEW i \in r+1..k PROVE s[i] \in Range(f)
    OBVIOUS
  <2>1. Len(s) \in Nat /\ i \in 1..Len(f) /\ Len(z) \in Nat
    BY <1>1, LenProperties
  <2>2. (f \o z)[i] = f[i]
    <3>1. /\ f \in Seq(Nat) /\ z \in Seq(Nat) /\ Len(f) \in Nat /\ i <= Len(f)
          /\ i \in 1..Len(f)+Len(z)
      BY <1>1, <2>1
    <3> QED
      BY <3>1, Joined
  <2>3. Range(f) = {f[j] : j \in 1..Len(f)}
    BY <1>1, RangeEquality
  <2> QED
    BY <1>1, <2>1, <2>2, <2>3
<1>4. {s[i] : i \in r+1..k} \subseteq Range(f)
  BY <1>3
<1> HIDE DEF Below
<1>5. Below({s[i] : i \in r+1..k}, Range(z))
  BY <1>2, <1>4 DEF Below
<1> QED
  BY <1>2, <1>4, <1>5 DEF z

\* One Pop call: the lost bytes stay in whole blocks, and behind the queue.
LEMMA PopDrops ==
  ASSUME NEW s \in Seq(Nat), Increasing(s), NEW B \in Nat,
         NEW L, IsFiniteSet(L), Below(L, Range(s)), Cardinality(L) % CountMod = 0,
         NEW k, k = Lesser(Len(s), B), NEW r, r = Returned(k)
  PROVE  LET D == {s[i] : i \in r+1..k}
         IN  /\ Cardinality(L \cup D) % CountMod = 0
             /\ Below(L \cup D, Range(From(s, k + 1)))
             /\ D \subseteq Range(s)
             /\ Range(From(s, k + 1)) \subseteq Range(s)
<1> DEFINE D == {s[i] : i \in r+1..k}
<1>1. k \in 0..Len(s) /\ r \in 0..k
  BY PopBounds
<1>2. /\ D \subseteq Range(s) /\ Below(D, Range(From(s, k + 1)))
      /\ Range(From(s, k + 1)) \subseteq Range(s)
  BY <1>1, PopLeaves
<1>3. IsFiniteSet(D) /\ Cardinality(D) = k - r
  BY <1>1, Swallowed
<1>4. (k - r) % CountMod = 0 /\ k - r \in Nat
  <2>1. k \in Nat /\ r \in 0..k
    BY <1>1, LenProperties
  <2> QED
    BY <2>1, Unreported
<1> HIDE DEF D
<1>5. L \cap D = {}
  <2> SUFFICES ASSUME NEW x \in L, x \in D PROVE FALSE
    OBVIOUS
  <2>1. x < x /\ x \in Nat
    BY <1>2, RangeOfSeq DEF Below
  <2> QED
    BY <2>1
<1>6. Cardinality(L \cup D) = Cardinality(L) + Cardinality(D)
  <2>1. Cardinality(L \cap D) = 0
    BY <1>5, FS_EmptySet
  <2>2. Cardinality(L \cup D) = Cardinality(L) + Cardinality(D) - Cardinality(L \cap D)
    BY <1>3, FS_Union
  <2>3. Cardinality(L) \in Nat /\ Cardinality(D) \in Nat
    BY <1>3, FS_CardinalityType
  <2> QED
    BY <2>1, <2>2, <2>3
<1>7. Cardinality(L \cup D) % CountMod = 0
  <2>1. Cardinality(L) \in Nat
    BY FS_CardinalityType
  <2> QED
    BY <1>3, <1>4, <1>6, <2>1, SumOfBlocks
<1>8. Below(L \cup D, Range(From(s, k + 1)))
  BY <1>2 DEF Below
<1> QED
  BY <1>2, <1>7, <1>8 DEF D

\* What the Pop functions swallowed lies before all that is still to come.
Swallows ==
  short = 0 =>
    /\ Below(lostTx, Range(tx))
    /\ Below(lostRx, Range(rx) \cup Range(net) \cup Range(out) \cup Range(tx))

LEMMA SubRange ==
  ASSUME NEW S, NEW s \in Seq(S), NEW k \in 0..Len(s)
  PROVE  Range(First(s, k)) \subseteq Range(s) /\ Range(From(s, k + 1)) \subseteq Range(s)
<1>1. First(s, k) \in Seq(S) /\ From(s, k + 1) \in Seq(S) /\ First(s, k) \o From(s, k + 1) = s
  BY Split
<1>2. Range(First(s, k) \o From(s, k + 1)) = Range(First(s, k)) \cup Range(From(s, k + 1))
  BY <1>1, RangeConcatenation, Zenon
<1> QED
  BY <1>1, <1>2, Zenon

LEMMA DropsStep ==
  ASSUME TypeOK, InOrder, Swallows, DropsWholeBlocks, [Next]_vars
  PROVE  Swallows' /\ DropsWholeBlocks'
<1> SUFFICES ASSUME short' = 0
             PROVE  /\ Below(lostTx', Range(tx'))
                    /\ Below(lostRx', Range(rx') \cup Range(net') \cup Range(out')
                                       \cup Range(tx'))
                    /\ Cardinality(lostTx') % CountMod = 0
                    /\ Cardinality(lostRx') % CountMod = 0
  BY DEF Swallows, DropsWholeBlocks
<1> DEFINE A == Range(rx) \cup Range(net) \cup Range(out) \cup Range(tx)
\* No step so far was a partial send.
<1>1. short = 0
  <2>1. CASE SendShort
    BY <2>1 DEF SendShort, TypeOK
  <2>2. ASSUME NEW n \in Sizes, AddToTxBuffer(n) PROVE short' = short
    BY <2>2 DEF AddToTxBuffer
  <2>3. PopTx \/ Send \/ SendDown => short' = short
    BY DEF PopTx, Send, SendDown
  <2>4. Recv \/ PopRx \/ Reset => short' = short
    BY DEF Recv, PopRx, Reset
  <2>5. SenderExit \/ ReceiverExit \/ UNCHANGED vars => short' = short
    BY DEF SenderExit, ReceiverExit, vars
  <2> QED
    BY <2>1, <2>2, <2>3, <2>4, <2>5 DEF Next
<1>2. /\ Below(lostTx, Range(tx)) /\ Below(lostRx, A)
      /\ Cardinality(lostTx) % CountMod = 0 /\ Cardinality(lostRx) % CountMod = 0
  BY <1>1 DEF Swallows, DropsWholeBlocks
<1>3. Increasing(Pipeline)
  BY <1>1 DEF InOrder, Increasing
<1>4. /\ Increasing(tx) /\ Increasing(rx)
      /\ Below(Range(rx), Range(net) \cup Range(out) \cup Range(tx))
      /\ tx \in Seq(Nat) /\ rx \in Seq(Nat)
  BY <1>3, PipeOrdered
<1>5. IsFiniteSet(lostTx) /\ IsFiniteSet(lostRx)
  <2>1. IsFiniteSet(Bytes)
    <3>1. 1 \in Int /\ total \in Int
      BY DEF TypeOK
    <3> QED
      BY <3>1, FS_Interval, Zenon DEF Bytes
  <2> QED
    BY <2>1, FS_Subset, Zenon DEF TypeOK
<1>6. /\ Range(<<>>) = {} /\ Range(tx) \subseteq Bytes /\ Range(rx) \subseteq Bytes
      /\ Range(net) \subseteq Bytes /\ Range(out) \subseteq Bytes
  <2>1. Range(<<>>) = {}
    BY DEF Range
  <2> QED
    BY <2>1, RangeOfSeq DEF TypeOK
\* Steps that only move bytes on, or lose them with a connection or a process.
<1>7. ASSUME lostTx' = lostTx, lostRx' = lostRx, Range(tx') \subseteq Range(tx),
             Range(rx') \cup Range(net') \cup Range(out') \cup Range(tx') \subseteq A
      PROVE  /\ Below(lostTx', Range(tx'))
             /\ Below(lostRx', Range(rx') \cup Range(net') \cup Range(out')
                                \cup Range(tx'))
             /\ Cardinality(lostTx') % CountMod = 0
             /\ Cardinality(lostRx') % CountMod = 0
  BY <1>2, <1>7, Zenon DEF Below
<1> HIDE DEF A
<1>8. ASSUME NEW n \in Sizes, AddToTxBuffer(n)
      PROVE  /\ Below(lostTx', Range(tx'))
             /\ Below(lostRx', Range(rx') \cup Range(net') \cup Range(out')
                                \cup Range(tx'))
             /\ Cardinality(lostTx') % CountMod = 0
             /\ Cardinality(lostRx') % CountMod = 0
  <2> DEFINE new == [i \in 1..n |-> total + i]
  <2>1. n \in Nat /\ total \in Nat
    BY LinkAssumption DEF TypeOK
  <2>2. /\ tx' = tx \o new
        /\ UNCHANGED <<rx, net, out, lostTx, lostRx>>
    BY <1>8 DEF AddToTxBuffer, Enqueue
  <2>3. new \in Seq(Nat) /\ Range(new) = {total + i : i \in 1..n}
    <3>1. \A i \in 1..n : total + i \in Nat
      BY <2>1
    <3>2. new \in Seq(Nat)
      BY <2>1, <3>1, SeqDef
    <3> QED
      BY <3>2 DEF Range
  <2> HIDE DEF new
  <2>4. Range(tx') = Range(tx) \cup Range(new)
    BY <1>4, <2>2, <2>3, RangeConcatenation
  <2>5. \A x \in Bytes : \A y \in Range(new) : x < y
    BY <2>1, <2>3 DEF Bytes
  <2>6. lostTx \subseteq Bytes /\ lostRx \subseteq Bytes
    BY DEF TypeOK
  <2> QED
    BY <1>2, <2>2, <2>4, <2>5, <2>6, Zenon DEF Below, A
<1>9. CASE PopTx
  <2> DEFINE k == Lesser(Len(tx), SendBuf)
             r == Returned(k)
             D == {tx[i] : i \in r+1..k}
  <2>1. /\ tx' = From(tx, k + 1) /\ lostTx' = lostTx \cup D
        /\ out' \in {<<>>, First(tx, r)}
        /\ UNCHANGED <<rx, net, lostRx>>
    BY <1>9 DEF PopTx
  <2>2. r \in 0..Len(tx) /\ SendBuf \in Nat
    BY <1>4, PopBounds, LinkAssumption
  <2>3. Range(First(tx, r)) \subseteq Range(tx)
    BY <1>4, <2>2, SubRange
  <2> HIDE DEF D
  <2>4. /\ Cardinality(lostTx \cup D) % CountMod = 0
        /\ Below(lostTx \cup D, Range(From(tx, k + 1)))
        /\ Range(From(tx, k + 1)) \subseteq Range(tx)
    BY <1>2, <1>4, <1>5, <2>2, PopDrops DEF D
  <2> HIDE DEF k, r
  <2>5. Range(rx') \cup Range(net') \cup Range(out') \cup Range(tx') \subseteq A
    BY <1>6, <2>1, <2>3, <2>4, Zenon DEF A
  <2>6. Below(lostRx', Range(rx') \cup Range(net') \cup Range(out') \cup Range(tx'))
    BY <1>2, <2>1, <2>5, Zenon DEF Below
  <2> QED
    BY <1>2, <2>1, <2>4, <2>6, Zenon
<1>10. CASE PopRx
  <2> DEFINE k == Lesser(Len(rx), PopBuf)
             r == Returned(k)
             D == {rx[i] : i \in r+1..k}
  <2>1. /\ rx' = From(rx, k + 1) /\ lostRx' = lostRx \cup D
        /\ UNCHANGED <<tx, out, net, lostTx>>
    BY <1>10 DEF PopRx
  <2>2. PopBuf \in Nat /\ Below(lostRx, Range(rx))
    BY <1>2, LinkAssumption DEF Below, A
  <2> HIDE DEF D
  <2>3. /\ Cardinality(lostRx \cup D) % CountMod = 0
        /\ Below(lostRx \cup D, Range(From(rx, k + 1)))
        /\ D \subseteq Range(rx)
        /\ Range(From(rx, k + 1)) \subseteq Range(rx)
    BY <1>2, <1>4, <1>5, <2>2, PopDrops DEF D
  <2> HIDE DEF k, r
  <2>4. Below(lostRx \cup D, Range(net) \cup Range(out) \cup Range(tx))
    BY <1>2, <1>4, <2>3, Zenon DEF Below, A
  <2>5. Below(lostRx', Range(rx') \cup Range(net') \cup Range(out') \cup Range(tx'))
    BY <2>1, <2>3, <2>4, Zenon DEF Below
  <2> QED
    BY <1>2, <2>1, <2>3, <2>5, Zenon
<1>11. CASE Send
  <2>1. /\ net' = net \o out /\ out' = <<>>
        /\ UNCHANGED <<tx, rx, lostTx, lostRx>>
    BY <1>11 DEF Send
  <2>2. Range(net \o out) = Range(net) \cup Range(out)
    BY RangeConcatenation DEF TypeOK
  <2>3. Range(rx') \cup Range(net') \cup Range(out') \cup Range(tx') \subseteq A
    BY <1>6, <2>1, <2>2, Zenon DEF A
  <2> QED
    BY <1>7, <2>1, <2>3, Zenon
<1>12. CASE SendDown \/ SenderExit
  <2>1. /\ out' = <<>> /\ tx' \in {tx, <<>>}
        /\ UNCHANGED <<net, rx, lostTx, lostRx>>
    BY <1>12 DEF SendDown, SenderExit
  <2>2. /\ Range(tx') \subseteq Range(tx)
        /\ Range(rx') \cup Range(net') \cup Range(out') \cup Range(tx') \subseteq A
    BY <1>6, <2>1, Zenon DEF A
  <2> QED
    BY <1>7, <2>1, <2>2, Zenon
<1>13. CASE Recv
  <2>1. PICK k \in 1..Lesser(Len(net), RecvBuf) :
             rx' = rx \o First(net, k) /\ net' = From(net, k + 1)
    BY <1>13 DEF Recv, Enqueue
  <2>2. UNCHANGED <<tx, out, lostTx, lostRx>>
    BY <1>13 DEF Recv
  <2>3. k \in 0..Len(net)
    <3>1. Len(net) \in Nat /\ RecvBuf \in Nat
      BY LenProperties, LinkAssumption DEF TypeOK
    <3>2. Lesser(Len(net), RecvBuf) \in 0..Len(net)
      BY <3>1, LesserBound
    <3> QED
      BY <3>1, <3>2
  <2>4. First(net, k) \in Seq(Bytes)
    BY <2>3, Split DEF TypeOK
  <2>5. Range(rx \o First(net, k)) = Range(rx) \cup Range(First(net, k))
    BY <2>4, RangeConcatenation DEF TypeOK
  <2>6. Range(First(net, k)) \subseteq Range(net) /\ Range(From(net, k + 1)) \subseteq Range(net)
    BY <2>3, SubRange DEF TypeOK
  <2>7. Range(rx') \cup Range(net') \cup Range(out') \cup Range(tx') \subseteq A
    BY <2>1, <2>2, <2>5, <2>6, Zenon DEF A
  <2> QED
    BY <1>7, <2>2, <2>7, Zenon
<1>14. CASE Reset
  <2>1. PICK k \in 0..Len(net) : net' = First(net, k)
    BY <1>14 DEF Reset
  <2>2. UNCHANGED <<tx, out, rx, lostTx, lostRx>>
    BY <1>14 DEF Reset
  <2>3. Range(First(net, k)) \subseteq Range(net)
    BY SubRange DEF TypeOK
  <2>4. Range(rx') \cup Range(net') \cup Range(out') \cup Range(tx') \subseteq A
    BY <2>1, <2>2, <2>3, Zenon DEF A
  <2> QED
    BY <1>7, <2>2, <2>4, Zenon
<1>15. CASE ReceiverExit
  <2>1. /\ net' = <<>> /\ rx' = <<>> /\ UNCHANGED <<tx, out, lostTx, lostRx>>
    BY <1>15 DEF ReceiverExit
  <2>2. Range(rx') \cup Range(net') \cup Range(out') \cup Range(tx') \subseteq A
    BY <1>6, <2>1, Zenon DEF A
  <2> QED
    BY <1>7, <2>1, <2>2, Zenon
<1>16. CASE UNCHANGED vars
  <2>1. UNCHANGED <<tx, out, net, rx, lostTx, lostRx>>
    BY <1>16 DEF vars
  <2>2. Range(rx') \cup Range(net') \cup Range(out') \cup Range(tx') \subseteq A
    BY <2>1, Zenon DEF A
  <2> QED
    BY <1>7, <2>1, <2>2, Zenon
<1>17. CASE SendShort
  BY <1>1, <1>17 DEF SendShort
<1> QED
  BY <1>8, <1>9, <1>10, <1>11, <1>12, <1>13, <1>14, <1>15, <1>16, <1>17 DEF Next

\* DropsWholeBlocks, for every buffer size, count range and fault: what the
\* truncated counts swallow is whole blocks.
THEOREM WholeBlocksDropped == Spec => []DropsWholeBlocks
<1>1. Init => Swallows /\ DropsWholeBlocks
  <2> SUFFICES ASSUME Init PROVE Swallows /\ DropsWholeBlocks
    OBVIOUS
  <2>1. lostTx = {} /\ lostRx = {}
    BY DEF Init
  <2>2. Cardinality({}) = 0 /\ 0 % CountMod = 0
    BY FS_EmptySet, LinkAssumption
  <2> QED
    BY <2>1, <2>2 DEF Swallows, Below, DropsWholeBlocks
<1>2. TypeOK /\ InOrder /\ Swallows /\ DropsWholeBlocks /\ [Next]_vars
        => Swallows' /\ DropsWholeBlocks'
  BY DropsStep
<1> QED
  BY <1>1, <1>2, TypeCorrect, OrderKept, PTL DEF Spec
===============================================================================
