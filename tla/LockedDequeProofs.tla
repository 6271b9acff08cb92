---------------------------- MODULE LockedDequeProofs ----------------------------
(***************************************************************************)
(* Proofs about LockedDeque, for any threads, blocks and buffer size.      *)
(***************************************************************************)
EXTENDS LockedDeque, TLAPS

LEMMA InitTypes == Init => TypeOK
BY DequeAssumption DEF Init, TypeOK, Queues, Nobody

LEMMA TypesKept == TypeOK /\ [Next]_vars => TypeOK'
<1> SUFFICES ASSUME TypeOK, [Next]_vars PROVE TypeOK'
  OBVIOUS
<1>1. ASSUME NEW t \in Threads, Lock(t) PROVE TypeOK'
  BY <1>1 DEF Lock, Goto, TypeOK
<1>2. ASSUME NEW t \in Threads, NEW q \in Queues, CallAdd(t, q) PROVE TypeOK'
  BY <1>2, DequeAssumption DEF CallAdd, Goto, TypeOK
<1>3. ASSUME NEW t \in Threads, NEW q \in Queues, CallPop(t, q) PROVE TypeOK'
  BY <1>3 DEF CallPop, Goto, TypeOK
<1>4. ASSUME NEW t \in Threads, NEW q \in Queues, AddByte(t, q) PROVE TypeOK'
  <2>1. rest[t] \in Seq(Bytes) /\ rest[t] # <<>> /\ queue[q] \in Seq(Bytes)
    BY <1>4 DEF AddByte, TypeOK
  <2>2. /\ Append(queue[q], Head(rest[t])) \in Seq(Bytes)
        /\ Tail(rest[t]) \in Seq(Bytes)
    BY <2>1
  <2> QED
    BY <1>4, <2>2 DEF AddByte, Pushed, TypeOK
<1>5. ASSUME NEW t \in Threads, NEW q \in Queues, AddReturns(t, q) PROVE TypeOK'
  BY <1>5 DEF AddReturns, Unlock, Goto, TypeOK
<1>6. ASSUME NEW t \in Threads, NEW q \in Queues, PopByte(t, q) PROVE TypeOK'
  <2>1. /\ out[t] \in Seq(Bytes) /\ queue[q] \in Seq(Bytes) /\ queue[q] # <<>>
        /\ Len(out[t]) < BufSize
    BY <1>6 DEF PopByte, More, TypeOK
  <2>2. /\ Append(out[t], Head(queue[q])) \in Seq(Bytes)
        /\ Tail(queue[q]) \in Seq(Bytes)
        /\ Len(Append(out[t], Head(queue[q]))) <= BufSize
    BY <2>1, DequeAssumption
  <2> QED
    BY <1>6, <2>2 DEF PopByte, TypeOK
<1>7. ASSUME NEW t \in Threads, NEW q \in Queues, PopReturns(t, q) PROVE TypeOK'
  <2>1. popped[q] \o out[t] \in Seq(Bytes) /\ <<>> \in Seq(Bytes)
    BY DEF TypeOK
  <2>2. Len(<<>>) <= BufSize
    BY DequeAssumption
  <2> QED
    BY <1>7, <2>1, <2>2 DEF PopReturns, Unlock, Goto, TypeOK
<1>8. CASE UNCHANGED vars
  BY <1>8 DEF vars, TypeOK
<1> QED
  BY <1>1, <1>2, <1>3, <1>4, <1>5, <1>6, <1>7, <1>8 DEF Next, Runs

\* Every variable keeps its type, and no pop overruns its caller's buffer.
THEOREM TypeCorrect == Spec => []TypeOK
BY InitTypes, TypesKept, PTL DEF Spec

-----------------------------------------------------------------------------
\* A thread only adds or only pops; a call brings one of the blocks.
Roles == \A t \in Threads :
  /\ out[t] # <<>> => t \in Poppers[which[t]]
  /\ rest[t] # <<>> => t \in Adders[which[t]]
  /\ pc[t] = "lock" => rest[t] \in Blocks \cup {<<>>}

LEMMA RolesKept ==
  TypeOK /\ Exclusive /\ Roles /\ [Next]_vars => Exclusive' /\ Roles'
<1> SUFFICES ASSUME TypeOK, Exclusive, Roles, [Next]_vars
             PROVE  Exclusive' /\ Roles'
  OBVIOUS
<1>1. ASSUME NEW t \in Threads, Lock(t) PROVE Exclusive' /\ Roles'
  BY <1>1, DequeAssumption DEF Lock, Free, Goto, TypeOK, Exclusive, Roles
<1>2. ASSUME NEW t \in Threads, NEW q \in Queues, CallAdd(t, q)
      PROVE  Exclusive' /\ Roles'
  <2>1. pc[t] = "idle" /\ t \in Adders[q] /\ out[t] = <<>>
    BY <1>2 DEF CallAdd, Exclusive
  <2>2. PICK b \in Blocks : rest' = [rest EXCEPT ![t] = b]
    BY <1>2 DEF CallAdd
  <2>3. /\ pc' = [pc EXCEPT ![t] = "lock"]
        /\ which' = [which EXCEPT ![t] = q]
        /\ UNCHANGED <<mutex, out>>
    BY <1>2 DEF CallAdd, Goto
  <2>4. Exclusive'
    BY <2>1, <2>2, <2>3 DEF TypeOK, Exclusive
  <2> QED
    BY <2>1, <2>2, <2>3, <2>4 DEF TypeOK, Roles
<1>3. ASSUME NEW t \in Threads, NEW q \in Queues, CallPop(t, q)
      PROVE  Exclusive' /\ Roles'
  <2>1. /\ pc[t] = "idle" /\ t \in Poppers[q] /\ out[t] = <<>> /\ rest[t] = <<>>
        /\ pc' = [pc EXCEPT ![t] = "lock"] /\ which' = [which EXCEPT ![t] = q]
        /\ UNCHANGED <<mutex, out, rest>>
    BY <1>3 DEF CallPop, Goto, Exclusive
  <2> QED
    BY <2>1 DEF TypeOK, Exclusive, Roles
<1>4. ASSUME NEW t \in Threads, NEW q \in Queues, AddByte(t, q)
      PROVE  Exclusive' /\ Roles'
  <2>1. /\ pc[t] = "loop" /\ which[t] = q /\ t \in Adders[q]
        /\ rest' = [rest EXCEPT ![t] = Tail(@)]
        /\ UNCHANGED <<mutex, pc, which, out>>
    BY <1>4 DEF AddByte, Adding
  <2> QED
    BY <2>1 DEF TypeOK, Exclusive, Roles
<1>5. ASSUME NEW t \in Threads, NEW q \in Queues, AddReturns(t, q)
      PROVE  Exclusive' /\ Roles'
  <2>1. /\ mutex = t /\ mutex' = Nobody /\ pc' = [pc EXCEPT ![t] = "idle"]
        /\ t \in Adders[which[t]] /\ q = which[t]
        /\ rest[t] = <<>> /\ UNCHANGED <<which, rest, out>>
    BY <1>5 DEF AddReturns, Adding, Unlock, Goto, Exclusive
  <2>2. out[t] = <<>>
    BY <2>1, DequeAssumption DEF Roles, TypeOK
  <2>3. Exclusive'
    BY <2>1, <2>2, DequeAssumption DEF TypeOK, Exclusive
  <2> QED
    BY <2>1, <2>3 DEF TypeOK, Roles
<1>6. ASSUME NEW t \in Threads, NEW q \in Queues, PopByte(t, q)
      PROVE  Exclusive' /\ Roles'
  <2>1. /\ pc[t] = "loop" /\ which[t] = q /\ t \in Poppers[q] /\ mutex = t
        /\ UNCHANGED <<mutex, pc, which, rest>>
        /\ \A u \in Threads \ {t} : out'[u] = out[u]
    BY <1>6 DEF PopByte, Popping, TypeOK, Exclusive
  <2>2. Exclusive'
    BY <2>1 DEF Exclusive
  <2> QED
    BY <2>1, <2>2 DEF Roles
<1>7. ASSUME NEW t \in Threads, NEW q \in Queues, PopReturns(t, q)
      PROVE  Exclusive' /\ Roles'
  <2>1. /\ mutex = t /\ mutex' = Nobody /\ pc' = [pc EXCEPT ![t] = "idle"]
        /\ t \in Poppers[which[t]] /\ q = which[t]
        /\ out' = [out EXCEPT ![t] = <<>>] /\ UNCHANGED <<which, rest>>
    BY <1>7 DEF PopReturns, Popping, Unlock, Goto, Exclusive
  <2>2. rest[t] = <<>>
    BY <2>1, DequeAssumption DEF Roles, TypeOK
  <2>3. Exclusive'
    BY <2>1, <2>2, DequeAssumption DEF TypeOK, Exclusive
  <2> QED
    BY <2>1, <2>3 DEF TypeOK, Roles
<1>8. CASE UNCHANGED vars
  BY <1>8 DEF vars, Exclusive, Roles
<1> QED
  BY <1>1, <1>2, <1>3, <1>4, <1>5, <1>6, <1>7, <1>8 DEF Next, Runs

LEMMA InitRoles == Init => Exclusive /\ Roles
BY DequeAssumption DEF Init, Exclusive, Roles

\* Exclusive: one call at a time is past the mutex of the object.
THEOREM MutexExcludes == Spec => []Exclusive
BY InitRoles, RolesKept, TypeCorrect, PTL DEF Spec

-----------------------------------------------------------------------------
\* Moving the first element of t behind s leaves s and t together the same.
LEMMA Moved ==
  ASSUME NEW s \in Seq(Bytes), NEW t \in Seq(Bytes), t # <<>>
  PROVE  Append(s, Head(t)) \o Tail(t) = s \o t
<1>1. Len(Append(s, Head(t)) \o Tail(t)) = Len(s \o t)
  OBVIOUS
<1>2. \A i \in 1..Len(s \o t) : (Append(s, Head(t)) \o Tail(t))[i] = (s \o t)[i]
  OBVIOUS
<1>3. /\ Append(s, Head(t)) \o Tail(t) \in Seq(Bytes)
      /\ s \o t \in Seq(Bytes)
  OBVIOUS
<1> DEFINE a == Append(s, Head(t)) \o Tail(t)
           b == s \o t
<1> HIDE DEF a, b
<1>4. a \in Seq(Bytes) /\ b \in Seq(Bytes) /\ Len(a) = Len(b)
      /\ \A i \in 1..Len(b) : a[i] = b[i]
  BY <1>1, <1>2, <1>3 DEF a, b
<1>5. a = b
  BY <1>4
<1> QED
  BY <1>5 DEF a, b

\* The two ends of a concatenation.
LEMMA Split ==
  ASSUME NEW s \in Seq(Bytes), NEW t \in Seq(Bytes)
  PROVE  /\ SubSeq(s \o t, 1, Len(s)) = s
         /\ SubSeq(s \o t, Len(s) + 1, Len(s \o t)) = t
         /\ Len(s) \in 0..Len(s \o t)
         /\ Len(s \o t) = Len(s) + Len(t)
OBVIOUS
LEMMA Empty ==
  ASSUME NEW s \in Seq(Bytes)
  PROVE  <<>> \o s = s /\ s \o <<>> = s
OBVIOUS

\* What the thread inside the mutex is to the deque it works on, and what the
\* other deque shows.
LEMMA SeenInside ==
  ASSUME TypeOK, Exclusive, Roles, NEW t \in Threads, pc[t] = "loop",
         NEW q \in Queues
  PROVE  /\ mutex = t /\ t # Nobody
         /\ t \in Adders[which[t]] => out[t] = <<>>
         /\ t \in Poppers[which[t]] => rest[t] = <<>>
         /\ which[t] # q => Seen(q) = queue[q]
         /\ which[t] = q /\ t \in Adders[q] => Seen(q) = queue[q] \o rest[t]
         /\ which[t] = q /\ t \in Poppers[q] => Seen(q) = out[t] \o queue[q]
<1>1. mutex = t /\ t # Nobody /\ which[t] \in Queues
  BY DequeAssumption DEF Exclusive, TypeOK
<1>2. t \in Adders[which[t]] => out[t] = <<>>
  BY <1>1, DequeAssumption DEF Roles
<1>3. t \in Poppers[which[t]] => rest[t] = <<>>
  BY <1>1, DequeAssumption DEF Roles
<1>4. out[t] \in Seq(Bytes) /\ rest[t] \in Seq(Bytes) /\ queue[q] \in Seq(Bytes)
  BY DEF TypeOK
<1>5. /\ <<>> \o queue[q] = queue[q]
      /\ out[t] \o queue[q] \in Seq(Bytes)
  BY <1>4, Empty
<1>6. (out[t] \o queue[q]) \o <<>> = out[t] \o queue[q]
  BY <1>5, Empty
<1> QED
  BY <1>1, <1>2, <1>3, <1>5, <1>6 DEF Seen

\* A step, as the promise of ByteQueue to deque q sees it.
PutStep(q) == /\ \E b \in Blocks : Seen(q)' = Seen(q) \o b
              /\ popped'[q] = popped[q]
TakeStep(q) == \E n \in 0..Len(Seen(q)) :
  /\ n = BufSize \/ (n = Len(Seen(q)) /\ n < BufSize)
  /\ popped'[q] = popped[q] \o SubSeq(Seen(q), 1, n)
  /\ Seen(q)' = SubSeq(Seen(q), n + 1, Len(Seen(q)))
SameStep(q) == Seen(q)' = Seen(q) /\ popped'[q] = popped[q]

LEMMA LockSeen ==
  ASSUME TypeOK, Exclusive, Roles, NEW t \in Threads, Lock(t), NEW q \in Queues
  PROVE  PutStep(q) \/ SameStep(q)
<1>1. /\ pc[t] = "lock" /\ mutex = Nobody /\ mutex' = t /\ t # Nobody
      /\ UNCHANGED <<queue, which, rest, out, popped>>
  BY DequeAssumption DEF Lock, Free
<1>2. Seen(q) = queue[q] /\ queue[q] \in Seq(Bytes)
  BY <1>1 DEF Seen, TypeOK
<1>3. CASE which[t] # q
  BY <1>1, <1>2, <1>3 DEF Seen, SameStep
<1>4. CASE which[t] = q
  <2>1. out[t] = <<>> /\ rest[t] \in Blocks \cup {<<>>}
    BY <1>1 DEF Exclusive, Roles
  <2>2. Seen(q)' = (<<>> \o queue[q]) \o rest[t]
    BY <1>1, <1>4, <2>1 DEF Seen
  <2>3. Seen(q)' = Seen(q) \o rest[t]
    BY <1>2, <2>2, Empty
  <2>4. CASE rest[t] \in Blocks
    BY <1>1, <2>3, <2>4 DEF PutStep
  <2>5. CASE rest[t] = <<>>
    BY <1>1, <1>2, <2>3, <2>5, Empty DEF SameStep
  <2> QED
    BY <2>1, <2>4, <2>5
<1> QED
  BY <1>3, <1>4

LEMMA CallSeen ==
  ASSUME TypeOK, Exclusive, NEW t \in Threads, NEW r \in Queues,
         CallAdd(t, r) \/ CallPop(t, r), NEW q \in Queues
  PROVE  SameStep(q)
<1>1. /\ pc[t] = "idle" /\ UNCHANGED <<mutex, queue, out, popped>>
      /\ \A u \in Threads \ {t} : which'[u] = which[u] /\ rest'[u] = rest[u]
  BY DEF CallAdd, CallPop, TypeOK
<1>2. mutex # t
  BY <1>1 DEF Exclusive
<1>3. mutex \in (Threads \ {t}) \cup {Nobody}
  BY <1>2 DEF TypeOK
<1> QED
  BY <1>1, <1>3 DEF Seen, SameStep

LEMMA AddByteSeen ==
  ASSUME TypeOK, TypeOK', Exclusive, Exclusive', Roles, Roles',
         NEW t \in Threads, NEW r \in Queues, AddByte(t, r), NEW q \in Queues
  PROVE  SameStep(q)
<1>1. /\ pc[t] = "loop" /\ which[t] = r /\ t \in Adders[r] /\ rest[t] # <<>>
      /\ queue' = [queue EXCEPT ![r] = Append(@, Head(rest[t]))]
      /\ rest' = [rest EXCEPT ![t] = Tail(@)]
      /\ UNCHANGED <<mutex, pc, which, out, popped>>
  BY DEF AddByte, Adding, Pushed
<1>2. mutex = t /\ t # Nobody /\ out[t] = <<>>
  BY <1>1, SeenInside
<1>3. CASE q # r
  BY <1>1, <1>2, <1>3 DEF Seen, SameStep, TypeOK
<1>4. CASE q = r
  <2>1. Seen(q) = queue[q] \o rest[t]
    BY <1>1, <1>4, SeenInside
  <2>2. /\ queue[q] \in Seq(Bytes) /\ rest[t] \in Seq(Bytes)
        /\ queue'[q] = Append(queue[q], Head(rest[t])) /\ rest'[t] = Tail(rest[t])
        /\ queue'[q] \in Seq(Bytes)
    BY <1>1, <1>4 DEF TypeOK
  <2>3. Seen(q)' = (<<>> \o queue'[q]) \o rest'[t]
    BY <1>1, <1>2, <1>4 DEF Seen
  <2>4. Seen(q)' = queue'[q] \o rest'[t]
    BY <2>2, <2>3, Empty
  <2>5. queue'[q] \o rest'[t] = queue[q] \o rest[t]
    BY <1>1, <2>2, Moved
  <2> QED
    BY <1>1, <2>1, <2>4, <2>5 DEF SameStep
<1> QED
  BY <1>3, <1>4

LEMMA AddReturnsSeen ==
  ASSUME TypeOK, Exclusive, Roles, NEW t \in Threads, NEW r \in Queues,
         AddReturns(t, r), NEW q \in Queues
  PROVE  SameStep(q)
<1>1. /\ pc[t] = "loop" /\ which[t] = r /\ t \in Adders[r] /\ rest[t] = <<>>
      /\ mutex' = Nobody /\ UNCHANGED <<queue, popped>>
  BY DEF AddReturns, Adding, Unlock
<1>2. Seen(q)' = queue[q] /\ queue[q] \in Seq(Bytes)
  BY <1>1 DEF Seen, TypeOK
<1>3. Seen(q) = queue[q]
  BY <1>1, <1>2, SeenInside, Empty
<1> QED
  BY <1>1, <1>2, <1>3 DEF SameStep

LEMMA PopByteSeen ==
  ASSUME TypeOK, TypeOK', Exclusive, Roles,
         NEW t \in Threads, NEW r \in Queues, PopByte(t, r), NEW q \in Queues
  PROVE  SameStep(q)
<1>1. /\ pc[t] = "loop" /\ which[t] = r /\ t \in Poppers[r] /\ queue[r] # <<>>
      /\ queue' = [queue EXCEPT ![r] = Tail(@)]
      /\ out' = [out EXCEPT ![t] = Append(@, Head(queue[r]))]
      /\ UNCHANGED <<mutex, pc, which, rest, popped>>
  BY DEF PopByte, Popping, More
<1>2. mutex = t /\ t # Nobody /\ rest[t] = <<>>
  BY <1>1, SeenInside
<1>3. CASE q # r
  BY <1>1, <1>2, <1>3 DEF Seen, SameStep, TypeOK
<1>4. CASE q = r
  <2>1. Seen(q) = out[t] \o queue[q]
    BY <1>1, <1>4, SeenInside
  <2>2. /\ queue[q] \in Seq(Bytes) /\ out[t] \in Seq(Bytes)
        /\ out'[t] = Append(out[t], Head(queue[q])) /\ queue'[q] = Tail(queue[q])
        /\ queue'[q] \in Seq(Bytes) /\ out'[t] \in Seq(Bytes)
    BY <1>1, <1>4 DEF TypeOK
  <2>3. Seen(q)' = (out'[t] \o queue'[q]) \o <<>>
    BY <1>1, <1>2, <1>4 DEF Seen
  <2>4. out'[t] \o queue'[q] \in Seq(Bytes)
    BY <2>2
  <2>5. Seen(q)' = out'[t] \o queue'[q]
    BY <2>3, <2>4, Empty
  <2>6. out'[t] \o queue'[q] = out[t] \o queue[q]
    <3>1. queue[q] # <<>>
      BY <1>1, <1>4
    <3>2. Append(out[t], Head(queue[q])) \o Tail(queue[q]) = out[t] \o queue[q]
      BY <2>2, <3>1, Moved
    <3> QED
      BY <2>2, <3>2, Zenon
  <2> QED
    BY <1>1, <2>1, <2>5, <2>6 DEF SameStep
<1> QED
  BY <1>3, <1>4

LEMMA PopReturnsSeen ==
  ASSUME TypeOK, Exclusive, Roles, NEW t \in Threads, NEW r \in Queues,
         PopReturns(t, r), NEW q \in Queues
  PROVE  TakeStep(q) \/ SameStep(q)
<1>1. /\ pc[t] = "loop" /\ which[t] = r /\ t \in Poppers[r] /\ ~More(t, r)
      /\ popped' = [popped EXCEPT ![r] = @ \o out[t]]
      /\ mutex' = Nobody /\ UNCHANGED queue
  BY DEF PopReturns, Popping, Unlock
<1>2. Seen(q)' = queue[q] /\ queue[q] \in Seq(Bytes) /\ out[t] \in Seq(Bytes)
  BY <1>1 DEF Seen, TypeOK
<1>3. CASE q # r
  <2>1. Seen(q) = queue[q]
    BY <1>1, <1>3, SeenInside
  <2> QED
    BY <1>1, <1>2, <1>3, <2>1 DEF SameStep, TypeOK
<1>4. CASE q = r
  <2> DEFINE n == Len(out[t])
  <2>1. Seen(q) = out[t] \o queue[q]
    BY <1>1, <1>4, SeenInside
  <2>2. /\ SubSeq(Seen(q), 1, n) = out[t]
        /\ SubSeq(Seen(q), n + 1, Len(Seen(q))) = queue[q]
        /\ n \in 0..Len(Seen(q))
        /\ Len(Seen(q)) = n + Len(queue[q])
    <3>1. /\ SubSeq(out[t] \o queue[q], 1, Len(out[t])) = out[t]
          /\ SubSeq(out[t] \o queue[q], Len(out[t]) + 1,
                    Len(out[t] \o queue[q])) = queue[q]
          /\ Len(out[t]) \in 0..Len(out[t] \o queue[q])
          /\ Len(out[t] \o queue[q]) = Len(out[t]) + Len(queue[q])
      BY <1>2, Split
    <3> QED
      BY <2>1, <3>1, Zenon
  <2>3. n = BufSize \/ (n = Len(Seen(q)) /\ n < BufSize)
    <3>1. queue[q] = <<>> \/ n >= BufSize
      BY <1>1, <1>2, <1>4, DequeAssumption DEF More
    <3>2. n <= BufSize /\ n \in Nat /\ BufSize \in Nat
      BY <1>2, DequeAssumption DEF TypeOK
    <3>3. CASE queue[q] = <<>>
      <4>1. Len(Seen(q)) = n
        BY <2>2, <3>2, <3>3
      <4> QED
        BY <3>2, <4>1
    <3> QED
      BY <3>1, <3>2, <3>3
  <2>4. popped'[q] = popped[q] \o out[t]
    BY <1>1, <1>4 DEF TypeOK
  <2> HIDE DEF n
  <2> QED
    BY <1>2, <2>2, <2>3, <2>4 DEF TakeStep
<1> QED
  BY <1>3, <1>4

LEMMA QueueStep ==
  ASSUME TypeOK, Exclusive, Roles, [Next]_vars, NEW q \in Queues
  PROVE  PutStep(q) \/ TakeStep(q) \/ SameStep(q)
<1>1. TypeOK' /\ Exclusive' /\ Roles'
  BY TypesKept, RolesKept
<1>2. CASE UNCHANGED vars
  BY <1>2 DEF vars, Seen, SameStep
<1>3. ASSUME NEW t \in Threads, Lock(t) PROVE PutStep(q) \/ SameStep(q)
  BY <1>3, LockSeen
<1>4. ASSUME NEW t \in Threads, NEW r \in Queues, CallAdd(t, r) \/ CallPop(t, r)
      PROVE  SameStep(q)
  BY <1>4, CallSeen
<1>5. ASSUME NEW t \in Threads, NEW r \in Queues, Runs(t, r)
      PROVE  TakeStep(q) \/ SameStep(q)
  BY <1>1, <1>5, AddByteSeen, AddReturnsSeen, PopByteSeen, PopReturnsSeen
     DEF Runs
<1> QED
  BY <1>2, <1>3, <1>4, <1>5 DEF Next

\* ImplementsByteQueue: every call on either deque is atomic.
THEOREM CallsAtomic == Spec => ImplementsByteQueue
<1>1. Init => RxQueue!Init /\ TxQueue!Init
  BY DEF Init, RxQueue!Init, TxQueue!Init, Seen, Queues
<1>2. TypeOK /\ Exclusive /\ Roles /\ [Next]_vars =>
        [RxQueue!Put \/ RxQueue!Take]_<<Seen("rx"), popped["rx"]>>
  <2> SUFFICES ASSUME TypeOK, Exclusive, Roles, [Next]_vars
               PROVE  [RxQueue!Put \/ RxQueue!Take]_<<Seen("rx"), popped["rx"]>>
    OBVIOUS
  <2>1. PutStep("rx") \/ TakeStep("rx") \/ SameStep("rx")
    BY QueueStep DEF Queues
  <2> QED
    BY <2>1 DEF PutStep, TakeStep, SameStep, RxQueue!Put, RxQueue!Take
<1>3. TypeOK /\ Exclusive /\ Roles /\ [Next]_vars =>
        [TxQueue!Put \/ TxQueue!Take]_<<Seen("tx"), popped["tx"]>>
  <2> SUFFICES ASSUME TypeOK, Exclusive, Roles, [Next]_vars
               PROVE  [TxQueue!Put \/ TxQueue!Take]_<<Seen("tx"), popped["tx"]>>
    OBVIOUS
  <2>1. PutStep("tx") \/ TakeStep("tx") \/ SameStep("tx")
    BY QueueStep DEF Queues
  <2> QED
    BY <2>1 DEF PutStep, TakeStep, SameStep, TxQueue!Put, TxQueue!Take
<1> QED
  BY <1>1, <1>2, <1>3, InitRoles, RolesKept, TypeCorrect, PTL
     DEF Spec, ImplementsByteQueue, RxQueue!Spec, TxQueue!Spec
=============================================================================
