-------------------------- MODULE MessageRouterProofs --------------------------
(***************************************************************************)
(* Proofs about MessageRouter for every set of threads, message IDs and    *)
(* registrations, and queues of any length.                                *)
(***************************************************************************)
EXTENDS MessageRouter, SequenceTheorems, TLAPS

\* The facts about sequences of messages the proofs below rest on.
LEMMA AppendInside ==
  \A p, q \in Seq(Messages), m \in Messages :
    p \o Append(q, m) = Append(p \o q, m)
<1> SUFFICES ASSUME NEW p \in Seq(Messages), NEW q \in Seq(Messages),
                    NEW m \in Messages
             PROVE  p \o Append(q, m) = Append(p \o q, m)
  BY Zenon
<1>1. <<m>> \in Seq(Messages)
  OBVIOUS
<1>2. (p \o q) \o <<m>> = p \o (q \o <<m>>)
  BY <1>1, ConcatAssociative
<1>3. Append(q, m) = q \o <<m>>
  BY AppendIsConcat
<1>4. p \o q \in Seq(Messages)
  BY ConcatProperties
<1>5. Append(p \o q, m) = (p \o q) \o <<m>>
  BY <1>4, AppendIsConcat
<1> QED BY <1>2, <1>3, <1>5, Zenon

LEMMA MoveHead ==
  \A p, q \in Seq(Messages) :
    q # <<>> => p \o q = p \o <<Head(q)>> \o Tail(q)
<1> SUFFICES ASSUME NEW p \in Seq(Messages), NEW q \in Seq(Messages), q # <<>>
             PROVE  p \o q = p \o <<Head(q)>> \o Tail(q)
  BY Zenon
<1>1. Head(q) \in Messages /\ Tail(q) \in Seq(Messages)
  BY HeadTailProperties
<1>2. <<Head(q)>> \in Seq(Messages)
  BY <1>1
<1>3. q = <<Head(q)>> \o Tail(q)
  OBVIOUS
<1> DEFINE h == <<Head(q)>>
           t == Tail(q)
<1>4. h \in Seq(Messages) /\ t \in Seq(Messages)
  BY <1>1, <1>2
<1> HIDE DEF h, t
<1>5. (p \o h) \o t = p \o (h \o t)
  BY <1>4, ConcatAssociative
<1> QED BY <1>3, <1>5, Zenon DEF h, t

LEMMA Singleton ==
  \A s \in Seq(Messages) :
    Len(s) = 1 => s[1] \in Messages /\ s = <<s[1]>>
BY ElementOfSeq

LEMMA AppendNotEmpty ==
  \A q \in Seq(Messages), m \in Messages : Append(q, m) # <<>>
BY AppendProperties

\* An element between two pieces of a sequence, by its index.
LEMMA Between ==
  \A p, q \in Seq(Messages), m \in Messages :
    /\ Len(p) \in Nat /\ Len(p) < Len(p \o <<m>> \o q)
    /\ Len(p) + 1 \in DOMAIN (p \o <<m>> \o q)
    /\ (p \o <<m>> \o q)[Len(p) + 1] = m
<1> SUFFICES ASSUME NEW p \in Seq(Messages), NEW q \in Seq(Messages),
                    NEW m \in Messages
             PROVE  /\ Len(p) \in Nat /\ Len(p) < Len(p \o <<m>> \o q)
                    /\ Len(p) + 1 \in DOMAIN (p \o <<m>> \o q)
                    /\ (p \o <<m>> \o q)[Len(p) + 1] = m
  BY Zenon
<1> DEFINE a == p \o <<m>>
<1>1. a = Append(p, m)
  BY AppendIsConcat
<1>2. /\ a \in Seq(Messages) /\ Len(p) \in Nat /\ Len(a) = Len(p) + 1
      /\ a[Len(p) + 1] = m
  BY <1>1, AppendProperties, LenProperties
<1> HIDE DEF a
<1>3. /\ a \o q \in Seq(Messages) /\ Len(a \o q) = Len(a) + Len(q)
      /\ \A i \in 1..Len(a) + Len(q) :
           (a \o q)[i] = IF i <= Len(a) THEN a[i] ELSE q[i - Len(a)]
  BY <1>2, ConcatProperties
<1>4. Len(q) \in Nat /\ DOMAIN (a \o q) = 1..Len(a \o q)
  BY <1>3, LenProperties
<1>5. /\ Len(p) \in Nat /\ Len(p) < Len(a \o q)
      /\ Len(p) + 1 \in DOMAIN (a \o q) /\ (a \o q)[Len(p) + 1] = m
  BY <1>2, <1>3, <1>4
<1> QED BY <1>5 DEF a

LEMMA NoneInHand ==
  \A p \in Seq(Messages) : p \o <<>> = p /\ (Len(p) = 0 => p = <<>>)
BY ConcatEmptySeq, EmptySeq

LEMMA KindOrOther ==
  \A k \in Kinds : Other(k) \in Kinds /\ Other(k) # k /\ Other(Other(k)) = k
                   /\ \A j \in Kinds : j = k \/ j = Other(k)
BY DEF Kinds, Other

LEMMA TypeInit == Init => TypeOK
<1> SUFFICES ASSUME Init PROVE TypeOK
  OBVIOUS
<1>1. <<>> \in Seq(Messages) /\ Len(<<>>) = 0
  BY EmptySeq
<1>2. [k \in Kinds |-> <<>>] \in [Kinds -> Seq(Messages)]
  BY <1>1
<1>3. [k \in Kinds |-> 0] \in [Kinds -> Nat]
  OBVIOUS
<1>4. hand \in Seq(Messages) /\ Len(hand) = 0 /\ phase = "pop"
  BY <1>1, Zenon DEF Init
<1>5. running \in BOOLEAN /\ alive \in BOOLEAN /\ turn \in Kinds
  BY DEF Init, Kinds
<1> QED BY <1>2, <1>3, <1>4, <1>5 DEF Init, TypeOK

LEMMA TypeStep == TypeOK /\ [Next]_vars => TypeOK'
<1> SUFFICES ASSUME TypeOK, [Next]_vars PROVE TypeOK'
  OBVIOUS
<1>e. <<>> \in Seq(Messages) /\ Len(<<>>) = 0
  BY EmptySeq
<1>1. CASE managerThread
  BY <1>1 DEF managerThread, TypeOK
<1>2. ASSUME NEW k \in Kinds, NEW m \in Messages, AddToInternalBuffer(k, m)
      PROVE  TypeOK'
  <2>1. Append(queue[k], m) \in Seq(Messages)
        /\ Append(arrived[k], m) \in Seq(Messages)
    BY AppendProperties DEF TypeOK
  <2> QED BY <1>2, <2>1 DEF AddToInternalBuffer, Pushed, TypeOK
<1>3. ASSUME NEW k \in Kinds, PopEmpty(k) PROVE TypeOK'
  BY <1>3, KindOrOther DEF PopEmpty, Moves, NextTurn, TypeOK
<1>4. ASSUME NEW k \in Kinds, Pop(k) PROVE TypeOK'
  <2>1. queue[k] \in Seq(Messages) /\ queue[k] # <<>>
    BY <1>4 DEF Pop, TypeOK
  <2>2. Head(queue[k]) \in Messages /\ Tail(queue[k]) \in Seq(Messages)
    BY <2>1, HeadTailProperties
  <2>3. <<Head(queue[k])>> \in Seq(Messages) /\ Len(<<Head(queue[k])>>) = 1
    BY <2>2
  <2>4. hand' \in Seq(Messages) /\ phase' = "call" /\ Len(hand') = 1
    BY <1>4, <2>3, Zenon DEF Pop
  <2>5. queue' \in [Kinds -> Seq(Messages)]
    BY <1>4, <2>2 DEF Pop, TypeOK
  <2>6. waited' \in [Kinds -> Nat]
    BY <1>4, KindOrOther DEF Pop, TypeOK
  <2> QED BY <1>4, <2>4, <2>5, <2>6 DEF Pop, TypeOK
<1>5. ASSUME NEW k \in Kinds, Call(k) PROVE TypeOK'
  BY <1>5 DEF Call, TypeOK
\* The message in hand goes to a history.
<1>f. ASSUME NEW k \in Kinds, NEW h \in [Kinds -> Seq(Messages)],
             phase # "pop"
      PROVE  [h EXCEPT ![k] = Append(@, hand[1])] \in [Kinds -> Seq(Messages)]
  <2>1. hand[1] \in Messages
    BY <1>f, Singleton DEF TypeOK
  <2>2. Append(h[k], hand[1]) \in Seq(Messages)
    BY <2>1, AppendProperties
  <2> QED BY <2>2
<1>6. ASSUME NEW k \in Kinds, Finish(k), handled' \in [Kinds -> Seq(Messages)],
             phase # "pop", alive' = alive
      PROVE  TypeOK'
  <2>1. done' \in [Kinds -> Seq(Messages)]
    BY <1>6, <1>f DEF Finish, TypeOK
  <2>2. turn' \in Kinds
    BY <1>6, KindOrOther DEF Finish, NextTurn
  <2> QED BY <1>6, <1>e, <2>1, <2>2 DEF Finish, TypeOK
<1>7. ASSUME NEW k \in Kinds, Return(k) PROVE TypeOK'
  <2>1. phase # "pop" /\ handled' \in [Kinds -> Seq(Messages)]
    BY <1>7, <1>f DEF Return, TypeOK
  <2> QED BY <1>6, <1>7, <2>1 DEF Return, Finish
<1>8. ASSUME NEW k \in Kinds, SkipUnknownThread(k) PROVE TypeOK'
  BY <1>6, <1>8 DEF SkipUnknownThread, Finish, TypeOK
<1>9. ASSUME NEW k \in Kinds, Die(k) PROVE TypeOK'
  BY <1>9 DEF Die, TypeOK
<1>10. CASE UNCHANGED vars
  BY <1>10 DEF vars, TypeOK
<1> QED BY <1>1, <1>2, <1>3, <1>4, <1>5, <1>7, <1>8, <1>9, <1>10
        DEF Next, Router

\* The router holds one message between its pop and its end, and none in
\* between; its queues and histories hold messages only.
THEOREM TypeCorrect == Spec => []TypeOK
BY TypeInit, TypeStep, PTL DEF Spec

-----------------------------------------------------------------------------
\* A message that saw one of the other kind go first is the next to be
\* popped: either the router is busy with the other kind, or it is about to
\* look into this queue, and finds the message there.
Due ==
  \A k \in Kinds :
    /\ waited[k] <= 1
    /\ waited[k] > 0 =>
         /\ queue[k] # <<>>
         /\ IF turn = k THEN phase = "pop" ELSE phase # "pop"

LEMMA DueStep == TypeOK /\ Due /\ [Next]_vars => Due'
<1> SUFFICES ASSUME TypeOK, Due, [Next]_vars PROVE Due'
  OBVIOUS
<1> DEFINE D(j) == /\ waited[j] <= 1
                   /\ waited[j] > 0 =>
                        /\ queue[j] # <<>>
                        /\ IF turn = j THEN phase = "pop" ELSE phase # "pop"
<1>d. \A j \in Kinds : D(j) /\ waited[j] \in Nat
  BY DEF Due, TypeOK
<1>s. ASSUME \A j \in Kinds : D(j)' PROVE Due'
  BY <1>s DEF Due
<1>1. CASE managerThread
  BY <1>1 DEF managerThread, Due
<1>2. ASSUME NEW k \in Kinds, NEW m \in Messages, AddToInternalBuffer(k, m)
      PROVE  Due'
  <2>1. Append(queue[k], m) # <<>>
    BY AppendNotEmpty, Zenon DEF TypeOK
  <2>2. queue' = [queue EXCEPT ![k] = Append(@, m)]
        /\ UNCHANGED <<turn, phase, waited>>
    BY <1>2 DEF AddToInternalBuffer, Pushed
  <2> QED BY <1>d, <1>s, <2>1, <2>2 DEF TypeOK
\* An empty queue's messages have not waited; the other queue is next.
<1>3. ASSUME NEW k \in Kinds, PopEmpty(k) PROVE Due'
  <2>1. turn = k /\ phase = "pop" /\ queue[k] = <<>> /\ UNCHANGED <<queue, phase, waited>>
    BY <1>3 DEF PopEmpty, Moves
  <2>2. \A j \in Kinds : waited[j] = 0
    BY <1>d, <2>1
  <2> QED BY <1>s, <2>1, <2>2
\* The popped kind starts over; the other has waited for this message only.
<1>4. ASSUME NEW k \in Kinds, Pop(k) PROVE Due'
  <2>1. /\ turn = k /\ phase = "pop" /\ phase' = "call" /\ turn' = turn
        /\ queue' = [queue EXCEPT ![k] = Tail(@)]
        /\ waited' = [waited EXCEPT ![k] = 0,
              ![Other(k)] = IF queue[Other(k)] = <<>> THEN 0 ELSE @ + 1]
    BY <1>4 DEF Pop, Moves
  <2>2. waited[Other(k)] = 0
    BY <1>d, <2>1, KindOrOther
  <2>3. D(k)'
    BY <2>1, KindOrOther DEF TypeOK
  <2>4. D(Other(k))'
    BY <2>1, <2>2, KindOrOther DEF TypeOK
  <2> QED BY <1>s, <2>3, <2>4, KindOrOther
<1>5. ASSUME NEW k \in Kinds, Call(k) PROVE Due'
  <2>1. turn = k /\ phase = "call" /\ phase' = "run" /\ UNCHANGED <<turn, queue, waited>>
    BY <1>5 DEF Call, Moves
  <2> QED BY <1>d, <1>s, <2>1
\* The end of a message hands the turn to the queue that has waited.
<1>6. ASSUME NEW k \in Kinds, Finish(k), turn = k, phase # "pop" PROVE Due'
  <2>1. turn' = Other(k) /\ phase' = "pop" /\ UNCHANGED <<queue, waited>>
    BY <1>6 DEF Finish, NextTurn
  <2>2. D(k)'
    BY <1>6, <1>d, <2>1
  <2>3. D(Other(k))'
    BY <1>6, <1>d, <2>1, KindOrOther
  <2> QED BY <1>s, <2>2, <2>3, KindOrOther
<1>7. ASSUME NEW k \in Kinds, Return(k) PROVE Due'
  BY <1>6, <1>7 DEF Return, Moves
<1>8. ASSUME NEW k \in Kinds, SkipUnknownThread(k) PROVE Due'
  BY <1>6, <1>8 DEF SkipUnknownThread, Moves
<1>9. ASSUME NEW k \in Kinds, Die(k) PROVE Due'
  BY <1>9 DEF Die, Due
<1>10. CASE UNCHANGED vars
  BY <1>10 DEF vars, Due
<1> QED BY <1>1, <1>2, <1>3, <1>4, <1>5, <1>7, <1>8, <1>9, <1>10
        DEF Next, Router

\* Neither kind of message can starve the other, however long the queues and
\* however fast they are filled.
THEOREM Alternation == Spec => []Alternates
<1>1. Init => Due
  BY DEF Init, Due, Kinds
<1>2. Due => Alternates
  BY DEF Due, Alternates
<1> QED BY <1>1, <1>2, TypeInit, TypeStep, DueStep, PTL DEF Spec

-----------------------------------------------------------------------------
\* What Fifo says of one kind, with the three pieces named.
LEMMA FifoStep == TypeOK /\ Fifo /\ [Next]_vars => Fifo'
<1> SUFFICES ASSUME TypeOK, Fifo, [Next]_vars PROVE Fifo'
  OBVIOUS
<1>d. \A k \in Kinds :
        /\ arrived[k] = done[k] \o InHand(k) \o queue[k]
        /\ arrived[k] \in Seq(Messages) /\ done[k] \in Seq(Messages)
        /\ queue[k] \in Seq(Messages)
  BY DEF Fifo, TypeOK
<1>e. <<>> \in Seq(Messages)
  BY EmptySeq
<1>p. phase = "pop" => hand = <<>>
  BY NoneInHand DEF TypeOK
<1>h. phase # "pop" => hand[1] \in Messages /\ hand = <<hand[1]>>
  BY Singleton DEF TypeOK
<1>i. \A k \in Kinds : InHand(k) \in Seq(Messages)
  BY <1>e, Zenon DEF InHand, TypeOK
<1>c. \A k \in Kinds : done[k] \o InHand(k) \in Seq(Messages)
  BY <1>d, <1>i, ConcatProperties
<1>s. ASSUME \A k \in Kinds :
               arrived'[k] = done'[k] \o InHand(k)' \o queue'[k]
      PROVE  Fifo'
  BY <1>s, Zenon DEF Fifo
<1>u. ASSUME UNCHANGED <<arrived, done, queue, turn, hand>> PROVE Fifo'
  BY <1>u DEF Fifo, InHand
<1>1. CASE managerThread
  BY <1>1, <1>u DEF managerThread
<1>2. ASSUME NEW k \in Kinds, NEW m \in Messages, AddToInternalBuffer(k, m)
      PROVE  Fifo'
  <2>1. /\ queue' = [queue EXCEPT ![k] = Append(@, m)]
        /\ arrived' = [arrived EXCEPT ![k] = Append(@, m)]
        /\ UNCHANGED <<done, turn, hand>>
    BY <1>2 DEF AddToInternalBuffer, Pushed
  <2>2. \A j \in Kinds : InHand(j)' = InHand(j)
    BY <2>1 DEF InHand
  <2>3. queue'[k] = Append(queue[k], m) /\ arrived'[k] = Append(arrived[k], m)
    BY <2>1 DEF TypeOK
  <2>4. (done[k] \o InHand(k)) \o Append(queue[k], m) =
          Append((done[k] \o InHand(k)) \o queue[k], m)
    BY <1>c, <1>d, AppendInside, Zenon
  <2>5. arrived'[k] = done'[k] \o InHand(k)' \o queue'[k]
    BY <1>d, <2>1, <2>2, <2>3, <2>4, Zenon
  <2>6. \A j \in Kinds : j # k => queue'[j] = queue[j] /\ arrived'[j] = arrived[j]
    BY <2>1 DEF TypeOK
  <2> QED BY <1>d, <1>s, <2>1, <2>2, <2>5, <2>6, Zenon
<1>3. ASSUME NEW k \in Kinds, PopEmpty(k) PROVE Fifo'
  <2>1. hand = <<>> /\ UNCHANGED <<arrived, done, queue, hand>>
    BY <1>3, <1>p DEF PopEmpty
  <2>2. \A j \in Kinds : InHand(j) = <<>> /\ InHand(j)' = <<>>
    BY <2>1 DEF InHand
  <2> QED BY <1>d, <1>s, <2>1, <2>2
<1>4. ASSUME NEW k \in Kinds, Pop(k) PROVE Fifo'
  <2>1. /\ turn = k /\ hand = <<>> /\ queue[k] # <<>>
        /\ hand' = <<Head(queue[k])>>
        /\ queue' = [queue EXCEPT ![k] = Tail(@)]
        /\ UNCHANGED <<turn, arrived, done>>
    BY <1>4, <1>p DEF Pop, Moves
  <2>2. InHand(k) = <<>> /\ InHand(k)' = <<Head(queue[k])>>
    BY <2>1 DEF InHand
  <2>3. done[k] \o <<>> = done[k]
    BY <1>d, NoneInHand
  <2>4. done[k] \o queue[k] = done[k] \o <<Head(queue[k])>> \o Tail(queue[k])
    BY <1>d, <2>1, MoveHead, Zenon
  <2>5. queue'[k] = Tail(queue[k])
    BY <2>1 DEF TypeOK
  <2>6. arrived'[k] = done'[k] \o InHand(k)' \o queue'[k]
    BY <1>d, <2>1, <2>2, <2>3, <2>4, <2>5, Zenon
  <2>7. \A j \in Kinds : j # k => queue'[j] = queue[j] /\ InHand(j)' = InHand(j)
    BY <2>1 DEF TypeOK, InHand
  <2> QED BY <1>d, <1>s, <2>1, <2>6, <2>7, Zenon
<1>5. ASSUME NEW k \in Kinds, Call(k) PROVE Fifo'
  BY <1>5, <1>u DEF Call
<1>6. ASSUME NEW k \in Kinds, Finish(k), turn = k, phase # "pop" PROVE Fifo'
  <2>1. /\ hand = <<hand[1]>> /\ hand[1] \in Messages /\ hand' = <<>>
        /\ done' = [done EXCEPT ![k] = Append(@, hand[1])]
        /\ UNCHANGED <<arrived, queue>>
    BY <1>6, <1>h DEF Finish
  <2>2. InHand(k) = <<hand[1]>> /\ InHand(k)' = <<>>
    BY <1>6, <2>1 DEF InHand
  <2>3. done'[k] = Append(done[k], hand[1])
    BY <2>1 DEF TypeOK
  <2>4. Append(done[k], hand[1]) = done[k] \o <<hand[1]>>
        /\ Append(done[k], hand[1]) \in Seq(Messages)
    BY <1>d, <2>1, AppendIsConcat, AppendProperties
  <2>5. Append(done[k], hand[1]) \o <<>> = Append(done[k], hand[1])
    BY <2>4, NoneInHand
  <2>6. arrived'[k] = done'[k] \o InHand(k)' \o queue'[k]
    BY <1>d, <2>1, <2>2, <2>3, <2>4, <2>5, Zenon
  <2>7. \A j \in Kinds : j # k => done'[j] = done[j] /\ InHand(j) = <<>> /\ InHand(j)' = <<>>
    BY <1>6, <2>1 DEF TypeOK, InHand
  <2>8. \A j \in Kinds : j # k => arrived'[j] = done'[j] \o InHand(j)' \o queue'[j]
    BY <1>d, <2>1, <2>7, Zenon
  <2> QED BY <1>s, <2>6, <2>8, Zenon
<1>7. ASSUME NEW k \in Kinds, Return(k) PROVE Fifo'
  BY <1>6, <1>7 DEF Return, Moves
<1>8. ASSUME NEW k \in Kinds, SkipUnknownThread(k) PROVE Fifo'
  BY <1>6, <1>8 DEF SkipUnknownThread, Moves
<1>9. ASSUME NEW k \in Kinds, Die(k) PROVE Fifo'
  BY <1>9, <1>u DEF Die
<1>10. CASE UNCHANGED vars
  BY <1>10, <1>u DEF vars
<1> QED BY <1>1, <1>2, <1>3, <1>4, <1>5, <1>7, <1>8, <1>9, <1>10
        DEF Next, Router

LEMMA FifoInit == Init => Fifo
<1> SUFFICES ASSUME Init PROVE Fifo
  OBVIOUS
<1>1. <<>> \o <<>> = <<>>
  BY NoneInHand, EmptySeq
<1>2. \A k \in Kinds : arrived[k] = <<>> /\ done[k] = <<>> /\ queue[k] = <<>>
                       /\ InHand(k) = <<>>
  BY DEF Init, InHand
<1> QED BY <1>1, <1>2, Zenon DEF Fifo

\* Producers, router and handlers together lose, double or reorder no
\* message, for queues of any length and any interleaving.
THEOREM FifoOrder == Spec => []Fifo
BY FifoInit, FifoStep, TypeInit, TypeStep, PTL DEF Spec

-----------------------------------------------------------------------------
\* The message in hand is the first of arrived that is not in done.
LEMMA HandIsNext ==
  ASSUME TypeOK, Fifo, NEW k \in Kinds, turn = k, phase # "pop"
  PROVE  /\ hand[1] \in Messages
         /\ Len(done[k]) \in Nat /\ Len(done[k]) < Len(arrived[k])
         /\ Len(done[k]) + 1 \in DOMAIN arrived[k]
         /\ arrived[k][Len(done[k]) + 1] = hand[1]
<1>1. hand[1] \in Messages /\ hand = <<hand[1]>>
  BY Singleton DEF TypeOK
<1>2. InHand(k) = <<hand[1]>>
  BY <1>1 DEF InHand
<1>3. arrived[k] = done[k] \o <<hand[1]>> \o queue[k]
  BY <1>2, Zenon DEF Fifo
<1>4. done[k] \in Seq(Messages) /\ queue[k] \in Seq(Messages)
  BY DEF TypeOK
<1> DEFINE m == hand[1]
<1>5. m \in Messages /\ arrived[k] = done[k] \o <<m>> \o queue[k]
  BY <1>1, <1>3
<1> HIDE DEF m
<1> DEFINE p == done[k]
           q == queue[k]
<1>6. p \in Seq(Messages) /\ q \in Seq(Messages) /\ arrived[k] = p \o <<m>> \o q
  BY <1>4, <1>5
<1> HIDE DEF p, q
<1>7. /\ Len(p) \in Nat /\ Len(p) < Len(p \o <<m>> \o q)
      /\ Len(p) + 1 \in DOMAIN (p \o <<m>> \o q)
      /\ (p \o <<m>> \o q)[Len(p) + 1] = m
  BY <1>5, <1>6, Between
<1>8. /\ Len(p) \in Nat /\ Len(p) < Len(arrived[k])
      /\ Len(p) + 1 \in DOMAIN arrived[k] /\ arrived[k][Len(p) + 1] = m
  BY <1>6, <1>7, Zenon
<1> QED BY <1>1, <1>8 DEF m, p

\* A thread and a method are registered for every message that was put in.
Registered ==
  \A k \in Kinds : \A i \in DOMAIN arrived[k] :
    arrived[k][i].dest \in table
      /\ arrived[k][i].msgID \in methods[k][arrived[k][i].dest]

LEMMA SafeStep ==
  TypeOK /\ Fifo /\ SafeWhenRegistered /\ [Next]_vars => SafeWhenRegistered'
<1> SUFFICES ASSUME TypeOK, Fifo, SafeWhenRegistered, [Next]_vars, Registered'
             PROVE  alive' /\ handled' = done'
  BY Zenon DEF SafeWhenRegistered, Registered
<1>s. Registered => alive /\ handled = done
  BY Zenon DEF SafeWhenRegistered, Registered
<1>u. ASSUME UNCHANGED arrived
      PROVE  Registered /\ alive /\ handled = done
  <2>1. Registered
    BY <1>u, Zenon DEF Registered
  <2> QED BY <1>s, <2>1, Zenon
<1>r. ASSUME NEW k \in Kinds, turn = k, phase # "pop", UNCHANGED arrived
      PROVE  Routable(k, hand[1])
  <2>1. Len(done[k]) + 1 \in DOMAIN arrived[k]
        /\ arrived[k][Len(done[k]) + 1] = hand[1]
    BY <1>r, HandIsNext
  <2>2. Registered
    BY <1>r, <1>u
  <2>3. hand[1].dest \in table /\ hand[1].msgID \in methods[k][hand[1].dest]
    BY <2>1, <2>2, Zenon DEF Registered
  <2> QED BY <2>3, Zenon DEF Routable
<1>1. CASE managerThread
  BY <1>1, <1>u DEF managerThread
<1>2. ASSUME NEW k \in Kinds, NEW m \in Messages, AddToInternalBuffer(k, m)
      PROVE  alive' /\ handled' = done'
  <2>1. arrived' = [arrived EXCEPT ![k] = Append(@, m)]
        /\ UNCHANGED <<alive, done, handled>>
    BY <1>2 DEF AddToInternalBuffer
  <2>2. ASSUME NEW j \in Kinds, NEW i \in DOMAIN arrived[j]
        PROVE  i \in DOMAIN arrived'[j] /\ arrived'[j][i] = arrived[j][i]
    <3>1. arrived[j] \in Seq(Messages) /\ Len(arrived[j]) \in Nat
          /\ i \in 1..Len(arrived[j])
      BY <2>2, LenProperties DEF TypeOK
    <3>2. CASE j = k
      <4>1. arrived'[j] = Append(arrived[j], m)
        BY <2>1, <3>2 DEF TypeOK
      <4>2. Append(arrived[j], m) \in Seq(Messages)
            /\ Len(Append(arrived[j], m)) = Len(arrived[j]) + 1
            /\ Append(arrived[j], m)[i] = arrived[j][i]
        BY <3>1, AppendProperties
      <4>3. DOMAIN Append(arrived[j], m) = 1..Len(arrived[j])+1
        BY <4>2, LenProperties
      <4> QED BY <3>1, <4>1, <4>2, <4>3
    <3>3. CASE j # k
      BY <2>1, <2>2, <3>3 DEF TypeOK
    <3> QED BY <3>2, <3>3
  <2>3. Registered
    BY <2>2, Zenon DEF Registered
  <2> QED BY <1>s, <2>1, <2>3, Zenon
<1>3. ASSUME NEW k \in Kinds, PopEmpty(k) PROVE alive' /\ handled' = done'
  BY <1>3, <1>u DEF PopEmpty
<1>4. ASSUME NEW k \in Kinds, Pop(k) PROVE alive' /\ handled' = done'
  BY <1>4, <1>u DEF Pop
<1>5. ASSUME NEW k \in Kinds, Call(k) PROVE alive' /\ handled' = done'
  BY <1>5, <1>u DEF Call
<1>6. ASSUME NEW k \in Kinds, Return(k) PROVE alive' /\ handled' = done'
  BY <1>6, <1>u DEF Return, Finish
<1>7. ASSUME NEW k \in Kinds, SkipUnknownThread(k) PROVE FALSE
  <2>1. turn = k /\ phase # "pop" /\ UNCHANGED arrived /\ hand[1].dest \notin table
    BY <1>7 DEF SkipUnknownThread, Finish, Moves
  <2> QED BY <1>r, <2>1 DEF Routable
<1>8. ASSUME NEW k \in Kinds, Die(k) PROVE FALSE
  <2>1. turn = k /\ phase # "pop" /\ UNCHANGED arrived /\ ~Routable(k, hand[1])
    BY <1>8 DEF Die, Moves
  <2> QED BY <1>r, <2>1
<1>9. CASE UNCHANGED vars
  BY <1>9, <1>u DEF vars
<1> QED BY <1>1, <1>2, <1>3, <1>4, <1>5, <1>6, <1>7, <1>8, <1>9
        DEF Next, Router

\* The unchecked lookups of the router are safe for every application that
\* registers what it is sent, whatever it registers and receives.
THEOREM RegisteredIsSafe == Spec => []SafeWhenRegistered
<1>1. Init => SafeWhenRegistered
  BY DEF Init, SafeWhenRegistered
<1> QED BY <1>1, FifoInit, FifoStep, SafeStep, TypeInit, TypeStep, PTL DEF Spec

-----------------------------------------------------------------------------
\* Every step of the router, seen from one kind of message, is a Put, a
\* Finish or nothing.
LEMMA KindStep ==
  ASSUME TypeOK, Fifo, [Next]_vars, NEW j \in Kinds
  PROVE  \/ UNCHANGED <<arrived[j], done[j]>>
         \/ /\ \E m \in Messages : arrived'[j] = Append(arrived[j], m)
            /\ done'[j] = done[j]
         \/ /\ Len(done[j]) < Len(arrived[j])
            /\ done'[j] = Append(done[j], arrived[j][Len(done[j]) + 1])
            /\ arrived'[j] = arrived[j]
<1>1. CASE managerThread
  BY <1>1 DEF managerThread
<1>2. ASSUME NEW k \in Kinds, NEW m \in Messages, AddToInternalBuffer(k, m)
      PROVE  \/ UNCHANGED <<arrived[j], done[j]>>
             \/ /\ arrived'[j] = Append(arrived[j], m)
                /\ done'[j] = done[j]
  BY <1>2 DEF AddToInternalBuffer, TypeOK
<1>3. ASSUME NEW k \in Kinds, PopEmpty(k) \/ Pop(k) \/ Call(k) \/ Die(k)
      PROVE  UNCHANGED <<arrived[j], done[j]>>
  BY <1>3 DEF PopEmpty, Pop, Call, Die
<1>4. ASSUME NEW k \in Kinds, Finish(k), turn = k, phase # "pop"
      PROVE  \/ UNCHANGED <<arrived[j], done[j]>>
             \/ /\ Len(done[j]) < Len(arrived[j])
                /\ done'[j] = Append(done[j], arrived[j][Len(done[j]) + 1])
                /\ arrived'[j] = arrived[j]
  <2>1. done' = [done EXCEPT ![k] = Append(@, hand[1])] /\ arrived' = arrived
    BY <1>4 DEF Finish
  <2>2. Len(done[k]) < Len(arrived[k]) /\ arrived[k][Len(done[k]) + 1] = hand[1]
    BY <1>4, HandIsNext
  <2>3. done'[k] = Append(done[k], hand[1])
        /\ \A i \in Kinds : i # k => done'[i] = done[i]
    BY <2>1 DEF TypeOK
  <2> QED BY <2>1, <2>2, <2>3, Zenon
<1>5. ASSUME NEW k \in Kinds, Return(k) \/ SkipUnknownThread(k)
      PROVE  Finish(k) /\ turn = k /\ phase # "pop"
  BY <1>5 DEF Return, SkipUnknownThread, Moves
<1>6. CASE UNCHANGED vars
  BY <1>6 DEF vars
<1> QED BY <1>1, <1>2, <1>3, <1>4, <1>5, <1>6 DEF Next, Router

\* The router with its queues and its alternating loop implements, for each
\* kind of message, a queue whose messages are taken care of in order, once.
THEOREM RouterImplementsFifo == Spec => ImplementsFifo
<1>1. Init => PacketsDelivered!Init /\ AcksDelivered!Init
  BY DEF Init, Kinds, PacketsDelivered!Init, AcksDelivered!Init
<1>2. TypeOK /\ Fifo /\ [Next]_vars
        => [PacketsDelivered!Next]_(PacketsDelivered!fifoVars)
  <2> SUFFICES ASSUME TypeOK, Fifo, [Next]_vars
               PROVE  [PacketsDelivered!Next]_(PacketsDelivered!fifoVars)
    OBVIOUS
  <2>1. "packet" \in Kinds
    BY DEF Kinds
  <2> QED BY <2>1, KindStep DEF PacketsDelivered!Next, PacketsDelivered!Put,
               PacketsDelivered!Finish, PacketsDelivered!fifoVars
<1>3. TypeOK /\ Fifo /\ [Next]_vars
        => [AcksDelivered!Next]_(AcksDelivered!fifoVars)
  <2> SUFFICES ASSUME TypeOK, Fifo, [Next]_vars
               PROVE  [AcksDelivered!Next]_(AcksDelivered!fifoVars)
    OBVIOUS
  <2>1. "ack" \in Kinds
    BY DEF Kinds
  <2> QED BY <2>1, KindStep DEF AcksDelivered!Next, AcksDelivered!Put,
               AcksDelivered!Finish, AcksDelivered!fifoVars
<1> QED BY <1>1, <1>2, <1>3, FifoInit, FifoStep, TypeInit, TypeStep, PTL
        DEF Spec, ImplementsFifo, PacketsDelivered!Spec, AcksDelivered!Spec
=============================================================================
