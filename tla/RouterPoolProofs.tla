---------------------------- MODULE RouterPoolProofs ----------------------------
(***************************************************************************)
(* Proofs about RouterPool, for any finite set of routers and any number   *)
(* of messages.                                                            *)
(***************************************************************************)
EXTENDS RouterPool, FiniteSetTheorems, TLAPS

LEMMA InitTypes == Init => TypeOK
BY DEF Init, TypeOK, Kinds

LEMMA TypesKept == TypeOK /\ [Next]_vars => TypeOK'
<1> SUFFICES ASSUME TypeOK, [Next]_vars PROVE TypeOK'
  OBVIOUS
<1>1. CASE managerThread
  BY <1>1 DEF managerThread, TypeOK
<1>2. ASSUME NEW k \in Kinds, AddToInternalBuffer(k) PROVE TypeOK'
  <2>1. Append(queue[k], arrived[k] + 1) \in Seq(Nat)
    BY DEF TypeOK
  <2> QED
    BY <1>2, <2>1 DEF AddToInternalBuffer, Pushed, TypeOK
<1>3. ASSUME NEW r \in Routers, PopEmpty(r) PROVE TypeOK'
  BY <1>3 DEF PopEmpty, NextTurn, Other, TypeOK, Kinds
<1>4. ASSUME NEW r \in Routers, Pop(r) PROVE TypeOK'
  <2>1. queue[turn[r]] \in Seq(Nat) /\ queue[turn[r]] # <<>>
    BY <1>4 DEF Pop, TypeOK
  <2>2. Head(queue[turn[r]]) \in Nat /\ Tail(queue[turn[r]]) \in Seq(Nat)
    BY <2>1
  <2> QED
    BY <1>4, <2>2 DEF Pop, Runs, Rest, TypeOK
<1>5. ASSUME NEW r \in Routers, Return(r) PROVE TypeOK'
  <2>1. Append(done[turn[r]], hand[r]) \in Seq(Nat)
    BY DEF TypeOK
  <2> QED
    BY <1>5, <2>1 DEF Return, Other, TypeOK, Kinds
<1>6. CASE UNCHANGED vars
  BY <1>6 DEF vars, TypeOK
<1> QED
  BY <1>1, <1>2, <1>3, <1>4, <1>5, <1>6 DEF Next, messageRouter

\* Every variable keeps its type; only started routers hold messages.
THEOREM TypeCorrect == Spec => []TypeOK
BY InitTypes, TypesKept, PTL DEF Spec

-----------------------------------------------------------------------------
LEMMA InitAccounted == Init => Accounted
<1> SUFFICES ASSUME Init, NEW k \in Kinds
             PROVE  /\ Popped(k) = 0 /\ queue[k] = <<>>
                    /\ Finished(k) = {} /\ Held(k) = {}
                    /\ \A r \in Routers : hand[r] = 0
  BY DEF Accounted
<1> QED
  BY DEF Init, Popped, Finished, Held

\* What holds one kind's messages together; Accounted is this for each kind.
KindAccounted(k) ==
  /\ Popped(k) >= 0
  /\ \A i \in 1..Len(queue[k]) : queue[k][i] = Popped(k) + i
  /\ Finished(k) \cup Held(k) = 1..Popped(k)
  /\ Finished(k) \cap Held(k) = {}
  /\ \A q, r \in Routers :
       turn[q] = k /\ turn[r] = k /\ hand[q] = hand[r] /\ hand[q] # 0 => q = r

LEMMA ByKind == TypeOK => (Accounted <=> \A k \in Kinds : KindAccounted(k))
BY DEF Accounted, KindAccounted, TypeOK

\* A kind whose queue, finished and held messages stay is accounted for still.
LEMMA KindUntouched ==
  ASSUME NEW k \in Kinds, KindAccounted(k),
         queue'[k] = queue[k], arrived'[k] = arrived[k], done'[k] = done[k],
         \A r \in Routers : turn[r] = k /\ hand[r] # 0
                              <=> turn'[r] = k /\ hand'[r] # 0,
         \A r \in Routers : turn[r] = k /\ hand[r] # 0 => hand'[r] = hand[r]
  PROVE  KindAccounted(k)'
<1>1. Held(k)' = Held(k)
  BY DEF Held
<1>2. Finished(k)' = Finished(k) /\ Popped(k)' = Popped(k)
  BY DEF Finished, Popped
<1>3. ASSUME NEW q \in Routers, NEW r \in Routers, turn'[q] = k, turn'[r] = k,
             hand'[q] = hand'[r], hand'[q] # 0
      PROVE  q = r
  BY <1>3 DEF KindAccounted
<1> QED
  BY <1>1, <1>2, <1>3 DEF KindAccounted

LEMMA AddAccounted ==
  ASSUME TypeOK, NEW k \in Kinds, KindAccounted(k), AddToInternalBuffer(k)
  PROVE  KindAccounted(k)'
<1>1. queue[k] \in Seq(Nat) /\ arrived[k] \in Nat
  BY DEF TypeOK
<1>2. queue'[k] = Append(queue[k], arrived[k] + 1) /\ arrived'[k] = arrived[k] + 1
  BY DEF AddToInternalBuffer, Pushed, TypeOK
<1>3. Popped(k)' = Popped(k)
  BY <1>1, <1>2 DEF Popped
<1>4. \A i \in 1..Len(queue'[k]) : queue'[k][i] = Popped(k) + i
  <2>1. /\ Len(queue[k]) \in Nat
        /\ Len(queue'[k]) = Len(queue[k]) + 1
        /\ \A i \in 1..Len(queue[k]) : queue'[k][i] = queue[k][i]
        /\ queue'[k][Len(queue[k]) + 1] = arrived[k] + 1
    BY <1>1, <1>2
  <2>2. arrived[k] + 1 = Popped(k) + (Len(queue[k]) + 1)
    BY <1>1, <2>1 DEF Popped
  <2>3. \A i \in 1..Len(queue'[k]) :
          i \in 1..Len(queue[k]) \/ i = Len(queue[k]) + 1
    BY <2>1
  <2> QED
    BY <2>1, <2>2, <2>3 DEF KindAccounted
<1>5. Held(k)' = Held(k) /\ Finished(k)' = Finished(k)
  BY DEF AddToInternalBuffer, Held, Finished
<1> QED
  BY <1>3, <1>4, <1>5 DEF KindAccounted, AddToInternalBuffer

\* The message popped is the oldest nobody has held.
LEMMA PopAccounted ==
  ASSUME TypeOK, NEW r \in Routers, NEW k \in Kinds, k = turn[r],
         KindAccounted(k), Pop(r)
  PROVE  KindAccounted(k)'
<1> DEFINE n == arrived[k] - Len(queue[k]) + 1
<1>1. k \in DOMAIN queue /\ r \in DOMAIN hand
  BY DEF TypeOK
<1>2. queue[k] \in Seq(Nat) /\ queue[k] # <<>> /\ arrived[k] \in Nat
  BY DEF Pop, TypeOK
<1>3. Head(queue[k]) = n /\ n \in Nat \ {0}
  <2>1. 1 \in 1..Len(queue[k]) /\ Head(queue[k]) = queue[k][1]
    BY <1>2
  <2>2. Popped(k) \in Nat /\ n = Popped(k) + 1
    BY <1>2 DEF KindAccounted, Popped
  <2> QED
    BY <2>1, <2>2 DEF KindAccounted
<1>4. /\ turn' = turn /\ done' = done /\ arrived' = arrived
      /\ hand' = [hand EXCEPT ![r] = n] /\ hand[r] = 0
      /\ queue'[k] = Tail(queue[k])
  BY <1>1, <1>3 DEF Pop, Runs, Rest
<1>5. Popped(k)' = n
  BY <1>2, <1>4 DEF Popped
<1>6. \A i \in 1..Len(queue'[k]) : queue'[k][i] = n + i
  <2>1. \A i \in 1..Len(Tail(queue[k])) :
          i + 1 \in 1..Len(queue[k]) /\ Tail(queue[k])[i] = queue[k][i + 1]
    BY <1>2
  <2>2. Popped(k) \in Nat /\ n = Popped(k) + 1
    BY <1>2 DEF KindAccounted, Popped
  <2> HIDE DEF n
  <2>3. ASSUME NEW i \in 1..Len(Tail(queue[k]))
        PROVE  Tail(queue[k])[i] = n + i
    <3>1. Tail(queue[k])[i] = Popped(k) + (i + 1) /\ i \in Nat
      BY <2>1 DEF KindAccounted
    <3> QED
      BY <2>2, <3>1
  <2> QED
    BY <1>4, <2>3
<1>7. Held(k)' = Held(k) \cup {n}
  <2>1. Held(k)' = {hand'[q] : q \in {p \in Routers : turn[p] = k /\ hand'[p] # 0}}
    BY <1>4 DEF Held
  <2>2. \A q \in Routers \ {r} : hand'[q] = hand[q]
    BY <1>4 DEF TypeOK
  <2>3. hand'[r] = n /\ n # 0 /\ turn[r] = k
    BY <1>1, <1>3, <1>4
  <2> HIDE DEF n
  <2> QED
    BY <2>1, <2>2, <2>3, <1>4 DEF Held
<1>8. Finished(k)' = Finished(k)
  BY <1>4 DEF Finished
<1>9. Finished(k) \cup Held(k) = 1..Popped(k) /\ n \notin 1..Popped(k)
      /\ 1..n = (1..Popped(k)) \cup {n}
  <2>1. Popped(k) \in Nat /\ n = Popped(k) + 1
    BY <1>2 DEF KindAccounted, Popped
  <2>2. Finished(k) \cup Held(k) = 1..Popped(k)
    BY DEF KindAccounted
  <2> HIDE DEF n
  <2> QED
    BY <2>1, <2>2
<1>10. ASSUME NEW q \in Routers, NEW p \in Routers, turn'[q] = k, turn'[p] = k,
              hand'[q] = hand'[p], hand'[q] # 0
       PROVE  q = p
  <2>1. \A s \in Routers \ {r} : hand'[s] = hand[s]
    BY <1>4 DEF TypeOK
  <2>2. \A s \in Routers : turn[s] = k /\ hand[s] # 0 => hand[s] \in Held(k)
    BY DEF Held
  <2>3. hand'[r] = n
    BY <1>1, <1>4
  <2> HIDE DEF n
  <2>4. n \notin Held(k)
    BY <1>9
  <2>5. CASE q # r /\ p # r
    BY <1>4, <1>10, <2>1, <2>5 DEF KindAccounted
  <2>6. CASE q = r \/ p = r
    BY <1>4, <1>10, <2>1, <2>2, <2>3, <2>4, <2>6
  <2> QED
    BY <2>5, <2>6
<1>11. n >= 0
  BY <1>3
<1> HIDE DEF n
<1>12. Finished(k)' \cap Held(k)' = {}
  BY <1>7, <1>8, <1>9 DEF KindAccounted
<1>13. (Finished(k) \cup Held(k))' = 1..n
  BY <1>7, <1>8, <1>9
<1> QED
  BY <1>5, <1>6, <1>10, <1>11, <1>12, <1>13 DEF KindAccounted

\* The message finished moves from the held to the finished ones.
LEMMA ReturnAccounted ==
  ASSUME TypeOK, NEW r \in Routers, NEW k \in Kinds, k = turn[r],
         KindAccounted(k), Return(r)
  PROVE  /\ Finished(k)' = Finished(k) \cup {hand[r]}
         /\ KindAccounted(k)'
<1>1. /\ done'[k] = Append(done[k], hand[r]) /\ done[k] \in Seq(Nat)
      /\ hand[r] # 0 /\ hand' = [hand EXCEPT ![r] = 0]
      /\ turn' = [turn EXCEPT ![r] = Other(k)]
      /\ queue' = queue /\ arrived' = arrived
  BY DEF Return, TypeOK
<1>2. Other(k) # k
  BY DEF Other, Kinds
<1>3. Finished(k)' = Finished(k) \cup {hand[r]}
  <2>1. /\ DOMAIN done'[k] = DOMAIN done[k] \cup {Len(done[k]) + 1}
        /\ Len(done[k]) + 1 \notin DOMAIN done[k]
        /\ done'[k][Len(done[k]) + 1] = hand[r]
        /\ \A i \in DOMAIN done[k] : done'[k][i] = done[k][i]
    BY <1>1
  <2> QED
    BY <2>1 DEF Finished
<1>4. \A q \in Routers \ {r} : hand'[q] = hand[q] /\ turn'[q] = turn[q]
  BY <1>1 DEF TypeOK
<1>5. hand'[r] = 0 /\ turn'[r] = Other(k)
  BY <1>1 DEF TypeOK
<1>6. hand[r] \in Held(k)
  BY <1>1 DEF Held
<1>7. Held(k)' = Held(k) \ {hand[r]}
  <2>1. \A q \in Routers \ {r} : turn[q] = k /\ hand[q] # 0 => hand[q] # hand[r]
    BY <1>1 DEF KindAccounted
  <2> QED
    BY <1>2, <1>4, <1>5, <2>1 DEF Held
<1>8. Popped(k)' = Popped(k)
  BY <1>1 DEF Popped
<1>9. ASSUME NEW q \in Routers, NEW p \in Routers, turn'[q] = k, turn'[p] = k,
             hand'[q] = hand'[p], hand'[q] # 0
      PROVE  q = p
  BY <1>2, <1>4, <1>5, <1>9 DEF KindAccounted
<1>10. KindAccounted(k)'
  <2>1. /\ (Finished(k) \cup Held(k))' = Finished(k) \cup Held(k)
        /\ (Finished(k) \cap Held(k))' = {}
    BY <1>3, <1>6, <1>7 DEF KindAccounted
  <2> QED
    BY <1>1, <1>8, <1>9, <2>1 DEF KindAccounted
<1> QED
  BY <1>3, <1>10

LEMMA AccountedKept == TypeOK /\ Accounted /\ [Next]_vars => Accounted'
<1> SUFFICES ASSUME TypeOK, Accounted, [Next]_vars PROVE Accounted'
  OBVIOUS
<1> SUFFICES ASSUME NEW k \in Kinds PROVE KindAccounted(k)'
  <2>1. TypeOK'
    BY TypesKept
  <2> QED
    BY <2>1 DEF TypeOK, Accounted, KindAccounted
<1>0. \A j \in Kinds : KindAccounted(j)
  BY ByKind
<1>1. CASE managerThread \/ UNCHANGED vars
  BY <1>0, <1>1, KindUntouched DEF managerThread, vars
<1>2. ASSUME NEW j \in Kinds, AddToInternalBuffer(j) PROVE KindAccounted(k)'
  <2>1. CASE j = k
    BY <1>0, <1>2, <2>1, AddAccounted
  <2>2. CASE j # k
    BY <1>0, <1>2, <2>2, KindUntouched DEF AddToInternalBuffer, TypeOK
  <2> QED
    BY <2>1, <2>2
<1>3. ASSUME NEW r \in Routers, PopEmpty(r) PROVE KindAccounted(k)'
  <2>1. /\ hand[r] = 0
        /\ UNCHANGED <<hand, queue, arrived, done>>
        /\ \A q \in Routers \ {r} : turn'[q] = turn[q]
    BY <1>3 DEF PopEmpty, Runs, TypeOK
  <2>2. \A q \in Routers : hand[q] # 0 => turn'[q] = turn[q]
    BY <2>1
  <2> QED
    BY <1>0, <2>1, <2>2, KindUntouched
<1>4. ASSUME NEW r \in Routers, Pop(r) PROVE KindAccounted(k)'
  <2>1. turn' = turn
    BY <1>4 DEF Pop
  <2>2. CASE turn[r] = k
    BY <1>0, <1>4, <2>2, PopAccounted
  <2>3. CASE turn[r] # k
    BY <1>0, <1>4, <2>1, <2>3, KindUntouched DEF Pop, TypeOK
  <2> QED
    BY <2>2, <2>3
<1>5. ASSUME NEW r \in Routers, Return(r) PROVE KindAccounted(k)'
  <2>1. CASE turn[r] = k
    BY <1>0, <1>5, <2>1, ReturnAccounted
  <2>2. CASE turn[r] # k
    <3>1. /\ hand'[r] = 0 /\ UNCHANGED <<queue, arrived>> /\ done'[k] = done[k]
          /\ \A q \in Routers \ {r} : hand'[q] = hand[q] /\ turn'[q] = turn[q]
      BY <1>5, <2>2 DEF Return, TypeOK
    <3> QED
      BY <1>0, <2>2, <3>1, KindUntouched
  <2> QED
    BY <2>1, <2>2
<1> QED
  BY <1>1, <1>2, <1>3, <1>4, <1>5 DEF Next, messageRouter

\* Accounted: no message is lost, doubled or held by two routers.
THEOREM EachInOnePlace == Spec => []Accounted
BY InitAccounted, AccountedKept, TypeCorrect, PTL DEF Spec
-----------------------------------------------------------------------------
\* A handler returns before those of fewer messages than there are routers:
\* every earlier message not finished is held by a router of its own.
LEMMA FewerLeft ==
  ASSUME TypeOK, NEW r \in Routers, NEW k \in Kinds, k = turn[r],
         KindAccounted(k), hand[r] # 0
  PROVE  /\ hand[r] \in 1..arrived[k] /\ hand[r] \notin Finished(k)
         /\ Cardinality((1..hand[r]-1) \ Finished(k)) < Cardinality(started)
<1> DEFINE others == started \ {r}
           left == (1..hand[r]-1) \ Finished(k)
           image == {hand[q] : q \in others}
<1>1. r \in started /\ hand[r] \in Held(k)
  BY DEF TypeOK, Held
<1>2. hand[r] \in 1..Popped(k) /\ hand[r] \notin Finished(k)
  BY <1>1 DEF KindAccounted
<1>3. Popped(k) \in Nat /\ Popped(k) <= arrived[k] /\ arrived[k] \in Nat
  BY DEF KindAccounted, Popped, TypeOK
<1>4. IsFiniteSet(started)
  <2>1. started \in SUBSET Routers
    BY DEF TypeOK
  <2> QED
    BY <2>1, PoolAssumption, FS_Subset
<1>5. /\ IsFiniteSet(others) /\ Cardinality(others) = Cardinality(started) - 1
  BY <1>1, <1>4, FS_RemoveElement
<1>6. IsFiniteSet(image) /\ Cardinality(image) <= Cardinality(others)
  <2> DEFINE f == [q \in others |-> hand[q]]
  <2>1. f \in Surjection(others, image)
    BY DEF Surjection
  <2> HIDE DEF others, image, f
  <2> QED
    BY <1>5, <2>1, FS_Surjection
<1>7. left \subseteq image
  <2> SUFFICES ASSUME NEW n \in left PROVE n \in image
    OBVIOUS
  <2>1. n \in 1..Popped(k) /\ n # hand[r]
    BY <1>2, <1>3
  <2>2. n \in Held(k)
    BY <2>1 DEF KindAccounted
  <2>3. PICK q \in Routers : turn[q] = k /\ hand[q] # 0 /\ n = hand[q]
    BY <2>2 DEF Held
  <2>4. q \in others
    BY <2>1, <2>3 DEF TypeOK
  <2> QED
    BY <2>3, <2>4
<1>8. Cardinality(left) <= Cardinality(image) /\ IsFiniteSet(left)
  <2>1. left \in SUBSET image
    BY <1>7
  <2> HIDE DEF left, image
  <2> QED
    BY <1>6, <2>1, FS_Subset
<1>9. /\ Cardinality(left) \in Nat /\ Cardinality(image) \in Nat
      /\ Cardinality(started) \in Nat /\ Cardinality(others) \in Nat
  <2> HIDE DEF left, image, others
  <2> QED
    BY <1>4, <1>5, <1>6, <1>8, FS_CardinalityType
<1>10. Cardinality(left) < Cardinality(started)
  <2> HIDE DEF left, image, others
  <2> QED
    BY <1>5, <1>6, <1>8, <1>9
<1> QED
  BY <1>2, <1>3, <1>10

\* A step of the pool, as the abstract queue of each kind sees it.
LEMMA KindStep ==
  ASSUME TypeOK, Accounted, [Next]_vars, NEW k \in Kinds
  PROVE  \/ /\ Cardinality(started)' = Cardinality(started) + 1
            /\ arrived'[k] = arrived[k] /\ done'[k] = done[k]
         \/ /\ started' = started
            /\ arrived'[k] = arrived[k] + 1 /\ done'[k] = done[k]
         \/ /\ started' = started /\ arrived'[k] = arrived[k]
            /\ \E n \in 1..arrived[k] :
                 /\ n \notin Finished(k)
                 /\ Cardinality((1..n-1) \ Finished(k)) < Cardinality(started)
                 /\ done'[k] = Append(done[k], n)
         \/ /\ started' = started
            /\ arrived'[k] = arrived[k] /\ done'[k] = done[k]
<1>0. \A j \in Kinds : KindAccounted(j)
  BY ByKind
<1>1. CASE managerThread
  <2>1. PICK r \in Routers \ started : started' = started \cup {r}
    BY <1>1 DEF managerThread
  <2>2. started \in SUBSET Routers
    BY DEF TypeOK
  <2>3. Cardinality(started') = Cardinality(started) + 1
    BY <2>1, <2>2, PoolAssumption, FS_Subset, FS_AddElement
  <2> QED
    BY <1>1, <2>3 DEF managerThread
<1>2. ASSUME NEW j \in Kinds, AddToInternalBuffer(j)
      PROVE  \/ /\ started' = started
                /\ arrived'[k] = arrived[k] + 1 /\ done'[k] = done[k]
             \/ /\ started' = started
                /\ arrived'[k] = arrived[k] /\ done'[k] = done[k]
  BY <1>2 DEF AddToInternalBuffer, TypeOK
<1>3. ASSUME NEW r \in Routers, PopEmpty(r) \/ Pop(r)
      PROVE  /\ started' = started
             /\ arrived'[k] = arrived[k] /\ done'[k] = done[k]
  BY <1>3 DEF PopEmpty, Pop
<1>4. ASSUME NEW r \in Routers, Return(r), turn[r] = k
      PROVE  /\ started' = started /\ arrived'[k] = arrived[k]
             /\ \E n \in 1..arrived[k] :
                  /\ n \notin Finished(k)
                  /\ Cardinality((1..n-1) \ Finished(k)) < Cardinality(started)
                  /\ done'[k] = Append(done[k], n)
  <2>1. /\ hand[r] # 0 /\ started' = started /\ arrived' = arrived
        /\ done'[k] = Append(done[k], hand[r])
    BY <1>4 DEF Return, TypeOK
  <2>2. /\ hand[r] \in 1..arrived[k] /\ hand[r] \notin Finished(k)
        /\ Cardinality((1..hand[r]-1) \ Finished(k)) < Cardinality(started)
    BY <1>0, <1>4, <2>1, FewerLeft
  <2> QED
    BY <2>1, <2>2
<1>5. ASSUME NEW r \in Routers, Return(r), turn[r] # k
      PROVE  /\ started' = started
             /\ arrived'[k] = arrived[k] /\ done'[k] = done[k]
  BY <1>5 DEF Return, TypeOK
<1>6. CASE UNCHANGED vars
  BY <1>6 DEF vars
<1> QED
  BY <1>1, <1>2, <1>3, <1>4, <1>5, <1>6 DEF Next, messageRouter

\* ImplementsWindow: the pool keeps the promise of a queue with several
\* workers, for packets and for acks.
THEOREM WindowKept == Spec => ImplementsWindow
<1>1. Init => PacketWindow!Init /\ AckWindow!Init
  BY FS_EmptySet DEF Init, PacketWindow!Init, AckWindow!Init, Kinds
<1>2. TypeOK /\ Accounted /\ [Next]_vars =>
        [PacketWindow!Next]_<<Cardinality(started), arrived["packet"],
                              done["packet"]>>
  <2> SUFFICES ASSUME TypeOK, Accounted, [Next]_vars
               PROVE  [PacketWindow!Next]_<<Cardinality(started),
                                            arrived["packet"], done["packet"]>>
    OBVIOUS
  <2>1. "packet" \in Kinds
    BY DEF Kinds
  <2>2. CASE /\ Cardinality(started)' = Cardinality(started) + 1
             /\ arrived'["packet"] = arrived["packet"]
             /\ done'["packet"] = done["packet"]
    BY <2>2 DEF PacketWindow!Next, PacketWindow!Hire
  <2>3. CASE /\ started' = started
             /\ arrived'["packet"] = arrived["packet"] + 1
             /\ done'["packet"] = done["packet"]
    BY <2>3 DEF PacketWindow!Next, PacketWindow!Put
  <2>4. ASSUME NEW n \in 1..arrived["packet"],
               started' = started, arrived'["packet"] = arrived["packet"],
               n \notin Finished("packet"),
               Cardinality((1..n-1) \ Finished("packet")) < Cardinality(started),
               done'["packet"] = Append(done["packet"], n)
        PROVE  PacketWindow!Next
    <3>1. PacketWindow!Finished = Finished("packet")
      BY DEF PacketWindow!Finished, Finished
    <3>2. Cardinality(started)' = Cardinality(started)
      BY <2>4
    <3>3. PacketWindow!Finish(n)
      BY <2>4, <3>1, <3>2, Zenon
         DEF PacketWindow!Finish, PacketWindow!Cardinality, Cardinality
    <3> QED
      BY <3>3 DEF PacketWindow!Next
  <2>5. CASE /\ started' = started
             /\ arrived'["packet"] = arrived["packet"]
             /\ done'["packet"] = done["packet"]
    BY <2>5
  <2> QED
    BY <2>1, <2>2, <2>3, <2>4, <2>5, KindStep
<1>3. TypeOK /\ Accounted /\ [Next]_vars =>
        [AckWindow!Next]_<<Cardinality(started), arrived["ack"], done["ack"]>>
  <2> SUFFICES ASSUME TypeOK, Accounted, [Next]_vars
               PROVE  [AckWindow!Next]_<<Cardinality(started), arrived["ack"],
                                         done["ack"]>>
    OBVIOUS
  <2>1. "ack" \in Kinds
    BY DEF Kinds
  <2>2. CASE /\ Cardinality(started)' = Cardinality(started) + 1
             /\ arrived'["ack"] = arrived["ack"]
             /\ done'["ack"] = done["ack"]
    BY <2>2 DEF AckWindow!Next, AckWindow!Hire
  <2>3. CASE /\ started' = started
             /\ arrived'["ack"] = arrived["ack"] + 1
             /\ done'["ack"] = done["ack"]
    BY <2>3 DEF AckWindow!Next, AckWindow!Put
  <2>4. ASSUME NEW n \in 1..arrived["ack"],
               started' = started, arrived'["ack"] = arrived["ack"],
               n \notin Finished("ack"),
               Cardinality((1..n-1) \ Finished("ack")) < Cardinality(started),
               done'["ack"] = Append(done["ack"], n)
        PROVE  AckWindow!Next
    <3>1. AckWindow!Finished = Finished("ack")
      BY DEF AckWindow!Finished, Finished
    <3>2. Cardinality(started)' = Cardinality(started)
      BY <2>4
    <3>3. AckWindow!Finish(n)
      BY <2>4, <3>1, <3>2, Zenon
         DEF AckWindow!Finish, AckWindow!Cardinality, Cardinality
    <3> QED
      BY <3>3 DEF AckWindow!Next
  <2>5. CASE /\ started' = started
             /\ arrived'["ack"] = arrived["ack"]
             /\ done'["ack"] = done["ack"]
    BY <2>5
  <2> QED
    BY <2>1, <2>2, <2>3, <2>4, <2>5, KindStep
<1> QED
  BY <1>1, <1>2, <1>3, TypeCorrect, EachInOnePlace, PTL
     DEF Spec, ImplementsWindow, PacketWindow!Spec, AckWindow!Spec
=============================================================================
