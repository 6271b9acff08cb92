------------------------------ MODULE LockedDeque ------------------------------
(***************************************************************************)
(* The two byte deques of a tcpServer or tcpClient object, byte by byte.   *)
(* Four functions of the object take its one mutex and then push or pop    *)
(* in a loop: recvThread and the packetProcessor thread meet at the        *)
(* receive deque; the router, main and sendThread at the transmit deque.   *)
(* SocketLink treats each call as one step; this module is the reason it   *)
(* may.  (A pop's count, returned in 8 bits, is SocketLink's Returned.)    *)
(***************************************************************************)
EXTENDS Integers, Sequences

CONSTANTS
  Adders,   \* Adders[q]: the threads that add to deque q
  Poppers,  \* Poppers[q]: the threads that pop from it
  Blocks,   \* the byte sequences one call may add
  BufSize,  \* size of the buffer a pop fills: 256 or 268
  MaxAdds   \* bound: calls an adder makes

Queues == {"rx", "tx"}
Threads == UNION {Adders[q] \cup Poppers[q] : q \in Queues}
Nobody == "nobody"
Bytes == UNION {{b[i] : i \in DOMAIN b} : b \in Blocks}

ASSUME DequeAssumption ==
  /\ Adders \in [Queues -> SUBSET Threads] /\ Poppers \in [Queues -> SUBSET Threads]
  /\ \A q, r \in Queues : Adders[q] \cap Poppers[r] = {}
  /\ Nobody \notin Threads
  /\ Blocks \subseteq Seq(Bytes)
  /\ BufSize \in Nat \ {0} /\ MaxAdds \in Nat

VARIABLES
  mutex,  \* the thread that holds it
  queue,  \* externalRxPacketQueue and externalTxPacketQueue, oldest byte first
  pc,     \* "idle", "lock" (before the lock_guard) or "loop"
  which,  \* the deque of a thread's call
  rest,   \* an adder's bytes that are not in the deque yet
  out,    \* the bytes a popper's call has copied so far
  popped, \* history: all bytes pops have returned
  adds    \* number of calls each adder has made

vars == <<mutex, queue, pc, which, rest, out, popped, adds>>

Init ==
  /\ mutex = Nobody
  /\ queue = [q \in Queues |-> <<>>] /\ popped = [q \in Queues |-> <<>>]
  /\ pc = [t \in Threads |-> "idle"] /\ which = [t \in Threads |-> "rx"]
  /\ rest = [t \in Threads |-> <<>>] /\ out = [t \in Threads |-> <<>>]
  /\ adds = [t \in Threads |-> 0]

-----------------------------------------------------------------------------
Goto(t, step) == pc' = [pc EXCEPT ![t] = step]

\* AddToExternal[Rx|Tx]Buffer is called: recvThread has received a block, or
\* a message is being sent.
CallAdd(t, q) ==
  /\ pc[t] = "idle" /\ t \in Adders[q] /\ adds[t] < MaxAdds
  /\ \E b \in Blocks : rest' = [rest EXCEPT ![t] = b]
  /\ which' = [which EXCEPT ![t] = q]
  /\ adds' = [adds EXCEPT ![t] = @ + 1]
  /\ Goto(t, "lock")
  /\ UNCHANGED <<mutex, queue, out, popped>>

\* PopFromExternal[Rx|Tx]Buffer is called: packetProcessor and sendThread
\* do so in a loop, whether there is data or not.
CallPop(t, q) ==
  /\ pc[t] = "idle" /\ t \in Poppers[q]
  /\ which' = [which EXCEPT ![t] = q]
  /\ Goto(t, "lock")
  /\ UNCHANGED <<mutex, queue, rest, out, popped, adds>>

\* Mutant: no lock_guard.
FreeAlways == TRUE
Free == mutex = Nobody

Lock(t) ==
  /\ pc[t] = "lock" /\ Free
  /\ mutex' = t
  /\ Goto(t, "loop")
  /\ UNCHANGED <<queue, which, rest, out, popped, adds>>

\* t is in the loop of a function that adds to, or pops from, deque q.
Adding(t, q)  == pc[t] = "loop" /\ which[t] = q /\ t \in Adders[q]
Popping(t, q) == pc[t] = "loop" /\ which[t] = q /\ t \in Poppers[q]

\* push_front, into a deque that is read by pop_back.
Pushed(s, b) == Append(s, b)

AddByte(t, q) ==
  /\ Adding(t, q) /\ rest[t] # <<>>
  /\ queue' = [queue EXCEPT ![q] = Pushed(@, Head(rest[t]))]
  /\ rest' = [rest EXCEPT ![t] = Tail(@)]
  /\ UNCHANGED <<mutex, pc, which, out, popped, adds>>

\* Mutant: the mutex is kept on return.
KeepMutex(t) == mutex' = mutex /\ Goto(t, "idle")
\* The lock_guard's destructor.
Unlock(t) == mutex' = Nobody /\ Goto(t, "idle")

AddReturns(t, q) ==
  /\ Adding(t, q) /\ rest[t] = <<>>
  /\ Unlock(t)
  /\ UNCHANGED <<queue, which, rest, out, popped, adds>>

\* Mutant: the loop runs until the deque is empty, past the caller's buffer.
MoreUnbounded(t, q) == queue[q] # <<>>
\* The condition of the popping loop and the break in it.
More(t, q) == queue[q] # <<>> /\ Len(out[t]) < BufSize

PopByte(t, q) ==
  /\ Popping(t, q) /\ More(t, q)
  /\ out' = [out EXCEPT ![t] = Append(@, Head(queue[q]))]
  /\ queue' = [queue EXCEPT ![q] = Tail(@)]
  /\ UNCHANGED <<mutex, pc, which, rest, popped, adds>>

PopReturns(t, q) ==
  /\ Popping(t, q) /\ ~More(t, q)
  /\ popped' = [popped EXCEPT ![q] = @ \o out[t]]
  /\ out' = [out EXCEPT ![t] = <<>>]
  /\ Unlock(t)
  /\ UNCHANGED <<queue, which, rest, adds>>

Runs(t, q) == AddByte(t, q) \/ AddReturns(t, q) \/ PopByte(t, q) \/ PopReturns(t, q)

Next == \E t \in Threads :
  \/ Lock(t)
  \/ \E q \in Queues : CallAdd(t, q) \/ CallPop(t, q) \/ Runs(t, q)

Spec == Init /\ [][Next]_vars

\* Threads inside a function run on, poppers keep calling, and a mutex that
\* stays free is taken by a thread that waits for it.  Nothing more: which of
\* several waiting threads gets a std::mutex is not promised, so a thread may
\* miss every one of infinitely many releases.
FairSpec == Spec /\ \A t \in Threads :
  /\ WF_vars(Lock(t))
  /\ \A q \in Queues : WF_vars(Runs(t, q)) /\ WF_vars(CallPop(t, q))

-----------------------------------------------------------------------------
\* No pop writes past the buffer of its caller.
TypeOK ==
  /\ mutex \in Threads \cup {Nobody}
  /\ queue \in [Queues -> Seq(Bytes)] /\ popped \in [Queues -> Seq(Bytes)]
  /\ pc \in [Threads -> {"idle", "lock", "loop"}]
  /\ which \in [Threads -> Queues]
  /\ rest \in [Threads -> Seq(Bytes)] /\ out \in [Threads -> Seq(Bytes)]
  /\ \A t \in Threads : Len(out[t]) <= BufSize
  /\ adds \in [Threads -> Nat]

\* The one mutex serves both deques: of all threads in one of the four
\* functions, one is past the lock_guard, and only its call is under way.
Exclusive ==
  /\ \A t \in Threads : pc[t] = "loop" <=> mutex = t
  /\ \A t \in Threads :
       /\ out[t] # <<>> => mutex = t
       /\ rest[t] # <<>> => pc[t] # "idle"

\* Seen from outside, an adding call adds when it locks and a popping call
\* pops when it unlocks: the deque holds what a call under way still brings,
\* or has only copied so far.
Seen(q) ==
  IF mutex = Nobody \/ which[mutex] # q THEN queue[q]
  ELSE out[mutex] \o queue[q] \o rest[mutex]

RxQueue == INSTANCE ByteQueue WITH bytes <- Seen("rx"), taken <- popped["rx"]
TxQueue == INSTANCE ByteQueue WITH bytes <- Seen("tx"), taken <- popped["tx"]

\* However calls on both deques interleave, each is atomic: blocks stay
\* whole and in order, and a pop takes exactly what was there.
ImplementsByteQueue == RxQueue!Spec /\ TxQueue!Spec

\* While t waits, the mutex is free again and again, and another thread takes
\* it each time.
PassedOver(t) == /\ []<>(pc[t] = "lock" /\ Free)
                 /\ []<>(mutex \notin {t, Nobody})

\* A call that waits for the mutex returns, or it is passed over for ever: the
\* polling threads, which a std::mutex may prefer, are the reason why no more
\* can be said.  Nobody keeps the mutex, and no call waits for what another
\* waiting call would have to do.
StarvesOnlyPassedOver == \A t \in Threads :
  (pc[t] = "lock" ~> pc[t] = "idle") \/ PassedOver(t)
=============================================================================
