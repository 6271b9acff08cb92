------------------------------- MODULE RouterPool -------------------------------
(***************************************************************************)
(* The message router when managerThread is called more than once: every   *)
(* call starts one more thread that runs messageRouter on the same two     *)
(* queues (and forgets the thread started before).  Messages are numbered  *)
(* in the order they are put into the queue of their kind; a lookup that   *)
(* ends the process is left to MessageRouter.                              *)
(***************************************************************************)
EXTENDS Integers, Sequences, FiniteSets

CONSTANTS
  Routers,     \* the threads managerThread starts, one for each call
  MaxArrivals  \* bound: messages put into each queue

ASSUME PoolAssumption == IsFiniteSet(Routers) /\ MaxArrivals \in Nat

Kinds == {"packet", "ack"}

VARIABLES
  started,  \* the routers managerThread has started
  turn,     \* the half of its loop each router is in
  hand,     \* the message it popped and has not finished; 0 for none
  queue,    \* internalPacketQueue and internalAckMsgQueue, oldest first
  arrived,  \* history: the number of messages put into each queue
  done      \* history: messages whose handler has returned, in that order

vars == <<started, turn, hand, queue, arrived, done>>

Other(k) == IF k = "packet" THEN "ack" ELSE "packet"

Init ==
  /\ started = {}
  /\ turn = [r \in Routers |-> "packet"]
  /\ hand = [r \in Routers |-> 0]
  /\ queue = [k \in Kinds |-> <<>>]
  /\ arrived = [k \in Kinds |-> 0]
  /\ done = [k \in Kinds |-> <<>>]

-----------------------------------------------------------------------------
\* threadMgmt::managerThread does not ask whether a router runs already.
managerThread ==
  \E r \in Routers \ started :
    /\ started' = started \cup {r}
    /\ UNCHANGED <<turn, hand, queue, arrived, done>>

\* Mutant: push_back in place of push_front.
PushedBack(q, n) == <<n>> \o q
\* push_front into a deque that is read by pop_back.
Pushed(q, n) == Append(q, n)

AddToInternalBuffer(k) ==
  /\ arrived[k] < MaxArrivals
  /\ arrived' = [arrived EXCEPT ![k] = @ + 1]
  /\ queue' = [queue EXCEPT ![k] = Pushed(@, arrived[k] + 1)]
  /\ UNCHANGED <<started, turn, hand, done>>

\* Mutant: a thread runs the loop before managerThread starts it.
RunsAlways(r) == hand[r] = 0
\* The router is at a pop.
Runs(r) == r \in started /\ hand[r] = 0

\* Mutant: the loop stays with a queue it found empty.
NextTurnStuck(k) == k
\* The half of the loop that follows the one for kind k.
NextTurn(k) == Other(k)

PopEmpty(r) ==
  /\ Runs(r) /\ queue[turn[r]] = <<>>
  /\ turn' = [turn EXCEPT ![r] = NextTurn(@)]
  /\ UNCHANGED <<started, hand, queue, arrived, done>>

\* Mutant: pop_back is forgotten.
RestAll(q) == q
\* pop_back after back, under the mutex of the queue.
Rest(q) == Tail(q)

Pop(r) ==
  /\ Runs(r) /\ queue[turn[r]] # <<>>
  /\ hand' = [hand EXCEPT ![r] = Head(queue[turn[r]])]
  /\ queue' = [queue EXCEPT ![turn[r]] = Rest(@)]
  /\ UNCHANGED <<started, turn, arrived, done>>

\* The handler is looked up, called without any lock, and returns.
Return(r) ==
  /\ hand[r] # 0
  /\ done' = [done EXCEPT ![turn[r]] = Append(@, hand[r])]
  /\ hand' = [hand EXCEPT ![r] = 0]
  /\ turn' = [turn EXCEPT ![r] = Other(@)]
  /\ UNCHANGED <<started, queue, arrived>>

messageRouter(r) == PopEmpty(r) \/ Pop(r) \/ Return(r)

Next == \/ managerThread
        \/ \E k \in Kinds : AddToInternalBuffer(k)
        \/ \E r \in Routers : messageRouter(r)

Spec == Init /\ [][Next]_vars

\* Every router thread is scheduled and every handler returns.
FairSpec == Spec /\ \A r \in Routers : WF_vars(messageRouter(r))

-----------------------------------------------------------------------------
TypeOK ==
  /\ started \subseteq Routers
  /\ turn \in [Routers -> Kinds]
  /\ hand \in [Routers -> Nat]
  /\ \A r \in Routers \ started : hand[r] = 0
  /\ queue \in [Kinds -> Seq(Nat)]
  /\ arrived \in [Kinds -> Nat]
  /\ done \in [Kinds -> Seq(Nat)]

Finished(k) == {done[k][i] : i \in DOMAIN done[k]}
Held(k) == {hand[r] : r \in {q \in Routers : turn[q] = k /\ hand[q] # 0}}
Popped(k) == arrived[k] - Len(queue[k])

\* Each message is in exactly one place, whichever routers race for it: the
\* newest ones are queued in their order, and each of the others has been
\* finished once or is held by a single router.
Accounted == \A k \in Kinds :
  /\ Popped(k) >= 0
  /\ \A i \in 1..Len(queue[k]) : queue[k][i] = Popped(k) + i
  /\ Finished(k) \cup Held(k) = 1..Popped(k)
  /\ Finished(k) \cap Held(k) = {}
  /\ \A q, r \in Routers :
       turn[q] = turn[r] /\ hand[q] = hand[r] /\ hand[q] # 0 => q = r

PacketWindow == INSTANCE WindowedDelivery WITH
  workers <- Cardinality(started), arrived <- arrived["packet"],
  done <- done["packet"]
AckWindow == INSTANCE WindowedDelivery WITH
  workers <- Cardinality(started), arrived <- arrived["ack"],
  done <- done["ack"]

\* With n routers a handler may return before those of up to n - 1 earlier
\* messages of its kind, never of more; with one router there is no
\* overtaking.  No message is handled twice.
ImplementsWindow == PacketWindow!Spec /\ AckWindow!Spec

\* Once a router runs, every message of both kinds is handled.
EventuallyHandled == \A k \in Kinds, n \in 1..MaxArrivals :
  arrived[k] >= n /\ started # {} ~> n \in Finished(k)
=============================================================================
