---------------------------- MODULE MessageRouter ----------------------------
(***************************************************************************)
(* The message router of threadMgmt with the internal queues of buffer and *)
(* the lookups of routingTbl and threadBase.  One router thread takes, in  *)
(* turn, a packet and an ack off two queues that any thread fills, and     *)
(* calls the handler registered for the message on its own stack.          *)
(*                                                                         *)
(* The two halves of messageRouter's loop are the same code for the two    *)
(* kinds of message, so the actions have the kind as a parameter.          *)
(***************************************************************************)
EXTENDS Integers, Sequences

CONSTANTS
  Threads,     \* thread IDs a message may be addressed to
  MsgIDs,      \* message IDs
  table,       \* the threads registered with routingTbl
  methods,     \* methods[kind][t]: IDs registered with methodHandler and
               \* ackMethodHandler of thread t
  MaxArrivals  \* bound: messages put into each queue

Kinds == {"packet", "ack"}
Messages == [dest : Threads, msgID : MsgIDs]

ASSUME RouterAssumption ==
  /\ table \subseteq Threads
  /\ methods \in [Kinds -> [Threads -> SUBSET MsgIDs]]
  /\ MaxArrivals \in Nat

VARIABLES
  running,  \* managerThread has started the router thread
  alive,    \* the process has not been killed by the router thread
  queue,    \* internalPacketQueue and internalAckMsgQueue, oldest first
  turn,     \* which half of its loop the router is in
  phase,    \* "pop", "call" (message popped) or "run" (handler called)
  hand,     \* the message popped and not finished: <<>> or <<m>>
  arrived,  \* history: every message put into each queue
  done,     \* history: every message the router has finished with
  handled,  \* history: those of done whose handler ran
  waited    \* history: pops of the other kind while a queue held messages

vars == <<running, alive, queue, turn, phase, hand, arrived, done, handled,
          waited>>

Other(k) == IF k = "packet" THEN "ack" ELSE "packet"

Init ==
  /\ running = FALSE /\ alive = TRUE
  /\ queue = [k \in Kinds |-> <<>>]
  /\ turn = "packet" /\ phase = "pop" /\ hand = <<>>
  /\ arrived = [k \in Kinds |-> <<>>]
  /\ done = [k \in Kinds |-> <<>>]
  /\ handled = [k \in Kinds |-> <<>>]
  /\ waited = [k \in Kinds |-> 0]

-----------------------------------------------------------------------------
\* threadMgmt::managerThread.
managerThread ==
  /\ alive /\ ~running
  /\ running' = TRUE
  /\ UNCHANGED <<alive, queue, turn, phase, hand, arrived, done, handled,
                 waited>>

\* Mutant: push_back in place of push_front.
PushedBack(q, m) == <<m>> \o q
\* push_front into a deque that is read by pop_back.
Pushed(q, m) == Append(q, m)

\* AddToInternalBuffer, by a packetProcessor thread, by the main thread's
\* SendMessage(pkt), or by a handler on the router's own stack: the router
\* holds no lock while it runs a handler.
AddToInternalBuffer(k, m) ==
  /\ alive /\ Len(arrived[k]) < MaxArrivals
  /\ queue' = [queue EXCEPT ![k] = Pushed(@, m)]
  /\ arrived' = [arrived EXCEPT ![k] = Append(@, m)]
  /\ UNCHANGED <<running, alive, turn, phase, hand, done, handled, waited>>

\* Mutant: after a pop the loop goes back to its first half.
FirstHalf(k) == "packet"
\* The half of the loop that follows the one for kind k.
NextTurn(k) == Other(k)

Moves(k) == running /\ alive /\ turn = k

\* PopFromInternalBuffer returned 0: on to the other half of the loop.
PopEmpty(k) ==
  /\ Moves(k) /\ phase = "pop" /\ queue[k] = <<>>
  /\ turn' = NextTurn(k)
  /\ UNCHANGED <<running, alive, queue, phase, hand, arrived, done, handled,
                 waited>>

\* PopFromInternalBuffer returned 1.
Pop(k) ==
  /\ Moves(k) /\ phase = "pop" /\ queue[k] # <<>>
  /\ hand' = <<Head(queue[k])>>
  /\ queue' = [queue EXCEPT ![k] = Tail(@)]
  /\ phase' = "call"
  /\ waited' = [waited EXCEPT ![k] = 0,
                  ![Other(k)] = IF queue[Other(k)] = <<>> THEN 0 ELSE @ + 1]
  /\ UNCHANGED <<running, alive, turn, arrived, done, handled>>

\* Mutant: packets are looked up among the methods for acks.
RoutableByAckTable(k, m) == m.dest \in table /\ m.msgID \in methods["ack"][m.dest]
\* GetThreadInstanceFromID and Get[Ack]MethodBasedOnMsgID find their entries.
Routable(k, m) == m.dest \in table /\ m.msgID \in methods[k][m.dest]

\* Mutant: the popped message is not given up.
FinishKeeping(k) ==
  /\ done' = [done EXCEPT ![k] = Append(@, hand[1])]
  /\ hand' = hand /\ phase' = "pop" /\ turn' = NextTurn(k)
  /\ UNCHANGED <<running, alive, queue, arrived, waited>>

\* The message in hand is finished with.
Finish(k) ==
  /\ done' = [done EXCEPT ![k] = Append(@, hand[1])]
  /\ hand' = <<>>
  /\ phase' = "pop"
  /\ turn' = NextTurn(k)
  /\ UNCHANGED <<running, alive, queue, arrived, waited>>

\* Both lookups succeed: the handler is called ...
Call(k) ==
  /\ Moves(k) /\ phase = "call" /\ Routable(k, hand[1])
  /\ phase' = "run"
  /\ UNCHANGED <<running, alive, queue, turn, hand, arrived, done, handled,
                 waited>>

\* ... and returns.
Return(k) ==
  /\ Moves(k) /\ phase = "run"
  /\ handled' = [handled EXCEPT ![k] = Append(@, hand[1])]
  /\ Finish(k)

\* find(threadID)->second on a missing thread reads past the map's end node:
\* where that is a null pointer the message is logged and forgotten ...
SkipUnknownThread(k) ==
  /\ Moves(k) /\ phase = "call" /\ hand[1].dest \notin table
  /\ UNCHANGED handled
  /\ Finish(k)

\* ... anywhere else the call through it ends the process, as calling the
\* function behind a missing message ID does.
Die(k) ==
  /\ Moves(k) /\ phase = "call" /\ ~Routable(k, hand[1])
  /\ alive' = FALSE
  /\ UNCHANGED <<running, queue, turn, phase, hand, arrived, done, handled,
                 waited>>

Router(k) == PopEmpty(k) \/ Pop(k) \/ Call(k) \/ Return(k)
               \/ SkipUnknownThread(k) \/ Die(k)

Next == \/ managerThread
        \/ \E k \in Kinds : Router(k) \/ \E m \in Messages :
                                            AddToInternalBuffer(k, m)

Spec == Init /\ [][Next]_vars

\* main calls managerThread, the router thread is scheduled, handlers return.
FairSpec == Spec /\ WF_vars(managerThread)
                 /\ WF_vars(\E k \in Kinds : Router(k))

-----------------------------------------------------------------------------
\* The message of kind k the router holds, as a sequence.
InHand(k) == IF turn = k THEN hand ELSE <<>>

\* At most one message is in hand, exactly between its pop and its end.
TypeOK ==
  /\ running \in BOOLEAN /\ alive \in BOOLEAN
  /\ queue \in [Kinds -> Seq(Messages)]
  /\ turn \in Kinds /\ phase \in {"pop", "call", "run"}
  /\ hand \in Seq(Messages) /\ Len(hand) = IF phase = "pop" THEN 0 ELSE 1
  /\ arrived \in [Kinds -> Seq(Messages)]
  /\ done \in [Kinds -> Seq(Messages)]
  /\ handled \in [Kinds -> Seq(Messages)]
  /\ waited \in [Kinds -> Nat]

\* Whatever the interleaving of producers, router and handlers, what the
\* router finished, holds and still has queued is what was put in: nothing is
\* lost, doubled or overtaken by a message of its own kind.
Fifo == \A k \in Kinds : arrived[k] = done[k] \o InHand(k) \o queue[k]

\* Neither queue can starve the other: a waiting message sees at most one
\* message of the other kind go first before its own queue is served.
Alternates == \A k \in Kinds : waited[k] <= 1

\* An application that registers a thread and a method for every message it
\* is sent is safe from the unchecked lookups: the router never ends the
\* process, forgets no message and runs a handler for each one it pops.
SafeWhenRegistered ==
  (\A k \in Kinds : \A i \in DOMAIN arrived[k] :
     arrived[k][i].dest \in table
       /\ arrived[k][i].msgID \in methods[k][arrived[k][i].dest])
  => alive /\ handled = done

\* Each kind of message is delivered as FifoDelivery promises.
PacketsDelivered ==
  INSTANCE FifoDelivery WITH arrived <- arrived["packet"],
                             done <- done["packet"]
AcksDelivered ==
  INSTANCE FifoDelivery WITH arrived <- arrived["ack"], done <- done["ack"]

\* The router implements the queue's promise for packets and for acks.
ImplementsFifo == PacketsDelivered!Spec /\ AcksDelivered!Spec

\* Every message put into a queue is finished with, unless the process dies.
EventuallyDone ==
  \A k \in Kinds : \A i \in 1..MaxArrivals :
    Len(arrived[k]) >= i ~> Len(done[k]) >= i \/ ~alive
=============================================================================
