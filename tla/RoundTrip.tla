------------------------------- MODULE RoundTrip -------------------------------
(***************************************************************************)
(* Two processes built like the ServerClient example, composed: main       *)
(* sends packets through its communication thread, the peer's handler      *)
(* answers each with an ack, and the ack comes back through both links.    *)
(*                                                                         *)
(* The parts appear here by what their own modules establish.  The way     *)
(* from AddToTxBuffer to the peer's internal queues may lose messages and  *)
(* keeps the order of the others, as long as no send is torn (InOrder of   *)
(* SocketLink) and no message has a header inside (Unmistakable of         *)
(* PacketProcessor); where it does not, it hands on strays.  A router      *)
(* finishes the messages of a kind in order (MessageRouter); a send        *)
(* assigns the next packet ID (SendPath, without its races).               *)
(***************************************************************************)
EXTENDS Integers, Sequences

CONSTANTS
  Threads,   \* thread IDs a message may carry
  MsgIDs,    \* message IDs
  Scripts,   \* what the two mains may want to send
  table,     \* table[p]: threads process p registers
  handlers,  \* handlers[p][kind]: the <<thread, message ID>> it has methods for
  MaxScript, \* bound: packets a main sends
  Strays,    \* what a torn or mistaken stream may bring, of Messages
  MaxStrays, \* bound: how often it does
  Half       \* number of values of a byte: 256

Procs == {"server", "client"}
Peer(p) == IF p = "server" THEN "client" ELSE "server"
Kinds == {"packet", "ack"}

\* What one process can have sent: n is history, the number of the packet or,
\* of an ack, of the packet it answers.  Nothing in the code carries it.
Messages == [kind : Kinds, dest : Threads, src : Threads, msgID : MsgIDs,
             id : 0..Half*Half-1, n : Nat]
Orders == [dest : Threads, src : Threads, msgID : MsgIDs]

ASSUME RoundTripAssumption ==
  /\ Scripts \subseteq [Procs -> Seq(Orders)] /\ MaxScript \in Nat
  /\ \A s \in Scripts : \A p \in Procs : Len(s[p]) <= MaxScript
  /\ table \in [Procs -> SUBSET Threads]
  /\ handlers \in [Procs -> [Kinds -> SUBSET (Threads \X MsgIDs)]]
  /\ Strays \subseteq Messages /\ MaxStrays \in Nat
  /\ Half \in Nat \ {0}

VARIABLES
  aligned,  \* does every pop of a packetProcessor find one whole message,
            \* with no header inside?
  script,   \* the packets each main sends (neither ever changes)
  strays,   \* history: messages handed on although nobody sent them then
  pktIDCntr,\* the counter of each process
  net,      \* net[p]: what p sent and its peer has not deserialized yet
  inbox,    \* the internal queues of each process
  running,  \* managerThread has been called
  alive,    \* no lookup has ended the process
  hand,     \* the message each router has popped: <<>> or <<m>>
  sent,     \* history: packets each main has sent
  handled   \* history: messages each process has run a handler for

setting == <<aligned, script, strays>>
vars == <<setting, pktIDCntr, net, inbox, running, alive, hand, sent, handled>>

Init ==
  /\ aligned \in BOOLEAN /\ script \in Scripts /\ strays = 0
  /\ pktIDCntr = [p \in Procs |-> 0]
  /\ net = [p \in Procs |-> <<>>]
  /\ inbox = [p \in Procs |-> [k \in Kinds |-> <<>>]]
  /\ running = [p \in Procs |-> FALSE] /\ alive = [p \in Procs |-> TRUE]
  /\ hand = [p \in Procs |-> <<>>]
  /\ sent = [p \in Procs |-> <<>>]
  /\ handled = [p \in Procs |-> [k \in Kinds |-> <<>>]]

-----------------------------------------------------------------------------
\* Mutant: the counter is wider than the packet ID.
NextIDWide(p) == pktIDCntr[p] + 1
\* pktIDCntr++.
NextID(p) == (pktIDCntr[p] + 1) % (Half * Half)

\* threadMgmt::SendMessage and SendAckMessage to the communication thread,
\* which the constructors have registered.
Sends(p, m) ==
  /\ net' = [net EXCEPT ![p] = Append(@, m)]
  /\ pktIDCntr' = [pktIDCntr EXCEPT ![p] = NextID(p)]

\* main, before or after it calls managerThread.  Returning from main does not
\* end the process: the destructor of its communication thread joins
\* packetProcessor, which never ends.
main(p) ==
  /\ alive[p] /\ Len(sent[p]) < Len(script[p])
  /\ LET o == script[p][Len(sent[p]) + 1]
         m == [kind |-> "packet", dest |-> o.dest, src |-> o.src,
               msgID |-> o.msgID, id |-> pktIDCntr[p], n |-> Len(sent[p]) + 1]
     IN Sends(p, m) /\ sent' = [sent EXCEPT ![p] = Append(@, m)]
  /\ UNCHANGED <<setting, inbox, running, alive, hand, handled>>

managerThread(p) ==
  /\ alive[p] /\ ~running[p]
  /\ running' = [running EXCEPT ![p] = TRUE]
  /\ UNCHANGED <<setting, pktIDCntr, net, inbox, alive, hand, sent, handled>>

\* The receiver's checksum takes in the packet ID, which Serialize's does not.
Acceptable(m) == m.kind = "ack" \/ m.id % Half = m.id \div Half

\* A message met alone is handed on exactly if it is acceptable; between
\* others in a chunk anything may happen to it.
Passes(m) == aligned => Acceptable(m)
Fails(m)  == aligned => ~Acceptable(m)

Arriving(p) == alive[p] /\ net[Peer(p)] # <<>>

\* AddToInternalBuffer by the packetProcessor of p ...
Deliver(p) ==
  /\ Arriving(p) /\ Passes(Head(net[Peer(p)]))
  /\ LET m == Head(net[Peer(p)])
     IN inbox' = [inbox EXCEPT ![p][m.kind] = Append(@, m)]
  /\ net' = [net EXCEPT ![Peer(p)] = Tail(@)]
  /\ UNCHANGED <<setting, pktIDCntr, running, alive, hand, sent, handled>>

\* ... of a message that nobody sent then: a partial send() has put a whole
\* buffer on the way again, or the packetProcessor, which looks for headers
\* everywhere, has found one inside a message ...
Stray(p) ==
  /\ alive[p] /\ ~aligned /\ strays < MaxStrays
  /\ strays' = strays + 1
  /\ \E m \in Strays : inbox' = [inbox EXCEPT ![p][m.kind] = Append(@, m)]
  /\ UNCHANGED <<aligned, script, pktIDCntr, net, running, alive, hand, sent,
                 handled>>

\* ... or of nothing, whatever took the message on its way.
Lose(p) ==
  /\ Arriving(p) /\ Fails(Head(net[Peer(p)]))
  /\ net' = [net EXCEPT ![Peer(p)] = Tail(@)]
  /\ UNCHANGED <<setting, pktIDCntr, inbox, running, alive, hand, sent, handled>>

-----------------------------------------------------------------------------
Pop(p, k) ==
  /\ running[p] /\ alive[p] /\ hand[p] = <<>> /\ inbox[p][k] # <<>>
  /\ hand' = [hand EXCEPT ![p] = <<Head(inbox[p][k])>>]
  /\ inbox' = [inbox EXCEPT ![p][k] = Tail(@)]
  /\ UNCHANGED <<setting, pktIDCntr, net, running, alive, sent, handled>>

Known(p, m) == m.dest \in table[p]
Routable(p, m) == Known(p, m) /\ <<m.dest, m.msgID>> \in handlers[p][m.kind]

Handles(p, m) == handled' = [handled EXCEPT ![p][m.kind] = Append(@, m)]

\* Mutant: the ack is addressed to the sender of the packet.
AckToSource(p, m) ==
  [kind |-> "ack", dest |-> m.src, src |-> m.dest, msgID |-> m.msgID,
   id |-> pktIDCntr[p], n |-> m.n]
\* ackMsg::formAckBackMessage: addresses and message ID are the packet's.  The
\* packet ID is not: SendAckMessage gives the ack the next of its own process.
AckFor(p, m) ==
  [kind |-> "ack", dest |-> m.dest, src |-> m.src, msgID |-> m.msgID,
   id |-> pktIDCntr[p], n |-> m.n]

\* Mutant: the handler sends its ack twice.
AnswersTwice(p, m) ==
  /\ net' = [net EXCEPT ![p] = @ \o <<AckFor(p, m), AckFor(p, m)>>]
  /\ pktIDCntr' = [pktIDCntr EXCEPT ![p] = NextID(p)]
Answers(p, m) == Sends(p, AckFor(p, m))

\* The client's example::MessageHandler.
MessageHandler(p) ==
  /\ alive[p] /\ hand[p] # <<>>
  /\ LET m == hand[p][1]
     IN m.kind = "packet" /\ Routable(p, m) /\ Handles(p, m) /\ Answers(p, m)
  /\ hand' = [hand EXCEPT ![p] = <<>>]
  /\ UNCHANGED <<setting, inbox, running, alive, sent>>

\* The server's example::rxMsgHandler prints the ack.
rxMsgHandler(p) ==
  /\ alive[p] /\ hand[p] # <<>>
  /\ LET m == hand[p][1]
     IN m.kind = "ack" /\ Routable(p, m) /\ Handles(p, m)
  /\ hand' = [hand EXCEPT ![p] = <<>>]
  /\ UNCHANGED <<setting, pktIDCntr, net, inbox, running, alive, sent>>

\* find()->second of a missing entry: a missing thread may be read as a null
\* pointer and skipped ...
Skip(p) ==
  /\ alive[p] /\ hand[p] # <<>> /\ ~Known(p, hand[p][1])
  /\ hand' = [hand EXCEPT ![p] = <<>>]
  /\ UNCHANGED <<setting, pktIDCntr, net, inbox, running, alive, sent, handled>>

\* ... anything else ends the process.
Die(p) ==
  /\ alive[p] /\ hand[p] # <<>> /\ ~Routable(p, hand[p][1])
  /\ alive' = [alive EXCEPT ![p] = FALSE]
  /\ UNCHANGED <<setting, pktIDCntr, net, inbox, running, hand, sent, handled>>

Finishes(p) == MessageHandler(p) \/ rxMsgHandler(p) \/ Skip(p) \/ Die(p)

Steps(p) ==
  \/ main(p) \/ managerThread(p) \/ Deliver(p) \/ Lose(p)
  \/ \E k \in Kinds : Pop(p, k)
  \/ Finishes(p)

Next == \E p \in Procs : Steps(p) \/ Stray(p)

Spec == Init /\ [][Next]_vars

\* Every thread runs on.  The router serves both queues in turn (Alternates
\* of MessageRouter), so neither waits for the other forever.
FairSpec == Spec /\ \A p \in Procs :
  /\ WF_vars(main(p)) /\ WF_vars(managerThread(p))
  /\ WF_vars(Deliver(p) \/ Lose(p)) /\ WF_vars(Finishes(p))
  /\ \A k \in Kinds : SF_vars(Pop(p, k))

-----------------------------------------------------------------------------
Log == Seq(Messages)

TypeOK ==
  /\ aligned \in BOOLEAN /\ script \in Scripts /\ strays \in 0..MaxStrays
  /\ pktIDCntr \in [Procs -> 0..Half*Half-1]
  /\ net \in [Procs -> Log] /\ sent \in [Procs -> Log]
  /\ inbox \in [Procs -> [Kinds -> Log]] /\ handled \in [Procs -> [Kinds -> Log]]
  /\ running \in [Procs -> BOOLEAN] /\ alive \in [Procs -> BOOLEAN]
  /\ hand \in [Procs -> Log] /\ \A p \in Procs : Len(hand[p]) <= 1

\* Nothing in an ack says which packet it answers, but their order does, if the
\* links have brought no stray: the acks a process handles answer different
\* packets of its own, in the order it sent them, and each of them the peer had
\* handled.
AcksInOrder == strays = 0 => \A p \in Procs :
  LET acks == handled[p]["ack"] IN
    /\ \A i, j \in DOMAIN acks : i < j => acks[i].n < acks[j].n
    /\ \A i \in DOMAIN acks : \E j \in DOMAIN handled[Peer(p)]["packet"] :
         handled[Peer(p)]["packet"][j].n = acks[i].n

\* An ack is addressed like the packet it answers, so a packet is safe to send
\* if its destination is registered on both sides: with a packet method there
\* and an ack method here.
SafeOrder(p, o) ==
  /\ o.dest \in table[p] \cap table[Peer(p)]
  /\ <<o.dest, o.msgID>> \in handlers[Peer(p)]["packet"] \cap handlers[p]["ack"]

\* If both mains send only such packets, a message meets a missing entry only
\* after the links have brought a stray.
SafeWhenBothRegister ==
  (strays = 0
     /\ \A p \in Procs : \A i \in DOMAIN script[p] : SafeOrder(p, script[p][i]))
    => \A p \in Procs :
         /\ alive[p]
         /\ \A i \in DOMAIN hand[p] : Routable(p, hand[p][i])

Acked(p, n) == \E i \in DOMAIN handled[p]["ack"] : handled[p]["ack"][i].n = n

\* Over aligned links, which bring no strays, every packet with an acceptable
\* ID is answered, and the answer handled, if all packets are safe to send.
EventuallyAcked == \A p \in Procs, n \in 1..MaxScript :
  (aligned /\ n \in DOMAIN sent[p] /\ Acceptable(sent[p][n])
     /\ \A q \in Procs : \A i \in DOMAIN script[q] : SafeOrder(q, script[q][i]))
  ~> Acked(p, n)
=============================================================================
