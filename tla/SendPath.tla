------------------------------- MODULE SendPath -------------------------------
(***************************************************************************)
(* The send path of threadMgmt: SendMessage and SendAckMessage to a        *)
(* communication thread, called by several threads of one process, with    *)
(* the packet and ack objects those threads build and change beforehand.   *)
(*                                                                         *)
(* Packet IDs come from one counter, pktIDCntr, that nothing protects: its *)
(* increment is a load and a store, and two more reads of it follow.       *)
(*                                                                         *)
(* A checksum is the set of the byte strings that entered an exclusive or  *)
(* an odd number of times: entering one twice cancels, as in the code.     *)
(* Equal sets mean equal checksum bytes, whatever the bytes are.           *)
(***************************************************************************)
EXTENDS Integers, Sequences

CONSTANTS
  Threads,  \* the threads that send: main, the router's handlers, ...
  Addrs,    \* thread IDs a message may carry
  Bodies,   \* payloads, and the status and error code of acks
  Full,     \* the payloads among them that fill m_payload: DATA_SIZE bytes
  Comms,    \* communication threads in the routing table
  Locals,   \* application threads in it: their AddToTxBuffer is empty
  Unknown,  \* IDs that are not in it
  Half,     \* number of values of a byte: 256
  MaxCalls  \* bound: calls the threads make on their objects

CntrMod == Half * Half

\* What a payload nobody has set is: CommsPacket is cleared to zero.
None == "none"

ASSUME SendAssumption ==
  /\ Half \in Nat /\ Half > 1
  /\ MaxCalls \in Nat
  /\ None \notin Bodies /\ Full \subseteq Bodies
  /\ Comms \cap Locals = {} /\ Unknown \cap (Comms \cup Locals) = {}

VARIABLES
  pktIDCntr,\* the counter, 16 bits wide
  pc,       \* where each thread is in a send
  reg,      \* the value it loaded from the counter
  obj,      \* its packet or ack object
  wire,     \* messages given to AddToExternalTxBuffer
  issued,   \* history: every packet ID assigned, in the order of the stores
  raced,    \* history: a store overwrote an increment it had not seen
  alive,    \* no lookup has ended the process
  calls     \* number of calls made so far

vars == <<pktIDCntr, pc, reg, obj, wire, issued, raced, alive, calls>>

-----------------------------------------------------------------------------
Xor(a, b) == (a \ b) \cup (b \ a)

ByteOf(n) == IF n = 0 THEN {} ELSE {<<"byte", n>>}
High(n) == ByteOf(n \div Half)
Low(n)  == ByteOf(n % Half)

\* What packet::packet enters into m_cksum: both addresses (and the message
\* ID, which no call changes afterwards).
AddrSum(d, s) == {<<"dest", d>>, <<"src", s>>}
\* What Serialize adds: the payload and its length; nothing for None.
BodySum(b) == IF b = None THEN {} ELSE {<<"body", b>>}

\* What SendMessage enters: bytes of the counter.
CounterBytes == {"byte"} \X (1..Half-1)

\* The exclusive or of everything a message carries behind its packet ID ...
CarriedSum(m) == Xor(AddrSum(m.dest, m.src), BodySum(m.body))
\* ... and from its packet ID on.
CarriedSumWithID(m) == Xor(CarriedSum(m), Xor(High(m.id), Low(m.id)))

Uses == {"fresh", "sealed", "spoiled"}

Sums == SUBSET (CounterBytes \cup ({"dest", "src"} \X Addrs)
                 \cup ({"body"} \X Bodies))

\* An object and a message on the wire: cksum is the member m_cksum, seal the
\* byte behind a packet's payload, use tells how its owner treated it.
Objects == [dest : Addrs, src : Addrs, body : Bodies \cup {None},
            id : 0..CntrMod-1, kind : {"packet", "ack"}, cksum : Sums,
            seal : Sums, use : Uses]

\* packet::packet(dest, src, msgID): everything else is zero.
NewPacket(d, s) ==
  [dest |-> d, src |-> s, body |-> None, id |-> 0, kind |-> "packet",
   cksum |-> AddrSum(d, s), seal |-> {}, use |-> "fresh"]

\* An ack with its setters called: formAckBackMessage copies the addresses of
\* the packet it answers, setAckStatus and setErrorCode give it a body.
NewAck(d, s, b) ==
  [dest |-> d, src |-> s, body |-> b, id |-> 0, kind |-> "ack",
   cksum |-> {}, seal |-> {}, use |-> "fresh"]

Init ==
  /\ pktIDCntr = 0 /\ issued = <<>> /\ raced = FALSE /\ wire = {}
  /\ pc = [t \in Threads |-> "idle"]
  /\ reg = [t \in Threads |-> 0]
  /\ obj \in [Threads -> {NewPacket(d, s) : d, s \in Addrs}]
  /\ alive = TRUE
  /\ calls = 0

-----------------------------------------------------------------------------
\* The owner of an object calls one of its methods.
Call(t, o) ==
  /\ alive /\ pc[t] = "idle" /\ calls < MaxCalls
  /\ calls' = calls + 1
  /\ obj' = [obj EXCEPT ![t] = o]
  /\ UNCHANGED <<pktIDCntr, pc, reg, wire, issued, raced, alive>>

Construct(t) ==
  \E d, s \in Addrs :
    \/ Call(t, NewPacket(d, s))
    \/ \E b \in Bodies : Call(t, NewAck(d, s, b))

\* Mutant: the checksum byte is stored before the payload has entered it.
SerializedEarly(o, b) ==
  [o EXCEPT !.body = b, !.cksum = Xor(@, BodySum(b)), !.seal = o.cksum]
\* packet::Serialize: the payload enters m_cksum, whose value is then stored
\* behind the payload.  It is complete if nothing else has entered so far.
\* Behind a full payload lies m_cksum itself, so nothing is stored apart.
Serialized(o, b) ==
  [o EXCEPT !.body = b,
            !.cksum = Xor(@, BodySum(b)),
            !.seal = IF b \in Full THEN {} ELSE Xor(o.cksum, BodySum(b))]

Serialize(t) ==
  /\ obj[t].kind = "packet"
  /\ \E b \in Bodies :
       Call(t, [Serialized(obj[t], b) EXCEPT
                  !.use = IF @ = "fresh" THEN "sealed" ELSE "spoiled"])

\* setDestID and setSrcID leave the checksum as it is.
setDestID(t) ==
  /\ obj[t].kind = "packet"
  /\ \E d \in Addrs : Call(t, [obj[t] EXCEPT !.dest = d, !.use = "spoiled"])
setSrcID(t) ==
  /\ obj[t].kind = "packet"
  /\ \E s \in Addrs : Call(t, [obj[t] EXCEPT !.src = s, !.use = "spoiled"])

\* setPktID, and calCulateChecksum called by the application.
setPktID(t) ==
  /\ obj[t].kind = "ack"
  /\ \E i \in 0..CntrMod-1 : Call(t, [obj[t] EXCEPT !.id = i])
calCulateChecksum(t) ==
  /\ obj[t].kind = "ack"
  /\ Call(t, [obj[t] EXCEPT !.cksum = CarriedSumWithID(obj[t])])

-----------------------------------------------------------------------------
At(t, step) == alive /\ pc[t] = step
Goto(t, step) == pc' = [pc EXCEPT ![t] = step]

\* SendMessage(pkt, comm) or SendAckMessage(pkt, comm) is called (comm is not
\* used before Add): pktIDCntr++ first loads the counter.  A packet sent
\* without Serialize takes the ID into the sum a later Serialize starts from.
Send(t) ==
  /\ At(t, "idle") /\ calls < MaxCalls
  /\ calls' = calls + 1
  /\ reg' = [reg EXCEPT ![t] = pktIDCntr]
  /\ obj' = [obj EXCEPT ![t].use = IF @ = "fresh" THEN "spoiled" ELSE @]
  /\ Goto(t, "store")
  /\ UNCHANGED <<pktIDCntr, wire, issued, raced, alive>>

\* Mutant: the counter is wider than the packet ID.
IncrementedWide(n) == n + 1
\* Mutant: the loaded value is stored again.
IncrementedNot(n) == n
\* The 16-bit increment.
Incremented(n) == (n + 1) % CntrMod

\* ... and stores it incremented; the loaded value becomes m_pktID.
Store(t) ==
  /\ At(t, "store")
  /\ pktIDCntr' = Incremented(reg[t])
  /\ obj' = [obj EXCEPT ![t].id = reg[t]]
  /\ issued' = Append(issued, reg[t])
  /\ raced' = (raced \/ pktIDCntr # reg[t])
  /\ Goto(t, "high")
  /\ UNCHANGED <<reg, wire, alive, calls>>

\* m_cksum ^= (pktIDCntr >> 8) & 0xFF; the counter is the next free ID by now.
EnterHigh(t) ==
  /\ At(t, "high")
  /\ obj' = [obj EXCEPT ![t].cksum = Xor(@, High(pktIDCntr))]
  /\ Goto(t, "low")
  /\ UNCHANGED <<pktIDCntr, reg, wire, issued, raced, alive, calls>>

\* m_cksum ^= pktIDCntr & 0xFF.
EnterLow(t) ==
  /\ At(t, "low")
  /\ obj' = [obj EXCEPT ![t].cksum = Xor(@, Low(pktIDCntr))]
  /\ Goto(t, IF obj[t].kind = "ack" THEN "sum" ELSE "add")
  /\ UNCHANGED <<pktIDCntr, reg, wire, issued, raced, alive, calls>>

\* SendAckMessage: calCulateChecksum clears m_cksum, whatever has entered, and
\* sums the ack from its ID to its error code's low byte.
Sum(t) ==
  /\ At(t, "sum")
  /\ obj' = [obj EXCEPT ![t].cksum = CarriedSumWithID(obj[t])]
  /\ Goto(t, "add")
  /\ UNCHANGED <<pktIDCntr, reg, wire, issued, raced, alive, calls>>

\* GetThreadInstanceFromID and AddToTxBuffer: a communication thread queues
\* the bytes, an application thread's inherited method forgets them, and an
\* unknown ID reads past the end of the map: a null pointer is logged, any
\* other ends the process.
Add(t) ==
  /\ At(t, "add")
  /\ \E c \in Comms \cup Locals \cup Unknown :
       /\ wire' = IF c \in Comms THEN wire \cup {obj[t]} ELSE wire
       /\ alive' \in IF c \in Unknown THEN BOOLEAN ELSE {TRUE}
  /\ Goto(t, "idle")
  /\ UNCHANGED <<pktIDCntr, reg, obj, issued, raced, calls>>

Next == \E t \in Threads :
  \/ Construct(t) \/ Serialize(t) \/ setDestID(t) \/ setSrcID(t)
  \/ setPktID(t) \/ calCulateChecksum(t)
  \/ Send(t) \/ Store(t) \/ EnterHigh(t) \/ EnterLow(t)
  \/ Sum(t) \/ Add(t)

Spec == Init /\ [][Next]_vars
-----------------------------------------------------------------------------
TypeOK ==
  /\ pktIDCntr \in 0..CntrMod-1
  /\ pc \in [Threads -> {"idle", "store", "high", "low", "sum", "add"}]
  /\ reg \in [Threads -> 0..CntrMod-1]
  /\ obj \in [Threads -> Objects]
  /\ wire \subseteq Objects
  /\ issued \in Seq(0..CntrMod-1)
  /\ raced \in BOOLEAN /\ alive \in BOOLEAN
  /\ calls \in 0..MaxCalls

\* The lock pktIDCntr lacks is needed for its stores only.  As long as none
\* has overwritten an increment it had not seen, a whole turn of the counter
\* lies between two messages with the same ID, whatever the order in which
\* the other reads of SendMessage and SendAckMessage see the counter.
UniqueIDs ==
  ~raced => \A j, k \in DOMAIN issued :
              issued[j] = issued[k] => j = k \/ j - k >= CntrMod \/ k - j >= CntrMod

\* The checksum byte among the bytes that go out: an ack's is its m_cksum, a
\* packet's follows its payload, which for a full one is m_cksum again.
CheckByte(m) == IF m.kind = "ack" \/ m.body \in Full THEN m.cksum ELSE m.seal

\* What goes out with a message for the receiver to check it by, however
\* often and by however many threads it is sent, raced counter or not:
\* - a packet serialized once, before it was first sent, and with its
\*   addresses left alone, carries the sum of its addresses and payload; if
\*   the payload is full, the bytes of the counter that the sends entered
\*   come on top, and nothing else does;
\* - a packet sent without Serialize carries a zero, whatever it holds;
\* - an ack carries its sum with the ID it was given, whatever had entered
\*   its checksum before.
ChecksumsMatch ==
  \A m \in wire :
    /\ m.use = "sealed" =>
         IF m.body \in Full
         THEN Xor(CheckByte(m), CarriedSum(m)) \subseteq CounterBytes
         ELSE CheckByte(m) = CarriedSum(m)
    /\ m.kind = "packet" /\ m.body = None => CheckByte(m) = {}
    /\ m.kind = "ack" => CheckByte(m) = CarriedSumWithID(m)
=============================================================================
