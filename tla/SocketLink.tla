------------------------------ MODULE SocketLink ------------------------------
(***************************************************************************)
(* One direction of an ICL connection: the byte pipe that socket.cpp       *)
(* builds from two byte deques and four threads.                           *)
(*                                                                         *)
(*   AddToExternalTxBuffer -> tx -> sendThread -> TCP -> recvThread -> rx  *)
(*     -> PopFromExternalRxBuffer (called by the packetProcessor thread)   *)
(*                                                                         *)
(* tcpServer and tcpClient hold the same code twice, so one module stands  *)
(* for both directions.  A byte is the position at which it was handed to  *)
(* AddToExternalTxBuffer: what the properties ask is which bytes arrive,   *)
(* in which order, and which ones vanish on the way.                       *)
(***************************************************************************)
EXTENDS Integers, Sequences, FiniteSets, Functions

CONSTANTS
  Sizes,     \* numbers of bytes one AddToTxBuffer call may carry
  MaxTotal,  \* bound: bytes handed over in one behaviour
  SendBuf,   \* sizeof(buffer) in sendThread: 256
  RecvBuf,   \* sizeof(bufferBytes) in recvThread: 256
  PopBuf,    \* TOTAL_PACKET_SIZE_MAX, asked by packetProcessor: 268
  CountMod,  \* the Pop functions return uint8_t: 256
  KernelBuf, \* bound: bytes the kernel keeps before send() has to wait
  MaxShort,  \* bound: send() calls that take only a part of the buffer
  Faults     \* subset of FaultKinds that the environment may produce

FaultKinds ==
  {"acceptFailed", "unaccepted", "reset", "senderExit", "receiverExit"}

ASSUME LinkAssumption ==
  /\ Sizes \subseteq Nat \ {0}
  /\ MaxTotal \in Nat /\ MaxShort \in Nat
  /\ SendBuf \in Nat \ {0} /\ RecvBuf \in Nat \ {0}
  /\ PopBuf \in Nat \ {0} /\ CountMod \in Nat \ {0}
  /\ KernelBuf \in Nat /\ SendBuf <= KernelBuf
  /\ Faults \subseteq FaultKinds

VARIABLES
  tx,      \* externalTxPacketQueue of the sender, oldest byte first
  out,     \* what sendThread popped and has not got rid of yet
  net,     \* bytes the kernel took and recvThread has not read
  rx,      \* externalRxPacketQueue of the receiver, oldest byte first
  got,     \* bytes packetProcessor was told it received
  conn,    \* "noFd": the sender's accept() failed; "up"; "down": reset or one
           \* side gone
  heard,   \* the receiver's recvThread has this connection's descriptor
  dead,    \* the processes that have ended, of {"sender", "receiver"}
  total,   \* bytes handed to AddToTxBuffer so far
  lostTx, lostRx,  \* bytes the Pop functions took and did not report
  cut,     \* bytes lost with a connection or a process
  short,   \* number of partial sends so far
  full     \* the queues ("tx", "rx") that ever held CountMod bytes or more

vars == <<tx, out, net, rx, got, conn, heard, dead, total, lostTx, lostRx,
          cut, short, full>>

Lesser(a, b) == IF a <= b THEN a ELSE b
First(s, k)  == SubSeq(s, 1, k)

\* Mutant: the popping loop steps over a byte it has not copied.
FromSkipping(s, k) == SubSeq(s, k + 1, Len(s))
From(s, k) == SubSeq(s, k, Len(s))

\* Mutant: the bytes go in at the end the Pop functions take from.
PushBack(q, s) == s \o q
\* AddToExternal*Buffer: push_front byte by byte, read back by pop_back.
Enqueue(q, s) == q \o s

\* Mutant: a deque is taken for empty while it holds a single byte.
HoldsSeveral(q) == Len(q) > 1
HasData(q) == q # <<>>

\* Mutants: a count that wraps one too early, one that saturates.
ReturnedInFewerBits(k) == k % (CountMod - 1)
ReturnedSaturated(k) == Lesser(k, CountMod - 1)
\* The count a Pop function hands back after popping k bytes: int i is
\* returned as uint8_t.
Returned(k) == k % CountMod

\* The descriptors the two ends start with.  At most one end is a tcpServer.
\* As the sender it may hold the -1 of a failed accept().  As the receiver it
\* may not hold this connection at all: its accept() failed, or returned
\* another client, and the kernel alone keeps this one, in the backlog.
Opened ==
  \/ conn = "up" /\ heard
  \/ "acceptFailed" \in Faults /\ conn = "noFd" /\ heard
  \/ "unaccepted" \in Faults /\ conn = "up" /\ ~heard

Init ==
  /\ tx = <<>> /\ out = <<>> /\ net = <<>> /\ rx = <<>> /\ got = <<>>
  /\ conn \in {"up", "noFd"} /\ heard \in BOOLEAN /\ Opened
  /\ dead = {} /\ total = 0 /\ short = 0
  /\ lostTx = {} /\ lostRx = {} /\ cut = {} /\ full = {}

-----------------------------------------------------------------------------
\* Mutant: the copying loop runs while i <= numOfBytes.
AddOneTooMany(n) ==
  /\ "sender" \notin dead /\ total + n <= MaxTotal
  /\ tx' = Enqueue(tx, [i \in 1..n+1 |-> total + i])
  /\ total' = total + n
  /\ UNCHANGED <<out, net, rx, got, conn, heard, dead, lostTx, lostRx, cut, short,
                 full>>

\* AddToExternalTxBuffer: n bytes appended under the mutex.
AddToTxBuffer(n) ==
  /\ "sender" \notin dead
  /\ total + n <= MaxTotal
  /\ tx' = Enqueue(tx, [i \in 1..n |-> total + i])
  /\ total' = total + n
  /\ full' = IF Len(tx) + n >= CountMod THEN full \cup {"tx"} ELSE full
  /\ UNCHANGED <<out, net, rx, got, conn, heard, dead, lostTx, lostRx, cut, short>>

\* sendThread, upper half: pop up to SendBuf bytes; a returned count of 0
\* sends it back to the top of its loop, and so does the descriptor -1.
PopTx ==
  /\ "sender" \notin dead /\ out = <<>> /\ HasData(tx)
  /\ LET k == Lesser(Len(tx), SendBuf)
         r == Returned(k)
     IN /\ tx' = From(tx, k + 1)
        /\ lostTx' = lostTx \cup {tx[i] : i \in r+1..k}
        /\ out' = IF conn = "noFd" THEN <<>> ELSE First(tx, r)
        /\ cut' = IF conn = "noFd" THEN cut \cup {tx[i] : i \in 1..r} ELSE cut
  /\ UNCHANGED <<net, rx, got, conn, heard, dead, total, lostRx, short, full>>

\* sendThread, the send loop: the kernel takes the whole buffer, as soon as it
\* has room for it ...
Send ==
  /\ "sender" \notin dead /\ conn = "up" /\ out # <<>>
  /\ Len(net) + Len(out) <= KernelBuf
  /\ net' = net \o out
  /\ out' = <<>>
  /\ UNCHANGED <<tx, rx, got, conn, heard, dead, total, lostTx, lostRx, cut, short,
                 full>>

\* ... or only its first k bytes: the loop sends the whole buffer again.
SendShort ==
  /\ "sender" \notin dead /\ conn = "up" /\ short < MaxShort
  /\ \E k \in 1..Len(out)-1 :
       /\ Len(net) + k <= KernelBuf
       /\ net' = net \o First(out, k)
  /\ short' = short + 1
  /\ UNCHANGED <<tx, out, rx, got, conn, heard, dead, total, lostTx, lostRx, cut,
                 full>>

\* On a broken connection the kernel may still take the bytes of one call;
\* later calls raise SIGPIPE, which nothing in the library handles.
SendDown ==
  /\ "sender" \notin dead /\ conn = "down" /\ out # <<>>
  /\ out' = <<>>
  /\ \/ /\ cut' = cut \cup Range(out)
        /\ UNCHANGED <<tx, dead>>
     \/ /\ cut' = cut \cup Range(out) \cup Range(tx)
        /\ tx' = <<>>
        /\ dead' = dead \cup {"sender"}
  /\ UNCHANGED <<net, rx, got, conn, heard, total, lostTx, lostRx, short, full>>

\* recvThread: recv() returns any prefix of what has arrived, up to its
\* buffer's size, and AddToExternalRxBuffer queues it.  The return values 0
\* and -1 leave everything as it is, and so does, for ever, a descriptor that
\* is -1 or another client's.
Recv ==
  /\ "receiver" \notin dead /\ heard /\ net # <<>>
  /\ \E k \in 1..Lesser(Len(net), RecvBuf) :
       /\ rx' = Enqueue(rx, First(net, k))
       /\ net' = From(net, k + 1)
       /\ full' = IF Len(rx) + k >= CountMod THEN full \cup {"rx"} ELSE full
  /\ UNCHANGED <<tx, out, got, conn, heard, dead, total, lostTx, lostRx, cut, short>>

\* packetProcessor: PopRxBuffer(bufferBytes, TOTAL_PACKET_SIZE_MAX).
PopRx ==
  /\ "receiver" \notin dead /\ HasData(rx)
  /\ LET k == Lesser(Len(rx), PopBuf)
         r == Returned(k)
     IN /\ rx' = From(rx, k + 1)
        /\ got' = got \o First(rx, r)
        /\ lostRx' = lostRx \cup {rx[i] : i \in r+1..k}
  /\ UNCHANGED <<tx, out, net, conn, heard, dead, total, lostTx, cut, short, full>>

-----------------------------------------------------------------------------
\* The environment: a reset loses a suffix of what is in flight, and a process
\* that ends takes its queues with it.
Reset ==
  /\ "reset" \in Faults /\ conn = "up"
  /\ conn' = "down"
  /\ \E k \in 0..Len(net) :
       /\ net' = First(net, k)
       /\ cut' = cut \cup {net[i] : i \in k+1..Len(net)}
  /\ UNCHANGED <<tx, out, rx, got, heard, dead, total, lostTx, lostRx, short, full>>

SenderExit ==
  /\ "senderExit" \in Faults /\ "sender" \notin dead
  /\ conn' = IF conn = "up" THEN "down" ELSE conn
  /\ dead' = dead \cup {"sender"}
  /\ tx' = <<>> /\ out' = <<>>
  /\ cut' = cut \cup Range(tx) \cup Range(out)
  /\ UNCHANGED <<net, rx, got, heard, total, lostTx, lostRx, short, full>>

ReceiverExit ==
  /\ "receiverExit" \in Faults /\ "receiver" \notin dead
  /\ conn' = IF conn = "up" THEN "down" ELSE conn
  /\ dead' = dead \cup {"receiver"}
  /\ net' = <<>> /\ rx' = <<>>
  /\ cut' = cut \cup Range(net) \cup Range(rx)
  /\ UNCHANGED <<tx, out, got, heard, total, lostTx, lostRx, short, full>>

Next ==
  \/ \E n \in Sizes : AddToTxBuffer(n)
  \/ PopTx \/ Send \/ SendShort \/ SendDown
  \/ Recv \/ PopRx
  \/ Reset \/ SenderExit \/ ReceiverExit

Spec == Init /\ [][Next]_vars

\* Each thread is scheduled, and the kernel moves what it is given.  send()
\* returns once there is room, which nothing but the receiver's reading makes.
FairSpec == Spec /\ WF_vars(PopTx) /\ WF_vars(Send) /\ WF_vars(SendDown)
                 /\ WF_vars(Recv) /\ WF_vars(PopRx)

-----------------------------------------------------------------------------
Bytes    == 1..total
Pipeline == got \o rx \o net \o out \o tx

\* Every deque and buffer holds bytes that were handed over, and the counters
\* stay within their bounds.
TypeOK ==
  /\ total \in 0..MaxTotal
  /\ tx \in Seq(Bytes) /\ out \in Seq(Bytes) /\ net \in Seq(Bytes)
  /\ rx \in Seq(Bytes) /\ got \in Seq(Bytes)
  /\ conn \in {"noFd", "up", "down"} /\ heard \in BOOLEAN
  /\ dead \subseteq {"sender", "receiver"}
  /\ lostTx \subseteq Bytes /\ lostRx \subseteq Bytes /\ cut \subseteq Bytes
  /\ short \in 0..MaxShort
  /\ full \subseteq {"tx", "rx"}

\* No byte disappears without one of the three known causes: each byte handed
\* to AddToTxBuffer is still in the pipe, reached packetProcessor, was dropped
\* by the truncated return value of a Pop function, or went down with a
\* connection or a process.
Accounted ==
  Bytes \subseteq Range(Pipeline) \cup lostTx \cup lostRx \cup cut

\* Through push_front/pop_back, two threads and TCP, the bytes keep their
\* order and none is doubled, as long as send() never takes a part of a
\* buffer; this holds however many bytes are dropped.
InOrder ==
  short = 0 =>
    \A i, j \in DOMAIN Pipeline : i < j => Pipeline[i] < Pipeline[j]

\* SocketLink implements LossyStream: what packetProcessor has been told only
\* grows, by bytes that were handed over, and stays in their order whatever
\* the Pop functions, a reset or an exit lost before them.
Stream == INSTANCE LossyStream WITH
  sent <- total, given <- got, torn <- short # 0

ImplementsStream == Stream!Spec

\* A pipe whose deques never hold CountMod (256) bytes, on a connection that
\* stays up, is exact: received, queued and in-flight bytes together are all
\* the bytes handed over, each once, in order.
IntactWhenPaced ==
  (full = {} /\ cut = {} /\ short = 0) =>
    /\ Pipeline = [i \in Bytes |-> i]
    /\ lostTx = {} /\ lostRx = {}

\* The uint8_t return value loses bytes only by the block: what each Pop
\* function swallowed is a whole number of 256-byte blocks.
DropsWholeBlocks ==
  short = 0 => /\ Cardinality(lostTx) % CountMod = 0
               /\ Cardinality(lostRx) % CountMod = 0

\* README.md:4 of the repository: threads communicate with the threads of
\* another process through the communication thread; with both processes and
\* the connection alive, nothing handed to it is thrown away.
NothingDropped == lostTx = {} /\ lostRx = {}

\* While the receiver reads this connection, every byte handed to
\* AddToTxBuffer is, in the end, received or accounted for as lost: however
\* full the kernel's buffers get, no deque keeps a byte forever.  A connection
\* that the server never accepted has no such promise: its bytes stay where
\* they are, and send() waits for ever once the kernel is full.
EventuallySettled ==
  \A b \in 1..MaxTotal :
    (b <= total /\ heard)
      ~> b \in Range(got) \cup lostTx \cup lostRx \cup cut
=============================================================================
