---------------------------- MODULE PacketProcessor ----------------------------
(***************************************************************************)
(* The packetProcessor thread of threadServer and threadClient: it pops a  *)
(* chunk of the received byte stream into its one buffer, looks for a      *)
(* header and runs a deserializer over the chunk, which hands whole        *)
(* messages to the internal queues.  Each turn of a deserializer's loop    *)
(* that finds, or fails to find, a message is an action; the peer sends    *)
(* meanwhile.                                                              *)
(*                                                                         *)
(* The stream is the concatenation of the messages a peer sent, in order   *)
(* and without loss (SocketLink's exact case); how much of it a pop finds  *)
(* is up to the scheduler and to TCP.                                      *)
(***************************************************************************)
EXTENDS PacketFormat

CONSTANTS
  Streams,   \* the sequences of messages a peer may send
  Garbage,   \* what the uninitialised buffer may hold
  PopBuf,    \* TOTAL_PACKET_SIZE_MAX, size of bufferBytes: 268
  CountMod,  \* PopFromExternalRxBuffer returns uint8_t: 256
  MaxPops    \* bound: pops that find data

\* DATA_SIZE: what m_payload of the deserializer's one packet can take.
DataSize == PopBuf - 14

ASSUME ProcessorAssumption ==
  /\ PopBuf \in Nat /\ CountMod \in Nat \ {0} /\ MaxPops \in Nat
  /\ CountMod + 3 <= PopBuf /\ 14 <= PopBuf
  /\ Garbage \subseteq [0..PopBuf-1 -> Byte]

\* A longer message does not reach the receiver: sendThread's own pop reports
\* 0 for its first CountMod bytes and drops them (SocketLink's lostTx).
ASSUME StreamAssumption ==
  \A s \in Streams :
    /\ s \in Seq(Message)
    /\ \A i \in DOMAIN s : Size(s[i]) < CountMod

VARIABLES
  unsent,     \* the messages the peer has yet to send
  sent,       \* the messages it has sent
  stream,     \* their bytes, in order
  ends,       \* ends[i]: length of the stream with the first i messages
  base,       \* position in the stream at which the last pop began
  pos,        \* how many bytes were popped so far
  bufferBytes,\* packetProcessor's buffer, never cleared
  n,          \* actualBytesRead
  cntr,       \* packetProcessor's scan offset, declared outside its loop
  phase,      \* "pop", or the kind of message the running deserializer reads
  at,         \* its own cntr
  cksum,      \* its checksum so far ...
  payload,    \* ... payload bytes so far, all written to m_payload ...
  nth,        \* ... and number of messages so far, none of which is reset
              \* from one message of a chunk to the next
  packets,    \* packets handed to internalPacketQueue (with their place in
              \* their chunk), oldest first
  acks,       \* acks handed to internalAckMsgQueue, oldest first
  pops,       \* number of pops that found data
  aligned     \* every pop so far found exactly one whole message

peerVars  == <<unsent, sent, stream, ends>>
chunkVars == <<base, pos, bufferBytes, n, cntr, pops, aligned>>
vars == <<peerVars, chunkVars, phase, at, cksum, payload, nth, packets, acks>>

\* Where the i-th message begins.
Start(i) == IF i = 1 THEN 0 ELSE ends[i - 1]

\* Messages that make up the bytes from position x to position y alone.
Whole(x, y) == {i \in 1..Len(sent) : Start(i) = x /\ ends[i] = y}

\* The count reported for k popped bytes.
Returned(k) == k % CountMod

Init ==
  /\ unsent \in Streams /\ sent = <<>> /\ stream = <<>> /\ ends = <<>>
  /\ bufferBytes \in Garbage
  /\ base = 0 /\ pos = 0 /\ n = 0 /\ cntr = 0 /\ phase = "pop"
  /\ at = 0 /\ cksum = 0 /\ payload = <<>> /\ nth = 0
  /\ packets = <<>> /\ acks = <<>> /\ pops = 0 /\ aligned = TRUE

\* The peer's next message arrives.
Send ==
  /\ unsent # <<>>
  /\ LET m == Head(unsent)
     IN /\ sent' = Append(sent, m)
        /\ stream' = stream \o Wire(m)
        /\ ends' = Append(ends, Len(stream) + Size(m))
  /\ unsent' = Tail(unsent)
  /\ UNCHANGED <<chunkVars, phase, at, cksum, payload, nth, packets, acks>>

-----------------------------------------------------------------------------
\* The search for a header: the first match at or after cntr, if any.
Matches(b, m) ==
  {c \in cntr..m-3 : IsHeader(b, c, "packet") \/ IsHeader(b, c, "ack")}
Least(S) == CHOOSE x \in S : \A y \in S : x <= y

\* What the search leaves in cntr when it finds nothing: unchanged, or just
\* past the last place where a header fits.
Scanned(m) == IF cntr > m - 2 THEN cntr ELSE m - 2

\* PopRxBuffer overwrites the first k bytes of the buffer.
Filled(k) == [i \in 0..PopBuf-1 |->
                IF i < k THEN stream[pos + i + 1] ELSE bufferBytes[i]]

\* packetProcessor pops k bytes and looks for a header; if there is one, the
\* deserializer for its kind begins, at the front of the buffer.
Pop(k) ==
  /\ phase = "pop" /\ pops < MaxPops
  /\ LET b == Filled(k)
         m == Matches(b, Returned(k))
     IN /\ bufferBytes' = b
        /\ cntr' = IF m # {} THEN Least(m) ELSE Scanned(Returned(k))
        /\ phase' = IF m = {} THEN "pop"
                    ELSE IF IsHeader(b, Least(m), "packet") THEN "packet"
                    ELSE "ack"
  /\ n' = Returned(k) /\ base' = pos /\ pos' = pos + k /\ pops' = pops + 1
  /\ aligned' = (aligned /\ Whole(pos, pos + k) # {})
  /\ at' = 0 /\ cksum' = 0 /\ payload' = <<>> /\ nth' = 0
  /\ UNCHANGED <<peerVars, packets, acks>>

Popping == \E k \in 1..Len(stream) - pos : k <= PopBuf /\ Pop(k)

\* The deserializers' loop test and what they look for.
Reading(kind) == phase = kind /\ at <= n
Found(kind) == IsHeader(bufferBytes, at, kind)

\* FIND_HDR: no header at this place, try the next four bytes.
SkipFour ==
  /\ phase # "pop" /\ at <= n /\ ~Found(phase)
  /\ at' = at + 4
  /\ UNCHANGED <<peerVars, chunkVars, phase, cksum, payload, nth, packets, acks>>

\* The loop ends.
Finish ==
  /\ phase # "pop" /\ at > n
  /\ phase' = "pop"
  /\ UNCHANGED <<peerVars, chunkVars, at, cksum, payload, nth, packets, acks>>

PacketIsWhole == at + 12 <= n /\ PacketLast(bufferBytes, at) <= n

\* packetDeserializer reads a packet up to its checksum byte, and hands it on
\* if the exclusive or comes out as 0.
ReadPacket ==
  /\ Reading("packet") /\ Found("packet") /\ PacketIsWhole
  /\ LET len == bufferBytes[at + 12]
     IN /\ cksum' = XorOfBytes(cksum, ReadBack(bufferBytes, len))
        /\ payload' = payload \o Payload(bufferBytes, at)
        /\ packets' = IF cksum' # 0 THEN packets
                      ELSE Append(packets,
                             [msg |-> Fields(bufferBytes, at, "packet",
                                             SubSeq(payload', 1, len)),
                              nth |-> nth + 1])
  /\ at' = PacketLast(bufferBytes, at) + 1
  /\ nth' = nth + 1
  /\ UNCHANGED <<peerVars, chunkVars, phase, acks>>

\* The chunk ends inside a packet: the payload bytes there are, and one more,
\* have been written to m_payload.
TruncatedPacket ==
  /\ Reading("packet") /\ Found("packet") /\ ~PacketIsWhole
  /\ payload' = payload \o [i \in 1..n - at - 12 |-> bufferBytes[at + 12 + i]]
  /\ at' = n + 1
  /\ UNCHANGED <<peerVars, chunkVars, phase, cksum, nth, packets, acks>>

\* ackPacketDeserializer compares no checksum.
ReadAck ==
  /\ Reading("ack") /\ Found("ack") /\ AckLast(at) <= n
  /\ acks' = Append(acks, Fields(bufferBytes, at, "ack",
                                 AckBody(bufferBytes, at)))
  /\ at' = AckLast(at) + 1
  /\ nth' = nth + 1
  /\ UNCHANGED <<peerVars, chunkVars, phase, cksum, payload, packets>>

TruncatedAck ==
  /\ Reading("ack") /\ Found("ack") /\ AckLast(at) > n
  /\ at' = n + 1
  /\ UNCHANGED <<peerVars, chunkVars, phase, cksum, payload, nth, packets, acks>>

Next == \/ Send \/ Popping
        \/ SkipFour \/ Finish
        \/ ReadPacket \/ TruncatedPacket \/ ReadAck \/ TruncatedAck

Spec == Init /\ [][Next]_vars

-----------------------------------------------------------------------------
\* The positions a deserializer reads stay inside bufferBytes and what it
\* writes inside m_payload, and what is handed on fits the fields of a message.
\* (In a run, any read outside bufferBytes is an error.)
TypeOK ==
  /\ unsent \in Seq(Message) /\ sent \in Seq(Message)
  /\ stream \in Seq(Byte) /\ ends \in Seq(0..Len(stream))
  /\ Len(ends) = Len(sent)
  /\ base \in 0..pos /\ pos \in 0..Len(stream)
  /\ bufferBytes \in [0..PopBuf-1 -> Byte]
  /\ n \in 0..CountMod-1 /\ cntr \in 0..CountMod-1
  /\ phase \in {"pop", "packet", "ack"}
  /\ at \in 0..n+4
  /\ cksum \in Byte
  /\ payload \in Seq(Byte) /\ Len(payload) <= DataSize
  /\ nth \in Nat
  /\ packets \in Seq([msg : Message, nth : Nat])
  /\ acks \in Seq(Message)
  /\ pops \in 0..MaxPops /\ aligned \in BOOLEAN

Increasing(f, k) == \A i, j \in 1..k : i < j => f[i] < f[j]

\* s is t with some elements left out.
IsSubsequence(s, t) ==
  \E f \in [1..Len(s) -> 1..Len(t)] :
    /\ Increasing(f, Len(s))
    /\ \A i \in 1..Len(s) : s[i] = t[f[i]]

\* s lists the elements of t at the indices in J, in their order.
Lists(s, t, J) ==
  \E f \in [1..Len(s) -> J] :
    /\ Increasing(f, Len(s))
    /\ \A j \in J : \E i \in 1..Len(s) : f[i] = j
    /\ \A i \in 1..Len(s) : s[i] = t[f[i]]

\* No message holds the bytes of a header further inside.
HeaderInside(u) == \E c \in 2..Len(u)-3 : \E kind \in {"packet", "ack"} :
                     IsHeader(u, c, kind)
Unmistakable == \A i \in DOMAIN sent : ~HeaderInside(Wire(sent[i]))

Headless(m) == [m EXCEPT !.body = Len(@)]
Msgs(ps) == [i \in DOMAIN ps |-> ps[i].msg]

\* The checksum the code computes is blind to a packet ID whose bytes are
\* equal, and to no other.
Acceptable(m) == Lo(m.id) = Hi(m.id)

\* However the stream is cut into chunks, and whatever stale bytes the buffer
\* holds, the acks handed on are acks the peer sent, each at most once and in
\* the order sent - if nothing inside a message looks like a header.
AcksFaithful == Unmistakable => IsSubsequence(acks, sent)

\* The same of packets, for everything but the content of the payload: no
\* packet is invented, doubled or reordered, or takes its ID, addresses,
\* message ID or length from somewhere else.
HeadersFaithful ==
  Unmistakable =>
    IsSubsequence([i \in DOMAIN packets |-> Headless(packets[i].msg)],
                  [i \in DOMAIN sent |-> Headless(sent[i])])

\* The first packet found in a chunk carries its own payload too.
FirstOfChunkFaithful ==
  Unmistakable =>
    \A i \in DOMAIN packets :
      packets[i].nth = 1 => \E j \in DOMAIN sent : packets[i].msg = sent[j]

\* While every pop finds exactly one whole message, the endpoint loses no ack
\* and delivers, unharmed, exactly the packets whose ID has equal bytes.
AlignedDelivery ==
  aligned /\ phase = "pop" =>
    /\ Lists(acks, sent, {j \in 1..pops : sent[j].kind = "ack"})
    /\ Lists(Msgs(packets), sent,
             {j \in 1..pops : sent[j].kind = "packet" /\ Acceptable(sent[j])})

\* threadBase.cpp:169 logs "Correct checksum." for every packet it hands on:
\* a packet handed on is one the peer sent.
CorrectChecksumMeansIntact ==
  \A i \in DOMAIN packets : \E j \in DOMAIN sent : packets[i].msg = sent[j]

\* threadBase.cpp:174 logs "Invalid checksum" for every packet it rejects: a
\* packet that arrived whole and unharmed, alone in its chunk, is not rejected.
WholePacketAccepted ==
  aligned /\ phase = "pop" =>
    \A j \in Whole(base, pos) : sent[j].kind = "packet" =>
      packets # <<>> /\ packets[Len(packets)].msg = sent[j]
=============================================================================
