-------------------------- MODULE MCPacketProcessor --------------------------
(***************************************************************************)
(* Streams of the messages one process sends.  Packet IDs come from one    *)
(* counter that starts at 0; 256 is where its two bytes differ again.      *)
(* TOTAL_PACKET_SIZE_MAX = 256 + 12 becomes PopBuf = CountMod + 12.        *)
(***************************************************************************)
EXTENDS PacketProcessor

\* "fake" is a payload with the bytes of an ack's header in it.
Body(kind, i) == CASE kind = "ack"   -> <<1, 9, 0>>
                   [] kind = "empty" -> <<>>
                   [] kind = "one"   -> <<16 + i>>
                   [] kind = "long"  -> [j \in 1..12 |-> 32 * i + j]
                   [] kind = "fake"  -> ACK_HEADER

\* The messages of the given shapes, numbered from first on.
Numbered(first, shapes) ==
  [i \in 1..Len(shapes) |->
    [kind  |-> IF shapes[i] = "ack" THEN "ack" ELSE "packet",
     id    |-> first + i - 1, dest |-> 2, src |-> 1, msgID |-> 5,
     body  |-> Body(shapes[i], i)]]

MCPairs == {Numbered(f, <<x, y>>) :
              f \in {0, 256}, x, y \in {"ack", "empty", "one"}}
MCTriples == {Numbered(0, <<"ack", "ack", "one">>),
              Numbered(0, <<"one", "ack", "ack">>),
              Numbered(0, <<"one", "one", "one">>),
              Numbered(0, <<"long", "ack">>),
              Numbered(0, <<"fake", "ack">>)}
MCStreams == MCPairs \cup MCTriples

\* A buffer full of one byte, and one full of the headers of acks.
MCGarbage == {[i \in 0..43 |-> 1], [i \in 0..43 |-> ACK_HEADER[(i % 4) + 1]]}
=============================================================================
