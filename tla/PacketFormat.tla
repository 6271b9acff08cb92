----------------------------- MODULE PacketFormat -----------------------------
(***************************************************************************)
(* What travels on the wire and how the library reads it back: packet.h,   *)
(* packet.cpp, ackMsg.h and the two deserializers of threadBase.cpp.       *)
(* Everything here is a pure function of a message or of a byte buffer;    *)
(* PacketProcessor runs it on the chunks a connection delivers.            *)
(*                                                                         *)
(* A message is [kind, id, dest, src, msgID, body]: body is the payload of *)
(* a packet, and <<m_isAck, error code low, error code high>> of an ack.   *)
(* A receive buffer is a function on 0..TOTAL_PACKET_SIZE_MAX-1.           *)
(***************************************************************************)
EXTENDS Integers, Sequences, FiniteSets

Byte == 0..255
U16  == 0..65535

\* The structures CommsPacket and AckMsg; a payload length has one byte.
Message ==
  {m \in [kind : {"packet", "ack"}, id : U16, dest : U16, src : U16,
          msgID : U16, body : Seq(Byte)] :
     IF m.kind = "packet" THEN Len(m.body) \in Byte ELSE Len(m.body) = 3}

\* HEADER_ID and ACK_HEADER_ID as they lie in memory on a little-endian host;
\* read back as HEADER_ID_INV and ACK_HEADER_ID_INV.
HEADER     == <<238, 255, 192, 170>>
ACK_HEADER == <<238, 255, 192, 1>>
Header(kind) == IF kind = "packet" THEN HEADER ELSE ACK_HEADER

Lo(x) == x % 256
Hi(x) == x \div 256

\* Exclusive or, bit by bit: the bit of weight w is that of an odd number of
\* the bytes of f at the indices in I.
Bit(x, w) == (x \div w) % 2
Parity(f, I, w) == Cardinality({i \in I : Bit(f[i], w) = 1}) % 2
XorOf(f, I) ==
  128 * Parity(f, I, 128) + 64 * Parity(f, I, 64) + 32 * Parity(f, I, 32)
    + 16 * Parity(f, I, 16) + 8 * Parity(f, I, 8) + 4 * Parity(f, I, 4)
    + 2 * Parity(f, I, 2) + Parity(f, I, 1)
XorOfBytes(x, y) == XorOf(<<x, y>>, {1, 2})

-----------------------------------------------------------------------------
\* The bytes of m before its checksum byte: struct CommsPacket (13 bytes of
\* header, payload) and struct AckMsg (15 bytes), both packed.
Fixed(m) == <<238, 255, 192, Header(m.kind)[4], Lo(m.id), Hi(m.id),
              Lo(m.dest), Hi(m.dest), Lo(m.src), Hi(m.src),
              Lo(m.msgID), Hi(m.msgID)>>
Unsealed(m) ==
  Fixed(m) \o (IF m.kind = "packet" THEN <<Len(m.body)>> ELSE <<>>) \o m.body

\* Mutant: the sender covers the packet ID as well.
ChecksumWithID(m) == LET u == Unsealed(m) IN XorOf(u, 5..Len(u))

\* packet::packet and packet::Serialize cover everything after the packet ID;
\* the ID is only known in SendMessage, which updates m_cksum but not the copy
\* Serialize placed behind the payload.  ackMsg::calCulateChecksum covers the
\* packet ID and stops one byte short of the error code's high byte.
Checksum(m) == LET u == Unsealed(m)
               IN IF m.kind = "packet" THEN XorOf(u, 7..Len(u))
                                       ELSE XorOf(u, 5..14)

\* What SendMessage and SendAckMessage hand to AddToTxBuffer.
Wire(m) == Append(Unsealed(m), Checksum(m))

\* Number of bytes of m on the wire.
Size(m) == 13 + (IF m.kind = "packet" THEN 1 ELSE 0) + Len(m.body)

-----------------------------------------------------------------------------
\* The four bytes at c are the header of a message of this kind.
IsHeader(b, c, kind) == \A i \in 1..4 : b[c + i - 1] = Header(kind)[i]

\* Mutant: a field is not cut to the 16 bits it has.
U16TooWide(b, c) == b[c + 2] * 65536 + b[c + 1] * 256 + b[c]
\* Mutant: the bytes of a field are put together in the wrong order.
U16Swapped(b, c) == b[c] * 256 + b[c + 1]
U16At(b, c) == b[c + 1] * 256 + b[c]

Fields(b, c, kind, body) ==
  [kind |-> kind, id |-> U16At(b, c + 4), dest |-> U16At(b, c + 6),
   src |-> U16At(b, c + 8), msgID |-> U16At(b, c + 10), body |-> body]

\* Index of the checksum byte of the packet whose header is at c.
PacketLast(b, c) == c + 13 + b[c + 12]

\* Mutant: the payload is taken from the length byte on.
PayloadShifted(b, c) == [i \in 1..b[c + 12] |-> b[c + 11 + i]]
Payload(b, c) == [i \in 1..b[c + 12] |-> b[c + 12 + i]]

\* The receiver's exclusive or: always over the front of the buffer.
ReadBack(b, len) == XorOf(b, 4..13+len)

\* Mutant: an ack counts as complete before its error code has arrived.
AckLastEarly(c) == c + 12
\* Index of the checksum byte of the ack whose header is at c.
AckLast(c) == c + 15
\* The flag and the error code of that ack.
AckBody(b, c) == <<b[c + 12], b[c + 13], b[c + 14]>>
=============================================================================
