----------------------------- MODULE MCLockedDeque -----------------------------
(***************************************************************************)
(* The five threads around the two deques of a connection.                 *)
(***************************************************************************)
EXTENDS LockedDeque

MCAdders  == [q \in Queues |-> IF q = "rx" THEN {"recvThread"}
                               ELSE {"main", "router"}]
MCPoppers == [q \in Queues |-> IF q = "rx" THEN {"packetProcessor"}
                               ELSE {"sendThread"}]
MCBlocks == {<<1>>, <<1, 2, 3>>}
=============================================================================
