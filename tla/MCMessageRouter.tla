--------------------------- MODULE MCMessageRouter ---------------------------
(***************************************************************************)
(* One registered thread and one that is not; the registered one handles   *)
(* both message IDs as packets and one of them as an ack.                  *)
(***************************************************************************)
EXTENDS MessageRouter

MCThreads == {"registered", "unknown"}
MCMsgIDs  == {"a", "b"}
MCTable   == {"registered"}
MCMethods ==
  [k \in {"packet", "ack"} |->
    [t \in MCThreads |-> IF t = "unknown" THEN {}
                         ELSE IF k = "packet" THEN {"a", "b"} ELSE {"a"}]]
=============================================================================
