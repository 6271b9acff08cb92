------------------------------ MODULE MCRoundTrip ------------------------------
(***************************************************************************)
(* The ServerClient example, whose server sends to the thread ID both      *)
(* sides register; the same with a client that sends too; and packets for  *)
(* a thread or a message ID that one side lacks.  A stray is the first     *)
(* packet again, or an ack for a thread that nobody registers.             *)
(***************************************************************************)
EXTENDS RoundTrip

\* 34567 and 45427 of the example, and a thread only the client registers.
MCThreads == {"shared", "source", "clients"}
MCMsgIDs == {"0x4100", "0x8100"}
MCtable == [p \in Procs |-> IF p = "server" THEN {"shared"}
                            ELSE {"shared", "clients"}]
MChandlers == [p \in Procs |-> [k \in Kinds |->
  IF p = "server" \/ k = "ack" THEN {<<"shared", "0x4100">>}
  ELSE {"shared", "clients"} \X {"0x4100"}]]

To(t, i) == [dest |-> t, src |-> "source", msgID |-> i]
Good(k) == [i \in 1..k |-> To("shared", "0x4100")]
From(s, c) == [p \in Procs |-> IF p = "server" THEN s ELSE c]

MCScripts ==
  {From(Good(4), <<>>), From(Good(2), Good(1)),
   From(<<To("clients", "0x4100")>> \o Good(1), <<>>),
   From(<<To("source", "0x4100")>>, <<>>),
   From(<<To("shared", "0x8100")>>, <<>>)}

Again(k) == [kind |-> k, dest |-> "shared", src |-> "source", msgID |-> "0x4100",
             id |-> 0, n |-> 1]
MCStrays == {Again("packet"), [Again("ack") EXCEPT !.dest = "source"]}
=============================================================================
