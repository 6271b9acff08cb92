------------------------------- MODULE MCStartup -------------------------------
(***************************************************************************)
(* Layouts for TLC: every way the processes can construct up to two        *)
(* endpoints each on two ports, and the layouts of the two example         *)
(* applications of the repository.  Port 3 is held by a fourth process,    *)
(* which accepts nobody.                                                   *)
(***************************************************************************)
EXTENDS Startup

server(q) == [op |-> "server", port |-> q]
client(q) == [op |-> "client", port |-> q]

\* Examples/ServerClient: one process serves, the other connects.
ServerClient(a, b, q) == [x \in Procs |-> IF x = a THEN <<server(q)>>
                                          ELSE IF x = b THEN <<client(q)>>
                                          ELSE <<>>]

\* Examples/MultipleServerClient: scooby serves doo and dooby and is the client
\* of a fourth process.
ScoobyDoo(a, b, c, q1, q2, q3) ==
  [x \in Procs |-> CASE x = a -> <<server(q1), server(q2), client(q3)>>
                     [] x = b -> <<client(q1)>>
                     [] x = c -> <<client(q2)>>
                     [] OTHER -> <<>>]

Examples == {ServerClient("a", "b", 1), ScoobyDoo("a", "b", "c", 1, 2, 3)}

\* Up to two endpoints on the ports of S.
UpToTwo(S) == LET O == {server(q) : q \in S} \cup {client(q) : q \in S}
              IN  {<<>>} \cup {<<x>> : x \in O} \cup {<<x, y>> : x, y \in O}

\* The processes are alike, and so are ports 1 and 2: the longest script may
\* be that of "a", and begin with port 1.
MCLayouts ==
  Examples \cup {l \in [Procs -> UpToTwo({1, 2})] :
                   /\ Len(l["a"]) >= Len(l["b"]) /\ Len(l["b"]) >= Len(l["c"])
                   /\ l["a"] # <<>> => Head(l["a"]).port = 1}
=============================================================================
