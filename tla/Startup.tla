-------------------------------- MODULE Startup --------------------------------
(***************************************************************************)
(* How processes that use the library come up.  Each process is started at *)
(* some time, in no order with the others, and constructs its endpoints    *)
(* one after the other: a threadServer binds its port and waits in accept  *)
(* until a client comes; a threadClient tries to connect a few times at    *)
(* once, and ends the process if that fails.  The kernel completes         *)
(* connections for a listening socket up to its backlog, whether or not    *)
(* the server will ever accept again, and the library never closes a       *)
(* listening socket.                                                       *)
(***************************************************************************)
EXTENDS Integers, Sequences

CONSTANTS
  Procs, Ports,
  Layouts,      \* what the processes construct, a sequence of Ops each
  MaxOps,       \* bound: endpoints a process constructs
  Retries,      \* MAX_RETRIAL_TIMES
  Backlog,      \* connections the kernel completes ahead of accept
  Busy          \* ports some other program holds

Ops == [op : {"server", "client"}, port : Ports]
NoOne == "no one"

ASSUME StartupAssumption ==
  /\ MaxOps \in Nat
  /\ \A l \in Layouts : l \in [Procs -> Seq(Ops)]
  /\ \A l \in Layouts : \A p \in Procs : Len(l[p]) <= MaxOps
  /\ Retries \in Nat \ {0} /\ Backlog \in Nat
  /\ Busy \subseteq Ports
  /\ {NoOne, "other"} \cap Procs = {}

VARIABLES
  script,   \* the layout that is started; never changes
  at,       \* the constructor each process is in, past its script when up
  accepting,\* is it in accept?
  tries,    \* failed attempts to connect in this constructor
  fate,     \* "unborn" until it is started, then "alive"; "gave up", "aborted";
            \* "lost": accepts where nobody calls
  listener, \* the process whose socket listens on a port
  pending,  \* connections completed on a port and not accepted, oldest first
  links,    \* accepted connections: <<server, its op, client, its op>>
  failed,   \* history: an accept has failed
  ready     \* history: was there room for a connection when a process entered
            \* the constructor it is in?

vars == <<script, at, accepting, tries, fate, listener, pending, links, failed,
          ready>>

-----------------------------------------------------------------------------
Alive(p) == fate[p] = "alive"
Ended(p) == fate[p] \notin {"unborn", "alive"}
Up(p) == Alive(p) /\ at[p] > Len(script[p])
In(p, op) == Alive(p) /\ at[p] <= Len(script[p]) /\ script[p][at[p]].op = op
Port(p) == script[p][at[p]].port

\* Mutant: the backlog has no end.
ReachableFull(q) == listener[q] # NoOne
\* A SYN to port q is answered.
Reachable(q) == listener[q] # NoOne /\ Len(pending[q]) < Backlog

\* The port of the n-th op of p, as it is entered, could be connected to.
ReadyFor(p, n) == n <= Len(script[p]) /\ Reachable(script[p][n].port)

Init ==
  /\ script \in Layouts
  /\ at = [p \in Procs |-> 1]
  /\ accepting = [p \in Procs |-> FALSE]
  /\ tries = [p \in Procs |-> 0]
  /\ fate = [p \in Procs |-> "unborn"]
  /\ listener = [q \in Ports |-> IF q \in Busy THEN "other" ELSE NoOne]
  /\ pending = [q \in Ports |-> <<>>]
  /\ links = {} /\ failed = FALSE
  /\ ready = [p \in Procs |-> FALSE]

\* main begins, maybe long after other processes are up.
Start(p) ==
  /\ fate[p] = "unborn"
  /\ fate' = [fate EXCEPT ![p] = "alive"]
  /\ ready' = [ready EXCEPT ![p] = ReadyFor(p, at[p])]
  /\ UNCHANGED <<script, at, accepting, tries, listener, pending, links, failed>>

\* The constructor returns (its threads run) and the next one is entered.
Constructed(p) ==
  /\ at' = [at EXCEPT ![p] = @ + 1]
  /\ ready' = [ready EXCEPT ![p] = ReadyFor(p, at[p] + 1)]
  /\ tries' = [tries EXCEPT ![p] = 0]
  /\ accepting' = [accepting EXCEPT ![p] = FALSE]
  /\ UNCHANGED <<script, fate>>

\* The process ends: its sockets are closed, what waited in them is reset.
Ends(p, how) ==
  /\ fate' = [fate EXCEPT ![p] = how]
  /\ listener' = [q \in Ports |-> IF listener[q] = p THEN NoOne
                                 ELSE listener[q]]
  /\ pending' = [q \in Ports |-> IF listener[q] = p THEN <<>> ELSE pending[q]]

-----------------------------------------------------------------------------
\* tcpServer::tcpServer up to listen ...
Bind(p) ==
  /\ In(p, "server") /\ ~accepting[p] /\ listener[Port(p)] = NoOne
  /\ listener' = [listener EXCEPT ![Port(p)] = p]
  /\ accepting' = [accepting EXCEPT ![p] = TRUE]
  /\ UNCHANGED <<script, at, tries, fate, pending, links, failed, ready>>

\* ... which goes on when bind has failed: the address list is freed twice,
\* which may end the process; if not, listen picks a port nobody knows.
BindFails(p) ==
  /\ In(p, "server") /\ ~accepting[p] /\ listener[Port(p)] # NoOne
  /\ \/ Ends(p, "aborted")
     \/ /\ fate' = [fate EXCEPT ![p] = "lost"]
        /\ UNCHANGED <<listener, pending>>
  /\ UNCHANGED <<script, at, accepting, tries, links, failed, ready>>

\* Mutant: accept needs two connections.
AcceptableLate(q) == Len(pending[q]) > 1
\* Mutant: accept does not block.
AcceptableAtOnce(q) == TRUE
\* There is a connection for accept to return.
Acceptable(q) == pending[q] # <<>>

\* Mutant: the listening socket is closed after the accept.
AcceptClosing(p) ==
  /\ In(p, "server") /\ accepting[p] /\ Acceptable(Port(p))
  /\ links' = links \cup {<<p, at[p]>> \o Head(pending[Port(p)])}
  /\ pending' = [pending EXCEPT ![Port(p)] = <<>>]
  /\ listener' = [listener EXCEPT ![Port(p)] = NoOne]
  /\ Constructed(p)
  /\ UNCHANGED failed

\* accept returns the oldest connection, also if its client has gone.
Accept(p) ==
  /\ In(p, "server") /\ accepting[p] /\ Acceptable(Port(p))
  /\ LET q == pending[Port(p)]
     IN  links' = links \cup {<<p, at[p], q[k][1], q[k][2]>> :
                                k \in DOMAIN q \cap {1}}
  /\ pending' = [pending EXCEPT ![Port(p)] = SubSeq(@, 2, Len(@))]
  /\ Constructed(p)
  /\ UNCHANGED <<listener, failed>>

\* accept fails: the endpoint is constructed, without a connection.
AcceptFails(p) ==
  /\ In(p, "server") /\ accepting[p]
  /\ failed' = TRUE
  /\ Constructed(p)
  /\ UNCHANGED <<listener, pending, links>>

\* tcpClient::tcpClient: connect succeeds once the kernel has completed the
\* connection, before and without any accept.
Connect(p) ==
  /\ In(p, "client") /\ Reachable(Port(p))
  /\ pending' = [pending EXCEPT ![Port(p)] = Append(@, <<p, at[p]>>)]
  /\ Constructed(p)
  /\ UNCHANGED <<listener, links, failed>>

\* connect is refused or times out; after the last try the process exits.
ConnectFails(p) ==
  /\ In(p, "client") /\ ~Reachable(Port(p))
  /\ tries' = [tries EXCEPT ![p] = @ + 1]
  /\ IF tries[p] + 1 = Retries THEN Ends(p, "gave up")
     ELSE UNCHANGED <<fate, listener, pending>>
  /\ UNCHANGED <<script, at, accepting, links, failed, ready>>

Step(p) == \/ Start(p) \/ Bind(p) \/ BindFails(p) \/ Accept(p)
           \/ Connect(p) \/ ConnectFails(p)

Next == \E p \in Procs : Step(p) \/ AcceptFails(p)

Spec == Init /\ [][Next]_vars

\* Every process is started in the end and runs; accept returns when there is a
\* connection, and need not fail.
FairSpec == Spec /\ \A p \in Procs : WF_vars(Step(p))

-----------------------------------------------------------------------------
TypeOK ==
  /\ script \in Layouts
  /\ at \in [Procs -> 1..MaxOps+1]
  /\ accepting \in [Procs -> BOOLEAN]
  /\ tries \in [Procs -> 0..Retries]
  /\ \A p \in Procs : ~Ended(p) => tries[p] < Retries
  /\ fate \in [Procs -> {"unborn", "alive", "gave up", "aborted", "lost"}]
  /\ listener \in [Ports -> Procs \cup {NoOne, "other"}]
  /\ pending \in [Ports -> Seq(Procs \X (1..MaxOps))]
  /\ \A q \in Ports : Len(pending[q]) <= Backlog
  /\ links \subseteq Procs \X (1..MaxOps) \X Procs \X (1..MaxOps)
  /\ ready \in [Procs -> BOOLEAN] /\ failed \in BOOLEAN

AllUp == \A p \in Procs : Up(p)
NoneEnded == \A p \in Procs : ~Ended(p)

\* Some processes wait for each other: w names, for each process of the knot, a
\* server among its endpoints (0 for a process outside) such that every client
\* of that server's port belongs to the knot and comes behind such a server.
Knot(w) ==
  \A p \in Procs : w[p] # 0 =>
    /\ w[p] <= Len(script[p]) /\ script[p][w[p]].op = "server"
    /\ \A q \in Procs : \A j \in DOMAIN script[q] :
         script[q][j] = [op |-> "client", port |-> script[p][w[p]].port]
           => w[q] # 0 /\ j > w[q]

Knots == {w \in [Procs -> 0..MaxOps] : Knot(w) /\ \E p \in Procs : w[p] # 0}

\* Accepting inside a constructor deadlocks processes that serve each other: in
\* no order of events does a process of a knot get past the server it waits
\* in, however its clients are retried and whatever other processes do.
CircularWait ==
  ~failed =>
    \A w \in [Procs -> 0..MaxOps] : Knot(w) =>
      \A p \in Procs : w[p] # 0 => at[p] <= w[p]

\* That is the only way to hang: without a knot every process comes up, unless
\* one of them gave up or failed to bind.
EventuallyUp == (Knots = {}) ~> (AllUp \/ ~NoneEnded)

\* When all are up, a server and a client that have a port for themselves are
\* connected to each other, and no endpoint has two connections.
UpMeansConnected ==
  /\ \A k, l \in links :
       (k[1] = l[1] /\ k[2] = l[2]) \/ (k[3] = l[3] /\ k[4] = l[4]) => k = l
  /\ AllUp /\ ~failed =>
       \A p, q \in Procs : \A i \in DOMAIN script[p], j \in DOMAIN script[q] :
         /\ script[p][i].op = "server" /\ script[q][j].op = "client"
         /\ script[p][i].port = script[q][j].port
         /\ \A r \in Procs : \A k \in DOMAIN script[r] :
              script[r][k].port = script[p][i].port
                => <<r, k>> \in {<<p, i>>, <<q, j>>}
         => <<p, i, q, j>> \in links

\* Five attempts without a pause lose against a server that starts late, but
\* never against one that was listening, with room in its backlog, when the
\* client's constructor was entered, the first of its process or a later one:
\* it gives up then only if others have filled the backlog since, or a process
\* has ended.
GivesUpOnlyUnserved ==
  [][\A p \in Procs : fate[p] = "alive" /\ fate'[p] = "gave up" /\ ready[p]
       => ~NoneEnded \/ Len(pending[Port(p)]) >= Backlog]_vars
=============================================================================
