----------------------------- MODULE StartupProofs -----------------------------
(***************************************************************************)
(* Proofs about what constructing an endpoint goes through: Startup, for   *)
(* any processes, ports and layouts; and, in the second part, Registration *)
(* for any threads, IDs and assignment of IDs, with and without the mutex. *)
(***************************************************************************)
EXTENDS Startup, Registration, FiniteSetTheorems, SequenceTheorems, TLAPS

\* The op a process is in is one of its script, and no later than MaxOps.
LEMMA OpOfScript ==
  ASSUME TypeOK, NEW p \in Procs, at[p] <= Len(script[p])
  PROVE  /\ script \in [Procs -> Seq(Ops)]
         /\ Len(script[p]) \in Nat /\ Len(script[p]) <= MaxOps
         /\ at[p] \in 1..MaxOps /\ at[p] \in DOMAIN script[p]
         /\ script[p][at[p]] \in Ops /\ Port(p) \in Ports
<1>1. script \in [Procs -> Seq(Ops)] /\ script \in Layouts
  BY StartupAssumption DEF TypeOK
<1>2. Len(script[p]) <= MaxOps /\ MaxOps \in Nat
  BY <1>1, StartupAssumption
<1>3. script[p] \in Seq(Ops)
  BY <1>1
<1>4. Len(script[p]) \in Nat /\ DOMAIN script[p] = 1..Len(script[p])
  BY <1>3
<1>5. at[p] \in 1..MaxOps+1
  BY DEF TypeOK
<1>6. at[p] \in 1..MaxOps /\ at[p] \in DOMAIN script[p]
  BY <1>2, <1>4, <1>5
<1>7. script[p][at[p]] \in Ops
  BY <1>3, <1>6
<1> QED
  BY <1>1, <1>2, <1>4, <1>6, <1>7 DEF Port, Ops

LEMMA EmptyBacklog == <<>> \in Seq(Procs \X (1..MaxOps)) /\ Len(<<>>) <= Backlog
<1>1. Len(<<>>) = 0
  OBVIOUS
<1>2. <<>> \in Seq(Procs \X (1..MaxOps))
  OBVIOUS
<1> QED
  BY <1>1, <1>2, StartupAssumption

\* What Constructed does keeps the types.
LEMMA ConstructedType ==
  ASSUME TypeOK, NEW p \in Procs, at[p] <= Len(script[p]), Constructed(p)
  PROVE  /\ at' \in [Procs -> 1..MaxOps+1] /\ ready' \in [Procs -> BOOLEAN]
         /\ tries' \in [Procs -> 0..Retries]
         /\ \A q \in Procs : ~Ended(q)' => tries'[q] < Retries
         /\ accepting' \in [Procs -> BOOLEAN]
         /\ script' = script /\ fate' = fate
<1>1. at[p] + 1 \in 1..MaxOps+1
  BY OpOfScript, StartupAssumption
<1>2. ReadyFor(p, at[p] + 1) \in BOOLEAN
  BY DEF ReadyFor, Reachable
<1>3. 0 \in 0..Retries /\ 0 < Retries
  BY StartupAssumption
<1> QED
  BY <1>1, <1>2, <1>3 DEF Constructed, TypeOK, Ended

\* What Ends does keeps the types.
LEMMA EndsType ==
  ASSUME TypeOK, NEW p \in Procs, NEW how \in {"gave up", "aborted"},
         Ends(p, how)
  PROVE  /\ fate' \in [Procs -> {"unborn", "alive", "gave up", "aborted", "lost"}]
         /\ \A q \in Procs : ~Ended(q)' => q # p /\ ~Ended(q)
         /\ listener' \in [Ports -> Procs \cup {NoOne, "other"}]
         /\ pending' \in [Ports -> Seq(Procs \X (1..MaxOps))]
         /\ \A q \in Ports : Len(pending'[q]) <= Backlog
BY EmptyBacklog DEF Ends, TypeOK, Ended

\* Every variable keeps its type; no backlog overflows.
THEOREM TypeCorrect == Spec => []TypeOK
<1>1. Init => TypeOK
  <2> SUFFICES ASSUME Init PROVE TypeOK
    OBVIOUS
  <2>1. 1 \in 1..MaxOps+1 /\ 0 \in 0..Retries
    BY StartupAssumption
  <2>2. failed \in BOOLEAN
    BY DEF Init
  <2> QED
    BY <2>1, <2>2, EmptyBacklog, StartupAssumption DEF Init, TypeOK
<1>2. TypeOK /\ [Next]_vars => TypeOK'
  <2> SUFFICES ASSUME TypeOK, [Next]_vars PROVE TypeOK'
    OBVIOUS
  <2> DEFINE Conns == Procs \X (1..MaxOps)
  <2>1. ASSUME NEW p \in Procs, Bind(p) PROVE TypeOK'
    BY <2>1, OpOfScript DEF Bind, In, TypeOK, Ended
  <2>2. ASSUME NEW p \in Procs, BindFails(p) PROVE TypeOK'
    <3>1. CASE Ends(p, "aborted")
      BY <2>2, <3>1, EndsType DEF BindFails, TypeOK
    <3>2. CASE /\ fate' = [fate EXCEPT ![p] = "lost"]
               /\ UNCHANGED <<listener, pending>>
      BY <2>2, <3>2 DEF BindFails, TypeOK, Ended
    <3> QED
      BY <2>2, <3>1, <3>2 DEF BindFails
  <2>3. ASSUME NEW p \in Procs, Accept(p) PROVE TypeOK'
    <3>1. at[p] <= Len(script[p]) /\ Constructed(p)
          /\ UNCHANGED <<listener, failed>>
      BY <2>3 DEF Accept, In
    <3>2. at[p] \in 1..MaxOps /\ Port(p) \in Ports
      BY <3>1, OpOfScript
    <3> DEFINE q == pending[Port(p)]
    <3>3. q \in Seq(Conns) /\ Len(q) \in Nat /\ Len(q) <= Backlog
      <4>1. pending[Port(p)] \in Seq(Conns) /\ Len(pending[Port(p)]) <= Backlog
        BY <3>2 DEF TypeOK
      <4> HIDE DEF Conns
      <4> QED
        BY <4>1
    <3>4. /\ links' = links \cup {<<p, at[p], q[k][1], q[k][2]>> :
                                    k \in DOMAIN q \cap {1}}
          /\ pending' = [pending EXCEPT ![Port(p)] = SubSeq(q, 2, Len(q))]
      BY <2>3 DEF Accept
    <3> HIDE DEF q
    <3>5. \A k \in DOMAIN q : q[k][1] \in Procs /\ q[k][2] \in 1..MaxOps
      BY <3>3
    <3>6. links' \subseteq Procs \X (1..MaxOps) \X Procs \X (1..MaxOps)
      <4>1. {<<p, at[p], q[k][1], q[k][2]>> : k \in DOMAIN q \cap {1}}
              \subseteq Procs \X (1..MaxOps) \X Procs \X (1..MaxOps)
        BY <3>2, <3>5
      <4>2. links \subseteq Procs \X (1..MaxOps) \X Procs \X (1..MaxOps)
        BY DEF TypeOK
      <4> QED
        BY <3>4, <4>1, <4>2
    <3>7. SubSeq(q, 2, Len(q)) \in Seq(Conns)
          /\ Len(SubSeq(q, 2, Len(q))) <= Backlog
      <4> HIDE DEF Conns
      <4> QED
        BY <3>3, StartupAssumption
    <3>8. pending' \in [Ports -> Seq(Conns)]
          /\ \A r \in Ports : Len(pending'[r]) <= Backlog
      BY <3>2, <3>4, <3>7 DEF TypeOK
    <3> QED
      BY <3>1, <3>6, <3>8, ConstructedType DEF TypeOK
  <2>4. ASSUME NEW p \in Procs, AcceptFails(p) PROVE TypeOK'
    <3>1. failed' \in BOOLEAN
      BY <2>4 DEF AcceptFails
    <3> QED
      BY <2>4, <3>1, ConstructedType DEF AcceptFails, In, TypeOK
  <2>5. ASSUME NEW p \in Procs, Connect(p) PROVE TypeOK'
    <3>1. at[p] <= Len(script[p]) /\ Constructed(p) /\ UNCHANGED <<listener, links, failed>>
      BY <2>5 DEF Connect, In
    <3>2. at[p] \in 1..MaxOps /\ Port(p) \in Ports
      BY <3>1, OpOfScript
    <3> DEFINE q == pending[Port(p)]
               c == <<p, at[p]>>
    <3>3. q \in Seq(Conns) /\ Len(q) \in Nat /\ Len(q) < Backlog
      <4>1. pending[Port(p)] \in Seq(Conns) /\ Len(pending[Port(p)]) < Backlog
        BY <2>5, <3>2 DEF TypeOK, Connect, Reachable
      <4> HIDE DEF Conns
      <4> QED
        BY <4>1
    <3>4. pending' = [pending EXCEPT ![Port(p)] = Append(q, c)]
      BY <2>5 DEF Connect
    <3>5. c \in Conns
      BY <3>2
    <3> HIDE DEF q, c
    <3>6. Append(q, c) \in Seq(Conns) /\ Len(Append(q, c)) <= Backlog
      <4> HIDE DEF Conns
      <4> QED
        BY <3>3, <3>5, StartupAssumption
    <3>7. pending' \in [Ports -> Seq(Conns)]
          /\ \A r \in Ports : Len(pending'[r]) <= Backlog
      BY <3>2, <3>4, <3>6 DEF TypeOK
    <3> QED
      BY <3>1, <3>7, ConstructedType DEF TypeOK
  <2>6. ASSUME NEW p \in Procs, ConnectFails(p) PROVE TypeOK'
    <3>1. Alive(p) /\ tries[p] \in 0..Retries /\ tries[p] < Retries
      BY <2>6 DEF ConnectFails, In, TypeOK, Alive, Ended
    <3>2. tries[p] + 1 \in 0..Retries
      BY <3>1, StartupAssumption
    <3>3. tries' \in [Procs -> 0..Retries] /\ tries'[p] = tries[p] + 1
          /\ \A q \in Procs \ {p} : tries'[q] = tries[q]
      BY <2>6, <3>2 DEF ConnectFails, TypeOK
    <3>4. CASE tries[p] + 1 = Retries
      <4>1. Ends(p, "gave up")
        BY <2>6, <3>4 DEF ConnectFails
      <4>2. \A q \in Procs : ~Ended(q)' => tries'[q] < Retries
        BY <3>3, <4>1, EndsType DEF TypeOK
      <4> QED
        BY <2>6, <3>3, <4>1, <4>2, EndsType DEF ConnectFails, TypeOK
    <3>5. CASE tries[p] + 1 # Retries
      <4>1. UNCHANGED <<fate, listener, pending>> /\ tries[p] + 1 < Retries
        BY <2>6, <3>1, <3>2, <3>5, StartupAssumption DEF ConnectFails
      <4>2. \A q \in Procs : ~Ended(q)' => tries'[q] < Retries
        BY <3>3, <4>1 DEF TypeOK, Ended
      <4> QED
        BY <2>6, <3>3, <4>1, <4>2 DEF ConnectFails, TypeOK
    <3> QED
      BY <3>4, <3>5
  <2>7. CASE UNCHANGED vars
    BY <2>7 DEF vars, TypeOK, Ended
  <2>8. ASSUME NEW p \in Procs, Start(p) PROVE TypeOK'
    <3>1. ReadyFor(p, at[p]) \in BOOLEAN
      BY DEF ReadyFor, Reachable
    <3> QED
      BY <2>8, <3>1 DEF Start, TypeOK, Ended
  <2> QED
    BY <2>1, <2>2, <2>3, <2>4, <2>5, <2>6, <2>7, <2>8 DEF Next, Step
<1> QED
  BY <1>1, <1>2, PTL DEF Spec

-----------------------------------------------------------------------------
\* The processes of a knot stay where they are because nobody else calls them:
\* what waits on their ports stays empty.
Waiting(w) ==
  \A p \in Procs : w[p] # 0 =>
    at[p] <= w[p] /\ pending[script[p][w[p]].port] = <<>>
KnotsWait ==
  ~failed => \A w \in [Procs -> 0..MaxOps] : Knot(w) => Waiting(w)

\* The port a process of a knot serves is a port.
LEMMA KnotPort ==
  ASSUME TypeOK, NEW w \in [Procs -> 0..MaxOps], Knot(w),
         NEW p \in Procs, w[p] # 0
  PROVE  /\ script[p][w[p]].port \in Ports /\ script[p][w[p]].op = "server"
         /\ w[p] \in 1..MaxOps
<1>1. script[p] \in Seq(Ops)
  BY StartupAssumption DEF TypeOK
<1>2. w[p] \in 0..MaxOps /\ w[p] <= Len(script[p]) /\ w[p] # 0
      /\ script[p][w[p]].op = "server"
  BY DEF Knot
<1>3. w[p] \in 1..MaxOps /\ MaxOps \in Nat
  BY <1>2, StartupAssumption
<1>4. script[p][w[p]] \in Ops
  BY <1>1, <1>2, <1>3
<1> QED
  BY <1>2, <1>3, <1>4 DEF Ops

\* A process of a knot does not complete the server it waits in.
LEMMA NoAccept ==
  ASSUME TypeOK, NEW w \in [Procs -> 0..MaxOps], Waiting(w),
         NEW p \in Procs, w[p] # 0, Accept(p) \/ Connect(p), Knot(w)
  PROVE  at[p] # w[p]
<1> SUFFICES ASSUME at[p] = w[p] PROVE FALSE
  OBVIOUS
<1>1. script[p][at[p]].op = "server" /\ pending[Port(p)] = <<>>
  BY KnotPort DEF Waiting, Port
<1>2. Accept(p)
  BY <1>1 DEF Connect, In
<1> QED
  BY <1>1, <1>2 DEF Accept, Acceptable

\* Nobody connects to a knot from outside, or from before its servers.
LEMMA NoCall ==
  ASSUME TypeOK, NEW w \in [Procs -> 0..MaxOps], Knot(w), Waiting(w),
         NEW p \in Procs, w[p] # 0, NEW q \in Procs, Connect(q)
  PROVE  Port(q) # script[p][w[p]].port
<1> SUFFICES ASSUME Port(q) = script[p][w[p]].port PROVE FALSE
  OBVIOUS
<1>1. /\ at[q] \in DOMAIN script[q] /\ script[q][at[q]] \in Ops
      /\ script[q][at[q]].op = "client" /\ script[q][at[q]].port = Port(q)
  BY OpOfScript DEF Connect, In, Port
<1>2. script[q][at[q]] = [op |-> "client", port |-> script[p][w[p]].port]
  BY <1>1 DEF Ops
<1>3. w[q] # 0 /\ at[q] > w[q]
  BY <1>1, <1>2 DEF Knot
<1>4. at[q] <= w[q] /\ at[q] \in 1..MaxOps+1 /\ w[q] \in 0..MaxOps
  BY <1>3 DEF Waiting, TypeOK
<1> QED
  BY <1>3, <1>4, StartupAssumption

\* CircularWait, for every layout: processes that serve each other inside
\* their constructors never come up, in no order of events.
THEOREM KnotsDeadlock == Spec => []CircularWait
<1>1. Init => KnotsWait
  <2> SUFFICES ASSUME Init, NEW w \in [Procs -> 0..MaxOps], Knot(w),
                      NEW p \in Procs, w[p] # 0
               PROVE  at[p] <= w[p] /\ pending[script[p][w[p]].port] = <<>>
    BY DEF KnotsWait, Waiting
  <2>1. TypeOK
    <3>1. 1 \in 1..MaxOps+1 /\ 0 \in 0..Retries
      BY StartupAssumption
    <3>2. failed \in BOOLEAN
      BY DEF Init
    <3> QED
      BY <3>1, <3>2, EmptyBacklog, StartupAssumption DEF Init, TypeOK
  <2>2. script[p][w[p]].port \in Ports /\ w[p] \in 1..MaxOps
    BY <2>1, KnotPort
  <2> QED
    BY <2>2 DEF Init
<1>2. TypeOK /\ KnotsWait /\ [Next]_vars => KnotsWait'
  <2> SUFFICES ASSUME TypeOK, KnotsWait, [Next]_vars, ~failed',
                      NEW w \in [Procs -> 0..MaxOps], Knot(w)'
               PROVE  Waiting(w)'
    BY DEF KnotsWait
  <2>1. script' = script
    BY DEF Next, Step, Start, Bind, BindFails, Accept, AcceptFails, Connect,
           ConnectFails, Constructed, vars
  <2>0. ~failed
    BY DEF Next, Step, Start, Bind, BindFails, Accept, AcceptFails, Connect,
           ConnectFails, vars
  <2>2. Knot(w) /\ Waiting(w)
    BY <2>0, <2>1 DEF Knot, KnotsWait
  <2> SUFFICES ASSUME NEW p \in Procs, w[p] # 0
               PROVE  at'[p] <= w[p] /\ pending'[script[p][w[p]].port] = <<>>
    BY <2>1 DEF Waiting
  <2>3. /\ at[p] <= w[p] /\ pending[script[p][w[p]].port] = <<>>
        /\ at[p] \in 1..MaxOps+1 /\ script[p][w[p]].port \in Ports
        /\ w[p] \in 1..MaxOps
    BY <2>2, KnotPort DEF Waiting, TypeOK
  <2> DEFINE port == script[p][w[p]].port
  <2>4. ASSUME NEW q \in Procs, Accept(q) \/ Connect(q)
        PROVE  at'[p] <= w[p]
    <3>1. at' = [at EXCEPT ![q] = @ + 1]
      BY <2>4 DEF Accept, Connect, Constructed
    <3>2. CASE q = p
      <4>1. at[p] # w[p]
        BY <2>2, <2>4, <3>2, NoAccept
      <4>2. at'[p] = at[p] + 1
        BY <3>1, <3>2 DEF TypeOK
      <4> QED
        BY <2>3, <4>1, <4>2, StartupAssumption
    <3>3. CASE q # p
      BY <2>3, <3>1, <3>3 DEF TypeOK
    <3> QED
      BY <3>2, <3>3
  <2>5. ASSUME NEW q \in Procs,
               \/ Start(q) \/ Bind(q) \/ BindFails(q) \/ ConnectFails(q)
               \/ UNCHANGED vars
        PROVE  at'[p] <= w[p] /\ pending'[port] = <<>>
    BY <2>3, <2>5 DEF Start, Bind, BindFails, ConnectFails, Ends, vars
  <2>6. ASSUME NEW q \in Procs, Accept(q) PROVE pending'[port] = <<>>
    <3>1. CASE Port(q) = port
      BY <2>3, <2>6, <3>1 DEF Accept, Acceptable
    <3>2. CASE Port(q) # port
      BY <2>3, <2>6, <3>2 DEF Accept, TypeOK
    <3> QED
      BY <3>1, <3>2
  <2>7. ASSUME NEW q \in Procs, AcceptFails(q) PROVE FALSE
    BY <2>7 DEF AcceptFails
  <2>8. ASSUME NEW q \in Procs, Connect(q) PROVE pending'[port] = <<>>
    <3>1. Port(q) # port
      BY <2>2, <2>8, NoCall
    <3> QED
      BY <2>3, <2>8, <3>1 DEF Connect, TypeOK
  <2> QED
    BY <2>4, <2>5, <2>6, <2>7, <2>8 DEF Next, Step
<1>3. KnotsWait => CircularWait
  BY DEF KnotsWait, Waiting, CircularWait
<1> QED
  BY <1>1, <1>2, <1>3, TypeCorrect, PTL DEF Spec

-----------------------------------------------------------------------------
\* What waits on a port are clients of that port that have passed their
\* connect, each once.
Callers ==
  \A q \in Ports :
    /\ \A k \in 1..Len(pending[q]) :
         LET c == pending[q][k]
         IN /\ c[2] \in DOMAIN script[c[1]] /\ c[2] < at[c[1]]
            /\ script[c[1]][c[2]] = [op |-> "client", port |-> q]
    /\ \A k, m \in 1..Len(pending[q]) :
         pending[q][k] = pending[q][m] => k = m

\* A link joins a server and a client of its port that are both past their
\* constructors, and its client waits no more.
Joined ==
  \A l \in links :
    /\ l[2] \in DOMAIN script[l[1]] /\ l[2] < at[l[1]]
    /\ script[l[1]][l[2]].op = "server"
    /\ script[l[3]][l[4]] = [op |-> "client", port |-> script[l[1]][l[2]].port]
    /\ l[4] \in DOMAIN script[l[3]] /\ l[4] < at[l[3]]
    /\ \A q \in Ports : \A k \in 1..Len(pending[q]) :
         pending[q][k] # <<l[3], l[4]>>
OneLinkEach ==
  \A k, l \in links :
    (k[1] = l[1] /\ k[2] = l[2]) \/ (k[3] = l[3] /\ k[4] = l[4]) => k = l

\* A server is passed with a link, unless an accept has failed.
Served ==
  ~failed => \A p \in Procs : \A i \in DOMAIN script[p] :
               script[p][i].op = "server" /\ i < at[p]
                 => \E l \in links : l[1] = p /\ l[2] = i

Linked == Callers /\ Joined /\ OneLinkEach /\ Served

\* While all processes live, a port that could be connected to still can be,
\* but for its backlog.
StillListening ==
  NoneEnded => \A p \in Procs : ready[p] => /\ at[p] <= Len(script[p])
                                            /\ listener[Port(p)] # NoOne

LEMMA ScriptSeq ==
  ASSUME TypeOK, NEW p \in Procs
  PROVE  script[p] \in Seq(Ops)
<1>1. script \in [Procs -> Seq(Ops)]
  BY StartupAssumption DEF TypeOK
<1> QED
  BY <1>1

LEMMA LinkTypes ==
  ASSUME TypeOK
  PROVE  /\ MaxOps \in Nat /\ at \in [Procs -> Nat]
         /\ \A q \in Ports : /\ Len(pending[q]) \in Nat
                              /\ \A k \in 1..Len(pending[q]) :
                                   /\ pending[q][k] = <<pending[q][k][1], pending[q][k][2]>>
                                   /\ pending[q][k][1] \in Procs
                                   /\ pending[q][k][2] \in Nat
         /\ \A l \in links : /\ l[1] \in Procs /\ l[2] \in Nat
                              /\ l[3] \in Procs /\ l[4] \in Nat
                              /\ l = <<l[1], l[2], l[3], l[4]>>
<1>1. MaxOps \in Nat /\ at \in [Procs -> Nat]
  <2>1. MaxOps \in Nat
    BY StartupAssumption
  <2>2. at \in [Procs -> 1..MaxOps+1]
    BY DEF TypeOK
  <2> QED
    BY <2>1, <2>2
<1> DEFINE C == Procs \X (1..MaxOps)
           L == Procs \X (1..MaxOps) \X Procs \X (1..MaxOps)
<1>2. \A c \in C : c = <<c[1], c[2]>> /\ c[1] \in Procs /\ c[2] \in Nat
  OBVIOUS
<1>3. \A l \in L : /\ l[1] \in Procs /\ l[2] \in Nat
                   /\ l[3] \in Procs /\ l[4] \in Nat
                   /\ l = <<l[1], l[2], l[3], l[4]>>
  OBVIOUS
<1>4. links \subseteq L /\ pending \in [Ports -> Seq(C)]
  BY DEF TypeOK
<1> HIDE DEF C, L
<1>5. \A q \in Ports : Len(pending[q]) \in Nat
                       /\ \A k \in 1..Len(pending[q]) : pending[q][k] \in C
  BY <1>4
<1> QED
  BY <1>1, <1>2, <1>3, <1>4, <1>5

\* A process moves on by one constructor.
LEMMA MovesOn ==
  ASSUME TypeOK, NEW p \in Procs, at[p] <= Len(script[p]), Constructed(p)
  PROVE  /\ at'[p] = at[p] + 1 /\ \A q \in Procs \ {p} : at'[q] = at[q]
         /\ \A q \in Procs : at[q] <= at'[q]
         /\ at[p] \in DOMAIN script[p] /\ script' = script
         /\ Port(p) \in Ports
         /\ script[p][at[p]] = [op |-> script[p][at[p]].op, port |-> Port(p)]
<1>1. at' = [at EXCEPT ![p] = @ + 1] /\ script' = script
  BY DEF Constructed
<1>2. at \in [Procs -> Nat]
  BY LinkTypes
<1>3. /\ at'[p] = at[p] + 1 /\ \A q \in Procs \ {p} : at'[q] = at[q]
      /\ \A q \in Procs : at[q] <= at'[q]
  BY <1>1, <1>2
<1>4. script[p][at[p]] \in Ops
  BY OpOfScript
<1>5. script[p][at[p]] = [op |-> script[p][at[p]].op, port |-> Port(p)]
  BY <1>4 DEF Ops, Port
<1> QED
  BY <1>1, <1>3, <1>5, OpOfScript

\* What is left when the first of a sequence is taken, by places.
LEMMA RestPlaces ==
  ASSUME NEW C, NEW s \in Seq(C), s # <<>>
  PROVE  /\ 1 \in 1..Len(s) /\ DOMAIN s = 1..Len(s)
         /\ Len(SubSeq(s, 2, Len(s))) = Len(s) - 1
         /\ \A k \in 1..Len(SubSeq(s, 2, Len(s))) :
              k + 1 \in 1..Len(s) /\ SubSeq(s, 2, Len(s))[k] = s[k + 1]
<1>1. Len(s) \in Nat /\ Len(s) >= 1
  OBVIOUS
<1>2. PICK l \in Nat : l = Len(s)
  BY <1>1
<1>3. /\ Len(SubSeq(s, 2, l)) = IF 2 <= l THEN l - 2 + 1 ELSE 0
      /\ \A i \in 1..l - 2 + 1 : SubSeq(s, 2, l)[i] = s[2 + i - 1]
  BY <1>1, <1>2, SubSeqProperties
<1>4. Len(SubSeq(s, 2, l)) = l - 1
  BY <1>1, <1>2, <1>3
<1>5. ASSUME NEW k \in 1..l-1
      PROVE  k + 1 \in 1..l /\ SubSeq(s, 2, l)[k] = s[k + 1]
  <2>1. k \in 1..l - 2 + 1 /\ 2 + k - 1 = k + 1 /\ k + 1 \in 1..l
    OBVIOUS
  <2> QED
    BY <1>3, <2>1
<1> QED
  BY <1>1, <1>2, <1>4, <1>5

\* Accepting the oldest caller.
LEMMA AcceptLinks ==
  ASSUME TypeOK, Linked, NEW p \in Procs, Accept(p)
  PROVE  Linked'
<1> DEFINE X == Port(p)
           s == pending[X]
           c == s[1]
           new == <<p, at[p], c[1], c[2]>>
<1>1. /\ script[p][at[p]].op = "server" /\ at[p] <= Len(script[p]) /\ Constructed(p)
      /\ s # <<>> /\ failed' = failed
      /\ links' = links \cup {<<p, at[p], s[k][1], s[k][2]>> : k \in DOMAIN s \cap {1}}
      /\ pending' = [pending EXCEPT ![X] = SubSeq(s, 2, Len(s))]
  BY DEF Accept, In, Acceptable
<1>2. /\ at'[p] = at[p] + 1 /\ \A q \in Procs \ {p} : at'[q] = at[q]
      /\ \A q \in Procs : at[q] <= at'[q]
      /\ at[p] \in DOMAIN script[p] /\ script' = script /\ X \in Ports
      /\ script[p][at[p]].port = X
  BY <1>1, MovesOn DEF Port
<1>3. /\ MaxOps \in Nat /\ at \in [Procs -> Nat] /\ Len(s) \in Nat
      /\ \A l \in links : l[1] \in Procs /\ l[2] \in Nat /\ l[3] \in Procs /\ l[4] \in Nat
      /\ \A q \in Ports : \A k \in 1..Len(pending[q]) :
           pending[q][k][1] \in Procs /\ pending[q][k][2] \in Nat
  BY <1>2, LinkTypes
<1>4. s \in Seq(Procs \X (1..MaxOps)) /\ 1 \in 1..Len(s) /\ DOMAIN s = 1..Len(s)
  <2>1. s \in Seq(Procs \X (1..MaxOps))
    BY <1>2 DEF TypeOK
  <2> DEFINE C == Procs \X (1..MaxOps)
  <2> HIDE DEF C
  <2>2. s \in Seq(C)
    BY <2>1 DEF C
  <2> HIDE DEF s
  <2>3. 1 \in 1..Len(s) /\ DOMAIN s = 1..Len(s)
    BY <1>1, <2>2
  <2> QED
    BY <2>1, <2>3
<1>5. links' = links \cup {new}
  BY <1>1, <1>4
<1>6. /\ Len(pending'[X]) = Len(s) - 1
      /\ \A k \in 1..Len(pending'[X]) : k + 1 \in 1..Len(s) /\ pending'[X][k] = s[k + 1]
      /\ \A q \in Ports \ {X} : pending'[q] = pending[q]
  <2>1. pending'[X] = SubSeq(s, 2, Len(s)) /\ \A q \in Ports \ {X} : pending'[q] = pending[q]
    BY <1>1, <1>2 DEF TypeOK
  <2> DEFINE t == SubSeq(s, 2, Len(s))
  <2>3. Len(t) = Len(s) - 1 /\ \A k \in 1..Len(t) : k + 1 \in 1..Len(s) /\ t[k] = s[k + 1]
    BY <1>1, <1>4, RestPlaces
  <2> HIDE DEF t
  <2> QED
    BY <2>1, <2>3 DEF t
<1>7. /\ c[1] \in Procs /\ c[2] \in Nat /\ c = <<c[1], c[2]>>
      /\ c[2] \in DOMAIN script[c[1]] /\ c[2] < at[c[1]]
      /\ script[c[1]][c[2]] = [op |-> "client", port |-> X]
  BY <1>2, <1>4, LinkTypes DEF Linked, Callers
\* What waits now waited before.
<1>8. \A q \in Ports : \A k \in 1..Len(pending'[q]) :
        \E m \in 1..Len(pending[q]) : /\ pending'[q][k] = pending[q][m]
                                      /\ m = IF q = X THEN k + 1 ELSE k
  BY <1>6
<1>13. \A q \in Ports : \A x, y \in 1..Len(pending[q]) :
         pending[q][x] = pending[q][y] => x = y
  BY DEF Linked, Callers
<1>14. \A q \in Ports : \A x \in 1..Len(pending[q]) :
         script[pending[q][x][1]][pending[q][x][2]] = [op |-> "client", port |-> q]
  BY DEF Linked, Callers
<1>15. \A l \in links : l[2] < at[l[1]] /\ l[4] < at[l[3]]
  BY DEF Linked, Joined
<1>16. 1 \in 1..Len(pending[X]) /\ pending[X][1] = c
  BY <1>4
<1>17. \A r \in Procs : script[r] \in Seq(Ops)
  BY StartupAssumption DEF TypeOK
<1> HIDE DEF X, s, c, new
<1>9. Callers'
  <2> SUFFICES ASSUME NEW q \in Ports
               PROVE  /\ \A k \in 1..Len(pending'[q]) :
                           /\ pending'[q][k][2] \in DOMAIN script[pending'[q][k][1]]
                           /\ pending'[q][k][2] < at'[pending'[q][k][1]]
                           /\ script[pending'[q][k][1]][pending'[q][k][2]]
                                = [op |-> "client", port |-> q]
                      /\ \A k, m \in 1..Len(pending'[q]) :
                           pending'[q][k] = pending'[q][m] => k = m
    BY <1>2 DEF Callers
  <2>1. ASSUME NEW k \in 1..Len(pending'[q])
        PROVE  /\ pending'[q][k][2] \in DOMAIN script[pending'[q][k][1]]
               /\ pending'[q][k][2] < at'[pending'[q][k][1]]
               /\ script[pending'[q][k][1]][pending'[q][k][2]]
                    = [op |-> "client", port |-> q]
    <3>1. PICK m \in 1..Len(pending[q]) : pending'[q][k] = pending[q][m]
      BY <1>8
    <3> DEFINE e == pending[q][m]
    <3>2. /\ e[1] \in Procs /\ e[2] \in Nat
          /\ e[2] \in DOMAIN script[e[1]] /\ e[2] < at[e[1]]
          /\ script[e[1]][e[2]] = [op |-> "client", port |-> q]
      BY <1>3 DEF Linked, Callers
    <3> HIDE DEF e
    <3>3. at[e[1]] \in Nat /\ at'[e[1]] \in Nat /\ at[e[1]] <= at'[e[1]]
      BY <1>2, <1>3, <3>2
    <3>4. e[2] < at'[e[1]]
      BY <3>2, <3>3
    <3> QED
      BY <3>1, <3>2, <3>4 DEF e
  <2>2. ASSUME NEW k \in 1..Len(pending'[q]), NEW m \in 1..Len(pending'[q]),
               pending'[q][k] = pending'[q][m]
        PROVE  k = m
    <3>1. PICK x \in 1..Len(pending[q]) : /\ pending'[q][k] = pending[q][x]
                                         /\ x = IF q = X THEN k + 1 ELSE k
      BY <1>8
    <3>2. PICK y \in 1..Len(pending[q]) : /\ pending'[q][m] = pending[q][y]
                                         /\ y = IF q = X THEN m + 1 ELSE m
      BY <1>8
    <3>3. x = y
      BY <1>13, <2>2, <3>1, <3>2
    <3> QED
      BY <3>1, <3>2, <3>3
  <2> QED
    BY <2>1, <2>2
<1>10. Joined'
  <2> SUFFICES ASSUME NEW l \in links'
               PROVE  /\ l[2] \in DOMAIN script[l[1]] /\ l[2] < at'[l[1]]
                      /\ script[l[1]][l[2]].op = "server"
                      /\ script[l[3]][l[4]]
                           = [op |-> "client", port |-> script[l[1]][l[2]].port]
                      /\ l[4] \in DOMAIN script[l[3]] /\ l[4] < at'[l[3]]
                      /\ \A q \in Ports : \A k \in 1..Len(pending'[q]) :
                           pending'[q][k] # <<l[3], l[4]>>
    BY <1>2 DEF Joined
  <2>1. CASE l \in links
    <3>1. /\ l[2] < at[l[1]] /\ l[4] < at[l[3]]
          /\ at[l[1]] <= at'[l[1]] /\ at[l[3]] <= at'[l[3]]
          /\ l[2] \in Nat /\ l[4] \in Nat /\ at[l[1]] \in Nat /\ at[l[3]] \in Nat
          /\ at'[l[1]] \in Nat /\ at'[l[3]] \in Nat
      <4>1. /\ l[1] \in Procs /\ l[3] \in Procs /\ l[2] \in Nat /\ l[4] \in Nat
            /\ l[2] < at[l[1]] /\ l[4] < at[l[3]]
        BY <1>3, <1>15, <2>1
      <4>2. \A r \in Procs : at[r] \in Nat /\ at'[r] \in Nat /\ at[r] <= at'[r]
        BY <1>2, <1>3
      <4> QED
        BY <4>1, <4>2
    <3>2. l[2] < at'[l[1]] /\ l[4] < at'[l[3]]
      BY <3>1
    <3> QED
      BY <1>8, <2>1, <3>2 DEF Linked, Joined
  <2>2. CASE l = new
    <3>1. l[1] = p /\ l[2] = at[p] /\ l[3] = c[1] /\ l[4] = c[2]
      BY <2>2 DEF new
    <3>2. at[p] < at'[p] /\ c[2] < at'[c[1]]
      <4>1. at[p] \in Nat /\ at[c[1]] \in Nat /\ at'[c[1]] \in Nat /\ at[c[1]] <= at'[c[1]]
        BY <1>2, <1>3, <1>7
      <4> QED
        BY <1>2, <1>7, <4>1
    <3>3. ASSUME NEW q \in Ports, NEW k \in 1..Len(pending'[q])
          PROVE  pending'[q][k] # c
      <4>1. PICK x \in 1..Len(pending[q]) : /\ pending'[q][k] = pending[q][x]
                                           /\ x = IF q = X THEN k + 1 ELSE k
        BY <1>8
      <4>2. CASE q = X
        <5>1. x # 1
          BY <4>1, <4>2
        <5> QED
          BY <1>2, <1>13, <1>16, <4>1, <4>2, <5>1
      <4>3. CASE q # X
        <5>1. pending[q][x] # c
          <6> SUFFICES ASSUME pending[q][x] = c PROVE FALSE
            OBVIOUS
          <6>1. script[c[1]][c[2]] = [op |-> "client", port |-> q]
            BY <1>14
          <6>2. [op |-> "client", port |-> q].port = [op |-> "client", port |-> X].port
            BY <1>7, <6>1
          <6> QED
            BY <4>3, <6>2
        <5> QED
          BY <4>1, <5>1
      <4> QED
        BY <4>2, <4>3
    <3> QED
      BY <1>1, <1>2, <1>7, <3>1, <3>2, <3>3
  <2> QED
    BY <1>5, <2>1, <2>2
<1>11. OneLinkEach'
  <2>1. \A l \in links : ~(l[1] = p /\ l[2] = at[p]) /\ ~(l[3] = c[1] /\ l[4] = c[2])
    <3> TAKE l \in links
    <3>1. l[2] < at[l[1]] /\ l[2] \in Nat
      BY <1>3 DEF Linked, Joined
    <3>2. pending[X][1] # <<l[3], l[4]>>
      BY <1>2, <1>4 DEF Linked, Joined, s
    <3> QED
      BY <1>3, <1>7, <3>1, <3>2 DEF c, s
  <2>2. new[1] = p /\ new[2] = at[p] /\ new[3] = c[1] /\ new[4] = c[2]
    BY DEF new
  <2> QED
    BY <1>5, <2>1, <2>2 DEF Linked, OneLinkEach
<1>12. Served'
  <2> SUFFICES ASSUME ~failed, NEW r \in Procs, NEW i \in DOMAIN script[r],
                      script[r][i].op = "server", i < at'[r]
               PROVE  \E l \in links' : l[1] = r /\ l[2] = i
    BY <1>1, <1>2 DEF Served
  <2>1. CASE i < at[r]
    BY <1>5, <2>1 DEF Linked, Served
  <2>2. CASE ~(i < at[r])
    <3>1. i \in Nat
      <4>1. script[r] \in Seq(Ops)
        BY <1>17
      <4>2. DOMAIN script[r] = 1..Len(script[r]) /\ Len(script[r]) \in Nat
        BY <4>1
      <4> QED
        BY <4>2
    <3>2. r = p /\ i = at[p]
      <4>1. at[r] \in Nat
        BY <1>3
      <4> QED
        BY <1>2, <2>2, <3>1, <4>1
    <3>3. new \in links' /\ new[1] = r /\ new[2] = i
      BY <1>5, <3>2 DEF new
    <3> QED
      BY <3>3
  <2> QED
    BY <2>1, <2>2
<1> QED
  BY <1>9, <1>10, <1>11, <1>12 DEF Linked

\* A new caller at the end of a backlog.
LEMMA ConnectLinks ==
  ASSUME TypeOK, Linked, NEW p \in Procs, Connect(p)
  PROVE  Linked'
<1> DEFINE X == Port(p)
           s == pending[X]
           c == <<p, at[p]>>
<1>1. /\ script[p][at[p]].op = "client" /\ at[p] <= Len(script[p]) /\ Constructed(p)
      /\ failed' = failed /\ links' = links
      /\ pending' = [pending EXCEPT ![X] = Append(s, c)]
  BY DEF Connect, In
<1>2. /\ at'[p] = at[p] + 1 /\ \A q \in Procs \ {p} : at'[q] = at[q]
      /\ \A q \in Procs : at[q] <= at'[q]
      /\ at[p] \in DOMAIN script[p] /\ script' = script /\ X \in Ports
      /\ script[p][at[p]] = [op |-> "client", port |-> X]
  BY <1>1, MovesOn
<1>3. /\ \A r \in Procs : at[r] \in Nat /\ at'[r] \in Nat
      /\ Len(s) \in Nat
      /\ \A l \in links : l[1] \in Procs /\ l[2] \in Nat /\ l[3] \in Procs /\ l[4] \in Nat
      /\ \A q \in Ports : \A k \in 1..Len(pending[q]) :
           pending[q][k][1] \in Procs /\ pending[q][k][2] \in Nat
  <2>1. \A r \in Procs : at[r] \in Nat
    BY LinkTypes
  <2>2. at' = [at EXCEPT ![p] = @ + 1] /\ at \in [Procs -> Nat]
    BY <1>1, LinkTypes DEF Constructed
  <2> QED
    BY <1>2, <2>1, <2>2, LinkTypes
<1>4. /\ Len(pending'[X]) = Len(s) + 1 /\ pending'[X][Len(s) + 1] = c
      /\ \A k \in 1..Len(s) : pending'[X][k] = s[k]
      /\ \A q \in Ports \ {X} : pending'[q] = pending[q]
  <2>1. pending'[X] = Append(s, c) /\ \A q \in Ports \ {X} : pending'[q] = pending[q]
    BY <1>1, <1>2 DEF TypeOK
  <2> DEFINE C == Procs \X (1..MaxOps)
  <2>2. s \in Seq(C)
    BY <1>2 DEF TypeOK
  <2> HIDE DEF s, C, c
  <2>3. /\ Len(Append(s, c)) = Len(s) + 1 /\ Append(s, c)[Len(s) + 1] = c
        /\ \A k \in 1..Len(s) : Append(s, c)[k] = s[k]
    BY <2>2
  <2> QED
    BY <2>1, <2>3
\* What waits waited before, or is the new caller.
<1>5. \A q \in Ports : \A k \in 1..Len(pending'[q]) :
        \/ k \in 1..Len(pending[q]) /\ pending'[q][k] = pending[q][k]
        \/ q = X /\ k = Len(s) + 1 /\ pending'[q][k] = c
  BY <1>3, <1>4
<1>6. \A q \in Ports : \A k \in 1..Len(pending[q]) :
        LET e == pending[q][k]
        IN /\ e[1] \in Procs /\ e[2] \in Nat
           /\ e[2] \in DOMAIN script[e[1]] /\ e[2] < at[e[1]]
           /\ script[e[1]][e[2]] = [op |-> "client", port |-> q]
  BY <1>3 DEF Linked, Callers
<1>7. \A q \in Ports : \A x, y \in 1..Len(pending[q]) :
        pending[q][x] = pending[q][y] => x = y
  BY DEF Linked, Callers
<1>8. c[1] = p /\ c[2] = at[p]
  OBVIOUS
<1> HIDE DEF X, s, c
<1>9. \A q \in Ports : \A k \in 1..Len(pending[q]) : pending[q][k] # c
  <2> SUFFICES ASSUME NEW q \in Ports, NEW k \in 1..Len(pending[q]), pending[q][k] = c
               PROVE  FALSE
    OBVIOUS
  <2>1. c[2] < at[c[1]]
    BY <1>6
  <2> QED
    BY <1>3, <1>8, <2>1
<1>10. Callers'
  <2> SUFFICES ASSUME NEW q \in Ports
               PROVE  /\ \A k \in 1..Len(pending'[q]) :
                           /\ pending'[q][k][2] \in DOMAIN script[pending'[q][k][1]]
                           /\ pending'[q][k][2] < at'[pending'[q][k][1]]
                           /\ script[pending'[q][k][1]][pending'[q][k][2]]
                                = [op |-> "client", port |-> q]
                      /\ \A k, m \in 1..Len(pending'[q]) :
                           pending'[q][k] = pending'[q][m] => k = m
    BY <1>2 DEF Callers
  <2>1. ASSUME NEW k \in 1..Len(pending'[q])
        PROVE  /\ pending'[q][k][2] \in DOMAIN script[pending'[q][k][1]]
               /\ pending'[q][k][2] < at'[pending'[q][k][1]]
               /\ script[pending'[q][k][1]][pending'[q][k][2]]
                    = [op |-> "client", port |-> q]
    <3>1. CASE k \in 1..Len(pending[q]) /\ pending'[q][k] = pending[q][k]
      <4> DEFINE e == pending[q][k]
      <4>1. /\ e[1] \in Procs /\ e[2] \in Nat
            /\ e[2] \in DOMAIN script[e[1]] /\ e[2] < at[e[1]]
            /\ script[e[1]][e[2]] = [op |-> "client", port |-> q]
        BY <1>6, <3>1
      <4> HIDE DEF e
      <4>2. e[2] < at'[e[1]]
        BY <1>2, <1>3, <4>1
      <4> QED
        BY <3>1, <4>1, <4>2 DEF e
    <3>2. CASE q = X /\ pending'[q][k] = c
      <4>1. at[p] < at'[p]
        BY <1>2, <1>3
      <4> QED
        BY <1>2, <1>8, <3>2, <4>1
    <3> QED
      BY <1>5, <3>1, <3>2
  <2>2. ASSUME NEW k \in 1..Len(pending'[q]), NEW m \in 1..Len(pending'[q]),
               pending'[q][k] = pending'[q][m]
        PROVE  k = m
    BY <1>5, <1>7, <1>9, <2>2
  <2> QED
    BY <2>1, <2>2
<1>11. Joined'
  <2> SUFFICES ASSUME NEW l \in links
               PROVE  /\ l[2] \in DOMAIN script[l[1]] /\ l[2] < at'[l[1]]
                      /\ script[l[1]][l[2]].op = "server"
                      /\ script[l[3]][l[4]]
                           = [op |-> "client", port |-> script[l[1]][l[2]].port]
                      /\ l[4] \in DOMAIN script[l[3]] /\ l[4] < at'[l[3]]
                      /\ \A q \in Ports : \A k \in 1..Len(pending'[q]) :
                           pending'[q][k] # <<l[3], l[4]>>
    BY <1>1, <1>2 DEF Joined
  <2>1. /\ l[2] \in DOMAIN script[l[1]] /\ l[4] \in DOMAIN script[l[3]]
        /\ script[l[1]][l[2]].op = "server"
        /\ script[l[3]][l[4]] = [op |-> "client", port |-> script[l[1]][l[2]].port]
        /\ l[2] < at[l[1]] /\ l[4] < at[l[3]]
        /\ \A q \in Ports : \A k \in 1..Len(pending[q]) : pending[q][k] # <<l[3], l[4]>>
    BY DEF Linked, Joined
  <2>2. l[2] < at'[l[1]] /\ l[4] < at'[l[3]]
    <3>1. l[1] \in Procs /\ l[3] \in Procs /\ l[2] \in Nat /\ l[4] \in Nat
      BY <1>3
    <3> QED
      BY <1>2, <1>3, <2>1, <3>1
  <2>3. c # <<l[3], l[4]>>
    <3> SUFFICES ASSUME c = <<l[3], l[4]>> PROVE FALSE
      OBVIOUS
    <3>1. l[3] = p /\ l[4] = at[p]
      BY <1>8
    <3> QED
      BY <1>3, <2>1, <3>1
  <2> QED
    BY <1>5, <2>1, <2>2, <2>3
<1>12. OneLinkEach'
  BY <1>1 DEF Linked, OneLinkEach
<1>13. Served'
  <2> SUFFICES ASSUME ~failed, NEW r \in Procs, NEW i \in DOMAIN script[r],
                      script[r][i].op = "server", i < at'[r]
               PROVE  \E l \in links : l[1] = r /\ l[2] = i
    BY <1>1, <1>2 DEF Served
  <2>1. i \in Nat
    <3>1. script[r] \in Seq(Ops)
      BY ScriptSeq
    <3>2. DOMAIN script[r] = 1..Len(script[r]) /\ Len(script[r]) \in Nat
      BY <3>1
    <3> QED
      BY <3>2
  <2>2. ~(r = p /\ i = at[p])
    BY <1>1
  <2>3. i < at[r]
    BY <1>2, <1>3, <2>1, <2>2
  <2> QED
    BY <2>3 DEF Linked, Served
<1> QED
  BY <1>10, <1>11, <1>12, <1>13 DEF Linked

\* The steps that link nobody: processes move on, or a backlog is reset.
LEMMA OthersLinks ==
  ASSUME TypeOK, Linked, links' = links, script' = script,
         \A r \in Procs : at'[r] \in Nat /\ at[r] <= at'[r],
         \A q \in Ports : pending'[q] = pending[q] \/ pending'[q] = <<>>,
         failed' \/ (failed' = failed /\ at' = at)
  PROVE  Linked'
<1>1. /\ \A r \in Procs : at[r] \in Nat
      /\ \A l \in links : l[1] \in Procs /\ l[2] \in Nat /\ l[3] \in Procs /\ l[4] \in Nat
      /\ \A q \in Ports : \A k \in 1..Len(pending[q]) :
           pending[q][k][1] \in Procs /\ pending[q][k][2] \in Nat
  <2>1. \A r \in Procs : at[r] \in Nat
    BY LinkTypes
  <2> QED
    BY <2>1, LinkTypes
<1>2. \A q \in Ports : \A k \in 1..Len(pending'[q]) :
        k \in 1..Len(pending[q]) /\ pending'[q] = pending[q]
  <2> TAKE q \in Ports
  <2> TAKE k \in 1..Len(pending'[q])
  <2>1. Len(<<>>) = 0
    OBVIOUS
  <2>2. pending'[q] # <<>>
    BY <2>1
  <2> QED
    BY <2>2
<1>3. Callers'
  <2> SUFFICES ASSUME NEW q \in Ports, NEW k \in 1..Len(pending'[q])
               PROVE  /\ pending'[q][k][2] \in DOMAIN script[pending'[q][k][1]]
                      /\ pending'[q][k][2] < at'[pending'[q][k][1]]
                      /\ script[pending'[q][k][1]][pending'[q][k][2]]
                           = [op |-> "client", port |-> q]
                      /\ \A m \in 1..Len(pending'[q]) :
                           pending'[q][k] = pending'[q][m] => k = m
    BY DEF Callers
  <2> DEFINE e == pending[q][k]
  <2>1. k \in 1..Len(pending[q]) /\ pending'[q] = pending[q]
    BY <1>2
  <2>2. /\ e[1] \in Procs /\ e[2] \in Nat
        /\ e[2] \in DOMAIN script[e[1]] /\ e[2] < at[e[1]]
        /\ script[e[1]][e[2]] = [op |-> "client", port |-> q]
        /\ \A m \in 1..Len(pending[q]) : e = pending[q][m] => k = m
    BY <1>1, <2>1 DEF Linked, Callers
  <2> HIDE DEF e
  <2>3. e[2] < at'[e[1]]
    BY <1>1, <2>2
  <2> QED
    BY <2>1, <2>2, <2>3 DEF e
<1>4. Joined'
  <2> SUFFICES ASSUME NEW l \in links
               PROVE  /\ l[2] \in DOMAIN script[l[1]] /\ l[2] < at'[l[1]]
                      /\ script[l[1]][l[2]].op = "server"
                      /\ script[l[3]][l[4]]
                           = [op |-> "client", port |-> script[l[1]][l[2]].port]
                      /\ l[4] \in DOMAIN script[l[3]] /\ l[4] < at'[l[3]]
                      /\ \A q \in Ports : \A k \in 1..Len(pending'[q]) :
                           pending'[q][k] # <<l[3], l[4]>>
    BY DEF Joined
  <2>1. /\ l[2] \in DOMAIN script[l[1]] /\ l[4] \in DOMAIN script[l[3]]
        /\ script[l[1]][l[2]].op = "server"
        /\ script[l[3]][l[4]] = [op |-> "client", port |-> script[l[1]][l[2]].port]
        /\ l[2] < at[l[1]] /\ l[4] < at[l[3]]
        /\ \A q \in Ports : \A k \in 1..Len(pending[q]) : pending[q][k] # <<l[3], l[4]>>
    BY DEF Linked, Joined
  <2>2. l[2] < at'[l[1]] /\ l[4] < at'[l[3]]
    <3>1. l[1] \in Procs /\ l[3] \in Procs /\ l[2] \in Nat /\ l[4] \in Nat
      BY <1>1
    <3> QED
      BY <1>1, <2>1, <3>1
  <2> QED
    BY <1>2, <2>1, <2>2
<1>5. OneLinkEach'
  BY DEF Linked, OneLinkEach
<1>6. Served'
  BY DEF Linked, Served
<1> QED
  BY <1>3, <1>4, <1>5, <1>6 DEF Linked

LEMMA LinkedStep ==
  ASSUME TypeOK, Linked, [Next]_vars
  PROVE  Linked'
<1>1. \A r \in Procs : at[r] \in Nat /\ at[r] <= at[r]
  <2>1. \A r \in Procs : at[r] \in Nat
    BY LinkTypes
  <2> QED
    BY <2>1
<1>2. ASSUME NEW p \in Procs, Accept(p) \/ Connect(p)
      PROVE  Linked'
  BY <1>2, AcceptLinks, ConnectLinks
<1>3. ASSUME NEW p \in Procs, AcceptFails(p)
      PROVE  Linked'
  <2>1. /\ at[p] <= Len(script[p]) /\ Constructed(p) /\ failed'
        /\ links' = links /\ pending' = pending
    BY <1>3 DEF AcceptFails, In
  <2>2. /\ script' = script /\ \A r \in Procs : at[r] <= at'[r]
        /\ at'[p] = at[p] + 1 /\ \A q \in Procs \ {p} : at'[q] = at[q]
    BY <2>1, MovesOn
  <2>3. \A r \in Procs : at'[r] \in Nat
    BY <1>1, <2>2
  <2> QED
    BY <2>1, <2>2, <2>3, OthersLinks
<1>4. ASSUME NEW p \in Procs, Start(p) \/ Bind(p) \/ BindFails(p) \/ ConnectFails(p)
      PROVE  Linked'
  <2>1. /\ links' = links /\ script' = script /\ at' = at /\ failed' = failed
        /\ \A q \in Ports : pending'[q] = pending[q] \/ pending'[q] = <<>>
    BY <1>4 DEF Start, Bind, BindFails, ConnectFails, Ends, TypeOK
  <2> QED
    BY <1>1, <2>1, OthersLinks
<1>5. CASE UNCHANGED vars
  <2>1. /\ links' = links /\ script' = script /\ at' = at /\ failed' = failed
        /\ pending' = pending
    BY <1>5 DEF vars
  <2> QED
    BY <1>1, <2>1, OthersLinks
<1> QED
  BY <1>2, <1>3, <1>4, <1>5 DEF Next, Step

LEMMA LinkedInit == Init => Linked
<1> SUFFICES ASSUME Init PROVE Linked
  OBVIOUS
<1>1. links = {} /\ \A q \in Ports : pending[q] = <<>>
  BY DEF Init
<1>2. \A q \in Ports : 1..Len(pending[q]) = {}
  BY <1>1
<1>3. \A p \in Procs : at[p] = 1 /\ script[p] \in Seq(Ops)
  BY StartupAssumption DEF Init
<1>4. \A p \in Procs : \A i \in DOMAIN script[p] : ~(i < at[p])
  <2> SUFFICES ASSUME NEW p \in Procs, NEW i \in DOMAIN script[p] PROVE ~(i < 1)
    BY <1>3
  <2>1. script[p] \in Seq(Ops)
    BY <1>3
  <2>2. DOMAIN script[p] = 1..Len(script[p]) /\ Len(script[p]) \in Nat
    BY <2>1
  <2> QED
    BY <2>2
<1> QED
  BY <1>1, <1>2, <1>4 DEF Linked, Callers, Joined, OneLinkEach, Served

\* UpMeansConnected, for every layout: a server and a client that have a port
\* for themselves are linked once all processes are up, and nobody twice.
THEOREM UpConnects == Spec => []UpMeansConnected
<1>1. TypeOK /\ Linked => UpMeansConnected
  <2> SUFFICES ASSUME TypeOK, Linked, AllUp, ~failed,
                      NEW p \in Procs, NEW q \in Procs,
                      NEW i \in DOMAIN script[p], NEW j \in DOMAIN script[q],
                      script[p][i].op = "server", script[q][j].op = "client",
                      script[p][i].port = script[q][j].port,
                      \A r \in Procs : \A k \in DOMAIN script[r] :
                        script[r][k].port = script[p][i].port
                          => <<r, k>> \in {<<p, i>>, <<q, j>>}
               PROVE  <<p, i, q, j>> \in links
    BY DEF UpMeansConnected, Linked, OneLinkEach
  <2>1. i < at[p]
    <3>1. at[p] > Len(script[p]) /\ at[p] \in Nat
      BY LinkTypes DEF AllUp, Up
    <3>2. script[p] \in Seq(Ops)
      BY ScriptSeq
    <3>3. i \in 1..Len(script[p]) /\ Len(script[p]) \in Nat
      BY <3>2
    <3> QED
      BY <3>1, <3>3
  <2>2. PICK l \in links : l[1] = p /\ l[2] = i
    BY <2>1 DEF Linked, Served
  <2>3. /\ l[3] \in Procs /\ l[4] \in DOMAIN script[l[3]]
        /\ script[l[3]][l[4]] = [op |-> "client", port |-> script[p][i].port]
        /\ l = <<p, i, l[3], l[4]>>
    <3>1. /\ l[4] \in DOMAIN script[l[3]]
          /\ script[l[3]][l[4]] = [op |-> "client", port |-> script[p][i].port]
      BY <2>2 DEF Linked, Joined
    <3>2. l[3] \in Procs /\ l = <<l[1], l[2], l[3], l[4]>>
      BY LinkTypes
    <3> QED
      BY <2>2, <3>1, <3>2
  <2>4. script[l[3]][l[4]].op = "client" /\ script[l[3]][l[4]].port = script[p][i].port
    BY <2>3
  <2>5. <<l[3], l[4]>> \in {<<p, i>>, <<q, j>>}
    BY <2>3, <2>4
  <2>6. <<l[3], l[4]>> # <<p, i>>
    BY <2>4
  <2>7. l[3] = q /\ l[4] = j
    BY <2>5, <2>6
  <2> QED
    BY <2>3, <2>7
<1>2. TypeOK /\ Linked /\ [Next]_vars => Linked'
  BY LinkedStep
<1> QED
  BY <1>1, <1>2, LinkedInit, TypeCorrect, PTL DEF Spec

-----------------------------------------------------------------------------
LEMMA NotBelow ==
  ASSUME NEW a \in Nat, NEW b \in Nat, ~(a < b)
  PROVE  a >= b
OBVIOUS

LEMMA ListeningStep ==
  ASSUME TypeOK, StillListening, [Next]_vars
  PROVE  StillListening'
<1>1. NoneEnded' => NoneEnded
  BY DEF NoneEnded, Ended, TypeOK, Next, Step, Start, Bind, BindFails, Accept, AcceptFails,
         Connect, ConnectFails, Constructed, Ends, vars
<1> SUFFICES ASSUME NoneEnded', NoneEnded, NEW r \in Procs, ready'[r]
             PROVE  at'[r] <= Len(script'[r]) /\ listener'[script'[r][at'[r]].port] # NoOne
  BY <1>1 DEF StillListening, Port
<1>2. ASSUME NEW p \in Procs, Accept(p) \/ AcceptFails(p) \/ Connect(p)
      PROVE  at'[r] <= Len(script'[r]) /\ listener'[script'[r][at'[r]].port] # NoOne
  <2>1. /\ at[p] <= Len(script[p]) /\ Constructed(p) /\ listener' = listener
    BY <1>2 DEF Accept, AcceptFails, Connect, In
  <2>2. /\ at'[p] = at[p] + 1 /\ \A q \in Procs \ {p} : at'[q] = at[q]
        /\ script' = script
    BY <2>1, MovesOn
  <2>3. ready' = [ready EXCEPT ![p] = ReadyFor(p, at[p] + 1)]
    BY <2>1 DEF Constructed
  <2>4. CASE r = p
    <3>1. ReadyFor(p, at[p] + 1)
      BY <2>3, <2>4 DEF TypeOK
    <3> QED
      BY <2>1, <2>2, <2>4, <3>1 DEF ReadyFor, Reachable
  <2>5. CASE r # p
    <3>1. ready[r] /\ at'[r] = at[r]
      BY <2>2, <2>3, <2>5 DEF TypeOK
    <3> QED
      BY <2>1, <2>2, <3>1 DEF StillListening, Port
  <2> QED
    BY <2>4, <2>5
<1>3. ASSUME NEW p \in Procs, Bind(p) \/ BindFails(p) \/ ConnectFails(p)
      PROVE  at'[r] <= Len(script'[r]) /\ listener'[script'[r][at'[r]].port] # NoOne
  <2>1. at' = at /\ script' = script /\ ready' = ready
    BY <1>3 DEF Bind, BindFails, ConnectFails
  <2>2. at[r] <= Len(script[r]) /\ listener[Port(r)] # NoOne
    BY <2>1 DEF StillListening
  <2>3. CASE listener' = listener
    BY <2>1, <2>2, <2>3 DEF Port
  <2>4. CASE Bind(p)
    <3>1. listener' = [listener EXCEPT ![Port(p)] = p] /\ p # NoOne
      BY <2>4, StartupAssumption DEF Bind
    <3>2. Port(r) \in Ports
      BY <2>2, OpOfScript
    <3>3. listener'[Port(r)] # NoOne
      BY <2>2, <3>1, <3>2 DEF TypeOK
    <3> QED
      BY <2>1, <2>2, <3>3 DEF Port
  <2>5. ~Ends(p, "aborted") /\ ~Ends(p, "gave up")
    BY DEF Ends, NoneEnded, Ended, TypeOK
  <2> QED
    BY <1>3, <2>3, <2>4, <2>5 DEF BindFails, ConnectFails
<1>4. CASE UNCHANGED vars
  BY <1>4 DEF vars, StillListening, Port
<1>5. ASSUME NEW p \in Procs, Start(p)
      PROVE  at'[r] <= Len(script'[r]) /\ listener'[script'[r][at'[r]].port] # NoOne
  <2>1. /\ at' = at /\ script' = script /\ listener' = listener
        /\ ready' = [ready EXCEPT ![p] = ReadyFor(p, at[p])]
    BY <1>5 DEF Start
  <2>2. ready[r] \/ ReadyFor(r, at[r])
    BY <2>1 DEF TypeOK
  <2> QED
    BY <2>1, <2>2 DEF StillListening, Port, ReadyFor, Reachable
<1> QED
  BY <1>2, <1>3, <1>4, <1>5 DEF Next, Step

\* GivesUpOnlyUnserved, for every layout, backlog and number of retries: the
\* listening sockets stay open as long as their processes live.
THEOREM NeverGivesUpOnListener == Spec => GivesUpOnlyUnserved
<1>1. Init => StillListening
  BY DEF Init, StillListening
<1>2. TypeOK /\ StillListening /\ [Next]_vars => StillListening'
  BY ListeningStep
<1>3. TypeOK /\ StillListening /\ [Next]_vars =>
        [\A p \in Procs : fate[p] = "alive" /\ fate'[p] = "gave up" /\ ready[p]
           => ~NoneEnded \/ Len(pending[Port(p)]) >= Backlog]_vars
  <2> SUFFICES ASSUME TypeOK, StillListening, Next, NoneEnded,
                      NEW p \in Procs, fate[p] = "alive", fate'[p] = "gave up", ready[p]
               PROVE  Len(pending[Port(p)]) >= Backlog
    OBVIOUS
  <2>1. ConnectFails(p)
    <3>0. ASSUME NEW r \in Procs, Start(r)
          PROVE  fate'[p] # "gave up"
      BY <3>0 DEF Start, TypeOK
    <3>1. ASSUME NEW r \in Procs, Bind(r) \/ Accept(r) \/ Connect(r) \/ AcceptFails(r)
          PROVE  fate' = fate
      BY <3>1 DEF Bind, Accept, Connect, AcceptFails, Constructed
    <3>2. ASSUME NEW r \in Procs, BindFails(r)
          PROVE  fate'[p] # "gave up"
      <4>1. \/ fate' = [fate EXCEPT ![r] = "aborted"]
            \/ fate' = [fate EXCEPT ![r] = "lost"]
        BY <3>2 DEF BindFails, Ends
      <4> QED
        BY <4>1 DEF TypeOK
    <3>3. ASSUME NEW r \in Procs, ConnectFails(r)
          PROVE  r = p
      <4>1. fate' = fate \/ fate' = [fate EXCEPT ![r] = "gave up"]
        BY <3>3 DEF ConnectFails, Ends
      <4> QED
        BY <4>1 DEF TypeOK
    <3> QED
      BY <3>0, <3>1, <3>2, <3>3 DEF Next, Step
  <2>2. listener[Port(p)] # NoOne /\ at[p] <= Len(script[p])
    BY DEF StillListening
  <2>3. PICK n \in Nat : n = Len(pending[Port(p)])
    BY <2>2, OpOfScript, LinkTypes
  <2>4. ~(n < Backlog)
    <3>1. ~Reachable(Port(p))
      BY <2>1 DEF ConnectFails
    <3> QED
      BY <2>2, <2>3, <3>1 DEF Reachable
  <2>5. Backlog \in Nat
    BY StartupAssumption
  <2>6. n >= Backlog
    BY <2>4, <2>5, NotBelow
  <2> QED
    BY <2>3, <2>6
<1> QED
  BY <1>1, <1>2, <1>3, TypeCorrect, PTL DEF Spec, GivesUpOnlyUnserved

(***************************************************************************)
(* Registration.                                                           *)
(***************************************************************************)
\* Who returns finds an instance, and keeps it.
Given ==
  /\ \A t \in Threads : pc[t] = "return" => inst # Nobody
  /\ \A t \in Threads :
       pc[t] \in {"got", "insert", "print", "method", "done"} => got[t] # Nobody

LEMMA RegInitTypes == RegInit => RegTypeOK /\ Given
BY DEF RegInit, RegTypeOK, Steps, Given

LEMMA GivenKept == RegTypeOK /\ Given /\ [RegNext]_regVars => Given'
<1> SUFFICES ASSUME RegTypeOK, Given, [RegNext]_regVars PROVE Given'
  OBVIOUS
<1>1. ASSUME NEW t \in Threads, Enter(t) \/ Check(t) \/ Assign(t) \/ Return(t)
      PROVE  Given'
  BY <1>1, RegistrationAssumption
     DEF Enter, Check, Assign, Return, Goto, RegTypeOK, Given
<1>2. ASSUME NEW t \in Threads,
             BeginInsert(t) \/ EndInsert(t) \/ EndPrint(t) \/ RegisterMethods(t)
      PROVE  Given'
  BY <1>2 DEF BeginInsert, EndInsert, EndPrint, RegisterMethods, Goto, RegTypeOK,
              Given
<1>3. ASSUME NEW t \in Threads, NEW i \in IDs, Lookup(t, i) PROVE Given'
  BY <1>3 DEF Lookup, Given
<1>4. CASE UNCHANGED regVars
  BY <1>4 DEF regVars, Given
<1> QED
  BY <1>1, <1>2, <1>3, <1>4 DEF RegNext

LEMMA RegTypesKept == RegTypeOK /\ Given /\ [RegNext]_regVars => RegTypeOK'
<1> SUFFICES ASSUME RegTypeOK, Given, [RegNext]_regVars PROVE RegTypeOK'
  OBVIOUS
<1>1. ASSUME NEW t \in Threads, Enter(t) \/ Check(t) \/ Assign(t) \/ Return(t)
      PROVE  RegTypeOK'
  BY <1>1 DEF Enter, Check, Assign, Return, Left, Goto, RegTypeOK, Steps
<1>2. ASSUME NEW t \in Threads,
             BeginInsert(t) \/ EndPrint(t) \/ RegisterMethods(t)
      PROVE  RegTypeOK'
  BY <1>2 DEF BeginInsert, EndPrint, RegisterMethods, Goto, RegTypeOK, Steps,
              Overlaps
<1>3. ASSUME NEW t \in Threads, EndInsert(t) PROVE RegTypeOK'
  <2>1. \A m \in [IDs -> Threads \cup {Nobody}] :
          Emplaced(m, idOf[t], t) \in [IDs -> Threads \cup {Nobody}]
    BY DEF Emplaced
  <2>2. table' \in [Threads -> [IDs -> Threads \cup {Nobody}]]
    BY <1>3, <2>1 DEF EndInsert, RegTypeOK
  <2> QED
    BY <1>3, <2>2 DEF EndInsert, Goto, RegTypeOK, Steps
<1>4. ASSUME NEW t \in Threads, NEW i \in IDs, Lookup(t, i) PROVE RegTypeOK'
  <2>1. got[t] \in Threads
    BY <1>4 DEF Lookup, RegTypeOK, Given
  <2>2. LookedUp(t, i) \in Threads \cup {Nobody}
    BY <2>1 DEF LookedUp, RegTypeOK
  <2> DEFINE before == {u \in Threads : pc[u] = "done" /\ idOf[u] = i}
             rec == [id |-> i, obj |-> LookedUp(t, i),
                     ready |-> LookedUp(t, i) \in methods, before |-> before]
             Recs == [id : IDs, obj : Threads \cup {Nobody}, ready : BOOLEAN,
                      before : SUBSET Threads]
  <2>3. seen' = seen \cup {rec}
    BY <1>4, Zenon DEF Lookup
  <2>4. before \in SUBSET Threads
    OBVIOUS
  <2>5. (LookedUp(t, i) \in methods) \in BOOLEAN
    OBVIOUS
  <2>6. rec \in Recs
    <3> HIDE DEF before
    <3> QED
      BY <2>2, <2>4, <2>5
  <2>7. seen' \subseteq Recs
    <3> HIDE DEF rec
    <3>1. seen \subseteq Recs
      BY DEF RegTypeOK
    <3> HIDE DEF Recs
    <3> QED
      BY <2>3, <2>6, <3>1
  <2>8. torn' \in BOOLEAN
    BY <1>4 DEF Lookup, Overlaps, RegTypeOK
  <2> QED
    BY <1>4, <2>7, <2>8 DEF Lookup, RegTypeOK
<1>5. CASE UNCHANGED regVars
  BY <1>5 DEF regVars, RegTypeOK
<1> QED
  BY <1>1, <1>2, <1>3, <1>4, <1>5 DEF RegNext

\* Every variable keeps its type; nobody uses an instance it was not given.
THEOREM RegTypeCorrect == RegSpec => [](RegTypeOK /\ Given)
BY RegInitTypes, GivenKept, RegTypesKept, PTL DEF RegSpec

-----------------------------------------------------------------------------
\* Inside the mutex there is one thread, and it assigns an empty pointer.
MutexHeld ==
  guarded => /\ ~raced
             /\ \A t \in Threads :
                  /\ pc[t] \in {"check", "assign", "return"} => holder = t
                  /\ pc[t] = "assign" => inst = Nobody
\* Until two assignments meet, everyone has the current instance.
Shared == ~raced => \A t \in Threads : got[t] # Nobody => got[t] = inst

LEMMA MutexKept == RegTypeOK /\ Given /\ MutexHeld /\ [RegNext]_regVars => MutexHeld'
<1>0. [RegNext]_regVars => guarded' = guarded
  BY DEF RegNext, Enter, Check, Assign, Return, BeginInsert, EndInsert, EndPrint,
         RegisterMethods, Lookup, regVars
<1> SUFFICES ASSUME RegTypeOK, Given, MutexHeld, [RegNext]_regVars, guarded
             PROVE  MutexHeld'
  BY <1>0 DEF MutexHeld
<1>1. ASSUME NEW t \in Threads, Enter(t) PROVE MutexHeld'
  BY <1>1, RegistrationAssumption DEF Enter, MayEnter, Goto, RegTypeOK, MutexHeld
<1>2. ASSUME NEW t \in Threads, Check(t) PROVE MutexHeld'
  BY <1>2 DEF Check, Goto, RegTypeOK, MutexHeld
<1>3. ASSUME NEW t \in Threads, Assign(t) PROVE MutexHeld'
  BY <1>3 DEF Assign, Goto, RegTypeOK, MutexHeld
<1>4. ASSUME NEW t \in Threads, Return(t) PROVE MutexHeld'
  <2>1. holder = t /\ pc'[t] \in {"got", "done"}
    BY <1>4 DEF Return, Goto, RegTypeOK, MutexHeld
  <2>2. \A u \in Threads \ {t} : pc'[u] = pc[u]
                                 /\ pc[u] \notin {"check", "assign", "return"}
    BY <1>4, <2>1 DEF Return, Goto, RegTypeOK, MutexHeld
  <2> QED
    BY <1>4, <2>1, <2>2 DEF Return, MutexHeld
<1>5. ASSUME NEW t \in Threads,
             BeginInsert(t) \/ EndInsert(t) \/ EndPrint(t) \/ RegisterMethods(t)
      PROVE  MutexHeld'
  BY <1>5 DEF BeginInsert, EndInsert, EndPrint, RegisterMethods, Goto, RegTypeOK,
              MutexHeld
<1>6. ASSUME NEW t \in Threads, NEW i \in IDs, Lookup(t, i) PROVE MutexHeld'
  BY <1>6 DEF Lookup, MutexHeld
<1>7. CASE UNCHANGED regVars
  BY <1>7 DEF regVars, MutexHeld
<1> QED
  BY <1>1, <1>2, <1>3, <1>4, <1>5, <1>6, <1>7 DEF RegNext

LEMMA SharedKept == RegTypeOK /\ Given /\ Shared /\ [RegNext]_regVars => Shared'
<1> SUFFICES ASSUME RegTypeOK, Given, Shared, [RegNext]_regVars, ~raced' PROVE Shared'
  BY DEF Shared
<1>1. ASSUME NEW t \in Threads, Assign(t) PROVE Shared'
  BY <1>1 DEF Assign, RegTypeOK, Shared
<1>2. ASSUME NEW t \in Threads, Return(t) PROVE Shared'
  BY <1>2 DEF Return, RegTypeOK, Shared
<1>3. ASSUME NEW t \in Threads,
             \/ Enter(t) \/ Check(t) \/ BeginInsert(t) \/ EndInsert(t)
             \/ EndPrint(t) \/ RegisterMethods(t)
      PROVE  Shared'
  BY <1>3 DEF Enter, Check, BeginInsert, EndInsert, EndPrint, RegisterMethods,
              Shared
<1>4. ASSUME NEW t \in Threads, NEW i \in IDs, Lookup(t, i) PROVE Shared'
  BY <1>4 DEF Lookup, Shared
<1>5. CASE UNCHANGED regVars
  BY <1>5 DEF regVars, Shared
<1> QED
  BY <1>1, <1>2, <1>3, <1>4, <1>5 DEF RegNext

\* OneInstance: the mutex of buffer and CPPLogger makes their instance unique;
\* routingTbl and threadMgmt have one unless first calls overlap.
THEOREM InstanceUnique == RegSpec => []OneInstance
<1>1. RegInit => MutexHeld /\ Shared
  BY DEF RegInit, MutexHeld, Shared
<1>2. MutexHeld /\ Shared => OneInstance
  BY DEF MutexHeld, Shared, OneInstance
<1> QED
  BY <1>1, <1>2, MutexKept, SharedKept, RegTypeCorrect, PTL DEF RegSpec

-----------------------------------------------------------------------------
\* Who has registered is in the shared table, or its predecessor is; methods
\* are complete with the constructor; what was found once is still there.
Kept ==
  ~raced /\ ~torn =>
    /\ \A t \in Threads :
         pc[t] \in {"print", "method", "done"} /\ idOf[t] # NoID
           => table[inst][idOf[t]] # Nobody
    /\ \A t \in Threads : pc[t] = "done" /\ idOf[t] # NoID => t \in methods
    /\ \A r \in seen :
         /\ inst # Nobody
         /\ r.before # {} => r.obj # Nobody
         /\ r.obj \in r.before => r.ready
         /\ r.obj # Nobody => r.obj = table[inst][r.id]

LEMMA KeptKept ==
  RegTypeOK /\ Given /\ Shared /\ Kept /\ [RegNext]_regVars => Kept'
<1> SUFFICES ASSUME RegTypeOK, Given, Shared, Kept, [RegNext]_regVars, ~raced', ~torn'
             PROVE  Kept'
  BY DEF Kept
<1>1. ASSUME NEW t \in Threads, Enter(t) \/ Check(t) \/ Return(t)
      PROVE  Kept'
  BY <1>1 DEF Enter, Check, Return, Goto, RegTypeOK, Kept
<1>2. ASSUME NEW t \in Threads, Assign(t) PROVE Kept'
  <2>1. inst = Nobody /\ ~raced /\ ~torn
    BY <1>2 DEF Assign
  <2>2. seen = {}
    BY <2>1 DEF Kept
  <2>3. \A u \in Threads : pc[u] \notin {"print", "method", "done"}
    BY <2>1 DEF Shared, Given
  <2> QED
    BY <1>2, <2>2, <2>3 DEF Assign, Goto, RegTypeOK, Kept
<1>3. ASSUME NEW t \in Threads, BeginInsert(t) PROVE Kept'
  BY <1>3 DEF BeginInsert, Goto, RegTypeOK, Kept
<1>4. ASSUME NEW t \in Threads, EndInsert(t) PROVE Kept'
  <2>1. got[t] = inst /\ inst \in Threads /\ ~raced /\ ~torn
    BY <1>4 DEF EndInsert, Given, Shared, RegTypeOK
  <2> DEFINE m == table[inst]
             i == idOf[t]
  <2>2. m \in [IDs -> Threads \cup {Nobody}]
    BY <2>1 DEF RegTypeOK
  <2>3. table'[inst] = Emplaced(m, i, t) /\ inst' = inst
    BY <1>4, <2>1 DEF EndInsert, RegTypeOK
  <2>4. \A j \in IDs : m[j] # Nobody => table'[inst][j] = m[j]
    BY <2>2, <2>3 DEF Emplaced
  <2>5. i # NoID => table'[inst][i] # Nobody
    BY <2>2, <2>3, RegistrationAssumption DEF Emplaced
  <2>6. \A u \in Threads : idOf[u] # NoID => idOf[u] \in IDs
    BY RegistrationAssumption
  <2>7. \A u \in Threads :
          pc'[u] \in {"print", "method", "done"} /\ idOf[u] # NoID
            => table'[inst][idOf[u]] # Nobody
    BY <1>4, <2>1, <2>4, <2>5, <2>6 DEF EndInsert, Goto, RegTypeOK, Kept
  <2>8. \A r \in seen : r.obj # Nobody => r.obj = table'[inst][r.id]
    BY <2>1, <2>4 DEF Kept, RegTypeOK
  <2>9. \A u \in Threads : pc'[u] = "done" => pc[u] = "done"
    BY <1>4 DEF EndInsert, Goto, RegTypeOK
  <2> HIDE DEF m, i
  <2> QED
    BY <1>4, <2>1, <2>3, <2>7, <2>8, <2>9 DEF EndInsert, Kept
<1>5. ASSUME NEW t \in Threads, EndPrint(t) \/ RegisterMethods(t) PROVE Kept'
  BY <1>5 DEF EndPrint, RegisterMethods, Goto, RegTypeOK, Kept
<1>6. ASSUME NEW t \in Threads, NEW i \in IDs, Lookup(t, i) PROVE Kept'
  <2>1. ~raced /\ ~torn /\ got[t] = inst /\ inst \in Threads
    BY <1>6 DEF Lookup, Given, Shared, RegTypeOK
  <2> DEFINE before == {u \in Threads : pc[u] = "done" /\ idOf[u] = i}
             obj == table[inst][i]
             new == [id |-> i, obj |-> obj, ready |-> obj \in methods,
                     before |-> before]
  <2>2. seen' = seen \cup {new}
    BY <1>6, <2>1 DEF Lookup, LookedUp
  <2>3. before # {} => obj # Nobody
    BY <2>1, RegistrationAssumption DEF Kept
  <2>4. obj \in before => obj \in methods
    BY <2>1, RegistrationAssumption DEF Kept
  <2>5. UNCHANGED <<inst, table, pc, methods>>
    BY <1>6 DEF Lookup
  <2>6. /\ new.before # {} => new.obj # Nobody
        /\ new.obj \in new.before => new.ready
        /\ new.obj # Nobody => new.obj = table[inst][new.id]
        /\ inst # Nobody
    BY <2>1, <2>3, <2>4, RegistrationAssumption
  <2> HIDE DEF new
  <2> QED
    BY <2>1, <2>2, <2>5, <2>6 DEF Kept
<1>7. CASE UNCHANGED regVars
  BY <1>7 DEF regVars, Kept
<1> QED
  BY <1>1, <1>2, <1>3, <1>4, <1>5, <1>6, <1>7 DEF RegNext

\* RegistrationsKept: without overlapping accesses, what is registered stays
\* found, by every thread, with its methods.
THEOREM LookupsAgree == RegSpec => []RegistrationsKept
<1>1. RegInit => Kept /\ Shared
  BY DEF RegInit, Kept, Shared
<1>2. RegTypeOK /\ Kept => RegistrationsKept
  BY DEF RegTypeOK, Kept, RegistrationsKept
<1> QED
  BY <1>1, <1>2, KeptKept, SharedKept, RegTypeCorrect, PTL DEF RegSpec
=============================================================================
