---------------------------- MODULE RoundTripProofs ----------------------------
(***************************************************************************)
(* Proofs about RoundTrip, for any scripts, thread and message IDs,        *)
(* registrations and counter, over links that lose anything.  Theorems     *)
(* about order and addresses say what holds until a link brings a stray.   *)
(***************************************************************************)
EXTENDS RoundTrip, TLAPS

LEMMA PeerFacts ==
  ASSUME NEW p \in Procs
  PROVE  Peer(p) \in Procs /\ Peer(Peer(p)) = p /\ Peer(p) # p
         /\ \A q \in Procs : q = p \/ q = Peer(p)
BY DEF Procs, Peer

\* The counter starts and stays within its range.
LEMMA CounterTypes ==
  /\ 0 \in 0..Half*Half-1
  /\ \A n \in Nat : (n + 1) % (Half*Half) \in 0..Half*Half-1
<1> DEFINE M == Half * Half
<1>1. M \in Nat /\ M > 0
  BY RoundTripAssumption, SMT
<1> HIDE DEF M
<1>2. 0 \in 0..M-1 /\ \A n \in Nat : (n + 1) % M \in 0..M-1
  BY <1>1, SMT
<1> QED
  BY <1>2 DEF M

\* What a send does to the variables it touches.
LEMMA SendTypes ==
  ASSUME TypeOK, NEW p \in Procs, NEW m \in Messages, Sends(p, m)
  PROVE  /\ net' \in [Procs -> Log]
         /\ pktIDCntr' \in [Procs -> 0..Half*Half-1]
<1>1. Append(net[p], m) \in Log
  BY DEF TypeOK, Log
<1>2. NextID(p) \in 0..Half*Half-1
  BY CounterTypes DEF NextID, TypeOK
<1> QED
  BY <1>1, <1>2 DEF Sends, TypeOK

\* A received message leaves the link.
LEMMA ArrivingTypes ==
  ASSUME TypeOK, NEW p \in Procs, Arriving(p)
  PROVE  /\ Peer(p) \in Procs /\ net[Peer(p)] \in Seq(Messages)
         /\ Head(net[Peer(p)]) \in Messages /\ Tail(net[Peer(p)]) \in Log
         /\ Head(net[Peer(p)]).kind \in Kinds
<1>1. Peer(p) \in Procs /\ net[Peer(p)] \in Seq(Messages) /\ net[Peer(p)] # <<>>
  BY PeerFacts DEF TypeOK, Log, Arriving
<1>2. Head(net[Peer(p)]) \in Messages /\ Tail(net[Peer(p)]) \in Seq(Messages)
  BY <1>1
<1> QED
  BY <1>1, <1>2 DEF Log, Messages

\* A queue of at most one message.
LEMMA Single ==
  ASSUME NEW s \in Seq(Messages), Len(s) <= 1, s # <<>>
  PROVE  Len(s) = 1 /\ s = <<s[1]>> /\ s[1] \in Messages
<1> DEFINE l == Len(s)
<1>1. l \in Nat /\ l <= 1 /\ (l = 0 => s = <<>>)
  OBVIOUS
<1>2. l # 0
  BY <1>1
<1> HIDE DEF l
<1>3. l = 1
  BY <1>1, <1>2
<1> USE DEF l
<1> QED
  BY <1>3

\* The message a router has popped.
LEMMA HandTypes ==
  ASSUME TypeOK, NEW p \in Procs, hand[p] # <<>>
  PROVE  hand[p] = <<hand[p][1]>> /\ hand[p][1] \in Messages
<1>1. hand[p] \in Seq(Messages) /\ Len(hand[p]) <= 1
  BY DEF TypeOK, Log
<1> QED
  BY <1>1, Single

\* A router that is done with its message has none.
LEMMA FreeTypes ==
  ASSUME TypeOK, NEW p \in Procs, hand' = [hand EXCEPT ![p] = <<>>]
  PROVE  hand' \in [Procs -> Log] /\ \A q \in Procs : Len(hand'[q]) <= 1
<1>1. <<>> \in Log /\ Len(<<>>) <= 1
  BY DEF Log
<1>2. hand \in [Procs -> Log] /\ \A q \in Procs : Len(hand[q]) <= 1
  BY DEF TypeOK
<1> QED
  BY <1>1, <1>2

\* The packet main sends next.
LEMMA OrderTypes ==
  ASSUME TypeOK, NEW p \in Procs, Len(sent[p]) < Len(script[p])
  PROVE  /\ script[p][Len(sent[p]) + 1] \in Orders
         /\ Len(sent[p]) + 1 \in DOMAIN script[p]
<1>1. script[p] \in Seq(Orders) /\ Len(sent[p]) \in Nat
  BY RoundTripAssumption DEF TypeOK, Log
<1> QED
  BY <1>1

LEMMA InitTypes == Init => TypeOK
<1> SUFFICES ASSUME Init PROVE TypeOK
  OBVIOUS
<1>1. <<>> \in Log /\ Len(<<>>) = 0
  BY DEF Log
<1>2. 0 \in 0..MaxStrays
  BY RoundTripAssumption
<1> QED
  BY <1>1, <1>2, CounterTypes DEF Init, TypeOK

LEMMA TypesKept == TypeOK /\ [Next]_vars => TypeOK'
<1> SUFFICES ASSUME TypeOK, [Next]_vars PROVE TypeOK'
  OBVIOUS
<1>1. ASSUME NEW p \in Procs, main(p) PROVE TypeOK'
  <2> DEFINE o == script[p][Len(sent[p]) + 1]
             m == [kind |-> "packet", dest |-> o.dest, src |-> o.src,
                   msgID |-> o.msgID, id |-> pktIDCntr[p], n |-> Len(sent[p]) + 1]
  <2>1. o \in Orders /\ Len(sent[p]) \in Nat
    BY <1>1, OrderTypes DEF main, TypeOK, Log
  <2>2. m \in Messages
    BY <2>1 DEF Messages, Orders, Kinds, TypeOK
  <2>3. Sends(p, m) /\ sent' = [sent EXCEPT ![p] = Append(@, m)]
    BY <1>1 DEF main
  <2>4. Append(sent[p], m) \in Log
    BY <2>2 DEF TypeOK, Log
  <2> HIDE DEF m
  <2>5. net' \in [Procs -> Log] /\ pktIDCntr' \in [Procs -> 0..Half*Half-1]
    BY <2>2, <2>3, SendTypes
  <2> QED
    BY <1>1, <2>3, <2>4, <2>5 DEF main, setting, TypeOK
<1>2. ASSUME NEW p \in Procs, managerThread(p) PROVE TypeOK'
  BY <1>2 DEF managerThread, setting, TypeOK
<1>3. ASSUME NEW p \in Procs, Deliver(p) PROVE TypeOK'
  <2>1. Arriving(p)
    BY <1>3 DEF Deliver
  <2>2. \A k \in Kinds : Append(inbox[p][k], Head(net[Peer(p)])) \in Log
    BY <2>1, ArrivingTypes DEF TypeOK, Log
  <2> QED
    BY <1>3, <2>1, <2>2, ArrivingTypes DEF Deliver, setting, TypeOK
<1>4. ASSUME NEW p \in Procs, Lose(p) PROVE TypeOK'
  <2>1. Arriving(p)
    BY <1>4 DEF Lose
  <2> QED
    BY <1>4, <2>1, ArrivingTypes DEF Lose, setting, TypeOK
<1>5. ASSUME NEW p \in Procs, NEW k \in Kinds, Pop(p, k) PROVE TypeOK'
  <2>1. inbox[p][k] \in Seq(Messages) /\ inbox[p][k] # <<>>
    BY <1>5 DEF Pop, TypeOK, Log
  <2>2. /\ <<Head(inbox[p][k])>> \in Log /\ Len(<<Head(inbox[p][k])>>) = 1
        /\ Tail(inbox[p][k]) \in Log
    BY <2>1 DEF Log
  <2> QED
    BY <1>5, <2>2 DEF Pop, setting, TypeOK
<1>6. ASSUME NEW p \in Procs, MessageHandler(p) PROVE TypeOK'
  <2> DEFINE m == hand[p][1]
  <2>1. m \in Messages /\ m.kind = "packet" /\ Sends(p, AckFor(p, m)) /\ Handles(p, m)
    BY <1>6, HandTypes DEF MessageHandler, Answers
  <2>2. AckFor(p, m) \in Messages
    BY <2>1 DEF AckFor, Messages, Kinds, TypeOK
  <2>3. net' \in [Procs -> Log] /\ pktIDCntr' \in [Procs -> 0..Half*Half-1]
    BY <2>1, <2>2, SendTypes
  <2>4. \A k \in Kinds : Append(handled[p][k], m) \in Log
    BY <2>1 DEF TypeOK, Log
  <2>5. handled' \in [Procs -> [Kinds -> Log]]
    BY <2>1, <2>4 DEF Handles, TypeOK
  <2>6. hand' \in [Procs -> Log] /\ \A q \in Procs : Len(hand'[q]) <= 1
    BY <1>6, FreeTypes DEF MessageHandler
  <2> QED
    BY <1>6, <2>3, <2>5, <2>6 DEF MessageHandler, setting, TypeOK
<1>7. ASSUME NEW p \in Procs, rxMsgHandler(p) PROVE TypeOK'
  <2> DEFINE m == hand[p][1]
  <2>1. m \in Messages /\ Handles(p, m)
    BY <1>7, HandTypes DEF rxMsgHandler
  <2>2. \A k \in Kinds : Append(handled[p][k], m) \in Log
    BY <2>1 DEF TypeOK, Log
  <2>3. handled' \in [Procs -> [Kinds -> Log]]
    BY <2>1, <2>2 DEF Handles, TypeOK
  <2>4. hand' \in [Procs -> Log] /\ \A q \in Procs : Len(hand'[q]) <= 1
    BY <1>7, FreeTypes DEF rxMsgHandler
  <2> QED
    BY <1>7, <2>3, <2>4 DEF rxMsgHandler, setting, TypeOK
<1>8. ASSUME NEW p \in Procs, Skip(p) PROVE TypeOK'
  <2>1. hand' \in [Procs -> Log] /\ \A q \in Procs : Len(hand'[q]) <= 1
    BY <1>8, FreeTypes DEF Skip
  <2> QED
    BY <1>8, <2>1 DEF Skip, setting, TypeOK
<1>9. ASSUME NEW p \in Procs, Die(p) PROVE TypeOK'
  BY <1>9 DEF Die, setting, TypeOK
<1>10. CASE UNCHANGED vars
  BY <1>10 DEF vars, setting, TypeOK
<1>11. ASSUME NEW p \in Procs, Stray(p) PROVE TypeOK'
  <2>1. PICK m \in Strays : inbox' = [inbox EXCEPT ![p][m.kind] = Append(@, m)]
    BY <1>11 DEF Stray
  <2>2. m \in Messages /\ m.kind \in Kinds
    BY RoundTripAssumption DEF Messages
  <2>3. \A k \in Kinds : Append(inbox[p][k], m) \in Log
    BY <2>2 DEF TypeOK, Log
  <2>4. inbox' \in [Procs -> [Kinds -> Log]]
    BY <2>1, <2>2, <2>3 DEF TypeOK
  <2>5. strays' \in 0..MaxStrays
    BY <1>11, RoundTripAssumption DEF Stray, TypeOK
  <2> QED
    BY <1>11, <2>4, <2>5 DEF Stray, TypeOK
<1> QED
  BY <1>1, <1>2, <1>3, <1>4, <1>5, <1>6, <1>7, <1>8, <1>9, <1>10, <1>11
  DEF Next, Steps, Finishes

\* Counters stay within the packet ID's 16 bits, a router holds at most one
\* message, and all queues hold messages the processes can have sent.
THEOREM TypeCorrect == Spec => []TypeOK
BY InitTypes, TypesKept, PTL DEF Spec

-----------------------------------------------------------------------------
\* A step that brings no stray.  As long as there has been none, all are.
Faithful == [\E p \in Procs : Steps(p)]_vars

LEMMA NoStray == TypeOK /\ [Next]_vars /\ strays' = 0 => strays = 0 /\ Faithful
<1> SUFFICES ASSUME TypeOK, [Next]_vars, strays' = 0 PROVE strays = 0 /\ Faithful
  OBVIOUS
<1>1. ASSUME NEW p \in Procs, Stray(p) PROVE FALSE
  <2>1. strays \in Nat /\ strays' = strays + 1
    BY <1>1, RoundTripAssumption DEF Stray, TypeOK
  <2> QED
    BY <2>1
<1>2. CASE UNCHANGED vars
  BY <1>2 DEF Faithful, vars, setting
<1>3. ASSUME NEW p \in Procs, Steps(p) PROVE strays' = strays /\ Faithful
  <2>1. UNCHANGED setting
    BY <1>3 DEF Steps, main, managerThread, Deliver, Lose, Pop, Finishes,
                MessageHandler, rxMsgHandler, Skip, Die
  <2> QED
    BY <1>3, <2>1 DEF Faithful, setting
<1> QED
  BY <1>1, <1>2, <1>3 DEF Next

-----------------------------------------------------------------------------
\* Messages of kind k in s are in the order of their numbers; and they come,
\* if any are in s and t, first in s.
Ordered(s, k) ==
  \A i, j \in DOMAIN s :
    i < j /\ s[i].kind = k /\ s[j].kind = k => s[i].n < s[j].n
Before(s, t, k) ==
  \A i \in DOMAIN s, j \in DOMAIN t :
    s[i].kind = k /\ t[j].kind = k => s[i].n < t[j].n

\* Messages of kind k in s have numbers of N.
Numbers(s, k, N) == \A i \in DOMAIN s : s[i].kind = k => s[i].n \in N
OfKind(s, k) == \A i \in DOMAIN s : s[i].kind = k

LEMMA EmptyFacts ==
  ASSUME NEW k \in Kinds, NEW t \in Seq(Messages), NEW N
  PROVE  /\ Ordered(<<>>, k) /\ Numbers(<<>>, k, N) /\ OfKind(<<>>, k)
         /\ Before(<<>>, t, k) /\ Before(t, <<>>, k)
BY DEF Ordered, Numbers, OfKind, Before

LEMMA HeadFacts ==
  ASSUME NEW k \in Kinds, NEW s \in Seq(Messages), s # <<>>
  PROVE  /\ Head(s) \in Messages /\ <<Head(s)>> \in Seq(Messages)
         /\ Tail(s) \in Seq(Messages)
         /\ Ordered(s, k) => Ordered(Tail(s), k) /\ Before(<<Head(s)>>, Tail(s), k)
         /\ OfKind(s, k) => Head(s).kind = k /\ OfKind(Tail(s), k)
         /\ \A N : Numbers(s, k, N)
                    => Numbers(<<Head(s)>>, k, N) /\ Numbers(Tail(s), k, N)
         /\ \A t \in Seq(Messages) :
              /\ Before(s, t, k) => Before(<<Head(s)>>, t, k) /\ Before(Tail(s), t, k)
              /\ Before(t, s, k) => Before(t, <<Head(s)>>, k) /\ Before(t, Tail(s), k)
<1>1. /\ Head(s) \in Messages /\ Tail(s) \in Seq(Messages)
      /\ Head(s) = s[1] /\ Len(s) \in Nat \ {0}
      /\ DOMAIN Tail(s) = 1..Len(s)-1 /\ DOMAIN s = 1..Len(s)
      /\ \A i \in DOMAIN Tail(s) : Tail(s)[i] = s[i + 1]
  OBVIOUS
<1>2. /\ <<Head(s)>> \in Seq(Messages) /\ DOMAIN <<Head(s)>> = {1}
      /\ <<Head(s)>>[1] = s[1]
  BY <1>1
<1> DEFINE h == <<Head(s)>>
           r == Tail(s)
<1>3. /\ 1 \in DOMAIN s
      /\ \A i \in DOMAIN r : i + 1 \in DOMAIN s /\ r[i] = s[i + 1] /\ i \in Nat /\ 1 < i + 1
      /\ \A i \in DOMAIN h : i = 1 /\ h[i] = s[1]
  BY <1>1, <1>2
<1> HIDE DEF h, r
<1>4. Ordered(s, k) => Ordered(r, k) /\ Before(h, r, k)
  <2> SUFFICES ASSUME Ordered(s, k) PROVE Ordered(r, k) /\ Before(h, r, k)
    OBVIOUS
  <2>1. ASSUME NEW i \in DOMAIN r, NEW j \in DOMAIN r,
               i < j, r[i].kind = k, r[j].kind = k
        PROVE  r[i].n < r[j].n
    <3>1. i + 1 < j + 1
      BY <2>1, <1>3
    <3> QED
      BY <2>1, <3>1, <1>3 DEF Ordered
  <2>2. Before(h, r, k)
    BY <1>3 DEF Ordered, Before
  <2> QED
    BY <2>1, <2>2 DEF Ordered
<1>5. OfKind(s, k) => s[1].kind = k /\ OfKind(r, k)
  BY <1>3 DEF OfKind
<1>6. \A N : Numbers(s, k, N) => Numbers(h, k, N) /\ Numbers(r, k, N)
  BY <1>3 DEF Numbers
<1>7. ASSUME NEW t \in Seq(Messages)
      PROVE  /\ Before(s, t, k) => Before(h, t, k) /\ Before(r, t, k)
             /\ Before(t, s, k) => Before(t, h, k) /\ Before(t, r, k)
  BY <1>3 DEF Before
<1> QED
  BY <1>1, <1>2, <1>4, <1>5, <1>6, <1>7 DEF h, r

LEMMA AppendFacts ==
  ASSUME NEW k \in Kinds, NEW s \in Seq(Messages), NEW m \in Messages
  PROVE  /\ Append(s, m) \in Seq(Messages) /\ <<m>> \in Seq(Messages)
         /\ Ordered(s, k) /\ Before(s, <<m>>, k) => Ordered(Append(s, m), k)
         /\ OfKind(s, k) /\ m.kind = k => OfKind(Append(s, m), k)
         /\ \A N : Numbers(s, k, N) /\ Numbers(<<m>>, k, N)
                    => Numbers(Append(s, m), k, N)
         /\ \A t \in Seq(Messages) :
              /\ Before(s, t, k) /\ Before(<<m>>, t, k) => Before(Append(s, m), t, k)
              /\ Before(t, s, k) /\ Before(t, <<m>>, k) => Before(t, Append(s, m), k)
<1> DEFINE a == Append(s, m)
           h == <<m>>
<1>1. /\ a \in Seq(Messages) /\ h \in Seq(Messages)
      /\ DOMAIN h = {1} /\ h[1] = m
      /\ \A i \in DOMAIN a : (i \in DOMAIN s /\ a[i] = s[i]) \/ (i = Len(s) + 1 /\ a[i] = m)
      /\ \A i \in DOMAIN s : i \in Nat /\ i < Len(s) + 1
      /\ \A i \in DOMAIN a : i \in Nat
      /\ Len(s) \in Nat
  <2>1. /\ Len(s) \in Nat /\ DOMAIN s = 1..Len(s)
        /\ a \in Seq(Messages) /\ DOMAIN a = 1..Len(s)+1
        /\ a[Len(s) + 1] = m /\ \A i \in 1..Len(s) : a[i] = s[i]
    OBVIOUS
  <2>2. h \in Seq(Messages) /\ DOMAIN h = {1} /\ h[1] = m
    OBVIOUS
  <2> HIDE DEF a, h
  <2>3. \A i \in DOMAIN a : i \in DOMAIN s \/ i = Len(s) + 1
    BY <2>1
  <2>4. \A i \in DOMAIN a : (i \in DOMAIN s /\ a[i] = s[i]) \/ (i = Len(s) + 1 /\ a[i] = m)
    <3>1. \A i \in DOMAIN s : a[i] = s[i]
      BY <2>1
    <3> QED
      BY <2>1, <2>3, <3>1, Zenon
  <2>5. \A i \in DOMAIN s : i \in Nat /\ i < Len(s) + 1
    BY <2>1
  <2>6. \A i \in DOMAIN a : i \in Nat
    BY <2>1
  <2> QED
    BY <2>1, <2>2, <2>4, <2>5, <2>6
<1> HIDE DEF a, h
<1>2. Ordered(s, k) /\ Before(s, h, k) => Ordered(a, k)
  <2> SUFFICES ASSUME Ordered(s, k), Before(s, h, k),
                      NEW i \in DOMAIN a, NEW j \in DOMAIN a,
                      i < j, a[i].kind = k, a[j].kind = k
               PROVE  a[i].n < a[j].n
    BY DEF Ordered
  <2>1. i \in DOMAIN s /\ a[i] = s[i]
    <3>1. CASE i = Len(s) + 1
      BY <1>1, <3>1
    <3> QED
      BY <1>1, <3>1
  <2>2. CASE j \in DOMAIN s /\ a[j] = s[j]
    BY <2>1, <2>2 DEF Ordered
  <2>3. CASE a[j] = m
    BY <1>1, <2>1, <2>3 DEF Before
  <2> QED
    BY <1>1, <2>2, <2>3
<1>3. OfKind(s, k) /\ m.kind = k => OfKind(a, k)
  BY <1>1 DEF OfKind
<1>4. \A N : Numbers(s, k, N) /\ Numbers(h, k, N) => Numbers(a, k, N)
  BY <1>1 DEF Numbers
<1>5. ASSUME NEW t \in Seq(Messages)
      PROVE  /\ Before(s, t, k) /\ Before(h, t, k) => Before(a, t, k)
             /\ Before(t, s, k) /\ Before(t, h, k) => Before(t, a, k)
  BY <1>1 DEF Before
<1> QED
  BY <1>1, <1>2, <1>3, <1>4, <1>5 DEF a, h

-----------------------------------------------------------------------------
\* The messages of kind k on their way to a process: h are handled, c is in the
\* router's hand, b in the internal queue, l on the link.  They are in order
\* within and across, and have numbers of N.
InLine(h, c, b, l, k, N) ==
  /\ Ordered(h, k) /\ Ordered(b, k) /\ Ordered(l, k)
  /\ Before(h, c, k) /\ Before(h, b, k) /\ Before(h, l, k)
  /\ Before(c, b, k) /\ Before(c, l, k) /\ Before(b, l, k)
  /\ Numbers(h, k, N) /\ Numbers(c, k, N) /\ Numbers(b, k, N) /\ Numbers(l, k, N)
  /\ OfKind(h, k) /\ OfKind(b, k)

\* The first message of the link is lost, or of another kind.
LEMMA LineDrop ==
  ASSUME NEW h \in Seq(Messages), NEW c \in Seq(Messages), NEW b \in Seq(Messages),
         NEW l \in Seq(Messages), NEW k \in Kinds, NEW N,
         InLine(h, c, b, l, k, N), l # <<>>
  PROVE  InLine(h, c, b, Tail(l), k, N)
BY HeadFacts DEF InLine

\* The first message of the link enters the internal queue.
LEMMA LineDeliver ==
  ASSUME NEW h \in Seq(Messages), NEW c \in Seq(Messages), NEW b \in Seq(Messages),
         NEW l \in Seq(Messages), NEW k \in Kinds, NEW N,
         InLine(h, c, b, l, k, N), l # <<>>, Head(l).kind = k
  PROVE  InLine(h, c, Append(b, Head(l)), Tail(l), k, N)
<1> DEFINE m == Head(l)
           r == Tail(l)
           a == Append(b, m)
<1>1. m \in Messages /\ <<m>> \in Seq(Messages) /\ r \in Seq(Messages) /\ m.kind = k
  BY HeadFacts
<1>2. /\ Ordered(r, k) /\ Before(<<m>>, r, k)
      /\ Before(h, <<m>>, k) /\ Before(h, r, k)
      /\ Before(c, <<m>>, k) /\ Before(c, r, k)
      /\ Before(b, <<m>>, k) /\ Before(b, r, k)
      /\ Numbers(<<m>>, k, N) /\ Numbers(r, k, N)
  BY HeadFacts DEF InLine
<1> HIDE DEF m, r
<1>3. /\ Ordered(a, k) /\ OfKind(a, k) /\ Numbers(a, k, N)
      /\ Before(a, r, k) /\ Before(h, a, k) /\ Before(c, a, k)
  BY <1>1, <1>2, AppendFacts DEF InLine
<1> HIDE DEF a
<1>4. InLine(h, c, a, r, k, N)
  BY <1>2, <1>3 DEF InLine
<1> QED
  BY <1>4 DEF a, m, r

\* The router pops the oldest message of the queue.
LEMMA LinePop ==
  ASSUME NEW h \in Seq(Messages), NEW b \in Seq(Messages), NEW l \in Seq(Messages),
         NEW k \in Kinds, NEW N, InLine(h, <<>>, b, l, k, N), b # <<>>
  PROVE  InLine(h, <<Head(b)>>, Tail(b), l, k, N)
BY HeadFacts DEF InLine

\* The router pops a message of the other kind.
LEMMA LinePopOther ==
  ASSUME NEW h \in Seq(Messages), NEW b \in Seq(Messages), NEW l \in Seq(Messages),
         NEW k \in Kinds, NEW N, NEW m \in Messages, m.kind # k,
         InLine(h, <<>>, b, l, k, N)
  PROVE  InLine(h, <<m>>, b, l, k, N)
BY DEF InLine, Before, Numbers

\* The message in the router's hand has been handled.
LEMMA LineHandle ==
  ASSUME NEW h \in Seq(Messages), NEW b \in Seq(Messages), NEW l \in Seq(Messages),
         NEW k \in Kinds, NEW N, NEW m \in Messages, m.kind = k,
         InLine(h, <<m>>, b, l, k, N)
  PROVE  InLine(Append(h, m), <<>>, b, l, k, N)
BY AppendFacts, EmptyFacts DEF InLine

\* The router's hand is empty again.
LEMMA LineEmptied ==
  ASSUME NEW h \in Seq(Messages), NEW c \in Seq(Messages), NEW b \in Seq(Messages),
         NEW l \in Seq(Messages), NEW k \in Kinds, NEW N, InLine(h, c, b, l, k, N)
  PROVE  InLine(h, <<>>, b, l, k, N)
BY EmptyFacts DEF InLine

\* A message is sent whose number is above all that were there.
LEMMA LineSent ==
  ASSUME NEW h \in Seq(Messages), NEW c \in Seq(Messages), NEW b \in Seq(Messages),
         NEW l \in Seq(Messages), NEW k \in Kinds, NEW N, NEW M, NEW m \in Messages,
         InLine(h, c, b, l, k, N), \A x \in N : x < m.n, N \subseteq M, m.n \in M
  PROVE  InLine(h, c, b, Append(l, m), k, M)
<1>1. \A s \in Seq(Messages) : Numbers(s, k, N) => Before(s, <<m>>, k) /\ Numbers(s, k, M)
  BY DEF Numbers, Before
<1>2. Numbers(<<m>>, k, M)
  BY DEF Numbers
<1> QED
  BY <1>1, <1>2, AppendFacts DEF InLine

\* A message of the other kind is sent.
LEMMA LineSentOther ==
  ASSUME NEW h \in Seq(Messages), NEW c \in Seq(Messages), NEW b \in Seq(Messages),
         NEW l \in Seq(Messages), NEW k \in Kinds, NEW N, NEW m \in Messages,
         InLine(h, c, b, l, k, N), m.kind # k
  PROVE  InLine(h, c, b, Append(l, m), k, N)
<1>1. /\ Numbers(<<m>>, k, N)
      /\ \A s \in Seq(Messages) : Before(s, <<m>>, k)
  BY DEF Numbers, Before
<1> QED
  BY <1>1, AppendFacts DEF InLine

\* There are more numbers to have.
LEMMA LineWider ==
  ASSUME NEW h, NEW c, NEW b, NEW l, NEW k, NEW N, NEW M,
         InLine(h, c, b, l, k, N), N \subseteq M
  PROVE  InLine(h, c, b, l, k, M)
BY DEF InLine, Numbers

-----------------------------------------------------------------------------
\* Numbers of the packets that p has answered.
Answered(p) == {handled[p]["packet"][j].n : j \in DOMAIN handled[p]["packet"]}

\* Packets to p have numbers its peer has given, acks those it has answered.
Source(p, k) == IF k = "packet" THEN 1..Len(sent[Peer(p)]) ELSE Answered(Peer(p))

LineTo(p, k) ==
  InLine(handled[p][k], hand[p], inbox[p][k], net[Peer(p)], k, Source(p, k))
Lines == \A p \in Procs, k \in Kinds : LineTo(p, k)

LEMMA LineTypes ==
  ASSUME TypeOK, NEW p \in Procs, NEW k \in Kinds
  PROVE  /\ handled[p][k] \in Seq(Messages) /\ hand[p] \in Seq(Messages)
         /\ inbox[p][k] \in Seq(Messages) /\ net[p] \in Seq(Messages)
         /\ net[Peer(p)] \in Seq(Messages) /\ Len(sent[p]) \in Nat
BY PeerFacts DEF TypeOK, Log

LEMMA InitLines == Init => Lines
<1> SUFFICES ASSUME Init, NEW p \in Procs, NEW k \in Kinds PROVE LineTo(p, k)
  BY DEF Lines
<1>1. /\ handled[p][k] = <<>> /\ hand[p] = <<>> /\ inbox[p][k] = <<>>
      /\ net[Peer(p)] = <<>> /\ <<>> \in Seq(Messages)
  BY PeerFacts DEF Init
<1>2. InLine(<<>>, <<>>, <<>>, <<>>, k, Source(p, k))
  BY <1>1, EmptyFacts DEF InLine
<1> QED
  BY <1>1, <1>2 DEF LineTo

\* A process that changes nothing on the way to it keeps its lines.
LEMMA LineUntouched ==
  ASSUME NEW p \in Procs, NEW k \in Kinds, LineTo(p, k),
         UNCHANGED <<handled[p][k], hand[p], inbox[p][k], net[Peer(p)]>>,
         Source(p, k) \subseteq Source(p, k)'
  PROVE  LineTo(p, k)'
BY LineWider DEF LineTo

LEMMA LinesMain ==
  ASSUME TypeOK, Lines, NEW p \in Procs, main(p)
  PROVE  Lines'
<1> DEFINE o == script[p][Len(sent[p]) + 1]
           m == [kind |-> "packet", dest |-> o.dest, src |-> o.src,
                 msgID |-> o.msgID, id |-> pktIDCntr[p], n |-> Len(sent[p]) + 1]
           q == Peer(p)
           c == Len(sent[p])
<1>1. o \in Orders /\ c \in Nat /\ c' = c + 1
  BY OrderTypes DEF main, TypeOK, Log
<1>2. m \in Messages /\ m.kind = "packet" /\ m.n = c + 1
  BY <1>1 DEF Messages, Orders, Kinds, TypeOK
<1>3. net' = [net EXCEPT ![p] = Append(@, m)] /\ sent' = [sent EXCEPT ![p] = Append(@, m)]
  BY DEF main, Sends
<1> HIDE DEF m
<1>4. UNCHANGED <<handled, hand, inbox>>
  BY DEF main
<1>5. q \in Procs /\ Peer(q) = p /\ q # p
  BY PeerFacts
<1>6. net'[p] = Append(net[p], m) /\ net'[q] = net[q] /\ sent'[q] = sent[q]
  BY <1>3, <1>5 DEF TypeOK
<1>7. ASSUME NEW k \in Kinds PROVE LineTo(p, k)'
  BY <1>4, <1>6, LineUntouched DEF Lines, Source, Answered
<1>8. LineTo(q, "packet")'
  <2>1. \A x \in 1..c : x < m.n
    BY <1>1, <1>2
  <2>2. 1..c \subseteq 1..c' /\ m.n \in 1..c'
    BY <1>1, <1>2
  <2>3. LineTo(q, "packet") /\ Source(q, "packet") = 1..c /\ Source(q, "packet")' = 1..c'
    BY <1>5 DEF Lines, Kinds, Source
  <2> HIDE DEF c
  <2>4. InLine(handled[q]["packet"], hand[q], inbox[q]["packet"], Append(net[p], m),
               "packet", 1..c')
    BY <1>2, <1>5, <2>1, <2>2, <2>3, LineTypes, LineSent DEF LineTo, Kinds
  <2> QED
    BY <1>4, <1>5, <1>6, <2>3, <2>4 DEF LineTo
<1>9. LineTo(q, "ack")'
  <2>1. LineTo(q, "ack") /\ Source(q, "ack")' = Source(q, "ack")
    BY <1>4, <1>5 DEF Lines, Kinds, Source, Answered
  <2>2. InLine(handled[q]["ack"], hand[q], inbox[q]["ack"], Append(net[p], m),
               "ack", Source(q, "ack"))
    BY <1>2, <1>5, <2>1, LineTypes, LineSentOther DEF LineTo, Kinds
  <2> QED
    BY <1>4, <1>5, <1>6, <2>1, <2>2 DEF LineTo
<1>10. \A k \in Kinds : k = "packet" \/ k = "ack"
  BY DEF Kinds
<1> QED
  BY <1>7, <1>8, <1>9, <1>10, PeerFacts DEF Lines

LEMMA LinesDeliver ==
  ASSUME TypeOK, Lines, NEW p \in Procs, Deliver(p) \/ Lose(p)
  PROVE  Lines'
<1> DEFINE q == Peer(p)
           m == Head(net[q])
<1>1. q \in Procs /\ Peer(q) = p /\ q # p
  BY PeerFacts
<1>2. /\ net[q] \in Seq(Messages) /\ net[q] # <<>> /\ m.kind \in Kinds
      /\ net' = [net EXCEPT ![q] = Tail(@)] /\ UNCHANGED <<handled, hand, sent>>
  BY ArrivingTypes DEF Deliver, Lose, Arriving
<1>3. net'[q] = Tail(net[q]) /\ net'[p] = net[p]
  BY <1>1, <1>2 DEF TypeOK
<1>4. /\ inbox'[q] = inbox[q]
      /\ \A k \in Kinds :
           inbox'[p][k] = inbox[p][k]
           \/ (inbox'[p][k] = Append(inbox[p][k], m) /\ m.kind = k)
  <2>1. \/ inbox' = inbox
        \/ inbox' = [inbox EXCEPT ![p][m.kind] = Append(@, m)]
    BY DEF Deliver, Lose
  <2>2. inbox \in [Procs -> [Kinds -> Log]] /\ m.kind \in Kinds
    BY <1>2 DEF TypeOK
  <2> HIDE DEF m
  <2>3. CASE inbox' = inbox
    BY <2>3
  <2>4. CASE inbox' = [inbox EXCEPT ![p][m.kind] = Append(@, m)]
    <3>1. inbox'[q] = inbox[q]
      BY <1>1, <2>2, <2>4
    <3>2. inbox'[p] = [inbox[p] EXCEPT ![m.kind] = Append(@, m)]
      BY <2>2, <2>4
    <3>3. \A k \in Kinds : inbox'[p][k] = IF k = m.kind THEN Append(inbox[p][k], m)
                                          ELSE inbox[p][k]
      BY <2>2, <3>2
    <3> QED
      BY <3>1, <3>3
  <2> QED
    BY <2>1, <2>3, <2>4
<1>5. ASSUME NEW k \in Kinds PROVE LineTo(q, k)'
  BY <1>1, <1>2, <1>3, <1>4, LineUntouched DEF Lines, Source, Answered
<1>6. ASSUME NEW k \in Kinds PROVE LineTo(p, k)'
  <2>1. LineTo(p, k) /\ Source(p, k)' = Source(p, k)
    BY <1>2 DEF Lines, Source, Answered
  <2>2. InLine(handled[p][k], hand[p], inbox[p][k], Tail(net[q]), k, Source(p, k))
    BY <1>2, <2>1, LineTypes, LineDrop DEF LineTo
  <2>3. m.kind = k => InLine(handled[p][k], hand[p], Append(inbox[p][k], m),
                             Tail(net[q]), k, Source(p, k))
    BY <1>2, <2>1, LineTypes, LineDeliver DEF LineTo
  <2> QED
    BY <1>2, <1>3, <1>4, <2>1, <2>2, <2>3 DEF LineTo
<1> QED
  BY <1>5, <1>6, PeerFacts DEF Lines

LEMMA LinesPop ==
  ASSUME TypeOK, Lines, NEW p \in Procs, NEW j \in Kinds, Pop(p, j)
  PROVE  Lines'
<1> DEFINE m == Head(inbox[p][j])
<1>1. /\ hand[p] = <<>> /\ inbox[p][j] \in Seq(Messages) /\ inbox[p][j] # <<>>
      /\ UNCHANGED <<net, handled, sent>>
      /\ hand' = [hand EXCEPT ![p] = <<m>>]
      /\ inbox' = [inbox EXCEPT ![p][j] = Tail(@)]
  BY LineTypes DEF Pop
<1>2. LineTo(p, j)
  BY DEF Lines
<1>3. m \in Messages /\ m.kind = j
  BY <1>1, <1>2, HeadFacts DEF LineTo, InLine
<1>4. /\ hand'[p] = <<m>> /\ inbox'[p][j] = Tail(inbox[p][j])
      /\ \A k \in Kinds : k # j => inbox'[p][k] = inbox[p][k]
      /\ \A q \in Procs : q # p => hand'[q] = hand[q] /\ inbox'[q] = inbox[q]
  BY <1>1 DEF TypeOK
<1>5. ASSUME NEW q \in Procs, q # p, NEW k \in Kinds PROVE LineTo(q, k)'
  BY <1>1, <1>4, <1>5, LineUntouched DEF Lines, Source, Answered
<1>6. ASSUME NEW k \in Kinds, k # j PROVE LineTo(p, k)'
  <2>1. LineTo(p, k) /\ Source(p, k)' = Source(p, k)
    BY <1>1 DEF Lines, Source, Answered
  <2>2. InLine(handled[p][k], <<m>>, inbox[p][k], net[Peer(p)], k, Source(p, k))
    BY <1>1, <1>3, <1>6, <2>1, LineTypes, LinePopOther DEF LineTo
  <2> QED
    BY <1>1, <1>4, <1>6, <2>1, <2>2 DEF LineTo
<1>7. LineTo(p, j)'
  <2>1. Source(p, j)' = Source(p, j)
    BY <1>1 DEF Source, Answered
  <2>2. InLine(handled[p][j], <<m>>, Tail(inbox[p][j]), net[Peer(p)], j, Source(p, j))
    BY <1>1, <1>2, LineTypes, LinePop DEF LineTo
  <2> QED
    BY <1>1, <1>4, <2>1, <2>2 DEF LineTo
<1> QED
  BY <1>5, <1>6, <1>7 DEF Lines

\* The line whose message p has just handled, and p's other line.
LEMMA LinesHandled ==
  ASSUME TypeOK, Lines, NEW p \in Procs, hand[p] # <<>>, NEW k \in Kinds,
         hand[p][1].kind = k, Handles(p, hand[p][1]),
         hand' = [hand EXCEPT ![p] = <<>>], inbox' = inbox, sent' = sent,
         net'[Peer(p)] = net[Peer(p)]
  PROVE  /\ \A j \in Kinds : LineTo(p, j)'
         /\ handled'[p][k] = Append(handled[p][k], hand[p][1])
         /\ \A j \in Kinds : j # k => handled'[p][j] = handled[p][j]
         /\ handled'[Peer(p)] = handled[Peer(p)] /\ hand'[Peer(p)] = hand[Peer(p)]
<1> DEFINE m == hand[p][1]
<1>1. hand[p] = <<m>> /\ m \in Messages /\ m.kind = k
  BY HandTypes
<1>2. handled' = [handled EXCEPT ![p][k] = Append(@, m)]
  BY <1>1 DEF Handles
<1> HIDE DEF m
<1>3. /\ handled'[p][k] = Append(handled[p][k], m)
      /\ \A j \in Kinds : j # k => handled'[p][j] = handled[p][j]
      /\ handled'[Peer(p)] = handled[Peer(p)] /\ hand'[Peer(p)] = hand[Peer(p)]
      /\ hand'[p] = <<>>
  <2>1. handled \in [Procs -> [Kinds -> Log]] /\ hand \in [Procs -> Log]
    BY DEF TypeOK
  <2> QED
    BY <1>2, <2>1, PeerFacts
<1>4. ASSUME NEW j \in Kinds PROVE LineTo(p, j) /\ Source(p, j)' = Source(p, j)
  BY <1>3 DEF Lines, Source, Answered
<1>5. LineTo(p, k)'
  <2>1. InLine(Append(handled[p][k], m), <<>>, inbox[p][k], net[Peer(p)], k, Source(p, k))
    BY <1>1, <1>4, LineTypes, LineHandle DEF LineTo
  <2> QED
    BY <1>3, <1>4, <2>1 DEF LineTo
<1>6. ASSUME NEW j \in Kinds, j # k PROVE LineTo(p, j)'
  <2>1. InLine(handled[p][j], <<>>, inbox[p][j], net[Peer(p)], j, Source(p, j))
    BY <1>4, LineTypes, LineEmptied DEF LineTo
  <2> QED
    BY <1>3, <1>4, <1>6, <2>1 DEF LineTo
<1> QED
  BY <1>3, <1>5, <1>6 DEF m

LEMMA LinesMessageHandler ==
  ASSUME TypeOK, Lines, NEW p \in Procs, MessageHandler(p)
  PROVE  Lines'
<1> DEFINE q == Peer(p)
           m == hand[p][1]
           a == AckFor(p, m)
<1>1. q \in Procs /\ Peer(q) = p /\ q # p
  BY PeerFacts
<1>2. /\ hand[p] # <<>> /\ m.kind = "packet" /\ Handles(p, m)
      /\ net' = [net EXCEPT ![p] = Append(@, a)]
      /\ hand' = [hand EXCEPT ![p] = <<>>] /\ inbox' = inbox /\ sent' = sent
  BY DEF MessageHandler, Answers, Sends
<1>3. hand[p] = <<m>> /\ m \in Messages
  BY <1>2, HandTypes
<1>4. a \in Messages /\ a.kind = "ack" /\ a.n = m.n
  BY <1>3 DEF AckFor, Messages, Kinds, TypeOK
<1>5. net'[p] = Append(net[p], a) /\ net'[q] = net[q]
  BY <1>1, <1>2 DEF TypeOK
<1>6. /\ \A j \in Kinds : LineTo(p, j)'
      /\ handled'[p]["packet"] = Append(handled[p]["packet"], m)
      /\ handled'[q] = handled[q] /\ hand'[q] = hand[q]
  BY <1>2, <1>5, LinesHandled DEF Kinds
<1> HIDE DEF m, a
<1>7. LineTo(q, "packet")'
  <2>1. LineTo(q, "packet") /\ Source(q, "packet")' = Source(q, "packet")
    BY <1>1, <1>2 DEF Lines, Kinds, Source
  <2>2. InLine(handled[q]["packet"], hand[q], inbox[q]["packet"], Append(net[p], a),
               "packet", Source(q, "packet"))
    BY <1>1, <1>4, <2>1, LineTypes, LineSentOther DEF LineTo, Kinds
  <2> QED
    BY <1>1, <1>2, <1>5, <1>6, <2>1, <2>2 DEF LineTo
<1>8. LineTo(q, "ack")'
  <2> DEFINE s == handled[p]["packet"]
  <2>1. /\ LineTo(q, "ack") /\ LineTo(p, "packet")
        /\ s \in Seq(Messages) /\ handled'[p]["packet"] = Append(s, m)
    BY <1>1, <1>6, LineTypes DEF Lines, Kinds
  <2>2. Before(s, <<m>>, "packet") /\ OfKind(s, "packet")
    BY <1>3, <2>1 DEF LineTo, InLine
  <2> HIDE DEF s
  <2>3. \A i \in DOMAIN s : s[i].n < m.n
    BY <1>2, <1>3, <2>2 DEF Before, OfKind, m
  <2>4. /\ \A i \in DOMAIN s : i \in DOMAIN Append(s, m) /\ Append(s, m)[i] = s[i]
        /\ Len(s) + 1 \in DOMAIN Append(s, m) /\ Append(s, m)[Len(s) + 1] = m
    BY <1>3, <2>1
  <2>5. /\ Source(q, "ack") = {s[i].n : i \in DOMAIN s}
        /\ Source(q, "ack")' = {Append(s, m)[i].n : i \in DOMAIN Append(s, m)}
    BY <1>1, <2>1 DEF Source, Answered, s
  <2>6. \A x \in Source(q, "ack") : x < a.n
    BY <1>4, <2>3, <2>5
  <2>7. Source(q, "ack") \subseteq Source(q, "ack")' /\ a.n \in Source(q, "ack")'
    BY <1>4, <2>4, <2>5
  <2>8. InLine(handled[q]["ack"], hand[q], inbox[q]["ack"], Append(net[p], a),
               "ack", Source(q, "ack")')
    BY <1>1, <1>4, <2>1, <2>6, <2>7, LineTypes, LineSent DEF LineTo, Kinds
  <2> QED
    BY <1>1, <1>2, <1>5, <1>6, <2>8 DEF LineTo
<1>9. \A k \in Kinds : k = "packet" \/ k = "ack"
  BY DEF Kinds
<1> QED
  BY <1>6, <1>7, <1>8, <1>9, PeerFacts DEF Lines

LEMMA LinesRxMsgHandler ==
  ASSUME TypeOK, Lines, NEW p \in Procs, rxMsgHandler(p)
  PROVE  Lines'
<1> DEFINE q == Peer(p)
<1>1. q \in Procs /\ Peer(q) = p /\ q # p
  BY PeerFacts
<1>2. /\ hand[p] # <<>> /\ hand[p][1].kind = "ack" /\ Handles(p, hand[p][1])
      /\ hand' = [hand EXCEPT ![p] = <<>>] /\ UNCHANGED <<inbox, sent, net>>
  BY DEF rxMsgHandler
<1>3. /\ \A j \in Kinds : LineTo(p, j)'
      /\ handled'[p]["packet"] = handled[p]["packet"]
      /\ handled'[q] = handled[q] /\ hand'[q] = hand[q]
  BY <1>2, LinesHandled DEF Kinds
<1>4. ASSUME NEW k \in Kinds PROVE LineTo(q, k)'
  BY <1>1, <1>2, <1>3, LineUntouched DEF Lines, Source, Answered
<1> QED
  BY <1>3, <1>4, PeerFacts DEF Lines

LEMMA LinesKept == TypeOK /\ Lines /\ Faithful => Lines'
<1> SUFFICES ASSUME TypeOK, Lines, Faithful PROVE Lines'
  OBVIOUS
<1>1. ASSUME NEW p \in Procs, Skip(p) PROVE Lines'
  <2>1. ASSUME NEW k \in Kinds PROVE LineTo(p, k)'
    <3>1. LineTo(p, k) /\ Source(p, k)' = Source(p, k)
      BY <1>1 DEF Lines, Source, Answered, Skip
    <3>2. InLine(handled[p][k], <<>>, inbox[p][k], net[Peer(p)], k, Source(p, k))
      BY <3>1, LineTypes, LineEmptied DEF LineTo
    <3>3. hand'[p] = <<>>
      BY <1>1 DEF Skip, TypeOK
    <3> QED
      BY <1>1, <3>1, <3>2, <3>3 DEF LineTo, Skip
  <2>2. ASSUME NEW q \in Procs, q # p, NEW k \in Kinds PROVE LineTo(q, k)'
    <3>1. hand'[q] = hand[q]
      BY <1>1, <2>2 DEF Skip, TypeOK
    <3> QED
      BY <1>1, <3>1, LineUntouched DEF Lines, Source, Answered, Skip
  <2> QED
    BY <2>1, <2>2 DEF Lines
<1>2. ASSUME UNCHANGED <<net, inbox, hand, sent, handled>> PROVE Lines'
  BY <1>2 DEF Lines, LineTo, Source, Answered
<1>3. ASSUME NEW p \in Procs, managerThread(p) \/ Die(p) PROVE Lines'
  BY <1>2, <1>3 DEF managerThread, Die
<1>4. CASE UNCHANGED vars
  BY <1>2, <1>4 DEF vars
<1> QED
  BY <1>1, <1>3, <1>4, LinesMain, LinesDeliver, LinesPop, LinesMessageHandler,
     LinesRxMsgHandler DEF Faithful, Steps, Finishes

\* AcksInOrder: whatever the links lose and whoever sends, and until a link
\* brings a stray, the n-th ack a process handles can be matched to its packet
\* by order alone.
THEOREM AcksMatchInOrder == Spec => []AcksInOrder
<1> DEFINE Inv == strays = 0 => Lines
<1>1. TypeOK /\ Inv => AcksInOrder
  <2> SUFFICES ASSUME TypeOK, Lines, NEW p \in Procs
               PROVE  LET acks == handled[p]["ack"] IN
                        /\ \A i, j \in DOMAIN acks : i < j => acks[i].n < acks[j].n
                        /\ \A i \in DOMAIN acks :
                             \E j \in DOMAIN handled[Peer(p)]["packet"] :
                               handled[Peer(p)]["packet"][j].n = acks[i].n
    BY DEF AcksInOrder
  <2> DEFINE acks == handled[p]["ack"]
  <2>1. LineTo(p, "ack")
    BY DEF Lines, Kinds
  <2>2. Ordered(acks, "ack") /\ OfKind(acks, "ack") /\ Numbers(acks, "ack", Answered(Peer(p)))
    BY <2>1 DEF LineTo, InLine, Source
  <2> QED
    BY <2>2 DEF Ordered, OfKind, Numbers, Answered
<1>2. Init => Inv
  BY InitLines
<1>3. TypeOK /\ Inv /\ [Next]_vars => Inv'
  BY NoStray, LinesKept
<1> QED
  BY <1>1, <1>2, <1>3, TypeCorrect, PTL DEF Spec

-----------------------------------------------------------------------------
AllSafe == \A p \in Procs : \A i \in DOMAIN script[p] : SafeOrder(p, script[p][i])

\* A message on its way to p stems from a safe packet: one its peer sent, or,
\* if it is an ack, one of its own.
Fits(p, m) == IF m.kind = "packet" THEN SafeOrder(Peer(p), m) ELSE SafeOrder(p, m)
AllFit(p, s) == \A i \in DOMAIN s : Fits(p, s[i])
SafeWays ==
  AllSafe => \A p \in Procs :
    /\ alive[p]
    /\ AllFit(p, hand[p]) /\ AllFit(p, net[Peer(p)])
    /\ \A k \in Kinds : AllFit(p, inbox[p][k])

LEMMA FitFacts ==
  ASSUME NEW p \in Procs, NEW s \in Seq(Messages)
  PROVE  /\ AllFit(p, <<>>)
         /\ s # <<>> /\ AllFit(p, s) => Fits(p, Head(s)) /\ AllFit(p, Tail(s))
         /\ \A m \in Messages : /\ Fits(p, m) => AllFit(p, <<m>>)
                                /\ AllFit(p, s) /\ Fits(p, m) => AllFit(p, Append(s, m))
<1>1. AllFit(p, <<>>)
  BY DEF AllFit
<1>2. ASSUME s # <<>>, AllFit(p, s) PROVE Fits(p, Head(s)) /\ AllFit(p, Tail(s))
  <2>1. /\ Head(s) = s[1] /\ 1 \in DOMAIN s
        /\ \A i \in DOMAIN Tail(s) : i + 1 \in DOMAIN s /\ Tail(s)[i] = s[i + 1]
    BY <1>2
  <2> QED
    BY <1>2, <2>1 DEF AllFit
<1>3. ASSUME NEW m \in Messages PROVE Fits(p, m) => AllFit(p, <<m>>)
  BY DEF AllFit
<1>4. ASSUME NEW m \in Messages, AllFit(p, s), Fits(p, m) PROVE AllFit(p, Append(s, m))
  <2>1. \A i \in DOMAIN Append(s, m) :
          (i \in DOMAIN s /\ Append(s, m)[i] = s[i]) \/ Append(s, m)[i] = m
    OBVIOUS
  <2> QED
    BY <1>4, <2>1 DEF AllFit
<1> QED
  BY <1>1, <1>2, <1>3, <1>4

\* What fits is routable: the thread and a method of the kind are registered.
LEMMA FitsRoutable ==
  ASSUME NEW p \in Procs, NEW m \in Messages, Fits(p, m)
  PROVE  Routable(p, m)
<1>1. m.kind = "packet" \/ m.kind = "ack"
  BY DEF Messages, Kinds
<1> QED
  BY <1>1, PeerFacts DEF Fits, SafeOrder, Routable, Known

LEMMA WaysKept == TypeOK /\ SafeWays /\ Faithful => SafeWays'
<1> SUFFICES ASSUME TypeOK, SafeWays, Faithful, AllSafe',
                    NEW q \in Procs
             PROVE  /\ alive'[q]
                    /\ AllFit(q, hand'[q]) /\ AllFit(q, net'[Peer(q)])
                    /\ \A k \in Kinds : AllFit(q, inbox'[q][k])
  BY DEF SafeWays, AllFit, Fits, SafeOrder
<1> DEFINE Goal == /\ alive'[q]
                   /\ AllFit(q, hand'[q]) /\ AllFit(q, net'[Peer(q)])
                   /\ \A k \in Kinds : AllFit(q, inbox'[q][k])
<1>1. script' = script
  BY DEF Faithful, Steps, main, managerThread, Deliver, Lose, Pop, Finishes, MessageHandler,
         rxMsgHandler, Skip, Die, setting, vars
<1>2. AllSafe
  BY <1>1 DEF AllSafe
<1>3. \A p \in Procs : /\ alive[p]
                       /\ AllFit(p, hand[p]) /\ AllFit(p, net[Peer(p)])
                       /\ \A k \in Kinds : AllFit(p, inbox[p][k])
  BY <1>2 DEF SafeWays
<1>4. \A p \in Procs : AllFit(p, <<>>)
  BY DEF AllFit
<1>5. ASSUME NEW p \in Procs, main(p) PROVE Goal
  <2> DEFINE o == script[p][Len(sent[p]) + 1]
             m == [kind |-> "packet", dest |-> o.dest, src |-> o.src,
                   msgID |-> o.msgID, id |-> pktIDCntr[p], n |-> Len(sent[p]) + 1]
  <2>1. o \in Orders /\ SafeOrder(p, o) /\ Len(sent[p]) \in Nat
    BY <1>2, <1>5, OrderTypes DEF AllSafe, main, TypeOK, Log
  <2>2. m \in Messages /\ m.kind = "packet" /\ SafeOrder(p, m)
    BY <2>1 DEF Messages, Orders, Kinds, TypeOK, SafeOrder
  <2>3. net' = [net EXCEPT ![p] = Append(@, m)] /\ UNCHANGED <<alive, hand, inbox>>
    BY <1>5 DEF main, Sends
  <2> HIDE DEF m
  <2>4. Peer(q) # p => net'[Peer(q)] = net[Peer(q)]
    BY <2>3, PeerFacts DEF TypeOK
  <2>5. Peer(q) = p => AllFit(q, net'[Peer(q)])
    <3>1. Peer(q) = p => net'[Peer(q)] = Append(net[Peer(q)], m) /\ Fits(q, m)
      BY <2>2, <2>3 DEF TypeOK, Fits
    <3> QED
      BY <1>3, <2>2, <3>1, FitFacts, LineTypes DEF Kinds
  <2> QED
    BY <1>3, <2>3, <2>4, <2>5
<1>6. ASSUME NEW p \in Procs, Deliver(p) \/ Lose(p) PROVE Goal
  <2> DEFINE m == Head(net[Peer(p)])
  <2>1. /\ net[Peer(p)] \in Seq(Messages) /\ net[Peer(p)] # <<>> /\ m \in Messages
        /\ m.kind \in Kinds /\ Peer(p) \in Procs
        /\ net' = [net EXCEPT ![Peer(p)] = Tail(@)] /\ UNCHANGED <<alive, hand>>
    BY <1>6, ArrivingTypes DEF Deliver, Lose, Arriving
  <2>2. Fits(p, m) /\ AllFit(p, Tail(net[Peer(p)]))
    BY <1>3, <2>1, FitFacts
  <2>3. AllFit(q, net'[Peer(q)])
    BY <1>3, <2>1, <2>2, PeerFacts DEF TypeOK
  <2>4. ASSUME NEW k \in Kinds PROVE AllFit(q, inbox'[q][k])
    <3>1. \/ inbox' = inbox
          \/ inbox' = [inbox EXCEPT ![p][m.kind] = Append(@, m)]
      BY <1>6 DEF Deliver, Lose
    <3>2. inbox \in [Procs -> [Kinds -> Log]]
      BY DEF TypeOK
    <3> HIDE DEF m
    <3>3. \/ inbox'[q][k] = inbox[q][k]
          \/ q = p /\ inbox'[q][k] = Append(inbox[q][k], m)
      BY <2>1, <3>1, <3>2
    <3> QED
      BY <1>3, <2>1, <2>2, <3>3, FitFacts, LineTypes
  <2> QED
    BY <1>3, <2>1, <2>3, <2>4
<1>7. ASSUME NEW p \in Procs, NEW j \in Kinds, Pop(p, j) PROVE Goal
  <2> DEFINE m == Head(inbox[p][j])
  <2>1. /\ inbox[p][j] \in Seq(Messages) /\ inbox[p][j] # <<>>
        /\ UNCHANGED <<net, alive>>
        /\ hand' = [hand EXCEPT ![p] = <<m>>]
        /\ inbox' = [inbox EXCEPT ![p][j] = Tail(@)]
    BY <1>7, LineTypes DEF Pop
  <2>2. m \in Messages /\ Fits(p, m) /\ AllFit(p, Tail(inbox[p][j]))
    BY <1>3, <2>1, FitFacts
  <2>3. AllFit(p, <<m>>)
    BY <2>1, <2>2, FitFacts
  <2> HIDE DEF m
  <2>4. /\ hand'[q] = hand[q] \/ (q = p /\ hand'[q] = <<m>>)
        /\ \A k \in Kinds : inbox'[q][k] = inbox[q][k]
                           \/ (q = p /\ inbox'[q][k] = Tail(inbox[p][j]))
    BY <2>1 DEF TypeOK
  <2> QED
    BY <1>3, <2>1, <2>2, <2>3, <2>4
<1>8. ASSUME NEW p \in Procs, MessageHandler(p) PROVE Goal
  <2> DEFINE m == hand[p][1]
             a == AckFor(p, m)
  <2>1. /\ hand[p] # <<>> /\ m.kind = "packet"
        /\ net' = [net EXCEPT ![p] = Append(@, a)]
        /\ hand' = [hand EXCEPT ![p] = <<>>] /\ UNCHANGED <<alive, inbox>>
    BY <1>8 DEF MessageHandler, Answers, Sends
  <2>2. m \in Messages /\ Fits(p, m)
    BY <1>3, <2>1, HandTypes DEF AllFit
  <2>3. a \in Messages /\ Fits(Peer(p), a)
    BY <2>1, <2>2 DEF AckFor, Messages, Kinds, TypeOK, Fits, SafeOrder
  <2> HIDE DEF a
  <2>4. Peer(q) # p => net'[Peer(q)] = net[Peer(q)]
    BY <2>1, PeerFacts DEF TypeOK
  <2>5. Peer(q) = p => AllFit(q, net'[Peer(q)])
    <3>1. Peer(q) = p => net'[Peer(q)] = Append(net[Peer(q)], a) /\ Fits(q, a)
      BY <2>1, <2>3, PeerFacts DEF TypeOK
    <3> QED
      BY <1>3, <2>3, <3>1, FitFacts, LineTypes DEF Kinds
  <2>6. hand'[q] = hand[q] \/ hand'[q] = <<>>
    BY <2>1 DEF TypeOK
  <2> QED
    BY <1>3, <1>4, <2>1, <2>4, <2>5, <2>6
<1>9. ASSUME NEW p \in Procs, rxMsgHandler(p) \/ Skip(p) PROVE Goal
  <2>1. hand' = [hand EXCEPT ![p] = <<>>] /\ UNCHANGED <<alive, inbox, net>>
    BY <1>9 DEF rxMsgHandler, Skip
  <2>2. hand'[q] = hand[q] \/ hand'[q] = <<>>
    BY <2>1 DEF TypeOK
  <2> QED
    BY <1>3, <1>4, <2>1, <2>2
<1>10. ASSUME NEW p \in Procs, Die(p) PROVE Goal
  <2>1. hand[p] # <<>> /\ ~Routable(p, hand[p][1])
    BY <1>10 DEF Die
  <2>2. hand[p][1] \in Messages /\ Fits(p, hand[p][1])
    BY <1>3, <2>1, HandTypes DEF AllFit
  <2> QED
    BY <2>1, <2>2, FitsRoutable
<1>11. ASSUME UNCHANGED <<net, inbox, hand, alive>> PROVE Goal
  BY <1>3, <1>11
<1>12. ASSUME NEW p \in Procs, managerThread(p) PROVE Goal
  BY <1>11, <1>12 DEF managerThread
<1>13. CASE UNCHANGED vars
  BY <1>11, <1>13 DEF vars
<1> QED
  BY <1>5, <1>6, <1>7, <1>8, <1>9, <1>10, <1>12, <1>13
  DEF Faithful, Steps, Finishes

\* SafeWhenBothRegister: until a link brings a stray, what one process sends,
\* and what the other answers, is known on arrival if both sides have
\* registered its destination.
THEOREM BothRegisteredIsSafe == Spec => []SafeWhenBothRegister
<1> DEFINE Inv == strays = 0 => SafeWays
<1>1. Init => Inv
  BY PeerFacts DEF Init, SafeWays, AllFit
<1>2. TypeOK /\ Inv => SafeWhenBothRegister
  <2> SUFFICES ASSUME TypeOK, SafeWays, AllSafe, NEW p \in Procs
               PROVE  alive[p] /\ \A i \in DOMAIN hand[p] : Routable(p, hand[p][i])
    BY DEF SafeWhenBothRegister, AllSafe
  <2>1. alive[p] /\ AllFit(p, hand[p]) /\ hand[p] \in Seq(Messages)
    BY LineTypes DEF SafeWays, Kinds
  <2>2. \A i \in DOMAIN hand[p] : hand[p][i] \in Messages /\ Fits(p, hand[p][i])
    BY <2>1 DEF AllFit
  <2> QED
    BY <2>1, <2>2, FitsRoutable
<1>3. TypeOK /\ Inv /\ [Next]_vars => Inv'
  BY NoStray, WaysKept
<1> QED
  BY <1>1, <1>2, <1>3, TypeCorrect, PTL DEF Spec
=============================================================================
