------------------------------ MODULE Registration ------------------------------
(***************************************************************************)
(* The singletons of the library and the tables behind one of them.        *)
(* buffer and CPPLogger create their instance under a mutex (guarded);     *)
(* routingTbl and threadMgmt do the same without it.  Application threads  *)
(* then enter themselves and their methods in the routing table, in the    *)
(* order of the examples' constructors, while others look them up.         *)
(*                                                                         *)
(* std::map gives no guarantee once an insertion overlaps with any other   *)
(* access to the same map: that is recorded in torn, and nothing is        *)
(* claimed from then on.                                                   *)
(*                                                                         *)
(* The specification is RegSpec, so that StartupProofs can extend this     *)
(* module and Startup.                                                     *)
(***************************************************************************)
EXTENDS Integers, FiniteSets

CONSTANTS
  Threads,  \* threads that use the singleton
  IDs,      \* thread IDs
  idOf      \* the ID under which a thread registers itself, or NoID

NoID == "none"
Nobody == "nobody"

ASSUME RegistrationAssumption ==
  /\ NoID \notin IDs /\ Nobody \notin Threads
  /\ idOf \in [Threads -> IDs \cup {NoID}]

VARIABLES
  guarded,  \* is the instance created under a mutex?  Never changes
  holder,   \* the thread inside the mutex, if there is one
  inst,     \* the static pointer: Nobody, or the thread that made the object
  pc,       \* where each thread is
  got,      \* the instance a thread was given
  table,    \* table[k]: the map of the instance k made, thread by ID
  methods,  \* threads that have filled their method map
  raced,    \* history: an instance was replaced by another
  torn,     \* history: an insertion overlapped with another access
  seen      \* history: results of lookups

regVars == <<guarded, holder, inst, pc, got, table, methods, raced, torn, seen>>

Steps == {"start", "check", "assign", "return", "got", "insert", "print",
          "method", "done"}

RegInit ==
  /\ guarded \in BOOLEAN
  /\ holder = Nobody /\ inst = Nobody
  /\ pc = [t \in Threads |-> "start"]
  /\ got = [t \in Threads |-> Nobody]
  /\ table = [k \in Threads |-> [i \in IDs |-> Nobody]]
  /\ methods = {} /\ raced = FALSE /\ torn = FALSE /\ seen = {}

-----------------------------------------------------------------------------
Goto(t, step) == pc' = [pc EXCEPT ![t] = step]

\* Mutant: the mutex is not taken.
MayEnterAlways == TRUE
\* lock_guard lets one thread in.
MayEnter == guarded => holder = Nobody

\* GetRoutingTableInst, GetBufferInst, getLoggerInst or OverWatch is called.
Enter(t) ==
  /\ pc[t] = "start" /\ MayEnter
  /\ holder' = IF guarded THEN t ELSE holder
  /\ Goto(t, "check")
  /\ UNCHANGED <<guarded, inst, got, table, methods, raced, torn, seen>>

Check(t) ==
  /\ pc[t] = "check"
  /\ Goto(t, IF inst = Nobody THEN "assign" ELSE "return")
  /\ UNCHANGED <<guarded, holder, inst, got, table, methods, raced, torn, seen>>

\* The object is made, with an empty map, and the static pointer set to it.
Assign(t) ==
  /\ pc[t] = "assign"
  /\ inst' = t
  /\ raced' = (raced \/ inst # Nobody)
  /\ Goto(t, "return")
  /\ UNCHANGED <<guarded, holder, got, table, methods, torn, seen>>

\* Mutant: the mutex is kept.
LeftNot(t) == holder
\* The mutex after t has left its scope.
Left(t) == IF holder = t THEN Nobody ELSE holder

\* The static pointer is read again for the result; the guard is left.
Return(t) ==
  /\ pc[t] = "return"
  /\ got' = [got EXCEPT ![t] = inst]
  /\ holder' = Left(t)
  /\ Goto(t, IF idOf[t] = NoID THEN "done" ELSE "got")
  /\ UNCHANGED <<guarded, inst, table, methods, raced, torn, seen>>

-----------------------------------------------------------------------------
\* Another thread is in one of these steps on the instance t uses.
Overlaps(t, steps) ==
  \E u \in Threads \ {t} : got[u] = got[t] /\ pc[u] \in steps

\* registerThread: emplace begins ...
BeginInsert(t) ==
  /\ pc[t] = "got"
  /\ torn' = (torn \/ Overlaps(t, {"insert", "print"}))
  /\ Goto(t, "insert")
  /\ UNCHANGED <<guarded, holder, inst, got, table, methods, raced, seen>>

\* Mutant: operator[] in place of emplace.
EmplacedOver(m, i, t) == [m EXCEPT ![i] = t]
\* emplace keeps an entry that is there.
Emplaced(m, i, t) == IF m[i] = Nobody THEN [m EXCEPT ![i] = t] ELSE m

\* ... and ends; printTable walks the map.
EndInsert(t) ==
  /\ pc[t] = "insert"
  /\ table' = [table EXCEPT ![got[t]] = Emplaced(@, idOf[t], t)]
  /\ Goto(t, "print")
  /\ UNCHANGED <<guarded, holder, inst, got, methods, raced, torn, seen>>

EndPrint(t) ==
  /\ pc[t] = "print"
  /\ Goto(t, "method")
  /\ UNCHANGED <<guarded, holder, inst, got, table, methods, raced, torn, seen>>

\* RegisterMethods, which the constructors call after registerThread.
RegisterMethods(t) ==
  /\ pc[t] = "method"
  /\ methods' = methods \cup {t}
  /\ Goto(t, "done")
  /\ UNCHANGED <<guarded, holder, inst, got, table, raced, torn, seen>>

\* GetThreadInstanceFromID: what find(i) leads to.
LookedUp(t, i) == table[got[t]][i]

\* The router, or a send, looks ID i up and then a method of what it finds.
\* The record says what was found, if it had its methods, and who had finished
\* registering under this ID.
Lookup(t, i) ==
  /\ pc[t] = "done"
  /\ torn' = (torn \/ Overlaps(t, {"insert"}))
  /\ seen' = seen \cup {[id |-> i, obj |-> LookedUp(t, i),
                         ready |-> LookedUp(t, i) \in methods,
                         before |-> {u \in Threads :
                                       pc[u] = "done" /\ idOf[u] = i}]}
  /\ UNCHANGED <<guarded, holder, inst, pc, got, table, methods, raced>>

RegNext == \E t \in Threads :
  \/ Enter(t) \/ Check(t) \/ Assign(t) \/ Return(t)
  \/ BeginInsert(t) \/ EndInsert(t) \/ EndPrint(t) \/ RegisterMethods(t)
  \/ \E i \in IDs : Lookup(t, i)

RegSpec == RegInit /\ [][RegNext]_regVars

\* Every thread runs on until it has registered.
FairRegSpec == RegSpec /\ \A t \in Threads :
  WF_regVars(Enter(t) \/ Check(t) \/ Assign(t) \/ Return(t) \/ BeginInsert(t)
            \/ EndInsert(t) \/ EndPrint(t) \/ RegisterMethods(t))

-----------------------------------------------------------------------------
RegTypeOK ==
  /\ guarded \in BOOLEAN
  /\ holder \in Threads \cup {Nobody} /\ inst \in Threads \cup {Nobody}
  /\ pc \in [Threads -> Steps]
  /\ got \in [Threads -> Threads \cup {Nobody}]
  /\ table \in [Threads -> [IDs -> Threads \cup {Nobody}]]
  /\ methods \subseteq Threads
  /\ raced \in BOOLEAN /\ torn \in BOOLEAN
  /\ seen \subseteq [id : IDs, obj : Threads \cup {Nobody}, ready : BOOLEAN,
                     before : SUBSET Threads]

\* Under the mutex no instance is ever replaced; and without it everyone still
\* shares one instance unless two threads were inside the first call at once.
OneInstance ==
  /\ guarded => ~raced
  /\ ~raced => \A t, u \in Threads :
                 got[t] # Nobody /\ got[u] # Nobody => got[t] = got[u]

\* As long as no first calls and no map accesses overlap: a thread that has
\* finished registering is found, under its ID, by every later lookup in any
\* thread (or the one that came first with the same ID is), every lookup of an
\* ID finds the same thread, and one found without its methods is one whose
\* constructor had not finished.
RegistrationsKept ==
  ~raced /\ ~torn =>
    \A r \in seen :
      /\ r.before # {} => r.obj # Nobody
      /\ r.obj \in r.before => r.ready
      /\ \A s \in seen : r.id = s.id /\ r.obj # Nobody /\ s.obj # Nobody
                           => r.obj = s.obj

\* Nobody waits in the mutex forever: every thread gets the instance and
\* finishes its registration (a torn map may keep it).
EventuallyRegistered == \A t \in Threads : <>(pc[t] = "done" \/ torn)
=============================================================================
