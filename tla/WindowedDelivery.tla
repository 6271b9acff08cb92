---------------------------- MODULE WindowedDelivery ----------------------------
(***************************************************************************)
(* What a queue with several workers promises: every message is finished   *)
(* at most once, and a message may overtake earlier ones only as long as   *)
(* fewer of them are left over than there are workers.  One worker means   *)
(* first in, first out.  Messages are numbered in the order they arrive.   *)
(***************************************************************************)
EXTENDS Integers, Sequences, FiniteSets

VARIABLES
  workers,  \* the number of workers
  arrived,  \* the number of messages put in so far
  done      \* the messages finished, in that order

Finished == {done[i] : i \in DOMAIN done}

Init == workers = 0 /\ arrived = 0 /\ done = <<>>

Hire ==
  /\ workers' = workers + 1
  /\ UNCHANGED <<arrived, done>>

Put ==
  /\ arrived' = arrived + 1
  /\ UNCHANGED <<workers, done>>

Finish(n) ==
  /\ n \notin Finished
  /\ Cardinality((1..n-1) \ Finished) < workers
  /\ done' = Append(done, n)
  /\ UNCHANGED <<workers, arrived>>

Next == Hire \/ Put \/ \E n \in 1..arrived : Finish(n)

Spec == Init /\ [][Next]_<<workers, arrived, done>>
=============================================================================
