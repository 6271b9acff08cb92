----------------------------- MODULE FifoDelivery -----------------------------
(***************************************************************************)
(* What an internal queue of the library promises: the messages put into   *)
(* it are taken care of one after the other, each once, in the order in    *)
(* which they were put in.                                                 *)
(***************************************************************************)
EXTENDS Naturals, Sequences

CONSTANT Messages

VARIABLES
  arrived,  \* every message put into the queue, oldest first
  done      \* every message taken care of, oldest first

fifoVars == <<arrived, done>>

Init == arrived = <<>> /\ done = <<>>

Put == /\ \E m \in Messages : arrived' = Append(arrived, m)
       /\ done' = done

Finish == /\ Len(done) < Len(arrived)
          /\ done' = Append(done, arrived[Len(done) + 1])
          /\ arrived' = arrived

Next == Put \/ Finish

Spec == Init /\ [][Next]_fifoVars
=============================================================================
