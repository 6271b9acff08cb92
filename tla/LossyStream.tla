------------------------------ MODULE LossyStream ------------------------------
(***************************************************************************)
(* What one direction of a connection promises: the receiver gets some of  *)
(* the bytes handed over, in the order in which they were handed over,     *)
(* each at most once, unless the stream was torn: sent again in part.      *)
(***************************************************************************)
EXTENDS Integers, Sequences

VARIABLES
  sent,   \* bytes handed over; each is its position
  given,  \* what the receiver has been told it received
  torn    \* a part of a buffer has gone out twice

Increasing(s) == \A i, j \in DOMAIN s : i < j => s[i] < s[j]

Init == sent = 0 /\ given = <<>> /\ torn = FALSE

Hand ==
  /\ sent' \in Nat /\ sent' > sent
  /\ UNCHANGED <<given, torn>>

Tear ==
  /\ torn' = TRUE
  /\ UNCHANGED <<sent, given>>

Deliver ==
  /\ given' = given \o SubSeq(given', Len(given) + 1, Len(given'))
  /\ \A i \in DOMAIN given' : given'[i] \in 1..sent
  /\ torn \/ Increasing(given')
  /\ UNCHANGED <<sent, torn>>

Spec == Init /\ [][Hand \/ Tear \/ Deliver]_<<sent, given, torn>>
=============================================================================
