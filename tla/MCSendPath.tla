------------------------------ MODULE MCSendPath ------------------------------
(***************************************************************************)
(* Two sending threads and two thread IDs, so that a packet can be given   *)
(* another address, which are all alike; a short payload and a full one; a *)
(* counter of two one-bit bytes, and calls enough to use an ID again.      *)
(***************************************************************************)
EXTENDS SendPath, TLC

CONSTANTS main, router, A, B

MCThreads == {main, router}
MCAddrs   == {A, B}
MCSymmetry == Permutations(MCThreads) \cup Permutations(MCAddrs)
=============================================================================
