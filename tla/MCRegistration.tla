---------------------------- MODULE MCRegistration ----------------------------
(***************************************************************************)
(* Two application threads that register under the same ID, and the        *)
(* router, which looks up that ID and one that nobody registers.           *)
(***************************************************************************)
EXTENDS Registration

MCThreads == {"first", "second", "router"}
MCidOf == [t \in MCThreads |-> IF t = "router" THEN NoID ELSE "shared"]
=============================================================================
