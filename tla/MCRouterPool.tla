------------------------------ MODULE MCRouterPool ------------------------------
(***************************************************************************)
(* Three calls of managerThread: two handlers can be overtaken at once.    *)
(***************************************************************************)
EXTENDS RouterPool
=============================================================================
