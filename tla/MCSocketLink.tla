----------------------------- MODULE MCSocketLink -----------------------------
(***************************************************************************)
(* SocketLink on small instances.  A count that wraps at 3 instead of 256  *)
(* keeps the relation between the code's buffers: SendBuf = RecvBuf =      *)
(* CountMod < PopBuf < 2 * CountMod.  Two sizes of write, so that a deque  *)
(* can skip over a multiple of CountMod as well as meet it.  The kernel    *)
(* keeps one full send buffer and part of another, so that send() waits.   *)
(***************************************************************************)
EXTENDS SocketLink

MCSizes     == {1, 2}
MCCountMod  == 3
MCBuffer    == MCCountMod
MCPopBuf    == MCCountMod + 1
MCKernelBuf == MCBuffer + 2
=============================================================================
