------------------------------- MODULE ByteQueue -------------------------------
(***************************************************************************)
(* What a byte deque of a connection promises the threads around it: a     *)
(* block goes in whole, and a pop takes all there is, or as much as its    *)
(* buffer holds, from the other end.                                       *)
(***************************************************************************)
EXTENDS Integers, Sequences

CONSTANTS
  Blocks,  \* what one call may add
  BufSize  \* what one pop may take at most

VARIABLES
  bytes,  \* the bytes in the queue, oldest first
  taken   \* the bytes popped so far

Init == bytes = <<>> /\ taken = <<>>

Put ==
  /\ \E b \in Blocks : bytes' = bytes \o b
  /\ UNCHANGED taken

Take ==
  /\ \E n \in 0..Len(bytes) :
       /\ n = BufSize \/ (n = Len(bytes) /\ n < BufSize)
       /\ taken' = taken \o SubSeq(bytes, 1, n)
       /\ bytes' = SubSeq(bytes, n + 1, Len(bytes))

Spec == Init /\ [][Put \/ Take]_<<bytes, taken>>
=============================================================================
