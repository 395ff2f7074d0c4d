--------------------------- MODULE MCWorktreeOwner ---------------------------
(* An instance of WorktreeOwner for TLC: a process of each of two tasks.    *)
EXTENDS WorktreeOwner, TLC

CONSTANTS p1, p2

TwoTasks == p1 :> "t1" @@ p2 :> "t2"
=============================================================================
