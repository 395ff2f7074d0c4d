-------------------------- MODULE MCProjectState --------------------------
(* Instances of ProjectState for TLC: the processes are model values, the   *)
(* records of state.json are known by name ("r1", "r2") and each of them    *)
(* has an id, or an id and a hash, beside its updatedAt.                    *)
EXTENDS ProjectState, TLC
CONSTANTS p1, p2, p3
===========================================================================
