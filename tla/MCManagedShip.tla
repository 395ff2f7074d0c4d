--------------------------- MODULE MCManagedShip ---------------------------
(* Instances of ManagedShip for TLC.                                        *)
EXTENDS ManagedShip, TLC

CONSTANTS c1, c2, ch1, ch2

Symmetry == Permutations(Commands) \cup Permutations(Changes)
=============================================================================
