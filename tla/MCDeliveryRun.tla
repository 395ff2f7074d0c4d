--------------------------- MODULE MCDeliveryRun ---------------------------
(* Instances of DeliveryRun for TLC.                                        *)
EXTENDS DeliveryRun, TLC

CONSTANTS e1, e2, A, B, P0, R1

(* A changes the first layer of the base package, B the second one.         *)
TwoPackages == (P0 :> <<0, 0>>) @@ (A :> <<1, 0>>) @@ (B :> <<0, 2>>)

(* B changes the second layer as A does, so that after B there is less to   *)
(* release of A than before.                                                *)
OverlappingPackages == (P0 :> <<0, 0>>) @@ (A :> <<1, 2>>) @@ (B :> <<0, 2>>)

(* A package that changes all of three layers.                              *)
OnePackage == (P0 :> <<0, 0, 0>>) @@ (A :> <<1, 1, 1>>)

ExecutorSymmetry == Permutations(Executors)
=============================================================================
