--------------------------- MODULE MCPublishLease ---------------------------
(* Instances of PublishLease for TLC: one unit of time is 15 s, so that the *)
(* defaults of the code (TTL 120 s, renewal from 60 s on, heartbeat every   *)
(* 30 s) are 8, 4 and 2 units.                                              *)
EXTENDS PublishLease, TLC

CONSTANTS w1, w2
=============================================================================
