-------------------------- MODULE MCPublishSession --------------------------
(* Instances of PublishSession for TLC.                                     *)
EXTENDS PublishSession, TLC

CONSTANTS w1, w2
=============================================================================
