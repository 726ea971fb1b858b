-------------------------- MODULE MCEventConsumer --------------------------
(***************************************************************************)
(* Instances of EventConsumer for TLC.                                     *)
(***************************************************************************)
EXTENDS EventConsumer

CONSTANTS m1, m2, m3, h1, s1, s2, s3
=============================================================================
