--------------------------- MODULE MCEventService ---------------------------
(***************************************************************************)
(* The instance of EventService for TLC.                                   *)
(***************************************************************************)
EXTENDS EventService

CONSTANTS k1, k2, m1, m2, h1, s1, s2, c1, r1
=============================================================================
