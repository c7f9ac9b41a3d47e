--------------------------- MODULE MCJobActivities ---------------------------
(* Instances of JobActivities for TLC. *)
EXTENDS JobActivities, TLC

CONSTANTS w1, w2, d1, d2, r1, r2
=============================================================================
