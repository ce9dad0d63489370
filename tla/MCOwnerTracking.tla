--------------------------- MODULE MCOwnerTracking ---------------------------
(* Small instances of OwnerTracking: one token, which several readers share.  *)
EXTENDS OwnerTracking, TLC

CONSTANTS t1, a1, a2, w1, r1, r2
=============================================================================
