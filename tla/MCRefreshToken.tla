--------------------------- MODULE MCRefreshToken ---------------------------
(* A small instance of RefreshToken.                                         *)
EXTENDS RefreshToken, TLC

CONSTANTS t1, q1, q2

\* Requests are interchangeable; no property is temporal.
Symmetry == Permutations({q1, q2})
=============================================================================
