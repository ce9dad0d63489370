----------------------------- MODULE MCVerifyMint -----------------------------
(* Small instances of VerifyMint: two or three tokens, jobs of one or two ids. *)
EXTENDS VerifyMint, TLC
CONSTANTS c1, c2, e1, e2

Symmetry == Permutations({e1, e2}) \cup Permutations({c1, c2})
=============================================================================
