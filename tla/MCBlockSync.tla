------------------------------ MODULE MCBlockSync ------------------------------
(* Small instances of BlockSync: one confirmation, a handful of heads.        *)
EXTENDS BlockSync, TLC

CONSTANTS e1, e2

Symmetry == Permutations({e1, e2})
=============================================================================
