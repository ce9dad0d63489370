----------------------------- MODULE MCMediaCache -----------------------------
(* Small instances of MediaCache: one or two tokens, one or two images.       *)
EXTENDS MediaCache, TLC

CONSTANTS t1, t2, u1, u2, e1, e2, c1, c2

SameId == [t \in Token |-> 1]

\* An image that changes or is missing; the second token shares one of its images.
Changing == [t \in Token |-> IF t = t1 THEN {u1, u2, Imageless} ELSE {u1}]
\* Whatever a URL may answer.
Anything == [t \in Token |-> {u1, Blank, Imageless}]

Symmetry == Permutations({e1, e2}) \cup Permutations({c1, c2})
=============================================================================
