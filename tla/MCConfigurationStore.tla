------------------------ MODULE MCConfigurationStore ------------------------
(* Small instances of ConfigurationStore.                                     *)
EXTENDS ConfigurationStore, TLC

CONSTANTS i1, i2, k1, k2, v1, v2, s1, s2, p1, p2, r1, r2

MCFits == {<<v1, s1>>, <<v2, s2>>}
MCSchemaOf == (v1 :> s1) @@ (v2 :> s2)
Body(k, v, s, a) == [key |-> k, value |-> v, schema |-> s, active |-> a]
MCSeeded == (i1 :> [key |-> k1, value |-> v1, schema |-> s1, active |-> TRUE]) @@ (i2 :> None)
\* Pods and requests are interchangeable: nothing in the model tells one from another.
Symmetry == Permutations({p1, p2}) \cup Permutations({r1, r2})
MCDto == {Body(k2, v1, None, TRUE), Body(None, v2, s2, FALSE)}
=============================================================================
