-------------------------------- MODULE MCPods --------------------------------
(* A small instance of Pods: two pods of one worker each, two releases.       *)
EXTENDS Pods, TLC
CONSTANTS p1, p2, w1, w2, old, new
WorkerOf == w1 :> p1 @@ w2 :> p2
\* A deployment rolls: one pod is of the old release, the other of the new one.
Releases == p1 :> {old} @@ p2 :> {new}
=============================================================================
