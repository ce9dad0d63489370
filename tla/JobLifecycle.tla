---------------------------- MODULE JobLifecycle ----------------------------
(***************************************************************************)
(* What the rows of tokens_jobs promise to the rest of the tracker,        *)
(* whatever queue executes them: a job is opened once, it ends completed   *)
(* or failed, and it stays what it became, unless one of its handlers went *)
(* on running after the queue had given the job up.  A job may open the    *)
(* one that follows it as it completes, and only then.                     *)
(***************************************************************************)
CONSTANT Job

VARIABLES
  state,     \* of each job: "open" while its work is still to be done
  outlived   \* the jobs one of whose handlers outlived its hold on the job

vars == <<state, outlived>>

Init == state = [j \in Job |-> "absent"] /\ outlived = {}

Create(j) ==
  /\ state[j] = "absent"
  /\ state' = [state EXCEPT ![j] = "open"]
  /\ UNCHANGED outlived

\* Who may still say what becomes of the job.
MayTurn(j) == state[j] = "open" \/ (state[j] # "absent" /\ j \in outlived)

Turn(j, s) ==
  /\ MayTurn(j)
  /\ state' = [state EXCEPT ![j] = s]
  /\ UNCHANGED outlived

\* Completes j and creates the job that follows it, both or neither.
Succeed(j, next) ==
  /\ MayTurn(j) /\ state[next] = "absent"
  /\ state' = [state EXCEPT ![j] = "completed", ![next] = "open"]
  /\ UNCHANGED outlived

Outlive(j) ==
  /\ outlived' = outlived \cup {j}
  /\ UNCHANGED state

Next ==
  \/ \E j \in Job : Create(j) \/ Outlive(j)
  \/ \E j \in Job, s \in {"open", "completed", "failed"} : Turn(j, s)
  \/ \E j, next \in Job : Succeed(j, next)

Spec == Init /\ [][Next]_vars
=============================================================================
