-------------------------------- MODULE Pods --------------------------------
(***************************************************************************)
(* The processes of a deployment.  Each pod, once it is up, puts the       *)
(* repeatable job back (list, remove what dangles, add), runs webhook jobs *)
(* while the job is there, and on a signal pauses its queues and waits for *)
(* the jobs that run before it exits; a timer ends it when that takes too  *)
(* long.  Of the three queues the one of the webhooks, paused first, is    *)
(* here; TokenJobs and BlockSync have what a dead pod does to the others.  *)
(*                                                                         *)
(* A repeatable job is the pair of its id and its cron expression: a       *)
(* release that changes the cron adds a second one.  One job, the one that *)
(* drives Webhook, stands for the seven that are scheduled alike.          *)
(***************************************************************************)
EXTENDS Webhook

CONSTANTS
  Pod, Cron, NoCron,
  Release,    \* the crons of the releases a pod may run
  Former,     \* the crons a release before may have left in Redis
  PodOf,      \* the pod a worker is of
  MaxStarts   \* bound: pods started

ASSUME PodAssumption ==
  /\ PodOf \in [Worker -> Pod] /\ NoCron \notin Cron /\ Former \subseteq Cron
  /\ Release \in [Pod -> SUBSET Cron]
ASSUME CountAssumption == MaxStarts \in Nat

VARIABLES
  repeat,  \* the crons under which Redis holds the repeatable job
  pod,
  tidy,    \* how many schedulings in a row, each alone and all with one cron, are done
  held,    \* whether a pod has added the job yet, or one failed or died between the two steps
  starts

podVars == <<repeat, pod, tidy, held, starts>>
vars == <<hookVars, podVars>>

Off == [up |-> "off", cron |-> NoCron, plan |-> "none", seen |-> {}, alone |-> FALSE,
        skipped |-> FALSE]
PodSet == [up : {"off", "up", "closing", "closed"}, cron : Cron \cup {NoCron},
           plan : {"none", "list", "remove", "add"}, seen : SUBSET Cron, alone : BOOLEAN,
           skipped : BOOLEAN]

TypeOK ==
  /\ HookTypeOK
  /\ repeat \subseteq Cron /\ pod \in [Pod -> PodSet]
  /\ tidy \in [cron : Cron \cup {NoCron}, n : 0..2] /\ held \in {"never", "added", "lost"}
  /\ starts \in 0..MaxStarts
  /\ \A w \in Worker : worker[w] # Idle => pod[PodOf[w]].up # "off"

Init ==
  /\ HookInit /\ pod = [p \in Pod |-> Off]
  /\ tidy = [cron |-> NoCron, n |-> 0] /\ starts = 0
  \* an empty Redis, or what an earlier release has left
  /\ \/ repeat = {} /\ held = "never"
     \/ (\E c \in Former : repeat = {c}) /\ held = "added"

Set(p, r) == pod' = [pod EXCEPT ![p] = r]
Scheduling(p) == pod[p].plan \in {"remove", "add"}
Untidy == tidy' = [cron |-> NoCron, n |-> 0]
Workers(p) == {w \in Worker : PodOf[w] = p}
Running(p) == \E w \in Workers(p) : worker[w] # Idle

-----------------------------------------------------------------------------
(* Start: scheduleRepeatableJob.                                           *)

\* A new process: none of its queues is paused, so that onModuleInit resumes nothing.
Start(p) ==
  /\ pod[p].up = "off" /\ starts < MaxStarts /\ starts' = starts + 1
  /\ \E c \in Release[p] : Set(p, [Off EXCEPT !.up = "up", !.cron = c, !.plan = "list"])
  /\ UNCHANGED <<hookVars, repeat, tidy, held>>

\* Mutant: two matches are the old and the new one.
DanglingAboveTwo(matches) == IF Cardinality(matches) <= 2 THEN {} ELSE matches

\* One match is left alone: it is most often the job this pod is about to add.
Dangling(matches) == IF Cardinality(matches) <= 1 THEN {} ELSE matches

List(p) ==
  /\ pod[p].plan = "list"
  /\ LET alone == \A q \in Pod \ {p} : ~Scheduling(q)
         seen == Dangling(repeat)
     IN /\ pod' = [q \in Pod |->
             IF q = p THEN [pod[p] EXCEPT !.plan = IF seen = {} THEN "add" ELSE "remove",
                                          !.seen = seen, !.alone = alone]
             ELSE IF Scheduling(q) THEN [pod[q] EXCEPT !.alone = FALSE] ELSE pod[q]]
        /\ IF alone THEN UNCHANGED tidy ELSE Untidy
  /\ UNCHANGED <<hookVars, repeat, held, starts>>

\* removeRepeatableByKey of one match; all are removed before the job is added.
RemoveThen(p, next) ==
  /\ pod[p].plan = "remove"
  /\ \E c \in pod[p].seen :
       /\ repeat' = repeat \ {c}
       /\ Set(p, [pod[p] EXCEPT !.seen = @ \ {c},
                               !.plan = IF pod[p].seen = {c} THEN next ELSE "remove"])
  /\ UNCHANGED <<hookVars, tidy, held, starts>>

\* Mutant: where jobs were removed, none is added.
RemoveOnly(p) == RemoveThen(p, "none")

Remove(p) == RemoveThen(p, "add")

Add(p) ==
  /\ pod[p].plan = "add"
  /\ repeat' = repeat \cup {pod[p].cron}
  /\ Set(p, [pod[p] EXCEPT !.plan = "none", !.alone = FALSE])
  /\ IF ~pod[p].alone THEN Untidy
     ELSE tidy' = [cron |-> pod[p].cron,
                   n |-> IF tidy.cron = pod[p].cron /\ tidy.n > 0 THEN 2 ELSE 1]
  /\ held' = IF held = "never" THEN "added" ELSE held
  /\ UNCHANGED <<hookVars, starts>>

\* Redis fails: scheduleJobs only logs it, and the pod stays up.
ScheduleFails(p) ==
  /\ pod[p].plan # "none" /\ Fault
  /\ Set(p, [pod[p] EXCEPT !.plan = "none", !.seen = {}, !.alone = FALSE])
  /\ IF Scheduling(p) THEN Untidy ELSE UNCHANGED tidy
  /\ held' = IF Scheduling(p) THEN "lost" ELSE held
  /\ UNCHANGED <<code, retryOn, due, jobs, worker, taken, repeat, starts>>

-----------------------------------------------------------------------------
(* Stop: gracefulShutdownFn, onModuleDestroy.                              *)

\* SIGTERM or SIGINT: app.close() pauses the queue in this pod, and the timer is set.  A
\* second signal finds the timer and does nothing.
Signal(p) ==
  /\ pod[p].up = "up" /\ Set(p, [pod[p] EXCEPT !.up = "closing"])
  /\ UNCHANGED <<hookVars, repeat, tidy, held, starts>>

\* Mutant: pause() is not awaited.
PausedAtOnce(p) ==
  /\ pod[p].up = "closing" /\ Set(p, [pod[p] EXCEPT !.up = "closed"])
  /\ UNCHANGED <<hookVars, repeat, tidy, held, starts>>

\* pause() returns when the jobs of this pod have ended.
Paused(p) ==
  /\ pod[p].up = "closing" /\ ~Running(p) /\ Set(p, [pod[p] EXCEPT !.up = "closed"])
  /\ UNCHANGED <<hookVars, repeat, tidy, held, starts>>

\* pause() throws: it is logged and the pod goes on closing, maybe with jobs running.
PauseFails(p) ==
  /\ pod[p].up = "closing" /\ Fault
  /\ Set(p, [pod[p] EXCEPT !.up = "closed", !.skipped = TRUE])
  /\ UNCHANGED <<code, retryOn, due, jobs, worker, taken, repeat, tidy, held, starts>>

\* The process is gone, and what ran in it with it.
Gone(p) ==
  /\ Set(p, Off) /\ Die(Workers(p))
  /\ IF Scheduling(p) THEN Untidy ELSE UNCHANGED tidy
  /\ held' = IF Scheduling(p) THEN "lost" ELSE held
  /\ UNCHANGED <<repeat, starts>>

\* The application has closed: exit with the code of the signal.
Exit(p) == pod[p].up = "closed" /\ Gone(p) /\ UNCHANGED faults

\* The timer ends a pod that takes too long to close.
Timeout(p) == pod[p].up = "closing" /\ Gone(p) /\ UNCHANGED faults

\* The process is killed.
Crash(p) == pod[p].up # "off" /\ Fault /\ Gone(p)

-----------------------------------------------------------------------------
(* What pods run.                                                          *)

\* Mutant: it asks whether the pod closes, not whether it is up.
OpenUnlessClosing(w) == pod[PodOf[w]].up \notin {"closing", "closed"}

Open(w) == pod[PodOf[w]].up = "up"   \* its queue is not paused


RunSync(w) == Open(w) /\ repeat # {} /\ StartSync(w) /\ UNCHANGED podVars
RunRetry(w, h) == Open(w) /\ Retry(w, h) /\ UNCHANGED podVars
RunSend(w, h) == Open(w) /\ Send(w, h) /\ UNCHANGED podVars
Step(w) == (Accept(w) \/ Refuse(w) \/ LogAttempt(w) \/ AddRetry(w) \/ NextPage(w)) /\ UNCHANGED podVars
StepFails(w) == (LogFails(w) \/ SyncFails(w)) /\ UNCHANGED podVars
Aging(h) == Ages(h) /\ UNCHANGED podVars

Next ==
  \/ \E p \in Pod :
       \/ Start(p) \/ List(p) \/ Remove(p) \/ Add(p) \/ ScheduleFails(p)
       \/ Signal(p) \/ Paused(p) \/ PauseFails(p) \/ Exit(p) \/ Timeout(p) \/ Crash(p)
  \/ \E w \in Worker : RunSync(w) \/ Step(w) \/ StepFails(w)
  \/ \E w \in Worker, h \in Hook : RunRetry(w, h) \/ RunSend(w, h)
  \/ \E h \in Hook : Aging(h)

Spec == Init /\ [][Next]_vars

\* Time passes, a worker finishes what it has, and a queue is first in, first out: a job
\* that waits while workers come free again and again is taken.
FairSpec ==
  /\ Spec
  /\ \A w \in Worker : WF_vars(Step(w))
  /\ WF_vars(\E h \in Hook : Aging(h))
  /\ SF_vars(\E w \in Worker, h \in Hook : RunRetry(w, h))
  /\ SF_vars(\E w \in Worker : RunSync(w))

-----------------------------------------------------------------------------
(* What must hold.                                                         *)

\* The repeatable job is missing only before the first pod has added it, while a pod is
\* between removal and addition, or when one failed or died there (queue.helper.ts:21-43).
MissingExplained ==
  repeat = {} => held # "added" \/ \E p \in Pod : Scheduling(p)

\* Once two pods of one release have scheduled one after the other, undisturbed, only
\* the cron of that release is left: the first may leave the old one beside its own.
OldCronGone == tidy.n = 2 /\ (\A p \in Pod : ~Scheduling(p)) => repeat = {tidy.cron}

\* A pod that closed, and exits with the code of success, has no job left that its exit
\* would kill, unless its queue failed to pause.
ClosedIsIdle ==
  \A p \in Pod : pod[p].up = "closed" /\ ~pod[p].skipped => ~Running(p)

\* While the job is scheduled and a pod stays, recorded failures whose sender wanted
\* them retried are retried until none is left, although each retry takes its row out
\* of the pages still to come.
Unanswered == \E h \in retryOn : code[h] = "error"
FailureRetried ==
  Unanswered ~> (~Unanswered \/ repeat = {} \/ \A w \in Worker : ~Open(w))
=============================================================================
