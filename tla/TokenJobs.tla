------------------------------ MODULE TokenJobs ------------------------------
(***************************************************************************)
(* The life of the rows of tokens_jobs: the crons that find due rows and   *)
(* add them to the Bull queue, the handlers that claim a row, do its work  *)
(* and write its outcome, and the check that gives frozen rows back.       *)
(*                                                                         *)
(* Three actors meet on a row and none of them locks it: the handler       *)
(* (findOne, then an update by id that does not look at the status again), *)
(* the frozen check, and Bull, which may take a job from a handler that is *)
(* still running (timeout, lost lock).  What keeps two handlers apart is   *)
(* only the jobId given to queue.add.                                      *)
(*                                                                         *)
(* The work of a job (tokens, owners, assets) is the business of the other *)
(* modules; here it takes time and ends well, badly, or with a 429.        *)
(***************************************************************************)
EXTENDS Naturals, FiniteSets

CONSTANTS
  Job,          \* the ids of rows of tokens_jobs
  TypeOf,       \* the type of each row
  Execution,    \* the handlers that can run at once, given up ones included
  Nobody,       \* no job, no execution
  Take,         \* how many due rows of a type one cron run reads
  MaxAttempts,  \* bound: answers 429 a row may get
  MaxFaults     \* bound: crashes, timeouts, lost locks and lost updates

TokenJobType == {"verify_mint", "fetch_metadata", "fetch_owner_address",
                 "upload_asset", "refresh_token"}

ASSUME JobAssumption == TypeOf \in [Job -> TokenJobType]
ASSUME NobodyAssumption == Nobody \notin Job /\ Nobody \notin Execution
ASSUME BoundAssumption ==
  Take \in Nat \ {0} /\ MaxAttempts \in Nat \ {0} /\ MaxFaults \in Nat

VARIABLES
  status,    \* status of each row, "absent" before it is inserted
  due,       \* the created rows whose executeAt has passed
  overdue,   \* the started rows whose startedAt is over five minutes ago
  attempts,  \* attempts of each row
  picked,    \* rows a cron run has read and not yet added to the queue
  entry,     \* the Bull job `<name>:<row id>`: none, wait, active, kept
  made,      \* attempts of that Bull job that have failed
  holder,    \* the execution whose result Bull waits for
  running,   \* the row each execution works for
  pc,        \* where each execution is
  seen,      \* attempts of the row as the execution read it
  outlived,  \* rows whose Bull job was taken from a running handler
  faults     \* faults so far

rows == <<status, due, overdue, attempts>>
queue == <<entry, made, holder>>
handlers == <<running, pc, seen>>
vars == <<rows, picked, queue, handlers, outlived, faults>>

Status == {"absent", "created", "started", "completed", "failed"}

\* The types checkJobFrozenHandler gives back; refresh_token is not among them.
Watched == TokenJobType \ {"refresh_token"}

\* The `attempts` option of queue.add: one try for verify_mint, else three.
BullAttempts(j) == IF TypeOf[j] = "verify_mint" THEN 1 ELSE 3

TypeOK ==
  /\ status \in [Job -> Status]
  /\ due \subseteq {j \in Job : status[j] = "created"}
  /\ overdue \subseteq {j \in Job : status[j] = "started"}
  /\ attempts \in [Job -> 0..MaxAttempts]
  /\ picked \subseteq Job
  /\ entry \in [Job -> {"none", "wait", "active", "kept"}]
  /\ made \in [Job -> 0..2]
  /\ holder \in [Job -> Execution \cup {Nobody}]
  /\ running \in [Execution -> Job \cup {Nobody}]
  /\ pc \in [Execution -> {"idle", "read", "claim", "work", "return", "throw"}]
  /\ seen \in [Execution -> 0..MaxAttempts]
  /\ outlived \subseteq Job
  /\ faults \in 0..MaxFaults

Init ==
  /\ status = [j \in Job |-> "absent"]
  /\ due = {} /\ overdue = {} /\ picked = {} /\ outlived = {}
  /\ attempts = [j \in Job |-> 0]
  /\ entry = [j \in Job |-> "none"]
  /\ made = [j \in Job |-> 0]
  /\ holder = [j \in Job |-> Nobody]
  /\ running = [e \in Execution |-> Nobody]
  /\ pc = [e \in Execution |-> "idle"]
  /\ seen = [e \in Execution |-> 0]
  /\ faults = 0

-----------------------------------------------------------------------------
(* Rows: insertion, the passing of time, the two crons.                    *)

\* Mutant: executeAt of the row is not looked at when its status changes.
WriteKeepsDue(j, s) ==
  /\ status' = [status EXCEPT ![j] = s]
  /\ overdue' = overdue \ {j}
  /\ UNCHANGED due

\* An update of a row by id: whatever it was, its status is now s.
Write(j, s) ==
  /\ status' = [status EXCEPT ![j] = s]
  /\ due' = due \ {j}
  /\ overdue' = overdue \ {j}

\* createJob: a created row, executeAt now.
CreateJob(j) ==
  /\ status[j] = "absent"
  /\ status' = [status EXCEPT ![j] = "created"]
  /\ due' = due \cup {j}
  /\ UNCHANGED <<overdue, attempts, picked, queue, handlers, outlived, faults>>

\* The executeAt of a row that was put off passes.
ComeDue(j) ==
  /\ status[j] = "created" /\ j \notin due
  /\ due' = due \cup {j}
  /\ UNCHANGED <<status, overdue, attempts, picked, queue, handlers, outlived, faults>>

\* Five minutes pass since a row was started.
GrowOverdue(j) ==
  /\ status[j] = "started" /\ j \notin overdue
  /\ overdue' = overdue \cup {j}
  /\ UNCHANGED <<status, due, attempts, picked, queue, handlers, outlived, faults>>

DueOf(t) == {j \in due : TypeOf[j] = t}

\* Mutant: createFetchJobsHandler forgets the refresh_token service.
ScheduleWithoutRefresh(t) ==
  /\ t # "refresh_token"
  /\ picked' = picked \cup DueOf(t)
  /\ UNCHANGED <<rows, queue, handlers, outlived, faults>>

\* The rows one find of scheduleNextJobs may return: all that are due, at most
\* Take of them (uploads have no limit).  That they are the oldest is left out.
Window(t) ==
  IF t = "upload_asset" \/ Cardinality(DueOf(t)) <= Take
    THEN {DueOf(t)}
    ELSE {w \in SUBSET DueOf(t) : Cardinality(w) = Take}

\* scheduleNextJobs, the find.
ScheduleNextJobs(t) ==
  /\ \E w \in Window(t) : picked' = picked \cup w
  /\ UNCHANGED <<rows, queue, handlers, outlived, faults>>

\* Mutant: queue.add without the jobId option.
QueueAddWithoutJobId(j) ==
  /\ j \in picked
  /\ picked' = picked \ {j}
  /\ entry' = [entry EXCEPT ![j] = "wait"]
  /\ made' = [made EXCEPT ![j] = 0]
  /\ UNCHANGED <<rows, holder, handlers, outlived, faults>>

\* scheduleNextJobs, one queue.add: nothing happens while Bull knows the jobId.
QueueAdd(j) ==
  /\ j \in picked
  /\ picked' = picked \ {j}
  /\ IF entry[j] = "none"
       THEN entry' = [entry EXCEPT ![j] = "wait"] /\ made' = [made EXCEPT ![j] = 0]
       ELSE UNCHANGED <<entry, made>>
  /\ UNCHANGED <<rows, holder, handlers, outlived, faults>>

\* Mutant: only rows that were never put off are given back.
CheckFrozenFirstAttempts(t) ==
  LET frozen == {j \in overdue : TypeOf[j] = t /\ attempts[j] = 0}
  IN  /\ t \in Watched
      /\ frozen # {}
      /\ status' = [j \in Job |-> IF j \in frozen THEN "created" ELSE status[j]]
      /\ due' = due \cup frozen
      /\ overdue' = overdue \ frozen
      /\ UNCHANGED <<attempts, picked, queue, handlers, outlived, faults>>

\* checkJobsHaveAlreadyStartedButNotFinished of one type: one UPDATE.
CheckFrozen(t) ==
  LET frozen == {j \in overdue : TypeOf[j] = t}
  IN  /\ t \in Watched
      /\ frozen # {}
      /\ status' = [j \in Job |-> IF j \in frozen THEN "created" ELSE status[j]]
      /\ due' = due \cup frozen
      /\ overdue' = overdue \ frozen
      /\ UNCHANGED <<attempts, picked, queue, handlers, outlived, faults>>

-----------------------------------------------------------------------------
(* Bull (external, as the options given to it make it behave).             *)

\* A worker takes the next waiting job and calls its handler.
StartHandler(e, j) ==
  /\ pc[e] = "idle" /\ entry[j] = "wait"
  /\ entry' = [entry EXCEPT ![j] = "active"]
  /\ holder' = [holder EXCEPT ![j] = e]
  /\ running' = [running EXCEPT ![e] = j]
  /\ pc' = [pc EXCEPT ![e] = "read"]
  /\ UNCHANGED <<rows, picked, made, seen, outlived, faults>>

\* A failed attempt: tried again at once while attempts remain, else removed.
AttemptFails(j) ==
  LET again == made[j] + 1 < BullAttempts(j)
  IN  /\ entry' = [entry EXCEPT ![j] = IF again THEN "wait" ELSE "none"]
      /\ made' = [made EXCEPT ![j] = IF again THEN @ + 1 ELSE 0]
      /\ holder' = [holder EXCEPT ![j] = Nobody]

\* The handler ends: Bull takes the result only from the holder of the job.
Finish(e) ==
  LET j == running[e]
  IN  /\ pc[e] \in {"return", "throw"}
      /\ running' = [running EXCEPT ![e] = Nobody]
      /\ pc' = [pc EXCEPT ![e] = "idle"]
      /\ seen' = [seen EXCEPT ![e] = 0]
      /\ \/ holder[j] # e /\ UNCHANGED queue
         \/ holder[j] = e /\ pc[e] = "throw" /\ AttemptFails(j)
         \/ /\ holder[j] = e /\ pc[e] = "return"
            /\ entry' = [entry EXCEPT ![j] = "kept"]
            /\ holder' = [holder EXCEPT ![j] = Nobody]
            /\ UNCHANGED made
      /\ UNCHANGED <<rows, picked, outlived, faults>>

\* removeOnComplete {age}: the completion of some later job of the queue
\* removes the jobs kept for more than two minutes.
PurgeKept(j) ==
  /\ entry[j] = "kept"
  /\ entry' = [entry EXCEPT ![j] = "none"]
  /\ UNCHANGED <<rows, picked, made, holder, handlers, outlived, faults>>

\* The fifteen minutes of `timeout` pass: the attempt fails, the handler runs on.
Timeout(j) ==
  /\ entry[j] = "active" /\ holder[j] # Nobody
  /\ faults < MaxFaults
  /\ AttemptFails(j)
  /\ outlived' = outlived \cup {j}
  /\ faults' = faults + 1
  /\ UNCHANGED <<rows, picked, handlers>>

\* A busy process does not renew the lock of a job it still works on.
LoseLock(j) ==
  /\ entry[j] = "active" /\ holder[j] # Nobody
  /\ faults < MaxFaults
  /\ holder' = [holder EXCEPT ![j] = Nobody]
  /\ outlived' = outlived \cup {j}
  /\ faults' = faults + 1
  /\ UNCHANGED <<rows, picked, entry, made, handlers>>

\* The stalled check finds an active job without a lock: back to the queue, or
\* failed and removed when it has stalled before.
RecoverStalled(j) ==
  /\ entry[j] = "active" /\ holder[j] = Nobody
  /\ \E s \in {"wait", "none"} : entry' = [entry EXCEPT ![j] = s]
  /\ UNCHANGED <<rows, picked, made, holder, handlers, outlived, faults>>

\* A pod dies with the handlers and the cron runs it holds.
Crash ==
  /\ faults < MaxFaults
  /\ \E dead \in SUBSET Execution, lost \in SUBSET picked :
       /\ running' = [e \in Execution |-> IF e \in dead THEN Nobody ELSE running[e]]
       /\ pc' = [e \in Execution |-> IF e \in dead THEN "idle" ELSE pc[e]]
       /\ seen' = [e \in Execution |-> IF e \in dead THEN 0 ELSE seen[e]]
       /\ holder' = [j \in Job |-> IF holder[j] \in dead THEN Nobody ELSE holder[j]]
       /\ picked' = picked \ lost
  /\ faults' = faults + 1
  /\ UNCHANGED <<rows, entry, made, outlived>>

-----------------------------------------------------------------------------
(* The handlers: execute of the five services.                             *)

Goto(e, where) == pc' = [pc EXCEPT ![e] = where]

\* Mutants: findOne without its executeAt, or without its status.
ExecutableAnyTime(j) == status[j] = "created"
ExecutableAnyStatus(j) == j \in due \/ status[j] # "created"

\* findOne: the row, when it is created and due.  (Rows without the ids or URIs that
\* some handlers return early for are inserted by nobody.)
Executable(j) == j \in due

Read(e) ==
  LET j == running[e]
  IN  /\ pc[e] = "read"
      /\ IF Executable(j)
           THEN Goto(e, "claim") /\ seen' = [seen EXCEPT ![e] = attempts[j]]
           ELSE Goto(e, "return") /\ UNCHANGED seen
      /\ UNCHANGED <<rows, picked, queue, running, outlived, faults>>

\* update(job.id, Started): by id, whatever the row has become since it was read.
Claim(e) ==
  /\ pc[e] = "claim"
  /\ Write(running[e], "started")
  /\ Goto(e, "work")
  /\ UNCHANGED <<attempts, picked, queue, running, seen, outlived, faults>>

Complete(e) ==
  /\ pc[e] = "work"
  /\ Write(running[e], "completed")
  /\ Goto(e, "return")
  /\ UNCHANGED <<attempts, picked, queue, running, seen, outlived, faults>>

\* catch: the work threw, or the update to Started did (verify_mint makes that
\* update outside its try).  Only fetch_metadata writes attempts.
Fail(e) ==
  LET j == running[e]
  IN  /\ \/ pc[e] = "work"
         \/ pc[e] = "claim" /\ TypeOf[j] # "verify_mint"
      /\ Write(j, "failed")
      /\ attempts' = IF TypeOf[j] = "fetch_metadata"
                       THEN [attempts EXCEPT ![j] = 1] ELSE attempts
      /\ Goto(e, "throw")
      /\ UNCHANGED <<picked, queue, running, seen, outlived, faults>>

\* catch of fetch_metadata, TooManyRequests: created again, for later.
Backoff(e) ==
  LET j == running[e]
  IN  /\ pc[e] = "work" /\ TypeOf[j] = "fetch_metadata"
      /\ seen[e] < MaxAttempts
      /\ Write(j, "created")
      /\ attempts' = [attempts EXCEPT ![j] = seen[e] + 1]
      /\ Goto(e, "throw")
      /\ UNCHANGED <<picked, queue, running, seen, outlived, faults>>

\* The update in the catch throws too, or the update to Started of verify_mint.
Abandon(e) ==
  /\ pc[e] \in {"claim", "work"}
  /\ faults < MaxFaults
  /\ faults' = faults + 1
  /\ Goto(e, "throw")
  /\ UNCHANGED <<rows, picked, queue, running, seen, outlived>>

-----------------------------------------------------------------------------
Handler(e) == Read(e) \/ Claim(e) \/ Complete(e) \/ Fail(e) \/ Backoff(e) \/ Finish(e)

Next ==
  \/ \E j \in Job : \/ CreateJob(j) \/ ComeDue(j) \/ GrowOverdue(j) \/ QueueAdd(j)
                    \/ PurgeKept(j) \/ Timeout(j) \/ LoseLock(j) \/ RecoverStalled(j)
  \/ \E t \in TokenJobType : ScheduleNextJobs(t) \/ CheckFrozen(t)
  \/ \E e \in Execution, j \in Job : StartHandler(e, j)
  \/ \E e \in Execution : Handler(e) \/ Abandon(e)
  \/ Crash

Spec == Init /\ [][Next]_vars

(* Time passes, the crons and the workers run, a called handler goes on,   *)
(* and other jobs of the queue complete (which is what purges kept ones).  *)
(* Nothing makes a row be inserted or a fault happen.                      *)
Fairness ==
  /\ \A j \in Job : /\ WF_vars(ComeDue(j)) /\ WF_vars(GrowOverdue(j))
                    /\ WF_vars(QueueAdd(j)) /\ WF_vars(PurgeKept(j))
                    /\ WF_vars(RecoverStalled(j))
                    /\ WF_vars(\E e \in Execution : StartHandler(e, j))
  /\ \A t \in TokenJobType : WF_vars(ScheduleNextJobs(t)) /\ WF_vars(CheckFrozen(t))
  /\ \A e \in Execution : WF_vars(Handler(e))

FairSpec == Spec /\ Fairness

-----------------------------------------------------------------------------
(* Properties.                                                             *)

Open == {j \in Job : status[j] \in {"created", "started"}}
Closed == {j \in Job : status[j] \in {"completed", "failed"}}

\* A row whose Bull job was never taken from a running handler is never worked
\* on by two executions at once, although the frozen check makes a row that is
\* being worked on due again after five of the fifteen minutes a handler has.
ExclusiveExecution ==
  \A j \in Job \ outlived : \A e, f \in Execution :
    running[e] = j /\ running[f] = j => e = f

\* A row put off by a 429 is not started before its executeAt, although Bull
\* tries the failed attempt again at once.
BackoffRespected ==
  [][\A j \in Job \ outlived :
       status[j] = "created" /\ j \notin due => status'[j] # "started"]_vars

\* The rows keep the promise of JobLifecycle: in particular a completed row never
\* turns failed, nor either open, through retries, crashes, stalled jobs and frozen
\* checks, as long as no handler outlived its hold on it.
Life(s) == IF s \in {"created", "started"} THEN "open" ELSE s
Lifecycle == INSTANCE JobLifecycle WITH state <- [j \in Job |-> Life(status[j])]
ImplementsLifecycle == Lifecycle!Spec

\* Every row of a type the frozen check watches ends completed or failed,
\* through crashes at any step of its handler.
WatchedJobsClose ==
  \A j \in {k \in Job : TypeOf[k] \in Watched} : j \in Open ~> j \in Closed

\* A row of a type nobody watches can only fail to end by staying started with no
\* execution left to finish it: nothing else blocks it.
Orphan(j) == status[j] = "started" /\ \A e \in Execution : running[e] # j
UnwatchedJobsCloseOrOrphan ==
  \A j \in {k \in Job : TypeOf[k] \notin Watched} :
    j \in Open ~> (j \in Closed \/ []Orphan(j))
=============================================================================
