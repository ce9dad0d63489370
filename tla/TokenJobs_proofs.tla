--------------------------- MODULE TokenJobs_proofs ---------------------------
(***************************************************************************)
(* Theorems of TokenJobs, for any rows, handlers and bounds.               *)
(***************************************************************************)
EXTENDS TokenJobs, TLAPS

\* An execution works for a row exactly while it is not idle.
Busy == \A e \in Execution : running[e] = Nobody <=> pc[e] = "idle"

\* Only inserted rows are read by a cron, queued or executed.
Inserted ==
  /\ \A j \in picked : status[j] # "absent"
  /\ \A j \in Job : entry[j] # "none" => status[j] # "absent"
  /\ \A e \in Execution : running[e] # Nobody => status[running[e]] # "absent"

\* Whoever works for a row that was not taken from a running handler is the one
\* whose result Bull waits for...
Held ==
  \A e \in Execution : running[e] \in Job \ outlived =>
    entry[running[e]] = "active" /\ holder[running[e]] = e

\* ...and finds the row as it left it, except that the frozen check may have
\* made it created again.
Undisturbed ==
  \A e \in Execution : running[e] \in Job \ outlived =>
    /\ pc[e] = "claim" => running[e] \in due
    /\ pc[e] = "work" => status[running[e]] \in {"created", "started"}

IInv == TypeOK /\ Busy /\ Inserted /\ Held /\ Undisturbed

-----------------------------------------------------------------------------
(* Type correctness.                                                       *)

USE DEF rows, queue, handlers

LEMMA InitType == Init => TypeOK
  BY JobAssumption, NobodyAssumption, BoundAssumption DEF Init, TypeOK, Status

\* The steps on rows and queue that are not steps of a handler.
LEMMA RowStepType ==
  ASSUME TypeOK, NEW j \in Job,
         \/ CreateJob(j) \/ ComeDue(j) \/ GrowOverdue(j) \/ QueueAdd(j)
  PROVE  TypeOK'
  <1>1. CASE CreateJob(j)
    BY <1>1 DEF CreateJob, TypeOK, Status
  <1>2. CASE ComeDue(j)
    BY <1>2 DEF ComeDue, TypeOK
  <1>3. CASE GrowOverdue(j)
    BY <1>3 DEF GrowOverdue, TypeOK
  <1>4. CASE QueueAdd(j)
    BY <1>4 DEF QueueAdd, TypeOK
  <1>5. QED
    BY <1>1, <1>2, <1>3, <1>4

LEMMA AttemptFailsType ==
  ASSUME TypeOK, NEW j \in Job, AttemptFails(j)
  PROVE  /\ entry' \in [Job -> {"none", "wait", "active", "kept"}]
         /\ made' \in [Job -> 0..2]
         /\ holder' \in [Job -> Execution \cup {Nobody}]
  BY DEF AttemptFails, BullAttempts, TypeOK

LEMMA BullStepType ==
  ASSUME TypeOK, NEW j \in Job,
         \/ PurgeKept(j) \/ Timeout(j) \/ LoseLock(j) \/ RecoverStalled(j)
  PROVE  TypeOK'
  <1>1. CASE PurgeKept(j)
    BY <1>1 DEF PurgeKept, TypeOK
  <1>2. CASE Timeout(j)
    BY <1>2, AttemptFailsType, BoundAssumption DEF Timeout, TypeOK
  <1>3. CASE LoseLock(j)
    BY <1>3, BoundAssumption DEF LoseLock, TypeOK
  <1>4. CASE RecoverStalled(j)
    BY <1>4 DEF RecoverStalled, TypeOK
  <1>5. QED
    BY <1>1, <1>2, <1>3, <1>4

LEMMA CronStepType ==
  ASSUME TypeOK, NEW t \in TokenJobType, ScheduleNextJobs(t) \/ CheckFrozen(t)
  PROVE  TypeOK'
  <1>1. CASE ScheduleNextJobs(t)
    BY <1>1 DEF ScheduleNextJobs, Window, DueOf, TypeOK
  <1>2. CASE CheckFrozen(t)
    BY <1>2 DEF CheckFrozen, TypeOK, Status
  <1>3. QED
    BY <1>1, <1>2

LEMMA StartHandlerType ==
  ASSUME TypeOK, NEW e \in Execution, NEW j \in Job, StartHandler(e, j)
  PROVE  TypeOK'
  BY DEF StartHandler, TypeOK

LEMMA CrashType == TypeOK /\ Crash => TypeOK'
  BY BoundAssumption DEF Crash, TypeOK

\* An update by id keeps the row variables typed.
LEMMA WriteType ==
  ASSUME TypeOK, NEW j \in Job, NEW s \in Status, Write(j, s)
  PROVE  /\ status' \in [Job -> Status]
         /\ due' \subseteq {k \in Job : status'[k] = "created"}
         /\ overdue' \subseteq {k \in Job : status'[k] = "started"}
  BY DEF Write, TypeOK

LEMMA HandlerStepType ==
  ASSUME TypeOK, Busy, NEW e \in Execution, Handler(e) \/ Abandon(e)
  PROVE  TypeOK'
  <1>0. pc[e] # "idle" => running[e] \in Job
    BY DEF Busy, TypeOK
  <1>1. CASE Read(e)
    BY <1>0, <1>1 DEF Read, Goto, TypeOK
  <1>2. CASE Claim(e)
    BY <1>0, <1>2, WriteType DEF Claim, Goto, TypeOK, Status
  <1>3. CASE Complete(e)
    BY <1>0, <1>3, WriteType DEF Complete, Goto, TypeOK, Status
  <1>4. CASE Fail(e)
    BY <1>0, <1>4, WriteType, BoundAssumption DEF Fail, Goto, TypeOK, Status
  <1>5. CASE Backoff(e)
    BY <1>0, <1>5, WriteType, BoundAssumption DEF Backoff, Goto, TypeOK, Status
  <1>6. CASE Finish(e)
    <2>1. running[e] \in Job
      BY <1>0, <1>6 DEF Finish
    <2>2. /\ entry' \in [Job -> {"none", "wait", "active", "kept"}]
          /\ made' \in [Job -> 0..2]
          /\ holder' \in [Job -> Execution \cup {Nobody}]
      <3>1. CASE holder[running[e]] # e
        BY <1>6, <3>1 DEF Finish, TypeOK
      <3>2. CASE holder[running[e]] = e /\ pc[e] = "throw"
        BY <1>6, <2>1, <3>2, AttemptFailsType DEF Finish
      <3>3. CASE holder[running[e]] = e /\ pc[e] = "return"
        BY <1>6, <2>1, <3>3 DEF Finish, TypeOK
      <3>4. QED
        BY <1>6, <3>1, <3>2, <3>3 DEF Finish
    <2>3. QED
      BY <1>6, <2>1, <2>2, BoundAssumption DEF Finish, TypeOK
  <1>7. CASE Abandon(e)
    BY <1>7, BoundAssumption DEF Abandon, Goto, TypeOK
  <1>8. QED
    BY <1>1, <1>2, <1>3, <1>4, <1>5, <1>6, <1>7 DEF Handler

LEMMA NextType == TypeOK /\ Busy /\ [Next]_vars => TypeOK'
  <1> SUFFICES ASSUME TypeOK, Busy, [Next]_vars
               PROVE  TypeOK'
    OBVIOUS
  <1>1. CASE UNCHANGED vars
    BY <1>1 DEF vars, TypeOK
  <1>2. CASE Next
    BY <1>2, RowStepType, BullStepType, CronStepType, StartHandlerType,
       HandlerStepType, CrashType DEF Next
  <1>3. QED
    BY <1>1, <1>2

-----------------------------------------------------------------------------
(* The inductive invariant, one conjunct at a time.                        *)

LEMMA NextBusy == TypeOK /\ Busy /\ [Next]_vars => Busy'
  <1> SUFFICES ASSUME TypeOK, Busy, [Next]_vars
               PROVE  Busy'
    OBVIOUS
  <1> USE NobodyAssumption DEF Busy, TypeOK
  <1>1. ASSUME NEW j \in Job,
               \/ CreateJob(j) \/ ComeDue(j) \/ GrowOverdue(j) \/ QueueAdd(j)
               \/ PurgeKept(j) \/ Timeout(j) \/ LoseLock(j) \/ RecoverStalled(j)
        PROVE  Busy'
    BY <1>1 DEF CreateJob, ComeDue, GrowOverdue, QueueAdd, PurgeKept, Timeout,
                LoseLock, RecoverStalled
  <1>2. ASSUME NEW t \in TokenJobType, ScheduleNextJobs(t) \/ CheckFrozen(t)
        PROVE  Busy'
    BY <1>2 DEF ScheduleNextJobs, CheckFrozen
  <1>3. ASSUME NEW e \in Execution, NEW j \in Job, StartHandler(e, j)
        PROVE  Busy'
    BY <1>3 DEF StartHandler
  <1>4. ASSUME NEW e \in Execution, Handler(e) \/ Abandon(e)
        PROVE  Busy'
    BY <1>4 DEF Handler, Abandon, Read, Claim, Complete, Fail, Backoff, Finish, Goto
  <1>5. CASE Crash
    BY <1>5 DEF Crash
  <1>6. CASE UNCHANGED vars
    BY <1>6 DEF vars
  <1>7. QED
    BY <1>1, <1>2, <1>3, <1>4, <1>5, <1>6 DEF Next

LEMMA NextInserted == TypeOK /\ Busy /\ Inserted /\ [Next]_vars => Inserted'
  <1> SUFFICES ASSUME TypeOK, Busy, Inserted, [Next]_vars
               PROVE  Inserted'
    OBVIOUS
  <1> USE NobodyAssumption DEF Inserted, TypeOK
  <1>1. ASSUME NEW j \in Job,
               CreateJob(j) \/ ComeDue(j) \/ GrowOverdue(j) \/ QueueAdd(j)
        PROVE  Inserted'
    BY <1>1 DEF CreateJob, ComeDue, GrowOverdue, QueueAdd
  <1>2. ASSUME NEW j \in Job,
               PurgeKept(j) \/ Timeout(j) \/ LoseLock(j) \/ RecoverStalled(j)
        PROVE  Inserted'
    BY <1>2 DEF PurgeKept, Timeout, LoseLock, RecoverStalled, AttemptFails
  <1>3. ASSUME NEW t \in TokenJobType, ScheduleNextJobs(t)
        PROVE  Inserted'
    BY <1>3 DEF ScheduleNextJobs, Window, DueOf
  <1>4. ASSUME NEW t \in TokenJobType, CheckFrozen(t)
        PROVE  Inserted'
    BY <1>4 DEF CheckFrozen
  <1>5. ASSUME NEW e \in Execution, NEW j \in Job, StartHandler(e, j)
        PROVE  Inserted'
    BY <1>5 DEF StartHandler
  <1>6. ASSUME NEW e \in Execution, Handler(e) \/ Abandon(e)
        PROVE  Inserted'
    <2>1. ASSUME Read(e) \/ Abandon(e)
          PROVE  Inserted'
      BY <2>1 DEF Read, Abandon
    <2>2. ASSUME Claim(e) \/ Complete(e) \/ Fail(e) \/ Backoff(e)
          PROVE  Inserted'
      BY <2>2 DEF Claim, Complete, Fail, Backoff, Write
    <2>3. CASE Finish(e)
      <3>1. running[e] \in Job
        BY <2>3 DEF Finish, Busy
      <3>2. \A j \in Job : entry'[j] # "none" => entry[j] # "none" \/ j = running[e]
        BY <2>3, <3>1 DEF Finish, AttemptFails
      <3>3. QED
        BY <2>3, <3>2 DEF Finish
    <2>4. QED
      BY <1>6, <2>1, <2>2, <2>3 DEF Handler
  <1>7. CASE Crash
    BY <1>7 DEF Crash
  <1>8. CASE UNCHANGED vars
    BY <1>8 DEF vars
  <1>9. QED
    BY <1>1, <1>2, <1>3, <1>4, <1>5, <1>6, <1>7, <1>8 DEF Next

\* What a step does to the exclusiveness of the rows nobody outlived.
LEMMA NextHeld == TypeOK /\ Busy /\ Held /\ [Next]_vars => Held'
  <1> SUFFICES ASSUME TypeOK, Busy, Held, [Next]_vars
               PROVE  Held'
    OBVIOUS
  <1> USE NobodyAssumption DEF Held, TypeOK
  <1>1. ASSUME NEW j \in Job,
               \/ CreateJob(j) \/ ComeDue(j) \/ GrowOverdue(j)
               \/ QueueAdd(j) \/ PurgeKept(j) \/ LoseLock(j)
        PROVE  Held'
    BY <1>1 DEF CreateJob, ComeDue, GrowOverdue, QueueAdd, PurgeKept, LoseLock
  <1>2. ASSUME NEW j \in Job, Timeout(j)
        PROVE  Held'
    BY <1>2 DEF Timeout, AttemptFails
  <1>3. ASSUME NEW j \in Job, RecoverStalled(j)
        PROVE  Held'
    BY <1>3 DEF RecoverStalled
  <1>4. ASSUME NEW t \in TokenJobType, ScheduleNextJobs(t) \/ CheckFrozen(t)
        PROVE  Held'
    BY <1>4 DEF ScheduleNextJobs, CheckFrozen
  <1>5. ASSUME NEW e \in Execution, NEW j \in Job, StartHandler(e, j)
        PROVE  Held'
    BY <1>5 DEF StartHandler
  <1>6. ASSUME NEW e \in Execution, Handler(e) \/ Abandon(e)
        PROVE  Held'
    <2>1. ASSUME Read(e) \/ Claim(e) \/ Complete(e) \/ Fail(e) \/ Backoff(e) \/ Abandon(e)
          PROVE  Held'
      BY <2>1 DEF Read, Claim, Complete, Fail, Backoff, Abandon
    <2>2. CASE Finish(e)
      <3>1. running[e] \in Job
        BY <2>2 DEF Finish, Busy
      <3>2. SUFFICES ASSUME NEW f \in Execution, running'[f] \in Job \ outlived
                     PROVE  entry'[running'[f]] = "active" /\ holder'[running'[f]] = f
        BY <2>2 DEF Finish
      <3>3. f # e /\ running'[f] = running[f]
        BY <2>2, <3>2 DEF Finish
      <3>4. running[f] # running[e]
        BY <2>2, <3>2, <3>3
      <3>5. QED
        BY <2>2, <3>1, <3>2, <3>3, <3>4 DEF Finish, AttemptFails
    <2>3. QED
      BY <1>6, <2>1, <2>2 DEF Handler
  <1>7. CASE Crash
    BY <1>7 DEF Crash
  <1>8. CASE UNCHANGED vars
    BY <1>8 DEF vars
  <1>9. QED
    BY <1>1, <1>2, <1>3, <1>4, <1>5, <1>6, <1>7, <1>8 DEF Next

LEMMA NextUndisturbed ==
  TypeOK /\ Busy /\ Inserted /\ Held /\ Undisturbed /\ [Next]_vars => Undisturbed'
  <1> SUFFICES ASSUME TypeOK, Busy, Inserted, Held, Undisturbed, [Next]_vars
               PROVE  Undisturbed'
    OBVIOUS
  <1> USE NobodyAssumption DEF Undisturbed, TypeOK
  <1>1. ASSUME NEW j \in Job,
               CreateJob(j) \/ ComeDue(j) \/ GrowOverdue(j) \/ QueueAdd(j)
        PROVE  Undisturbed'
    BY <1>1 DEF CreateJob, ComeDue, GrowOverdue, QueueAdd
  <1>2. ASSUME NEW j \in Job,
               PurgeKept(j) \/ Timeout(j) \/ LoseLock(j) \/ RecoverStalled(j)
        PROVE  Undisturbed'
    BY <1>2 DEF PurgeKept, Timeout, LoseLock, RecoverStalled
  <1>3. ASSUME NEW t \in TokenJobType, ScheduleNextJobs(t) \/ CheckFrozen(t)
        PROVE  Undisturbed'
    BY <1>3 DEF ScheduleNextJobs, CheckFrozen
  <1>4. ASSUME NEW e \in Execution, NEW j \in Job, StartHandler(e, j)
        PROVE  Undisturbed'
    BY <1>4 DEF StartHandler
  <1>5. ASSUME NEW e \in Execution, Handler(e) \/ Abandon(e)
        PROVE  Undisturbed'
    <2>1. CASE Read(e)
      BY <2>1 DEF Read, Goto, Executable
    <2>2. ASSUME Claim(e) \/ Complete(e) \/ Fail(e) \/ Backoff(e)
          PROVE  Undisturbed'
      <3>1. running[e] \in Job /\ running' = running /\ outlived' = outlived
        BY <2>2 DEF Busy, Claim, Complete, Fail, Backoff
      <3>2. SUFFICES ASSUME NEW f \in Execution, running[f] \in Job \ outlived
                     PROVE  /\ pc'[f] = "claim" => running[f] \in due'
                            /\ pc'[f] = "work" =>
                                 status'[running[f]] \in {"created", "started"}
        BY <3>1
      <3>3. CASE f = e
        BY <2>2, <3>1, <3>3 DEF Claim, Complete, Fail, Backoff, Write, Goto
      <3>4. CASE f # e
        <4>1. running[f] # running[e]
          BY <3>2, <3>4 DEF Held
        <4>2. QED
          BY <2>2, <3>1, <3>2, <3>4, <4>1 DEF Claim, Complete, Fail, Backoff, Write, Goto
      <3>5. QED
        BY <3>3, <3>4
    <2>3. CASE Finish(e)
      BY <2>3 DEF Finish
    <2>4. CASE Abandon(e)
      BY <2>4 DEF Abandon, Goto
    <2>5. QED
      BY <1>5, <2>1, <2>2, <2>3, <2>4 DEF Handler
  <1>6. CASE Crash
    BY <1>6 DEF Crash
  <1>7. CASE UNCHANGED vars
    BY <1>7 DEF vars
  <1>8. QED
    BY <1>1, <1>2, <1>3, <1>4, <1>5, <1>6, <1>7 DEF Next

LEMMA InitInv == Init => IInv
  BY InitType, NobodyAssumption DEF Init, IInv, Busy, Inserted, Held, Undisturbed

LEMMA NextInv == IInv /\ [Next]_vars => IInv'
  BY NextType, NextBusy, NextInserted, NextHeld, NextUndisturbed DEF IInv

LEMMA Invariance == Spec => []IInv
  BY InitInv, NextInv, PTL DEF Spec

-----------------------------------------------------------------------------
(* The theorems.                                                           *)

\* Every variable keeps its type: rows, Bull jobs and handlers.
THEOREM TypeCorrect == Spec => []TypeOK
  <1>1. IInv => TypeOK
    BY DEF IInv
  <1>2. QED
    BY Invariance, <1>1, PTL

\* No two executions ever work for one row, unless Bull took its job from a
\* running handler: for any number of rows and handlers, any interleaving with
\* the frozen check and any crashes.
THEOREM Exclusive == Spec => []ExclusiveExecution
  <1>1. IInv => ExclusiveExecution
    BY NobodyAssumption DEF IInv, Held, ExclusiveExecution
  <1>2. QED
    BY Invariance, <1>1, PTL

\* The steps that start a row: only Claim does, by an execution that found it due.
LEMMA StartedByClaim ==
  ASSUME IInv, [Next]_vars, NEW j \in Job \ outlived,
         status[j] = "created", status'[j] = "started"
  PROVE  j \in due
  <1> USE NobodyAssumption DEF IInv, TypeOK
  <1>1. ASSUME NEW k \in Job,
               \/ CreateJob(k) \/ ComeDue(k) \/ GrowOverdue(k) \/ QueueAdd(k)
               \/ PurgeKept(k) \/ Timeout(k) \/ LoseLock(k) \/ RecoverStalled(k)
        PROVE  FALSE
    BY <1>1 DEF CreateJob, ComeDue, GrowOverdue, QueueAdd, PurgeKept, Timeout,
                LoseLock, RecoverStalled
  <1>2. ASSUME NEW t \in TokenJobType, ScheduleNextJobs(t) \/ CheckFrozen(t)
        PROVE  FALSE
    BY <1>2 DEF ScheduleNextJobs, CheckFrozen
  <1>3. ASSUME NEW e \in Execution, NEW k \in Job, StartHandler(e, k)
        PROVE  FALSE
    BY <1>3 DEF StartHandler
  <1>4. ASSUME NEW e \in Execution, Handler(e) \/ Abandon(e)
        PROVE  j \in due
    <2>1. CASE Claim(e)
      BY <2>1 DEF Claim, Write, Busy, Undisturbed
    <2>2. ASSUME Complete(e) \/ Fail(e) \/ Backoff(e)
          PROVE  FALSE
      BY <2>2 DEF Complete, Fail, Backoff, Write, Busy
    <2>3. ASSUME Read(e) \/ Finish(e) \/ Abandon(e)
          PROVE  FALSE
      BY <2>3 DEF Read, Finish, Abandon
    <2>4. QED
      BY <1>4, <2>1, <2>2, <2>3 DEF Handler
  <1>5. ASSUME Crash \/ UNCHANGED vars
        PROVE  FALSE
    BY <1>5 DEF Crash, vars
  <1>6. QED
    BY <1>1, <1>2, <1>3, <1>4, <1>5 DEF Next

\* A row put off by a 429 is never started early, whatever Bull's own retries do.
THEOREM BackoffIsRespected == Spec => BackoffRespected
  <1>1. IInv /\ [Next]_vars =>
          [\A j \in Job \ outlived :
             status[j] = "created" /\ j \notin due => status'[j] # "started"]_vars
    BY StartedByClaim
  <1>2. QED
    BY Invariance, <1>1, PTL DEF Spec, BackoffRespected

\* A write to a row that was not taken from a running handler finds it open: it is a turn
\* of the row, or a stutter.
LEMMA WriteTurns ==
  ASSUME IInv, NEW j \in Job, NEW s \in {"created", "started", "completed", "failed"},
         Write(j, s), status[j] # "absent", outlived' = outlived,
         j \notin outlived => status[j] \in {"created", "started"}
  PROVE  [Lifecycle!Next]_(Lifecycle!vars)
  <1>1. status' = [status EXCEPT ![j] = s] /\ status \in [Job -> Status]
    BY DEF Write, IInv, TypeOK
  <1>2. Life(s) \in {"open", "completed", "failed"}
    BY DEF Life
  <1>3. [k \in Job |-> Life(status'[k])] = [[k \in Job |-> Life(status[k])] EXCEPT ![j] = Life(s)]
    BY <1>1
  <1>4. Lifecycle!MayTurn(j)
    BY <1>1 DEF Lifecycle!MayTurn, Life, Status
  <1>5. Lifecycle!Turn(j, Life(s))
    BY <1>3, <1>4 DEF Lifecycle!Turn
  <1>6. QED
    BY <1>2, <1>5 DEF Lifecycle!Next

\* A step that opens no row, ends none and outlives none.
LEMMA SameLife ==
  ASSUME outlived' = outlived, \A j \in Job : Life(status'[j]) = Life(status[j])
  PROVE  UNCHANGED Lifecycle!vars
  BY DEF Lifecycle!vars

\* What each step does to what became of the rows.
LEMMA StepSimulation ==
  IInv /\ [Next]_vars => [Lifecycle!Next]_(Lifecycle!vars)
  <1> SUFFICES ASSUME IInv, [Next]_vars
               PROVE  [Lifecycle!Next]_(Lifecycle!vars)
    OBVIOUS
  <1> USE NobodyAssumption DEF IInv, TypeOK
  <1>1. ASSUME NEW j \in Job, CreateJob(j)
        PROVE  Lifecycle!Create(j)
    BY <1>1 DEF CreateJob, Lifecycle!Create, Life
  <1>2. ASSUME NEW j \in Job,
               \/ ComeDue(j) \/ GrowOverdue(j) \/ QueueAdd(j)
               \/ PurgeKept(j) \/ RecoverStalled(j)
        PROVE  UNCHANGED Lifecycle!vars
    BY <1>2, SameLife DEF ComeDue, GrowOverdue, QueueAdd, PurgeKept, RecoverStalled
  <1>3. ASSUME NEW j \in Job, Timeout(j) \/ LoseLock(j)
        PROVE  Lifecycle!Outlive(j)
    BY <1>3 DEF Timeout, LoseLock, Lifecycle!Outlive
  <1>4. ASSUME NEW t \in TokenJobType, ScheduleNextJobs(t) \/ CheckFrozen(t)
        PROVE  UNCHANGED Lifecycle!vars
    <2>1. CASE ScheduleNextJobs(t)
      BY <2>1, SameLife DEF ScheduleNextJobs
    <2>2. CASE CheckFrozen(t)
      <3> DEFINE frozen == {j \in overdue : TypeOf[j] = t}
      <3>1. /\ status' = [j \in Job |-> IF j \in frozen THEN "created" ELSE status[j]]
            /\ outlived' = outlived
        BY <2>2 DEF CheckFrozen
      <3>2. \A j \in frozen : status[j] = "started"
        OBVIOUS
      <3>3. QED
        BY <3>1, <3>2, SameLife DEF Life
    <2>3. QED
      BY <1>4, <2>1, <2>2
  <1>5. ASSUME NEW e \in Execution, NEW j \in Job, StartHandler(e, j)
        PROVE  UNCHANGED Lifecycle!vars
    BY <1>5, SameLife DEF StartHandler
  <1>6. ASSUME NEW e \in Execution, Handler(e) \/ Abandon(e)
        PROVE  [Lifecycle!Next]_(Lifecycle!vars)
    <2>1. CASE Read(e) \/ Finish(e) \/ Abandon(e)
      BY <2>1, SameLife DEF Read, Finish, Abandon
    <2>2. CASE Claim(e) \/ Complete(e) \/ Fail(e) \/ Backoff(e)
      <3>1. PICK s \in {"created", "started", "completed", "failed"} : Write(running[e], s)
        BY <2>2 DEF Claim, Complete, Fail, Backoff
      <3>2. pc[e] \in {"claim", "work"} /\ outlived' = outlived
        BY <2>2 DEF Claim, Complete, Fail, Backoff
      <3>3. running[e] \in Job /\ status[running[e]] # "absent"
        BY <3>2 DEF Busy, Inserted
      <3>4. running[e] \notin outlived => status[running[e]] \in {"created", "started"}
        BY <3>2, <3>3 DEF Undisturbed
      <3>5. QED
        BY <3>1, <3>2, <3>3, <3>4, WriteTurns
    <2>3. QED
      BY <1>6, <2>1, <2>2 DEF Handler
  <1>7. ASSUME Crash \/ UNCHANGED vars
        PROVE  UNCHANGED Lifecycle!vars
    BY <1>7, SameLife DEF Crash, vars
  <1>8. ASSUME NEW j \in Job, Lifecycle!Create(j) \/ Lifecycle!Outlive(j)
        PROVE  Lifecycle!Next
    BY <1>8 DEF Lifecycle!Next
  <1>9. CASE \E j \in Job :
                \/ CreateJob(j) \/ ComeDue(j) \/ GrowOverdue(j) \/ QueueAdd(j)
                \/ PurgeKept(j) \/ Timeout(j) \/ LoseLock(j) \/ RecoverStalled(j)
    BY <1>1, <1>2, <1>3, <1>8, <1>9
  <1>10. QED
    BY <1>4, <1>5, <1>6, <1>7, <1>9 DEF Next

\* The rows implement JobLifecycle: an open row ends completed or failed, and only a
\* handler that outlived its hold on it turns it into anything else afterwards.
THEOREM Implements == Spec => ImplementsLifecycle
  <1>1. Init => Lifecycle!Init
    BY DEF Init, Lifecycle!Init, Life
  <1>2. QED
    BY <1>1, StepSimulation, Invariance, PTL DEF Spec, ImplementsLifecycle, Lifecycle!Spec
=============================================================================
