------------------------------- MODULE Webhook -------------------------------
(***************************************************************************)
(* Webhooks and their retries.  send() posts and records how the endpoint  *)
(* answered, in one row per webhook; every minute a job pages through the  *)
(* rows that failed and adds a retry of each, without a job id: nothing    *)
(* keeps two retries of a webhook apart but the row they read first.       *)
(*                                                                         *)
(* A worker is one of the jobs, or requests, a pod runs at a time.  Pods   *)
(* start and stop them, and tick the repeatable job: see Pods.             *)
(***************************************************************************)
EXTENDS Naturals, FiniteSets

CONSTANTS
  Hook, Worker, NoHook,
  Unsent,              \* webhooks nobody has sent; the others failed under an earlier pod
  PageLimit,           \* rows of a page; 200 in the code
  MaxJobs, MaxFaults   \* bounds: retries of a webhook in the queue at once; failures

ASSUME HookAssumption == NoHook \notin Hook /\ IsFiniteSet(Hook) /\ Unsent \subseteq Hook
ASSUME LimitAssumption == {PageLimit, MaxJobs, MaxFaults} \subseteq Nat \ {0}

VARIABLES
  code,      \* column code: what the last recorded answer was, "none" without a row
  retryOn,   \* column retry: the webhooks whose failures are to be retried
  due,       \* rows whose updated_at is more than a minute old
  jobs,      \* RetryWebhook jobs in the queue, per webhook
  worker,
  taken,     \* whether the endpoint has taken it once or twice, or "maybe" once it was
             \* posted by two at a time, or its answer, its record or its sender was lost
  faults

hookVars == <<code, retryOn, due, jobs, worker, taken, faults>>

Idle == [at |-> "idle", hook |-> NoHook, retry |-> FALSE, ok |-> FALSE, page |-> 0, items |-> {}]
WorkerSet == [at : {"idle", "sync", "post", "log"}, hook : Hook \cup {NoHook}, retry : BOOLEAN,
              ok : BOOLEAN, page : 0..Cardinality(Hook) + 1, items : SUBSET Hook]

HookTypeOK ==
  /\ code \in [Hook -> {"none", "ok", "error"}]
  /\ retryOn \subseteq Hook /\ due \subseteq {h \in Hook : code[h] # "none"}
  /\ jobs \in [Hook -> 0..MaxJobs] /\ \A h \in Hook : jobs[h] > 0 => code[h] # "none" /\ h \in retryOn
  /\ worker \in [Worker -> WorkerSet]
  /\ taken \in [Hook -> {"no", "once", "twice", "maybe"}]
  /\ faults \in 0..MaxFaults

HookInit ==
  /\ code = [h \in Hook |-> IF h \in Unsent THEN "none" ELSE "error"]
  /\ retryOn = Hook \ Unsent /\ due = {} /\ jobs = [h \in Hook |-> 0]
  /\ worker = [w \in Worker |-> Idle]
  /\ taken = [h \in Hook |-> "no"] /\ faults = 0

Fault == faults < MaxFaults /\ faults' = faults + 1
Becomes(w, r) == worker' = [worker EXCEPT ![w] = r]
Sending(h) == {w \in Worker : worker[w].hook = h}
Maybe(h) == taken' = [taken EXCEPT ![h] = "maybe"]

-----------------------------------------------------------------------------
(* send(): post, then record.                                              *)

\* Starts to post h, maybe while another worker does.
Post(w, h, isRetry) ==
  /\ Becomes(w, [Idle EXCEPT !.at = "post", !.hook = h, !.retry = isRetry])
  /\ IF Sending(h) = {} THEN UNCHANGED taken ELSE Maybe(h)

\* Nothing in the repository calls send() yet; whoever does, does it once, and says
\* whether its failures are to be retried.
Send(w, h) ==
  /\ worker[w] = Idle /\ code[h] = "none" /\ Sending(h) = {} /\ taken[h] = "no"
  /\ \E on \in BOOLEAN : retryOn' = IF on THEN retryOn \cup {h} ELSE retryOn \ {h}
  /\ Post(w, h, FALSE)
  /\ UNCHANGED <<code, due, jobs, faults>>

\* The endpoint takes it; the answer may come too late for the timeout of the request.
Accept(w) ==
  /\ worker[w].at = "post"
  /\ LET h == worker[w].hook IN
       \/ /\ Becomes(w, [worker[w] EXCEPT !.at = "log", !.ok = TRUE])
          /\ taken' = [taken EXCEPT ![h] = CASE @ = "no" -> "once" [] @ = "maybe" -> @ [] OTHER -> "twice"]
          /\ UNCHANGED faults
       \/ Fault /\ Becomes(w, [worker[w] EXCEPT !.at = "log"]) /\ Maybe(h)
  /\ UNCHANGED <<code, retryOn, due, jobs>>

\* The endpoint cannot be reached, or answers with an error.
Refuse(w) ==
  /\ worker[w].at = "post" /\ Fault
  /\ Becomes(w, [worker[w] EXCEPT !.at = "log"])
  /\ UNCHANGED <<code, retryOn, due, jobs, taken>>

\* logAttempt saves the row under the webhook's id.
LogAttempt(w) ==
  /\ worker[w].at = "log" /\ Becomes(w, Idle)
  /\ code' = [code EXCEPT ![worker[w].hook] = IF worker[w].ok THEN "ok" ELSE "error"]
  /\ due' = due \ {worker[w].hook}
  /\ UNCHANGED <<retryOn, jobs, taken, faults>>

\* The save throws: the row keeps what it had, and nobody is told of a delivery.
LogFails(w) ==
  /\ worker[w].at = "log" /\ Fault /\ Becomes(w, Idle)
  /\ Maybe(worker[w].hook)
  /\ UNCHANGED <<code, retryOn, due, jobs>>

\* A minute passes since the row was written.
Ages(h) ==
  /\ code[h] = "error" /\ h \notin due /\ due' = due \cup {h}
  /\ UNCHANGED <<code, retryOn, jobs, worker, taken, faults>>

-----------------------------------------------------------------------------
(* The jobs.                                                               *)

\* getAttemptsFailedAfterOneMinute.
Failed == {h \in due \cap retryOn : code[h] = "error"}

\* Mutant: pages are counted from 0, and the iterator starts at 1.
PageFromZero(k) ==
  LET left == IF Cardinality(Failed) > k * PageLimit
                THEN Cardinality(Failed) - k * PageLimit ELSE 0
  IN {s \in SUBSET Failed : Cardinality(s) = IF left < PageLimit THEN left ELSE PageLimit}

\* Page k of what has failed by now: an offset into rows that no ORDER BY orders.
Page(k) ==
  LET left == IF Cardinality(Failed) > (k - 1) * PageLimit
                THEN Cardinality(Failed) - (k - 1) * PageLimit ELSE 0
  IN {s \in SUBSET Failed : Cardinality(s) = IF left < PageLimit THEN left ELSE PageLimit}

\* The iterator has a page: it yields its rows, or ends with an empty one.
Turn(w, k) ==
  \E s \in Page(k) :
    Becomes(w, IF s = {} THEN Idle ELSE [Idle EXCEPT !.at = "sync", !.page = k, !.items = s])

\* SyncWebhookFailed is taken and asks for the first page.
StartSync(w) ==
  /\ worker[w] = Idle /\ Failed # {} /\ Turn(w, 1)
  /\ UNCHANGED <<code, retryOn, due, jobs, taken, faults>>

\* One row of the page gets its retry.
AddRetry(w) ==
  /\ worker[w].at = "sync"
  /\ \E h \in worker[w].items :
       /\ jobs' = [jobs EXCEPT ![h] = IF @ = MaxJobs THEN @ ELSE @ + 1]
       /\ Becomes(w, [worker[w] EXCEPT !.items = @ \ {h}])
  /\ UNCHANGED <<code, retryOn, due, taken, faults>>

\* After the last one the next page is asked for: others may have failed or gone well.
NextPage(w) ==
  /\ worker[w].at = "sync" /\ worker[w].items = {} /\ Turn(w, worker[w].page + 1)
  /\ UNCHANGED <<code, retryOn, due, jobs, taken, faults>>

\* queue.add or the query throws, and the run ends.
SyncFails(w) ==
  /\ worker[w].at = "sync" /\ Fault /\ Becomes(w, Idle)
  /\ UNCHANGED <<code, retryOn, due, jobs, taken>>

\* Mutant: whoever added the job knows that it failed.
RetryUnread(w, h) ==
  /\ worker[w] = Idle /\ jobs[h] > 0
  /\ jobs' = [jobs EXCEPT ![h] = @ - 1]
  /\ Post(w, h, TRUE)
  /\ UNCHANGED <<code, retryOn, due, faults>>

\* RetryWebhook is taken: a webhook that was delivered meanwhile is left alone.
Retry(w, h) ==
  /\ worker[w] = Idle /\ jobs[h] > 0
  /\ jobs' = [jobs EXCEPT ![h] = @ - 1]
  /\ IF code[h] = "error" THEN Post(w, h, TRUE) ELSE UNCHANGED <<worker, taken>>
  /\ UNCHANGED <<code, retryOn, due, faults>>

\* The process of these workers ends.  Bull gives a retry whose lock runs out back once,
\* or lets it fail: either may be.
Die(dead) ==
  LET hit == {worker[w].hook : w \in dead} \cap Hook
      given == {worker[w].hook : w \in {v \in dead : worker[v].retry}}
  IN /\ worker' = [w \in Worker |-> IF w \in dead THEN Idle ELSE worker[w]]
     /\ taken' = [h \in Hook |-> IF h \in hit THEN "maybe" ELSE taken[h]]
     /\ \E back \in SUBSET given :
          jobs' = [h \in Hook |-> IF h \in back /\ jobs[h] < MaxJobs THEN jobs[h] + 1 ELSE jobs[h]]
     /\ UNCHANGED <<code, retryOn, due>>

-----------------------------------------------------------------------------
(* What must hold, whatever the pods do.                                   *)

\* The endpoint takes a webhook twice only when two workers sent it at once, its answer
\* or its record was lost, or the process that sent it died: a second retry in the queue
\* (webhook.processor.ts:51) finds the row of the first and stops.
SentTwiceExplained == \A h \in Hook : taken[h] # "twice"
=============================================================================
