------------------------------ MODULE Pods_proofs ------------------------------
(***************************************************************************)
(* Proofs about what a pod keeps.  Its queues, in Webhook and Pods: type   *)
(* correctness, that a webhook is not taken twice without a cause, that    *)
(* the schedule survives the pods, and that a pod that closed is idle.     *)
(* Its connections, in EvmProviders, which shares no variable with them:   *)
(* type correctness, that a live socket has its listener, and that the     *)
(* listener passes no block without saying so.                             *)
(***************************************************************************)
EXTENDS Pods, EvmProviders, FiniteSetTheorems, TLAPS

-----------------------------------------------------------------------------
(* The inductive invariant: the workers that send webhooks.                *)

\* A worker has a webhook exactly while it sends one, and nothing while it is idle.
Busy == \A w \in Worker :
  /\ worker[w].hook = NoHook <=> worker[w].at \in {"idle", "sync"}
  /\ worker[w].at = "idle" => worker[w] = Idle

\* A webhook that is retried has its row, and the row says so.
Retryable == {h \in retryOn : code[h] # "none"}

\* So has what a page of failures holds, and what is sent again.
Paged == \A w \in Worker :
  /\ worker[w].items \subseteq Retryable
  /\ worker[w].items # {} => worker[w].page <= Cardinality(Hook)
  /\ worker[w].retry => worker[w].hook \in Retryable

\* Two workers on one webhook are two sendings nobody keeps apart.
Crossed == \A v, w \in Worker :
  v # w /\ worker[v].hook = worker[w].hook /\ worker[v].hook \in Hook
    => taken[worker[v].hook] = "maybe"

\* A webhook that was taken once is about to be recorded so, or is recorded.
Recorded == \A h \in Hook : taken[h] = "once" =>
  /\ \A w \in Worker : worker[w].hook = h => worker[w].at = "log" /\ worker[w].ok
  /\ (\A w \in Worker : worker[w].hook # h) => code[h] = "ok"

HookInv == HookTypeOK /\ SentTwiceExplained /\ Busy /\ Paged /\ Crossed /\ Recorded

USE DEF Retryable

-----------------------------------------------------------------------------
(* What the steps of a worker keep.                                        *)

LEMMA IdleTyped == Idle \in WorkerSet
  <1>1. IsFiniteSet(Hook)
    BY HookAssumption
  <1>2. Cardinality(Hook) \in Nat
    BY <1>1, FS_CardinalityType
  <1> QED
    BY <1>2 DEF Idle, WorkerSet

LEMMA BecomesTyped ==
  ASSUME HookTypeOK, NEW w \in Worker, NEW r \in WorkerSet, Becomes(w, r)
  PROVE  /\ worker' \in [Worker -> WorkerSet]
         /\ worker'[w] = r
         /\ \A v \in Worker : v # w => worker'[v] = worker[v]
  BY DEF HookTypeOK, Becomes

\* A page is one of failures, and one that is not empty is not past the last webhook.
LEMMA PageTyped ==
  ASSUME HookTypeOK, NEW k \in Nat \ {0}, NEW s \in Page(k)
  PROVE  s \subseteq Failed /\ (s # {} => k <= Cardinality(Hook))
  <1>1. Failed \subseteq Hook /\ IsFiniteSet(Hook)
    BY HookAssumption DEF Failed, HookTypeOK
  <1>2. IsFiniteSet(Failed) /\ Cardinality(Failed) <= Cardinality(Hook)
    BY <1>1, FS_Subset
  <1>3. Cardinality(Failed) \in Nat /\ Cardinality(Hook) \in Nat
    BY <1>1, <1>2, FS_CardinalityType
  <1>4. s \subseteq Failed
    BY DEF Page
  <1>5. IsFiniteSet(s)
    BY <1>2, <1>4, FS_Subset
  <1>6. SUFFICES ASSUME s # {} PROVE k <= Cardinality(Hook)
    BY <1>4
  <1>7. Cardinality(s) # 0
    BY <1>5, <1>6, FS_EmptySet
  <1>8. PageLimit \in Nat \ {0}
    BY LimitAssumption
  <1>9. Cardinality(Failed) > (k - 1) * PageLimit
    BY <1>3, <1>7, <1>8 DEF Page
  <1>10. (k - 1) * PageLimit >= k - 1
    BY <1>8
  <1>11. (k - 1) * PageLimit \in Int
    BY <1>8
  <1> QED
    BY <1>2, <1>3, <1>9, <1>10, <1>11

\* A worker that pages goes on with a page of failures, or rests.
LEMMA TurnTyped ==
  ASSUME HookTypeOK, NEW w \in Worker, NEW k \in Nat \ {0}, Turn(w, k)
  PROVE  \E r \in WorkerSet :
           /\ Becomes(w, r) /\ r.hook = NoHook /\ ~r.retry /\ r.at \in {"idle", "sync"}
           /\ r.at = "idle" => r = Idle
           /\ r.at = "sync" => r.page \in Nat \ {0} /\ r.page <= Cardinality(Hook)
           /\ r.items \subseteq Retryable
  <1>1. PICK s \in Page(k) :
          Becomes(w, IF s = {} THEN Idle ELSE [Idle EXCEPT !.at = "sync", !.page = k, !.items = s])
    BY DEF Turn
  <1>2. s \subseteq Failed /\ (s # {} => k <= Cardinality(Hook))
    BY PageTyped
  <1>3. s \subseteq Retryable
    BY <1>2 DEF Failed, HookTypeOK
  <1>4. CASE s = {}
    <2>1. Idle.hook = NoHook /\ ~Idle.retry /\ Idle.at = "idle" /\ Idle.items = {}
      BY DEF Idle
    <2> QED
      BY <1>1, <1>4, <2>1, IdleTyped
  <1>5. CASE s # {}
    <2> DEFINE r == [Idle EXCEPT !.at = "sync", !.page = k, !.items = s]
    <2>1. Cardinality(Hook) \in Nat
      BY HookAssumption, FS_CardinalityType
    <2>2. k \in 0..Cardinality(Hook) + 1
      BY <1>2, <1>5, <2>1
    <2>3. r.at = "sync" /\ r.hook = Idle.hook /\ r.page = k /\ r.items = s
      BY IdleTyped DEF WorkerSet
    <2>4. r \in WorkerSet /\ r.hook = NoHook /\ ~r.retry
      BY <1>3, <2>2, <2>3, IdleTyped DEF WorkerSet, Idle, Failed, HookTypeOK
    <2>5. Becomes(w, r)
      BY <1>1, <1>5
    <2>6. r.at \in {"idle", "sync"} /\ (r.at = "idle" => r = Idle)
      BY <2>3
    <2>7. r.at = "sync" => r.page \in Nat \ {0} /\ r.page <= Cardinality(Hook)
      BY <1>2, <1>5, <2>3
    <2>8. r.items \subseteq Retryable
      BY <1>3, <2>3
    <2> HIDE DEF r
    <2> QED
      BY <2>4, <2>5, <2>6, <2>7, <2>8
  <1> QED
    BY <1>4, <1>5

\* A worker that sends nothing, before and after, disturbs no sending.
LEMMA PagingStep ==
  ASSUME HookInv, NEW w \in Worker, NEW r \in WorkerSet, Becomes(w, r),
         worker[w].hook = NoHook, r.hook = NoHook, ~r.retry, r.at \in {"idle", "sync"},
         r.at = "idle" => r = Idle, r.items \subseteq Retryable,
         r.items # {} => r.page <= Cardinality(Hook),
         UNCHANGED <<code, retryOn, due, taken>>, jobs' \in [Hook -> 0..MaxJobs],
         \A h \in Hook : jobs'[h] > 0 => h \in Retryable, faults' \in 0..MaxFaults
  PROVE  HookInv'
  <1> USE DEF HookInv
  <1>1. /\ worker' \in [Worker -> WorkerSet] /\ worker'[w] = r
        /\ \A v \in Worker : v # w => worker'[v] = worker[v]
    BY BecomesTyped
  <1>2. HookTypeOK' /\ SentTwiceExplained'
    BY <1>1 DEF HookTypeOK, SentTwiceExplained
  <1>3. Busy' /\ Paged'
    BY <1>1 DEF Busy, Paged
  <1>4. NoHook \notin Hook
    BY HookAssumption
  <1>5. Crossed'
    BY <1>1, <1>4 DEF Crossed
  <1>6. Recorded'
    BY <1>1, <1>4 DEF Recorded
  <1> QED
    BY <1>2, <1>3, <1>5, <1>6

\* A post keeps the invariant if its webhook has not been taken, or is being sent.
LEMMA PostStep ==
  ASSUME HookInv, NEW w \in Worker, NEW h \in Hook, NEW isRetry \in BOOLEAN,
         worker[w] = Idle, Post(w, h, isRetry),
         Sending(h) = {} => taken[h] # "once", isRetry => h \in Retryable,
         UNCHANGED <<code, due, faults>>, jobs' \in [Hook -> 0..MaxJobs],
         retryOn' \subseteq Hook, Retryable' = Retryable,
         \A g \in Hook : jobs'[g] > 0 => g \in Retryable
  PROVE  HookInv'
  <1> USE DEF HookInv
  <1> DEFINE r == [Idle EXCEPT !.at = "post", !.hook = h, !.retry = isRetry]
  <1>1. r.at = "post" /\ r.hook = h /\ r.items = Idle.items /\ Idle.items = {} /\ r.retry = isRetry
    BY IdleTyped DEF WorkerSet, Idle
  <1>2. r \in WorkerSet
    BY IdleTyped DEF WorkerSet
  <1>3. Becomes(w, r)
    BY DEF Post
  <1> HIDE DEF r
  <1>4. /\ worker' \in [Worker -> WorkerSet] /\ worker'[w] = r
        /\ \A v \in Worker : v # w => worker'[v] = worker[v]
    BY <1>2, <1>3, BecomesTyped
  <1>5. NoHook \notin Hook /\ worker[w].hook = NoHook
    BY HookAssumption DEF Idle
  <1>6. /\ taken' \in [Hook -> {"no", "once", "twice", "maybe"}]
        /\ \A g \in Hook : taken'[g] = taken[g] \/ taken'[g] = "maybe"
        /\ \A v \in Worker : worker[v].hook = h => taken'[h] = "maybe"
        /\ Sending(h) = {} => taken' = taken
    BY DEF Post, Maybe, Sending, HookTypeOK
  <1>7. HookTypeOK' /\ SentTwiceExplained'
    BY <1>4, <1>6 DEF HookTypeOK, SentTwiceExplained
  <1>8. Busy' /\ Paged'
    BY <1>1, <1>4, <1>5 DEF Busy, Paged
  <1>9. Crossed'
    BY <1>1, <1>4, <1>5, <1>6 DEF Crossed, HookTypeOK, WorkerSet
  <1>10. taken'[h] # "once"
    BY <1>6 DEF Sending
  <1>11. Recorded'
    BY <1>1, <1>4, <1>5, <1>6, <1>10 DEF Recorded
  <1> QED
    BY <1>7, <1>8, <1>9, <1>11

LEMMA AcceptStep == ASSUME HookInv, NEW w \in Worker, Accept(w) PROVE HookInv'
  <1> USE DEF HookInv
  <1> DEFINE h == worker[w].hook
  <1>1. worker[w].at = "post" /\ worker[w] \in WorkerSet
    BY DEF Accept, HookTypeOK
  <1>2. h \in Hook /\ NoHook \notin Hook
    BY <1>1, HookAssumption DEF Busy, WorkerSet
  <1>3. taken[h] # "once" /\ taken[h] # "twice" /\ taken[h] \in {"no", "maybe"}
    BY <1>1, <1>2 DEF Recorded, SentTwiceExplained, HookTypeOK
  <1>4. PICK b \in BOOLEAN :
          /\ Becomes(w, [worker[w] EXCEPT !.at = "log", !.ok = b])
          /\ taken' \in [Hook -> {"no", "once", "twice", "maybe"}]
          /\ \A g \in Hook : g # h => taken'[g] = taken[g]
          /\ taken'[h] = "maybe" \/ (taken'[h] = "once" /\ taken[h] = "no" /\ b = TRUE)
          /\ faults' \in 0..MaxFaults
    <2>1. CASE /\ Becomes(w, [worker[w] EXCEPT !.at = "log", !.ok = TRUE])
               /\ taken' = [taken EXCEPT ![h] = CASE @ = "no" -> "once" [] @ = "maybe" -> @ [] OTHER -> "twice"]
               /\ UNCHANGED faults
      BY <2>1, <1>2, <1>3 DEF HookTypeOK
    <2>2. CASE Fault /\ Becomes(w, [worker[w] EXCEPT !.at = "log"]) /\ Maybe(h)
      <3>1. [worker[w] EXCEPT !.at = "log"] = [worker[w] EXCEPT !.at = "log", !.ok = worker[w].ok]
        BY <1>1 DEF WorkerSet
      <3>2. worker[w].ok \in BOOLEAN
        BY <1>1 DEF WorkerSet
      <3>3. faults' \in 0..MaxFaults
        BY <2>2, LimitAssumption DEF Fault, HookTypeOK
      <3>4. taken' \in [Hook -> {"no", "once", "twice", "maybe"}] /\ taken'[h] = "maybe"
              /\ \A g \in Hook : g # h => taken'[g] = taken[g]
        BY <2>2, <1>2 DEF Maybe, HookTypeOK
      <3> QED
        BY <2>2, <3>1, <3>2, <3>3, <3>4
    <2> QED
      BY <2>1, <2>2 DEF Accept
  <1> DEFINE r == [worker[w] EXCEPT !.at = "log", !.ok = b]
  <1>5. r \in WorkerSet /\ r.at = "log" /\ r.hook = h /\ r.ok = b /\ r.items = worker[w].items
      /\ r.retry = worker[w].retry /\ r.page = worker[w].page
    BY <1>1 DEF WorkerSet
  <1> HIDE DEF r
  <1>6. /\ worker' \in [Worker -> WorkerSet] /\ worker'[w] = r
        /\ \A v \in Worker : v # w => worker'[v] = worker[v]
    BY <1>4, <1>5, BecomesTyped DEF r
  <1>7. UNCHANGED <<code, retryOn, due, jobs>>
    BY DEF Accept
  <1>8. HookTypeOK' /\ SentTwiceExplained'
    BY <1>3, <1>4, <1>6, <1>7 DEF HookTypeOK, SentTwiceExplained
  <1>9. Busy' /\ Paged'
    BY <1>1, <1>2, <1>5, <1>6, <1>7 DEF Busy, Paged
  <1>10. Crossed'
    BY <1>2, <1>3, <1>4, <1>5, <1>6 DEF Crossed
  <1>11. \A v \in Worker : v # w /\ worker[v].hook = h => taken[h] = "maybe"
    BY <1>2 DEF Crossed
  <1>12. Recorded'
    BY <1>2, <1>3, <1>4, <1>5, <1>6, <1>7, <1>11 DEF Recorded
  <1> QED
    BY <1>8, <1>9, <1>10, <1>12

LEMMA RefuseStep == ASSUME HookInv, NEW w \in Worker, Refuse(w) PROVE HookInv'
  <1> USE DEF HookInv
  <1>1. worker[w].at = "post" /\ worker[w] \in WorkerSet
    BY DEF Refuse, HookTypeOK
  <1> DEFINE r == [worker[w] EXCEPT !.at = "log"]
  <1>2. r \in WorkerSet /\ r.at = "log" /\ r.hook = worker[w].hook /\ r.items = worker[w].items
      /\ r.retry = worker[w].retry /\ r.page = worker[w].page
    BY <1>1 DEF WorkerSet
  <1>3. Becomes(w, r)
    BY DEF Refuse
  <1> HIDE DEF r
  <1>4. /\ worker' \in [Worker -> WorkerSet] /\ worker'[w] = r
        /\ \A v \in Worker : v # w => worker'[v] = worker[v]
    BY <1>2, <1>3, BecomesTyped
  <1>5. UNCHANGED <<code, retryOn, due, jobs, taken>> /\ faults' \in 0..MaxFaults
    BY LimitAssumption DEF Refuse, Fault, HookTypeOK
  <1>6. HookTypeOK' /\ SentTwiceExplained'
    BY <1>4, <1>5 DEF HookTypeOK, SentTwiceExplained
  <1>7. Busy' /\ Paged'
    BY <1>1, <1>2, <1>4, <1>5 DEF Busy, Paged
  <1>8. Crossed'
    BY <1>2, <1>4, <1>5 DEF Crossed
  <1>9. Recorded'
    BY <1>1, <1>2, <1>4, <1>5 DEF Recorded
  <1> QED
    BY <1>6, <1>7, <1>8, <1>9

LEMMA LogStep == ASSUME HookInv, NEW w \in Worker, LogAttempt(w) \/ LogFails(w) PROVE HookInv'
  <1> USE DEF HookInv
  <1> DEFINE h == worker[w].hook
  <1>1. worker[w].at = "log" /\ worker[w] \in WorkerSet /\ Becomes(w, Idle)
    BY DEF LogAttempt, LogFails, HookTypeOK
  <1>2. h \in Hook /\ NoHook \notin Hook
    BY <1>1, HookAssumption DEF Busy, WorkerSet
  <1>3. /\ worker' \in [Worker -> WorkerSet] /\ worker'[w] = Idle
        /\ \A v \in Worker : v # w => worker'[v] = worker[v]
    BY <1>1, IdleTyped, BecomesTyped
  <1>4. Idle.at = "idle" /\ Idle.hook = NoHook /\ Idle.items = {} /\ ~Idle.retry
    BY DEF Idle
  <1>5. CASE LogAttempt(w)
    <2>1. /\ code' \in [Hook -> {"none", "ok", "error"}]
          /\ code'[h] # "none" /\ (worker[w].ok => code'[h] = "ok")
          /\ \A g \in Hook : g # h => code'[g] = code[g]
          /\ due' = due \ {h} /\ UNCHANGED <<retryOn, jobs, taken, faults>>
      BY <1>2, <1>5 DEF LogAttempt, HookTypeOK
    <2>2. HookTypeOK' /\ SentTwiceExplained'
      BY <1>3, <2>1 DEF HookTypeOK, SentTwiceExplained
    <2>3. Busy'
      BY <1>3, <1>4 DEF Busy
    <2>4. Paged'
      BY <1>3, <1>4, <2>1 DEF Paged, HookTypeOK, WorkerSet
    <2>5. Crossed'
      BY <1>2, <1>3, <1>4, <2>1 DEF Crossed
    <2>6. ASSUME NEW g \in Hook, taken'[g] = "once"
          PROVE  /\ \A v \in Worker : worker'[v].hook = g => worker'[v].at = "log" /\ worker'[v].ok
                 /\ (\A v \in Worker : worker'[v].hook # g) => code'[g] = "ok"
      <3>1. taken[g] = "once"
        BY <2>1, <2>6
      <3>2. \A v \in Worker : worker[v].hook = g => worker[v].at = "log" /\ worker[v].ok
        BY <3>1 DEF Recorded
      <3>3. (\A v \in Worker : worker[v].hook # g) => code[g] = "ok"
        BY <3>1 DEF Recorded
      <3>4. CASE g = h
        BY <3>2, <3>4, <2>1, <1>2, <1>3, <1>4
      <3>5. CASE g # h
        BY <3>2, <3>3, <3>5, <2>1, <1>2, <1>3, <1>4
      <3> QED
        BY <3>4, <3>5
    <2>7. Recorded'
      BY <2>6 DEF Recorded
    <2> QED
      BY <2>2, <2>3, <2>4, <2>5, <2>7
  <1>6. CASE LogFails(w)
    <2>1. /\ taken' \in [Hook -> {"no", "once", "twice", "maybe"}] /\ taken'[h] = "maybe"
          /\ \A g \in Hook : g # h => taken'[g] = taken[g]
          /\ UNCHANGED <<code, retryOn, due, jobs>>
      BY <1>2, <1>6 DEF LogFails, Maybe, HookTypeOK
    <2>2. faults' \in 0..MaxFaults
      BY <1>6, LimitAssumption DEF LogFails, Fault, HookTypeOK
    <2>3. HookTypeOK' /\ SentTwiceExplained'
      BY <1>3, <2>1, <2>2 DEF HookTypeOK, SentTwiceExplained
    <2>4. Busy' /\ Paged'
      BY <1>3, <1>4, <2>1 DEF Busy, Paged
    <2>5. Crossed'
      BY <1>2, <1>3, <1>4, <2>1 DEF Crossed
    <2>6. Recorded'
      BY <1>2, <1>3, <1>4, <2>1 DEF Recorded
    <2> QED
      BY <2>3, <2>4, <2>5, <2>6
  <1> QED
    BY <1>5, <1>6

\* A process that dies takes its workers with it, and what they sent is uncertain.
LEMMA DieStep ==
  ASSUME HookInv, NEW dead \in SUBSET Worker, Die(dead), faults' \in 0..MaxFaults
  PROVE  HookInv'
  <1> USE DEF HookInv
  <1> DEFINE hit == {worker[w].hook : w \in dead} \cap Hook
             given == {worker[w].hook : w \in {v \in dead : worker[v].retry}}
  <1>1. PICK back \in SUBSET given :
          jobs' = [h \in Hook |-> IF h \in back /\ jobs[h] < MaxJobs THEN jobs[h] + 1 ELSE jobs[h]]
    BY DEF Die
  <1>2. given \subseteq Retryable
    BY DEF Paged
  <1> HIDE DEF given
  <1>3. jobs' \in [Hook -> 0..MaxJobs] /\ \A h \in Hook : jobs'[h] > 0 => h \in Retryable
    <2>1. ASSUME NEW h \in Hook
          PROVE  jobs'[h] \in 0..MaxJobs /\ (jobs'[h] > 0 => h \in Retryable)
      <3>1. jobs[h] \in 0..MaxJobs /\ (jobs[h] > 0 => h \in Retryable) /\ MaxJobs \in Nat
        BY LimitAssumption DEF HookTypeOK
      <3>2. CASE h \in back /\ jobs[h] < MaxJobs
        BY <1>1, <1>2, <3>1, <3>2
      <3>3. CASE ~(h \in back /\ jobs[h] < MaxJobs)
        BY <1>1, <3>1, <3>3
      <3> QED
        BY <3>2, <3>3
    <2>2. jobs' = [h \in Hook |-> jobs'[h]]
      BY <1>1
    <2> QED
      BY <2>1, <2>2
  <1>4. worker' \in [Worker -> WorkerSet] /\ \A w \in Worker : worker'[w] = IF w \in dead THEN Idle ELSE worker[w]
    BY IdleTyped DEF Die, HookTypeOK
  <1>5. /\ taken' \in [Hook -> {"no", "once", "twice", "maybe"}]
        /\ \A h \in Hook : taken'[h] = IF h \in hit THEN "maybe" ELSE taken[h]
    BY DEF Die, HookTypeOK
  <1>6. \A w \in dead : worker[w].hook \in Hook => worker[w].hook \in hit
    OBVIOUS
  <1> HIDE DEF hit
  <1>7. UNCHANGED <<code, retryOn, due>>
    BY DEF Die
  <1>8. Idle.at = "idle" /\ Idle.hook = NoHook /\ Idle.items = {} /\ ~Idle.retry /\ NoHook \notin Hook
    BY HookAssumption DEF Idle
  <1>9. HookTypeOK' /\ SentTwiceExplained'
    BY <1>3, <1>4, <1>5, <1>7 DEF HookTypeOK, SentTwiceExplained
  <1>10. Busy' /\ Paged'
    BY <1>4, <1>7, <1>8 DEF Busy, Paged
  <1>11. Crossed'
    BY <1>4, <1>5, <1>8 DEF Crossed
  <1>12. Recorded'
    BY <1>4, <1>5, <1>6, <1>7, <1>8 DEF Recorded
  <1> QED
    BY <1>9, <1>10, <1>11, <1>12

\* A worker that pages adds its retries one by one.
LEMMA SyncStep ==
  ASSUME HookInv, NEW w \in Worker, StartSync(w) \/ AddRetry(w) \/ NextPage(w) \/ SyncFails(w)
  PROVE  HookInv'
  <1> USE DEF HookInv
  <1>0. MaxJobs \in Nat /\ MaxFaults \in Nat
    BY LimitAssumption
  <1>1. worker[w] \in WorkerSet /\ worker[w].hook = NoHook /\ ~worker[w].retry
          /\ worker[w].items \subseteq Retryable
          /\ (worker[w].items # {} => worker[w].page <= Cardinality(Hook))
    BY HookAssumption DEF StartSync, AddRetry, NextPage, SyncFails, HookTypeOK, Busy, Paged, Idle
  <1>2. ASSUME NEW k \in Nat \ {0}, Turn(w, k), UNCHANGED <<code, retryOn, due, jobs, taken, faults>>
        PROVE  HookInv'
    <2>1. PICK r \in WorkerSet :
            /\ Becomes(w, r) /\ r.hook = NoHook /\ ~r.retry /\ r.at \in {"idle", "sync"}
            /\ r.at = "idle" => r = Idle
            /\ r.at = "sync" => r.page <= Cardinality(Hook)
            /\ r.items \subseteq Retryable
      BY <1>2, TurnTyped
    <2>2. r.items # {} => r.page <= Cardinality(Hook)
      BY <2>1 DEF Idle
    <2> QED
      BY <1>1, <1>2, <2>1, <2>2, PagingStep DEF HookTypeOK
  <1>3. CASE StartSync(w)
    BY <1>2, <1>3 DEF StartSync
  <1>4. CASE NextPage(w)
    <2>1. worker[w].page + 1 \in Nat \ {0}
      <3>1. Cardinality(Hook) \in Nat
        BY HookAssumption, FS_CardinalityType
      <3> QED
        BY <1>1, <3>1 DEF WorkerSet
    <2> QED
      BY <1>2, <1>4, <2>1 DEF NextPage
  <1>5. CASE AddRetry(w)
    <2>1. worker[w].at = "sync" /\ UNCHANGED <<code, retryOn, due, taken, faults>>
      BY <1>5 DEF AddRetry
    <2>2. PICK h \in worker[w].items :
            /\ jobs' = [jobs EXCEPT ![h] = IF @ = MaxJobs THEN @ ELSE @ + 1]
            /\ Becomes(w, [worker[w] EXCEPT !.items = @ \ {h}])
      BY <1>5 DEF AddRetry
    <2>3. h \in Hook /\ h \in Retryable
      BY <1>1 DEF WorkerSet
    <2>4. jobs' \in [Hook -> 0..MaxJobs] /\ \A g \in Hook : jobs'[g] > 0 => g \in Retryable
      BY <1>0, <2>2, <2>3 DEF HookTypeOK
    <2> DEFINE r == [worker[w] EXCEPT !.items = @ \ {h}]
    <2>5. /\ r \in WorkerSet /\ r.hook = NoHook /\ ~r.retry /\ r.at = "sync"
          /\ r.items = worker[w].items \ {h} /\ r.page = worker[w].page
      BY <1>1, <2>1 DEF WorkerSet
    <2>6. Becomes(w, r)
      BY <2>2
    <2> HIDE DEF r
    <2> QED
      BY <1>1, <2>1, <2>4, <2>5, <2>6, PagingStep DEF HookTypeOK
  <1>6. CASE SyncFails(w)
    <2>1. Becomes(w, Idle) /\ UNCHANGED <<code, retryOn, due, jobs, taken>>
      BY <1>6 DEF SyncFails
    <2>2. faults' \in 0..MaxFaults
      BY <1>0, <1>6 DEF SyncFails, Fault, HookTypeOK
    <2>3. Idle.at = "idle" /\ Idle.hook = NoHook /\ Idle.items = {} /\ ~Idle.retry
      BY DEF Idle
    <2> QED
      BY <1>1, <2>1, <2>2, <2>3, IdleTyped, PagingStep DEF HookTypeOK
  <1> QED
    BY <1>3, <1>4, <1>5, <1>6

\* A webhook that is sent for the first time, or again, was not taken before, or is
\* being sent by another.
LEMMA SendStep ==
  ASSUME HookInv, NEW w \in Worker, NEW h \in Hook, Send(w, h) \/ Retry(w, h)
  PROVE  HookInv'
  <1> USE DEF HookInv
  <1>1. CASE Send(w, h)
    <2>1. /\ worker[w] = Idle /\ Post(w, h, FALSE) /\ taken[h] = "no"
          /\ UNCHANGED <<code, due, jobs, faults>>
      BY <1>1 DEF Send
    <2>2. retryOn' \subseteq Hook /\ Retryable' = Retryable
      BY <1>1 DEF Send, HookTypeOK
    <2> QED
      BY <2>1, <2>2, PostStep DEF HookTypeOK
  <1>2. CASE Retry(w, h)
    <2>1. worker[w] = Idle /\ jobs[h] > 0 /\ UNCHANGED <<code, retryOn, due, faults>>
      BY <1>2 DEF Retry
    <2>2. jobs' \in [Hook -> 0..MaxJobs] /\ \A g \in Hook : jobs'[g] > 0 => g \in Retryable
      BY <1>2, LimitAssumption DEF Retry, HookTypeOK
    <2>3. CASE code[h] = "error"
      <3>1. Sending(h) = {} => taken[h] # "once"
        BY <2>3 DEF Recorded, Sending
      <3>2. Post(w, h, TRUE)
        BY <1>2, <2>3 DEF Retry
      <3>3. h \in Retryable /\ retryOn' \subseteq Hook
        BY <2>1 DEF HookTypeOK
      <3> QED
        BY <2>1, <2>2, <2>3, <3>1, <3>2, <3>3, PostStep
    <2>4. CASE code[h] # "error"
      <3>1. UNCHANGED <<worker, taken>>
        BY <1>2, <2>4 DEF Retry
      <3>2. HookTypeOK'
        BY <2>1, <2>2, <3>1 DEF HookTypeOK
      <3> QED
        BY <2>1, <3>1, <3>2 DEF SentTwiceExplained, Busy, Paged, Crossed, Recorded
    <2> QED
      BY <2>3, <2>4
  <1> QED
    BY <1>1, <1>2

LEMMA AgesStep == ASSUME HookInv, NEW h \in Hook, Ages(h) PROVE HookInv'
  <1>1. UNCHANGED <<code, retryOn, jobs, worker, taken, faults>> /\ code[h] = "error" /\ due' = due \cup {h}
    BY DEF Ages
  <1>2. HookTypeOK'
    BY <1>1 DEF HookInv, HookTypeOK
  <1> QED
    BY <1>1, <1>2 DEF HookInv, SentTwiceExplained, Busy, Paged, Crossed, Recorded

\* A failure of a pod touches nothing that workers and webhooks have.
LEMMA HookStutter ==
  ASSUME HookInv, UNCHANGED <<code, retryOn, due, jobs, worker, taken>>, faults' \in 0..MaxFaults
  PROVE  HookInv'
  <1>1. HookTypeOK'
    BY DEF HookInv, HookTypeOK
  <1> QED
    BY <1>1 DEF HookInv, SentTwiceExplained, Busy, Paged, Crossed, Recorded

LEMMA HookInitInv == HookInit => HookInv
  <1> SUFFICES ASSUME HookInit PROVE HookInv
    OBVIOUS
  <1>1. Idle.at = "idle" /\ Idle.hook = NoHook /\ Idle.items = {} /\ ~Idle.retry /\ NoHook \notin Hook
    BY HookAssumption DEF Idle
  <1>2. worker \in [Worker -> WorkerSet] /\ \A w \in Worker : worker[w] = Idle
    BY IdleTyped DEF HookInit
  <1>3. HookTypeOK
    BY <1>2, LimitAssumption DEF HookInit, HookTypeOK
  <1>4. SentTwiceExplained /\ Recorded
    BY DEF HookInit, SentTwiceExplained, Recorded
  <1>5. Busy /\ Paged /\ Crossed
    BY <1>1, <1>2 DEF Busy, Paged, Crossed
  <1> QED
    BY <1>3, <1>4, <1>5 DEF HookInv


-----------------------------------------------------------------------------
(* The inductive invariant: the pods and the repeatable job.               *)

\* A pod that is off has nothing; one that schedules has a cron.
Planned == \A p \in Pod :
  /\ pod[p].up = "off" => pod[p] = Off
  /\ pod[p].plan # "none" => pod[p].cron \in Cron

\* A scheduling that is alone: no other pod is between its first and its last step, what
\* it found and has not removed is all there is, and the one job it may have left
\* alone is the one that was scheduled before it.
Sole == \A p \in Pod : Scheduling(p) /\ pod[p].alone =>
  /\ \A q \in Pod \ {p} : ~Scheduling(q)
  /\ pod[p].plan = "remove" => repeat = pod[p].seen
  /\ pod[p].plan = "add" => repeat = {} \/ \E c \in Cron : repeat = {c} /\ (tidy.n > 0 => c = tidy.cron)

\* One that is not alone leaves nothing to count on.
Beside == \A p \in Pod : Scheduling(p) /\ ~pod[p].alone => tidy.n = 0

\* What was scheduled last is there while no pod is scheduling.
Left == tidy.n > 0 /\ (\A p \in Pod : ~Scheduling(p)) => tidy.cron \in repeat

Schedule ==
  /\ repeat \subseteq Cron /\ IsFiniteSet(repeat)
  /\ pod \in [Pod -> PodSet] /\ tidy \in [cron : Cron \cup {NoCron}, n : 0..2]
  /\ held \in {"never", "added", "lost"} /\ starts \in 0..MaxStarts
  /\ Planned /\ Sole /\ Beside /\ Left /\ MissingExplained /\ OldCronGone

\* What runs runs in a pod that is up, or closes; a pod that closed waited for it.
Housed ==
  /\ \A w \in Worker : worker[w] # Idle => pod[PodOf[w]].up # "off"
  /\ ClosedIsIdle

PodInv == HookInv /\ Schedule /\ Housed

-----------------------------------------------------------------------------
(* What the steps of a pod keep.                                           *)

LEMMA OffTyped ==
  /\ Off \in PodSet
  /\ Off.up = "off" /\ Off.cron = NoCron /\ Off.plan = "none" /\ Off.seen = {} /\ ~Off.alone /\ ~Off.skipped
  BY DEF Off, PodSet

LEMMA SetTyped ==
  ASSUME pod \in [Pod -> PodSet], NEW p \in Pod, NEW r \in PodSet, Set(p, r)
  PROVE  /\ pod' \in [Pod -> PodSet] /\ pod'[p] = r
         /\ \A q \in Pod : q # p => pod'[q] = pod[q]
  BY DEF Set

\* A step that changes no plan keeps the schedule.
LEMMA QuietStep ==
  ASSUME Schedule, pod' \in [Pod -> PodSet], starts' \in 0..MaxStarts, Planned',
         \A q \in Pod : \/ /\ pod'[q].plan = pod[q].plan /\ pod'[q].seen = pod[q].seen
                           /\ pod'[q].alone = pod[q].alone
                        \/ pod[q].plan = "none" /\ pod'[q].plan = "list",
         UNCHANGED <<repeat, tidy, held>>
  PROVE  Schedule'
  <1> USE DEF Schedule
  <1>1. \A q \in Pod : Scheduling(q)' <=> Scheduling(q)
    BY DEF Scheduling
  <1>2. \A q \in Pod : Scheduling(q) => pod'[q].plan = pod[q].plan /\ pod'[q].seen = pod[q].seen
                                          /\ pod'[q].alone = pod[q].alone
    BY DEF Scheduling
  <1>3. Sole'
    BY <1>1, <1>2 DEF Sole
  <1>4. Beside' /\ Left' /\ MissingExplained' /\ OldCronGone'
    BY <1>1, <1>2 DEF Beside, Left, MissingExplained, OldCronGone
  <1> QED
    BY <1>3, <1>4

\* A pod that gives up its scheduling, or dies in it, is remembered.
LEMMA QuitStep ==
  ASSUME Schedule, NEW p \in Pod, pod' \in [Pod -> PodSet], Planned', pod'[p].plan = "none",
         \A q \in Pod : q # p => pod'[q] = pod[q],
         IF Scheduling(p) THEN Untidy ELSE UNCHANGED tidy,
         held' = IF Scheduling(p) THEN "lost" ELSE held,
         UNCHANGED <<repeat, starts>>
  PROVE  Schedule'
  <1> USE DEF Schedule
  <1>1. ~Scheduling(p)' /\ \A q \in Pod : q # p => (Scheduling(q)' <=> Scheduling(q))
    BY DEF Scheduling
  <1>2. tidy' \in [cron : Cron \cup {NoCron}, n : 0..2] /\ (tidy'.n > 0 => tidy' = tidy /\ ~Scheduling(p))
    BY DEF Untidy
  <1>3. Sole'
    BY <1>1, <1>2 DEF Sole
  <1>4. Beside'
    <2>1. tidy'.n = 0 \/ tidy' = tidy
      BY DEF Untidy
    <2> QED
      BY <1>1, <2>1 DEF Beside
  <1>5. Left' /\ OldCronGone'
    BY <1>1, <1>2 DEF Left, OldCronGone
  <1>6. MissingExplained'
    BY <1>1 DEF MissingExplained
  <1> QED
    BY <1>2, <1>3, <1>4, <1>5, <1>6

\* List: what dangles is what there is, and a single job is left alone.
LEMMA ListStep == ASSUME Schedule, NEW p \in Pod, List(p) PROVE Schedule'
  <1> USE DEF Schedule
  <1> DEFINE seen == Dangling(repeat)
             plan == IF seen = {} THEN "add" ELSE "remove"
  <1>1. /\ pod[p].plan = "list" /\ ~Scheduling(p) /\ pod[p] \in PodSet /\ pod[p].cron \in Cron
        /\ UNCHANGED <<repeat, held, starts>>
    BY DEF List, Scheduling, Planned
  <1>2. PICK alone \in BOOLEAN :
          /\ alone <=> \A q \in Pod \ {p} : ~Scheduling(q)
          /\ pod' = [q \in Pod |->
               IF q = p THEN [pod[p] EXCEPT !.plan = plan, !.seen = seen, !.alone = alone]
               ELSE IF Scheduling(q) THEN [pod[q] EXCEPT !.alone = FALSE] ELSE pod[q]]
          /\ IF alone THEN UNCHANGED tidy ELSE Untidy
    <2>1. CASE \A q \in Pod \ {p} : ~Scheduling(q)
      <3>1. (\A q \in Pod \ {p} : ~Scheduling(q)) = TRUE
        BY <2>1
      <3> QED
        BY <2>1, <3>1 DEF List
    <2>2. CASE ~\A q \in Pod \ {p} : ~Scheduling(q)
      <3>1. (\A q \in Pod \ {p} : ~Scheduling(q)) = FALSE
        BY <2>2
      <3> QED
        BY <2>2, <3>1 DEF List
    <2> QED
      BY <2>1, <2>2
  <1> DEFINE r == [pod[p] EXCEPT !.plan = plan, !.seen = seen, !.alone = alone]
  <1>3. seen \subseteq Cron /\ seen \in {repeat, {}} /\ plan \in {"add", "remove"}
    BY DEF Dangling
  <1>4. seen = {} => repeat = {} \/ \E c \in Cron : repeat = {c}
    <2>1. ASSUME seen = {}, repeat # {} PROVE \E c \in Cron : repeat = {c}
      <3>1. Cardinality(repeat) <= 1
        BY <2>1 DEF Dangling
      <3>2. Cardinality(repeat) = 1
        BY <2>1, <3>1, FS_CardinalityType, FS_EmptySet
      <3>3. PICK c : repeat = {c}
        BY <3>2, FS_Singleton
      <3> QED
        BY <3>3
    <2> QED
      BY <2>1
  <1>5. /\ r \in PodSet /\ r.plan = plan /\ r.seen = seen
        /\ r.alone = alone /\ r.cron = pod[p].cron /\ r.up = pod[p].up
    <2>1. alone \in BOOLEAN
      BY <1>2
    <2> HIDE DEF seen, plan
    <2>2. r \in PodSet
      BY <1>1, <1>3, <2>1 DEF PodSet
    <2>3. r.plan = plan /\ r.seen = seen
      BY <1>1, <1>3, <2>1 DEF PodSet
    <2>4. r.alone = alone
      BY <1>1, <1>3, <2>1 DEF PodSet
    <2>5. r.cron = pod[p].cron /\ r.up = pod[p].up
      BY <1>1, <1>3, <2>1 DEF PodSet
    <2> QED
      BY <2>2, <2>3, <2>4, <2>5
  <1> HIDE DEF r
  <1>6. pod'[p] = r /\ \A q \in Pod : q # p => pod'[q] = IF Scheduling(q) THEN [pod[q] EXCEPT !.alone = FALSE] ELSE pod[q]
    BY <1>2 DEF r
  <1>7. \A q \in Pod : q # p => /\ pod'[q] \in PodSet /\ pod'[q].plan = pod[q].plan
                                /\ pod'[q].cron = pod[q].cron /\ pod'[q].up = pod[q].up
                                /\ Scheduling(q) => ~pod'[q].alone
                                /\ ~Scheduling(q) => pod'[q] = pod[q]
    <2>1. ASSUME NEW q \in Pod
          PROVE  LET s == [pod[q] EXCEPT !.alone = FALSE]
                 IN  s \in PodSet /\ s.plan = pod[q].plan /\ s.cron = pod[q].cron
                       /\ s.up = pod[q].up /\ ~s.alone
      <3>1. pod[q] \in PodSet
        OBVIOUS
      <3> QED
        BY <3>1 DEF PodSet
    <2> QED
      BY <1>6, <2>1
  <1>8. pod' \in [Pod -> PodSet]
    BY <1>2, <1>5, <1>6, <1>7
  <1>9. Scheduling(p)' /\ \A q \in Pod : q # p => (Scheduling(q)' <=> Scheduling(q))
    BY <1>5, <1>6, <1>7 DEF Scheduling
  <1>10. tidy' \in [cron : Cron \cup {NoCron}, n : 0..2] /\ (alone => tidy' = tidy) /\ (~alone => tidy'.n = 0)
    <2>1. CASE alone
      BY <1>2, <2>1
    <2>2. CASE ~alone
      <3>1. tidy' = [cron |-> NoCron, n |-> 0]
        BY <1>2, <2>2 DEF Untidy
      <3> QED
        BY <2>2, <3>1
    <2> QED
      BY <2>1, <2>2
  <1>11. Planned'
    <2>1. \A q \in Pod : pod'[q].up = "off" => pod'[q] = Off
      BY <1>1, <1>5, <1>6, <1>7, OffTyped DEF Planned, Scheduling
    <2> QED
      BY <1>1, <1>5, <1>6, <1>7, <2>1 DEF Planned
  <1>12. Sole'
    <2>1. ASSUME NEW q \in Pod, Scheduling(q)', pod'[q].alone PROVE q = p /\ alone
      BY <2>1, <1>5, <1>6, <1>7, <1>9
    <2>2. ASSUME alone
          PROVE  /\ \A q \in Pod \ {p} : ~Scheduling(q)'
                 /\ pod'[p].plan = "remove" => repeat' = pod'[p].seen
                 /\ pod'[p].plan = "add" => repeat' = {} \/ \E c \in Cron : repeat' = {c} /\ (tidy'.n > 0 => c = tidy'.cron)
      <3>1. \A q \in Pod : ~Scheduling(q)
        BY <1>1, <1>2, <2>2
      <3>2. tidy.n > 0 => tidy.cron \in repeat
        BY <3>1 DEF Left
      <3> QED
        BY <1>1, <1>3, <1>4, <1>5, <1>6, <1>9, <1>10, <2>2, <3>1, <3>2
    <2> QED
      BY <2>1, <2>2 DEF Sole
  <1>13. Beside'
    <2>1. ASSUME NEW q \in Pod, Scheduling(q)', ~pod'[q].alone PROVE ~alone
      BY <2>1, <1>2, <1>5, <1>6, <1>9
    <2> QED
      BY <2>1, <1>10 DEF Beside
  <1>14. Left' /\ MissingExplained' /\ OldCronGone'
    BY <1>9 DEF Left, MissingExplained, OldCronGone
  <1> QED
    BY <1>1, <1>8, <1>10, <1>11, <1>12, <1>13, <1>14

\* Remove: a pod goes on removing, or is about to add.
LEMMA RemoveStep == ASSUME Schedule, NEW p \in Pod, Remove(p) PROVE Schedule'
  <1> USE DEF Schedule
  <1>1. pod[p].plan = "remove" /\ Scheduling(p) /\ pod[p] \in PodSet /\ UNCHANGED <<tidy, held, starts>>
    BY DEF Remove, RemoveThen, Scheduling
  <1>2. PICK c \in pod[p].seen :
          /\ repeat' = repeat \ {c}
          /\ Set(p, [pod[p] EXCEPT !.seen = @ \ {c}, !.plan = IF pod[p].seen = {c} THEN "add" ELSE "remove"])
    BY DEF Remove, RemoveThen
  <1> DEFINE r == [pod[p] EXCEPT !.seen = @ \ {c}, !.plan = IF pod[p].seen = {c} THEN "add" ELSE "remove"]
  <1>3. /\ r \in PodSet /\ r.plan = (IF pod[p].seen = {c} THEN "add" ELSE "remove")
        /\ r.seen = pod[p].seen \ {c} /\ r.alone = pod[p].alone /\ r.cron = pod[p].cron /\ r.up = pod[p].up
    BY <1>1 DEF PodSet
  <1>4. Set(p, r)
    BY <1>2
  <1> HIDE DEF r
  <1>5. pod' \in [Pod -> PodSet] /\ pod'[p] = r /\ \A q \in Pod : q # p => pod'[q] = pod[q]
    BY <1>3, <1>4, SetTyped
  <1>6. \A q \in Pod : Scheduling(q)' <=> Scheduling(q)
    BY <1>1, <1>3, <1>5 DEF Scheduling
  <1>7. repeat' \subseteq Cron /\ IsFiniteSet(repeat')
    BY <1>2, FS_Subset
  <1>8. Planned'
    BY <1>1, <1>3, <1>5, OffTyped DEF Planned
  <1>9. Sole'
    <2>1. ASSUME NEW q \in Pod, Scheduling(q)', pod'[q].alone
          PROVE  /\ \A q2 \in Pod \ {q} : ~Scheduling(q2)'
                 /\ pod'[q].plan = "remove" => repeat' = pod'[q].seen
                 /\ pod'[q].plan = "add" => repeat' = {} \/ \E d \in Cron : repeat' = {d} /\ (tidy'.n > 0 => d = tidy'.cron)
      <3>1. Scheduling(q) /\ pod[q].alone
        BY <2>1, <1>3, <1>5, <1>6
      <3>2. q = p /\ \A q2 \in Pod \ {q} : ~Scheduling(q2)
        BY <3>1, <1>1 DEF Sole
      <3>3. repeat = pod[p].seen
        BY <3>1, <3>2, <1>1 DEF Sole
      <3> QED
        BY <1>2, <1>3, <1>5, <1>6, <3>2, <3>3
    <2> QED
      BY <2>1 DEF Sole
  <1>10. Beside'
    BY <1>1, <1>3, <1>5, <1>6 DEF Beside
  <1>11. Left' /\ MissingExplained' /\ OldCronGone'
    BY <1>1, <1>6 DEF Left, MissingExplained, OldCronGone
  <1> QED
    BY <1>1, <1>5, <1>7, <1>8, <1>9, <1>10, <1>11

\* Add: the job is there, and what a scheduling that was alone leaves is known.
LEMMA AddStep == ASSUME Schedule, NEW p \in Pod, Add(p) PROVE Schedule'
  <1> USE DEF Schedule
  <1>1. /\ pod[p].plan = "add" /\ Scheduling(p) /\ pod[p] \in PodSet /\ pod[p].cron \in Cron
        /\ repeat' = repeat \cup {pod[p].cron} /\ starts' = starts
    BY DEF Add, Scheduling, Planned
  <1> DEFINE r == [pod[p] EXCEPT !.plan = "none", !.alone = FALSE]
  <1>2. r \in PodSet /\ r.plan = "none" /\ r.up = pod[p].up /\ r.cron = pod[p].cron
    BY <1>1 DEF PodSet
  <1>3. Set(p, r)
    BY DEF Add
  <1> HIDE DEF r
  <1>4. pod' \in [Pod -> PodSet] /\ pod'[p] = r /\ \A q \in Pod : q # p => pod'[q] = pod[q]
    BY <1>2, <1>3, SetTyped
  <1>5. ~Scheduling(p)' /\ \A q \in Pod : q # p => (Scheduling(q)' <=> Scheduling(q))
    BY <1>2, <1>4 DEF Scheduling
  <1>6. repeat' \subseteq Cron /\ IsFiniteSet(repeat')
    BY <1>1, FS_AddElement
  <1>7. Planned'
    BY <1>1, <1>2, <1>4, OffTyped DEF Planned
  <1>8. held' \in {"never", "added", "lost"}
    BY DEF Add
  <1>9. MissingExplained'
    BY <1>1 DEF MissingExplained
  <1>10. CASE ~pod[p].alone
    <2>1. tidy' = [cron |-> NoCron, n |-> 0]
      BY <1>10 DEF Add, Untidy
    <2>2. tidy' \in [cron : Cron \cup {NoCron}, n : 0..2] /\ tidy'.n = 0
      BY <2>1
    <2>3. tidy.n = 0
      BY <1>1, <1>10 DEF Beside
    <2>4. \A q \in Pod : Scheduling(q)' => q # p /\ Scheduling(q) /\ ~pod[q].alone
      BY <1>1, <1>5 DEF Sole
    <2>5. Sole' /\ Beside' /\ Left' /\ OldCronGone'
      BY <1>4, <2>2, <2>4 DEF Sole, Beside, Left, OldCronGone
    <2> QED
      BY <1>1, <1>4, <1>6, <1>7, <1>8, <1>9, <2>2, <2>5
  <1>11. CASE pod[p].alone
    <2>1. tidy' = [cron |-> pod[p].cron, n |-> IF tidy.cron = pod[p].cron /\ tidy.n > 0 THEN 2 ELSE 1]
      BY <1>11 DEF Add
    <2>2. /\ tidy' \in [cron : Cron \cup {NoCron}, n : 0..2] /\ tidy'.cron = pod[p].cron
          /\ tidy'.n = 2 => tidy.cron = pod[p].cron /\ tidy.n > 0
      BY <1>1, <2>1
    <2>3. \A q \in Pod : ~Scheduling(q)'
      BY <1>1, <1>5, <1>11 DEF Sole
    <2>4. repeat = {} \/ \E c \in Cron : repeat = {c} /\ (tidy.n > 0 => c = tidy.cron)
      BY <1>1, <1>11 DEF Sole
    <2>5. tidy'.n = 2 => repeat' = {tidy'.cron}
      BY <1>1, <2>2, <2>4
    <2>6. Sole' /\ Beside' /\ Left' /\ OldCronGone'
      BY <1>1, <2>2, <2>3, <2>5 DEF Sole, Beside, Left, OldCronGone
    <2> QED
      BY <1>1, <1>4, <1>6, <1>7, <1>8, <1>9, <2>2, <2>6
  <1> QED
    BY <1>10, <1>11

-----------------------------------------------------------------------------
(* Every step.                                                             *)

\* A worker wakes only in a pod that is up.
LEMMA WorkStep ==
  ASSUME PodInv, HookInv', UNCHANGED podVars,
         \A w \in Worker : worker'[w] # Idle => worker[w] # Idle \/ Open(w)
  PROVE  PodInv'
  <1>1. Schedule'
    BY QuietStep DEF PodInv, Schedule, podVars, Planned
  <1>2. Housed'
    <2>1. \A w \in Worker : worker'[w] # Idle => pod'[PodOf[w]].up # "off"
      BY DEF PodInv, Housed, Open, podVars
    <2>2. ClosedIsIdle'
      BY DEF PodInv, Housed, ClosedIsIdle, Running, Workers, Open, podVars
    <2> QED
      BY <2>1, <2>2 DEF Housed
  <1> QED
    BY <1>1, <1>2 DEF PodInv

LEMMA RunStep ==
  ASSUME PodInv, NEW w \in Worker,
         \/ RunSync(w) \/ Step(w) \/ StepFails(w)
         \/ \E h \in Hook : RunRetry(w, h) \/ RunSend(w, h)
  PROVE  PodInv'
  <1> USE DEF PodInv
  <1>1. UNCHANGED podVars
    BY DEF RunSync, Step, StepFails, RunRetry, RunSend
  <1>2. HookInv'
    BY SyncStep, AcceptStep, RefuseStep, LogStep, SendStep DEF RunSync, Step, StepFails, RunRetry, RunSend
  <1>3. worker[w] # Idle \/ Open(w)
    BY DEF RunSync, Step, StepFails, RunRetry, RunSend, Accept, Refuse, LogAttempt, AddRetry, NextPage,
           LogFails, SyncFails, Idle
  <1>4. worker' = worker \/ \E r : Becomes(w, r)
    BY DEF RunSync, Step, StepFails, RunRetry, RunSend, Accept, Refuse, LogAttempt, AddRetry, NextPage,
           LogFails, SyncFails, StartSync, Turn, Retry, Send, Post
  <1>5. \A v \in Worker : v # w => worker'[v] = worker[v]
    BY <1>4 DEF Becomes, HookInv, HookTypeOK
  <1> QED
    BY <1>1, <1>2, <1>3, <1>5, WorkStep

LEMMA AgingStep == ASSUME PodInv, NEW h \in Hook, Aging(h) PROVE PodInv'
  <1>1. Ages(h) /\ UNCHANGED podVars /\ worker' = worker
    BY DEF Aging, Ages
  <1> QED
    BY <1>1, AgesStep, WorkStep DEF PodInv

\* Start, Signal, Paused and PauseFails change no plan but that of a pod that starts.
LEMMA TurnOnStep == ASSUME PodInv, NEW p \in Pod, Start(p) PROVE PodInv'
  <1> USE DEF PodInv
  <1>1. PICK c \in Release[p] : Set(p, [Off EXCEPT !.up = "up", !.cron = c, !.plan = "list"])
    BY DEF Start
  <1> DEFINE r == [Off EXCEPT !.up = "up", !.cron = c, !.plan = "list"]
  <1>2. c \in Cron
    BY PodAssumption
  <1>3. r \in PodSet /\ r.up = "up" /\ r.cron = c /\ r.plan = "list"
    BY <1>2, OffTyped DEF PodSet
  <1> HIDE DEF r
  <1>4. pod \in [Pod -> PodSet] /\ pod[p].up = "off" /\ pod[p] = Off
    BY DEF Start, Schedule, Planned
  <1>5. pod' \in [Pod -> PodSet] /\ pod'[p] = r /\ \A q \in Pod : q # p => pod'[q] = pod[q]
    BY <1>1, <1>3, <1>4, SetTyped DEF r
  <1>6. UNCHANGED <<hookVars, repeat, tidy, held>> /\ starts' \in 0..MaxStarts
    BY CountAssumption DEF Start, Schedule
  <1>7. Planned'
    BY <1>2, <1>3, <1>5 DEF Schedule, Planned
  <1>8. Schedule'
    BY <1>3, <1>4, <1>5, <1>6, <1>7, OffTyped, QuietStep
  <1>9. HookInv'
    BY <1>6, HookStutter DEF hookVars, HookInv, HookTypeOK
  <1>10. Housed'
    BY <1>3, <1>4, <1>5, <1>6, PodAssumption DEF Housed, ClosedIsIdle, Running, Workers, hookVars
  <1> QED
    BY <1>8, <1>9, <1>10

LEMMA CloseStep ==
  ASSUME PodInv, NEW p \in Pod, Signal(p) \/ Paused(p) \/ PauseFails(p)
  PROVE  PodInv'
  <1> USE DEF PodInv
  <1>1. pod \in [Pod -> PodSet] /\ pod[p] \in PodSet /\ pod[p].up # "off"
    BY DEF Signal, Paused, PauseFails, Schedule
  <1>2. UNCHANGED <<code, retryOn, due, jobs, worker, taken, repeat, tidy, held, starts>> /\ faults' \in 0..MaxFaults
    BY LimitAssumption DEF Signal, Paused, PauseFails, Fault, hookVars, HookInv, HookTypeOK
  <1>3. PICK r \in PodSet :
          /\ Set(p, r) /\ r.up \in {"closing", "closed"}
          /\ r.plan = pod[p].plan /\ r.seen = pod[p].seen /\ r.alone = pod[p].alone /\ r.cron = pod[p].cron
          /\ r.up = "closed" /\ ~r.skipped => ~Running(p)
    <2>1. CASE Signal(p)
      <3>1. Set(p, [pod[p] EXCEPT !.up = "closing"])
        BY <2>1 DEF Signal
      <3> QED
        BY <1>1, <3>1 DEF PodSet
    <2>2. CASE Paused(p)
      <3>1. Set(p, [pod[p] EXCEPT !.up = "closed"]) /\ ~Running(p)
        BY <2>2 DEF Paused
      <3> QED
        BY <1>1, <3>1 DEF PodSet
    <2>3. CASE PauseFails(p)
      <3>1. Set(p, [pod[p] EXCEPT !.up = "closed", !.skipped = TRUE])
        BY <2>3 DEF PauseFails
      <3> DEFINE r == [pod[p] EXCEPT !.up = "closed", !.skipped = TRUE]
      <3>2. /\ r \in PodSet /\ r.up = "closed" /\ r.skipped
            /\ r.plan = pod[p].plan /\ r.seen = pod[p].seen /\ r.alone = pod[p].alone /\ r.cron = pod[p].cron
        BY <1>1 DEF PodSet
      <3> QED
        BY <3>1, <3>2
    <2> QED
      BY <2>1, <2>2, <2>3
  <1>4. pod' \in [Pod -> PodSet] /\ pod'[p] = r /\ \A q \in Pod : q # p => pod'[q] = pod[q]
    BY <1>1, <1>3, SetTyped
  <1>5. Planned'
    BY <1>1, <1>3, <1>4 DEF Schedule, Planned
  <1>6. Schedule'
    BY <1>2, <1>3, <1>4, <1>5, QuietStep DEF Schedule
  <1>7. HookInv'
    BY <1>2, HookStutter
  <1>8. Housed'
    BY <1>1, <1>2, <1>3, <1>4, PodAssumption DEF Housed, ClosedIsIdle, Running, Workers
  <1> QED
    BY <1>6, <1>7, <1>8

\* The failure of a scheduling, and the end of a process.
LEMMA ScheduleFailsStep == ASSUME PodInv, NEW p \in Pod, ScheduleFails(p) PROVE PodInv'
  <1> USE DEF PodInv
  <1>1. pod \in [Pod -> PodSet] /\ pod[p] \in PodSet /\ pod[p].up # "off"
    BY OffTyped DEF ScheduleFails, Schedule, Planned
  <1>2. UNCHANGED <<code, retryOn, due, jobs, worker, taken, repeat, starts>> /\ faults' \in 0..MaxFaults
    BY LimitAssumption DEF ScheduleFails, Fault, HookInv, HookTypeOK
  <1> DEFINE r == [pod[p] EXCEPT !.plan = "none", !.seen = {}, !.alone = FALSE]
  <1>3. r \in PodSet /\ r.plan = "none" /\ r.up = pod[p].up /\ r.skipped = pod[p].skipped
    BY <1>1 DEF PodSet
  <1>4. Set(p, r)
    BY DEF ScheduleFails
  <1> HIDE DEF r
  <1>5. pod' \in [Pod -> PodSet] /\ pod'[p] = r /\ \A q \in Pod : q # p => pod'[q] = pod[q]
    BY <1>1, <1>3, <1>4, SetTyped
  <1>6. Planned'
    BY <1>1, <1>3, <1>5 DEF Schedule, Planned
  <1>7. Schedule'
    BY <1>2, <1>3, <1>5, <1>6, QuitStep DEF ScheduleFails
  <1>8. Housed'
    BY <1>1, <1>2, <1>3, <1>5, PodAssumption DEF Housed, ClosedIsIdle, Running, Workers
  <1> QED
    BY <1>2, <1>7, <1>8, HookStutter

LEMMA GoneStep ==
  ASSUME PodInv, NEW p \in Pod, Exit(p) \/ Timeout(p) \/ Crash(p)
  PROVE  PodInv'
  <1> USE DEF PodInv
  <1>1. Gone(p) /\ faults' \in 0..MaxFaults
    BY LimitAssumption DEF Exit, Timeout, Crash, Fault, HookInv, HookTypeOK
  <1>2. pod' \in [Pod -> PodSet] /\ pod'[p] = Off /\ \A q \in Pod : q # p => pod'[q] = pod[q]
    BY <1>1, SetTyped, OffTyped DEF Gone, Schedule
  <1>3. Planned'
    BY <1>2, OffTyped DEF Schedule, Planned
  <1>4. Schedule'
    BY <1>1, <1>2, <1>3, OffTyped, QuitStep DEF Gone
  <1>5. Workers(p) \in SUBSET Worker /\ Die(Workers(p))
    BY <1>1 DEF Gone, Workers
  <1>6. HookInv'
    BY <1>1, <1>5, DieStep
  <1>7. \A w \in Worker : worker'[w] = IF PodOf[w] = p THEN Idle ELSE worker[w]
    BY <1>5 DEF Die, Workers
  <1>8. Housed'
    BY <1>2, <1>7, OffTyped, PodAssumption DEF Housed, ClosedIsIdle, Running, Workers
  <1> QED
    BY <1>4, <1>6, <1>8

LEMMA PodInitInv == Init => PodInv
  <1> SUFFICES ASSUME Init PROVE PodInv
    OBVIOUS
  <1>1. HookInv
    BY HookInitInv DEF Init
  <1>2. pod \in [Pod -> PodSet] /\ \A p \in Pod : pod[p] = Off
    BY OffTyped DEF Init
  <1>3. \A p \in Pod : ~Scheduling(p)
    BY <1>2, OffTyped DEF Scheduling
  <1>4. tidy \in [cron : Cron \cup {NoCron}, n : 0..2] /\ tidy.n = 0 /\ starts \in 0..MaxStarts
    BY CountAssumption DEF Init
  <1>5. /\ repeat \subseteq Cron /\ IsFiniteSet(repeat) /\ held \in {"never", "added"}
        /\ repeat = {} => held = "never"
    <2>1. CASE repeat = {} /\ held = "never"
      BY <2>1, FS_EmptySet
    <2>2. CASE (\E c \in Former : repeat = {c}) /\ held = "added"
      BY <2>2, PodAssumption, FS_Singleton
    <2> QED
      BY <2>1, <2>2 DEF Init
  <1>6. Planned
    BY <1>2, OffTyped DEF Planned
  <1>7. Sole /\ Beside /\ Left /\ MissingExplained /\ OldCronGone
    BY <1>3, <1>4, <1>5 DEF Sole, Beside, Left, MissingExplained, OldCronGone
  <1>8. Schedule
    BY <1>2, <1>4, <1>5, <1>6, <1>7 DEF Schedule
  <1>9. Housed
    BY <1>2, OffTyped DEF Init, HookInit, Housed, ClosedIsIdle
  <1> QED
    BY <1>1, <1>8, <1>9 DEF PodInv

LEMMA PodNextInv == PodInv /\ [Next]_vars => PodInv'
  <1> SUFFICES ASSUME PodInv, [Next]_vars PROVE PodInv'
    OBVIOUS
  <1>1. ASSUME NEW p \in Pod, List(p) \/ Remove(p) \/ Add(p) PROVE PodInv'
    <2>1. UNCHANGED hookVars /\ Schedule'
      BY <1>1, ListStep, RemoveStep, AddStep DEF PodInv, List, Remove, RemoveThen, Add
    <2>2. HookInv'
      BY <2>1, HookStutter DEF PodInv, hookVars, HookInv, HookTypeOK
    <2>3. \A q \in Pod : pod'[q].up = pod[q].up /\ (pod'[q].skipped <=> pod[q].skipped)
      <3>1. \A q \in Pod : pod[q] \in PodSet
        BY DEF PodInv, Schedule
      <3>2. CASE List(p)
        BY <3>1, <3>2 DEF List, PodSet
      <3>3. CASE Remove(p)
        BY <3>1, <3>3 DEF Remove, RemoveThen, Set, PodSet
      <3>4. CASE Add(p)
        BY <3>1, <3>4 DEF Add, Set, PodSet
      <3> QED
        BY <1>1, <3>2, <3>3, <3>4
    <2>4. Housed'
      BY <2>1, <2>3, PodAssumption DEF PodInv, Housed, ClosedIsIdle, Running, Workers, hookVars
    <2> QED
      BY <2>1, <2>2, <2>4 DEF PodInv
  <1>2. CASE UNCHANGED vars
    BY <1>2, HookStutter, WorkStep DEF vars, hookVars, PodInv, HookInv, HookTypeOK
  <1> QED
    BY <1>1, <1>2, RunStep, AgingStep, TurnOnStep, CloseStep, ScheduleFailsStep, GoneStep DEF Next

-----------------------------------------------------------------------------
(* The theorems about pods and webhooks.                                   *)

LEMMA PodInvariance == Spec => []PodInv
  BY PodInitInv, PodNextInv, PTL DEF Spec

\* Every variable of Webhook and Pods keeps its type; in particular no worker runs in
\* a process that is gone, and only a webhook with a row has retries.
THEOREM TypeCorrect == Spec => []TypeOK
  <1>1. PodInv => TypeOK
    BY DEF PodInv, HookInv, Schedule, Housed, TypeOK
  <1> QED
    BY <1>1, PodInvariance, PTL

\* A webhook is taken twice only when two workers sent it at once, or its answer, its
\* record or its sender was lost, for any pods, workers, pages and retries in the queue.
THEOREM SentTwiceAlwaysExplained == Spec => []SentTwiceExplained
  <1>1. PodInv => SentTwiceExplained
    BY DEF PodInv, HookInv
  <1> QED
    BY <1>1, PodInvariance, PTL

\* The repeatable job is missing only before it was first added, while a pod is between
\* removal and addition, or when one failed or died there, for any pods and releases.
THEOREM MissingAlwaysExplained == Spec => []MissingExplained
  <1>1. PodInv => MissingExplained
    BY DEF PodInv, Schedule
  <1> QED
    BY <1>1, PodInvariance, PTL

\* After two undisturbed schedulings of one release in a row its cron is the only one.
THEOREM OldCronAlwaysGone == Spec => []OldCronGone
  <1>1. PodInv => OldCronGone
    BY DEF PodInv, Schedule
  <1> QED
    BY <1>1, PodInvariance, PTL

\* A pod that closed without a failure of its pause has no job left.
THEOREM ClosedAlwaysIdle == Spec => []ClosedIsIdle
  <1>1. PodInv => ClosedIsIdle
    BY DEF PodInv, Housed
  <1> QED
    BY <1>1, PodInvariance, PTL

-----------------------------------------------------------------------------
(* The connections: sockets and confirmations.                              *)

States == {"connecting", "open", "closed", "destroyed"}
Sockets == {NoSocket} \cup [url : Url, state : States]
AnyConf == Conf \cup {DefaultConf, Unset}

-----------------------------------------------------------------------------
(* What the definitions of EvmProviders return.                            *)

\* Confirmations are at least one and at most MaxConf: Unset is none of them.
LEMMA ConfirmationsTyped ==
  ASSUME row \in Row
  PROVE  Confirmations \in Conf \cup {DefaultConf} /\ Confirmations \in 1..MaxConf
  <1>1. row.conf \in Conf \cup {Unset}
    BY DEF Row
  <1> QED
    BY <1>1, ConfAssumption DEF Confirmations

\* A provider from the pool, or a new one, is a socket; there is none only when
\* the pool has none.
LEMMA ProviderTyped ==
  ASSUME row \in Row, ws \in Sockets
  PROVE  Provider \in Sockets /\ (ws # NoSocket => Provider = ws)
  <1>1. WssUrl \in Url \cup {NoUrl}
    BY UrlAssumption DEF WssUrl, Row
  <1> QED
    BY <1>1 DEF Provider, New, Sockets, States

\* A provider that is forced on a pooled socket is destroyed or connecting.
LEMMA ReplacedTyped ==
  ASSUME row \in Row, ws \in Sockets, ws # NoSocket
  PROVE  Replaced \in Sockets /\ Replaced # NoSocket
  <1>1. WssUrl \in Url \cup {NoUrl}
    BY UrlAssumption DEF WssUrl, Row
  <1>2. ws \in [url : Url, state : States]
    BY DEF Sockets
  <1>3. CASE WssUrl = NoUrl
    <2>1. Replaced = [url |-> ws.url, state |-> "destroyed"]
      BY <1>2, <1>3 DEF Replaced
    <2> QED
      BY <2>1, <1>2 DEF Sockets, States, NoSocket
  <1>4. CASE WssUrl # NoUrl
    BY <1>1, <1>4 DEF Replaced, New, Sockets, States, NoSocket
  <1> QED
    BY <1>3, <1>4

-----------------------------------------------------------------------------
(* The inductive invariant of EvmProviders.                                *)

\* A chain that is subscribed without a pooled socket was subscribed without one.
Muted == ws = NoSocket /\ subscribed => mute

\* The listener that asked for a block left its confirmations behind.
Asked == asked # {} => last # Unset

EvmInv == EvmTypeOK /\ Muted /\ DeafExplained /\ Asked /\ GapExplained

USE DEF net, link, health, blocks

LEMMA EvmInitInv == EvmInit => EvmInv
  <1> SUFFICES ASSUME EvmInit PROVE EvmInv
    OBVIOUS
  <1>1. row \in Row /\ up \subseteq Url /\ rpc \in Url \cup {NoUrl} /\ ws \in {NoSocket}
    BY DEF EvmInit, Row
  <1>2. head \in FirstHead..MaxHead /\ closes \in 0..MaxClose /\ changes \in 0..MaxChange
    BY ConfAssumption, BoundAssumption DEF EvmInit, FirstHead
  <1>3. EvmTypeOK
    BY <1>1, <1>2 DEF EvmInit, EvmTypeOK
  <1>4. Muted /\ DeafExplained /\ Asked /\ GapExplained
    BY DEF EvmInit, Muted, DeafExplained, Asked, GapExplained
  <1> QED
    BY <1>3, <1>4 DEF EvmInv

\* A subscription keeps the invariant, whatever provider it gets: the blocks between
\* the front of the old listener and that of the new one are counted as missed.
LEMMA ListenStep ==
  ASSUME EvmInv, NEW p \in Sockets, Listen(p), boot' \in BOOLEAN,
         UNCHANGED <<net, health, head, asked, closes, changes>>
  PROVE  EvmInv'
  <1> DEFINE c == Confirmations
  <1>1. c \in Conf \cup {DefaultConf} /\ c \in 1..MaxConf
    BY ConfirmationsTyped DEF EvmInv, EvmTypeOK
  <1>2. subscribed' = TRUE /\ ws' = p /\ mute' \in BOOLEAN /\ mute' = ~Live(p)
    BY DEF Listen
  <1>3. CASE p = NoSocket
    <2>1. hears' = Unset /\ UNCHANGED <<last, missed>>
      BY <1>3 DEF Listen
    <2>2. ~Live(p)
      BY <1>3 DEF Live, NoSocket
    <2>3. EvmTypeOK'
      BY <2>1, <1>2, <1>3 DEF EvmInv, EvmTypeOK
    <2> QED
      BY <2>1, <2>2, <2>3, <1>2 DEF EvmInv, Muted, DeafExplained, Asked, GapExplained, Front
  <1>4. CASE p # NoSocket
    <2>1. hears' = c /\ last' = c
      BY <1>4 DEF Listen
    <2>2. missed' = IF last = Unset THEN missed ELSE missed \cup ((head - last + 1)..(head - c))
      BY <1>4 DEF Listen
    <2> HIDE DEF c
    <2>3. last \in 0..MaxConf /\ head \in Nat /\ MaxConf < head /\ head <= MaxHead /\ MaxConf \in Nat
      BY ConfAssumption, BoundAssumption DEF EvmInv, EvmTypeOK, FirstHead, Unset
    <2>4. missed' \subseteq 1..MaxHead
      BY <2>2, <2>3, <1>1, BoundAssumption DEF EvmInv, EvmTypeOK
    <2>5. ws' \in {NoSocket} \cup [url : Url, state : {"connecting", "open", "closed", "destroyed"}]
      BY <1>2 DEF Sockets, States
    <2>6. EvmTypeOK'
      BY <2>1, <2>4, <2>5, <1>1, <1>2 DEF EvmInv, EvmTypeOK
    <2>7. c # Unset
      BY <1>1, <2>3 DEF Unset
    <2>8. GapExplained'
      <3> SUFFICES ASSUME NEW b \in asked, NEW n \in b..(head - c)
                   PROVE  n \in asked \cup missed'
        BY <2>1 DEF GapExplained, Front
      <3>1. last # Unset /\ b \in Int
        BY DEF EvmInv, Asked, EvmTypeOK
      <3>2. CASE n <= head - last
        BY <3>1, <3>2, <2>2, <2>3, <1>1 DEF EvmInv, GapExplained, Front
      <3>3. CASE n > head - last
        BY <3>1, <3>3, <2>2, <2>3, <1>1
      <3> QED
        BY <3>1, <3>2, <3>3, <2>3, <1>1
    <2> QED
      BY <2>1, <2>6, <2>7, <2>8, <1>2, <1>4 DEF EvmInv, Muted, DeafExplained, Asked
  <1> QED
    BY <1>3, <1>4

\* So does a step that only makes the missing socket, or lets the pooled one open or
\* close.
LEMMA SocketStep ==
  ASSUME EvmInv, ws' \in Sockets,
         ws = NoSocket \/ ~Live(ws') \/ Live(ws),
         ws # NoSocket => ws' # NoSocket,
         UNCHANGED <<net, subscribed, hears, last, mute, blocks, changes>>,
         closes' \in 0..MaxClose, boot' \in BOOLEAN,
         rpc' \in Url \cup {NoUrl}, probe' \in {"idle", "ready", "unready"},
         alive' \in {"unknown", "yes", "no"}
  PROVE  EvmInv'
  <1>1. EvmTypeOK'
    BY DEF EvmInv, EvmTypeOK, Sockets, States
  <1>2. Muted' /\ DeafExplained'
    BY DEF EvmInv, Muted, DeafExplained, Live
  <1>3. Asked' /\ GapExplained'
    BY DEF EvmInv, Asked, GapExplained, Front
  <1> QED
    BY <1>1, <1>2, <1>3 DEF EvmInv

\* The front moves by one block with every head, and the block is asked for or missed.
LEMMA MineStep == EvmInv /\ Mine => EvmInv'
  <1> SUFFICES ASSUME EvmInv, Mine PROVE EvmInv'
    OBVIOUS
  <1>1. head < MaxHead /\ head' = head + 1 /\ UNCHANGED <<net, link, health, closes, changes>>
    BY DEF Mine
  <1>2. last \in 0..MaxConf /\ head \in Nat /\ MaxConf < head /\ MaxHead \in Nat /\ MaxConf \in Nat
    BY ConfAssumption, BoundAssumption DEF EvmInv, EvmTypeOK, FirstHead, Unset
  <1>3. Hearing => last # Unset /\ BlockOf = head + 1 - last
    BY DEF EvmInv, EvmTypeOK, Hearing, BlockOf
  <1>4. \/ last = Unset /\ UNCHANGED <<asked, missed>>
        \/ last # Unset /\ asked' = asked \cup {head + 1 - last} /\ UNCHANGED missed
        \/ last # Unset /\ missed' = missed \cup {head + 1 - last} /\ UNCHANGED asked
    <2>1. CASE Hearing
      BY <2>1, <1>3 DEF Mine
    <2>2. CASE ~Hearing
      BY <2>2 DEF Mine
    <2> QED
      BY <2>1, <2>2
  <1>5. EvmTypeOK'
    <2>1. asked' \cup missed' \subseteq 1..MaxHead
      BY <1>1, <1>2, <1>4 DEF EvmInv, EvmTypeOK
    <2>2. head' \in FirstHead..MaxHead
      BY <1>1, <1>2 DEF EvmInv, EvmTypeOK, FirstHead
    <2> QED
      BY <1>1, <2>1, <2>2 DEF EvmInv, EvmTypeOK
  <1>6. Muted' /\ DeafExplained' /\ Asked'
    BY <1>1, <1>4 DEF EvmInv, Muted, DeafExplained, Asked, Live
  <1>7. GapExplained'
    <2> SUFFICES ASSUME NEW b \in asked', NEW n \in b..Front'
                 PROVE  n \in asked' \cup missed'
      BY DEF GapExplained
    <2>8. last' = last
      BY <1>1
    <2>9. Front' = head + 1 - last
      BY <1>1, <1>2, <2>8 DEF Front
    <2>1. b \in Int
      BY <1>5 DEF EvmTypeOK
    <2>2. last # Unset
      BY <1>4 DEF EvmInv, Asked
    <2>3. CASE n = head + 1 - last
      BY <2>2, <2>3, <1>4
    <2>4. CASE n # head + 1 - last
      <3>1. b # head + 1 - last /\ b \in asked
        BY <2>9, <2>1, <2>4, <1>2, <1>4
      <3>2. n \in b..(head - last)
        BY <2>9, <2>1, <2>4, <1>2
      <3> QED
        BY <3>1, <3>2, <1>4 DEF EvmInv, GapExplained, Front
    <2> QED
      BY <2>3, <2>4
  <1> QED
    BY <1>5, <1>6, <1>7 DEF EvmInv

LEMMA EvmNextInv == EvmInv /\ [EvmNext]_evmVars => EvmInv'
  <1> SUFFICES ASSUME EvmInv, [EvmNext]_evmVars PROVE EvmInv'
    OBVIOUS
  <1> USE DEF EvmInv
  <1>1. row \in Row /\ ws \in Sockets /\ boot \in BOOLEAN
    BY DEF EvmTypeOK, Sockets, States
  <1>2. CASE Mine
    BY <1>2, MineStep
  <1>3. CASE Connect
    <2>1. ws \in [url : Url, state : States] /\ ws # NoSocket
      BY <1>1, <1>3 DEF Connect, Sockets, NoSocket
    <2>2. PICK st \in {"open", "closed"} : ws' = [ws EXCEPT !.state = st]
      BY <1>3 DEF Connect
    <2>3. ws' \in [url : Url, state : States]
      BY <2>1, <2>2 DEF States
    <2>4. ws'.state # "none"
      BY <2>1, <2>2
    <2>5. ws' \in Sockets /\ ws' # NoSocket /\ Live(ws)
      BY <2>3, <2>4, <1>3 DEF Sockets, NoSocket, Live, Connect
    <2> QED
      BY <2>1, <2>5, <1>3, SocketStep DEF Connect, EvmTypeOK
  <1>4. CASE Close
    <2>1. ws \in [url : Url, state : States] /\ ws # NoSocket
      BY <1>1, <1>4 DEF Close, Sockets, NoSocket
    <2>2. ws' = [ws EXCEPT !.state = "closed"]
      BY <1>4 DEF Close
    <2>3. ws' \in [url : Url, state : States] /\ ws'.state = "closed"
      BY <2>1, <2>2 DEF States
    <2>4. ws' \in Sockets /\ ws' # NoSocket /\ ~Live(ws')
      BY <2>3 DEF Sockets, NoSocket, Live
    <2>5. closes' \in 0..MaxClose
      BY <1>4, BoundAssumption DEF Close, EvmTypeOK
    <2> QED
      BY <2>4, <2>5, <1>4, SocketStep DEF Close, EvmTypeOK
  <1>5. CASE Change
    <2>0. changes' \in 0..MaxChange
      BY <1>5, BoundAssumption DEF Change, EvmTypeOK
    <2>1. row' \in Row /\ up' \subseteq Url /\ deps' \in BOOLEAN
      <3>1. CASE \E r \in Row : row' = r /\ UNCHANGED <<up, deps>>
        BY <3>1 DEF EvmTypeOK
      <3>2. CASE \E u \in Url : up' = (up \ {u}) \cup ({u} \ up) /\ UNCHANGED <<row, deps>>
        BY <3>2 DEF EvmTypeOK
      <3>3. CASE deps' = ~deps /\ UNCHANGED <<row, up>>
        BY <3>3 DEF EvmTypeOK
      <3> QED
        BY <3>1, <3>2, <3>3, <1>5 DEF Change
    <2>2. UNCHANGED <<link, health, blocks, closes>>
      BY <1>5 DEF Change
    <2>3. EvmTypeOK'
      BY <2>0, <2>1, <2>2 DEF EvmTypeOK
    <2> QED
      BY <2>2, <2>3 DEF Muted, DeafExplained, Asked, GapExplained, Front, Live
  <1>6. CASE Subscribe
    <2>1. CASE subscribed
      BY <2>1, <1>1, <1>6, SocketStep DEF Subscribe, EvmTypeOK
    <2>2. CASE ~subscribed
      <3>1. Listen(Provider) /\ boot' \in BOOLEAN
             /\ UNCHANGED <<net, health, head, asked, closes, changes>>
        BY <2>2, <1>6 DEF Subscribe
      <3>2. Provider \in Sockets
        BY <1>1, ProviderTyped
      <3> QED
        BY <3>1, <3>2, ListenStep
    <2> QED
      BY <2>1, <2>2, <1>1
  <1>7. CASE SubscribeFails
    <2>1. changes' \in 0..MaxChange /\ boot' \in BOOLEAN
      BY <1>7, BoundAssumption DEF SubscribeFails, EvmTypeOK
    <2>2. UNCHANGED <<net, ws, subscribed, hears, last, mute, health, blocks, closes>>
      BY <1>7 DEF SubscribeFails
    <2>3. EvmTypeOK'
      BY <2>1, <2>2 DEF EvmTypeOK
    <2> QED
      BY <2>2, <2>3 DEF Muted, DeafExplained, Asked, GapExplained, Front, Live
  <1>8. CASE CheckSocket
    <2>1. CASE ws.state = "closed"
      <3>1. Listen(Replaced) /\ boot' \in BOOLEAN
             /\ UNCHANGED <<net, health, head, asked, closes, changes>>
        BY <2>1, <1>1, <1>8 DEF CheckSocket
      <3>2. Replaced \in Sockets
        BY <2>1, <1>1, ReplacedTyped DEF NoSocket
      <3> QED
        BY <3>1, <3>2, ListenStep
    <2>2. CASE ws.state # "closed"
      <3>1. ws' = Provider /\ UNCHANGED <<net, subscribed, hears, last, mute, blocks, changes, boot, health, closes>>
        BY <2>2, <1>8 DEF CheckSocket
      <3>2. Provider \in Sockets /\ (ws # NoSocket => ws' = ws)
        BY <3>1, <1>1, ProviderTyped
      <3>3. ws = NoSocket \/ ~Live(ws') \/ Live(ws)
        BY <3>2
      <3> QED
        BY <3>1, <3>2, <3>3, SocketStep DEF EvmTypeOK
    <2> QED
      BY <2>1, <2>2
  <1>9. CASE ProbeSocket
    <2>1. ws' = Provider /\ UNCHANGED <<net, subscribed, hears, boot, last, mute, alive, blocks, closes, changes>>
      BY <1>9 DEF ProbeSocket
    <2>2. Provider \in Sockets /\ (ws # NoSocket => ws' = ws)
      BY <2>1, <1>1, ProviderTyped
    <2>3. rpc' \in Url \cup {NoUrl} /\ probe' \in {"idle", "ready", "unready"}
      BY <1>9, UrlAssumption DEF ProbeSocket, RpcPool, RpcUrl, EvmTypeOK, Row
    <2>4. ws = NoSocket \/ ~Live(ws') \/ Live(ws)
      BY <2>2
    <2> QED
      BY <2>1, <2>2, <2>3, <2>4, SocketStep DEF EvmTypeOK
  <1>10. CASE ProbeRpc
    <2>1. probe' = "idle" /\ alive' \in {"yes", "no"} /\ UNCHANGED <<net, link, rpc, blocks, closes, changes>>
      BY <1>10 DEF ProbeRpc, GetLiveness
    <2> QED
      BY <2>1, <1>1, SocketStep DEF EvmTypeOK
  <1>11. CASE UNCHANGED evmVars
    BY <1>1, <1>11, SocketStep DEF evmVars, EvmTypeOK
  <1> QED
    BY <1>2, <1>3, <1>4, <1>5, <1>6, <1>7, <1>8, <1>9, <1>10, <1>11 DEF EvmNext

-----------------------------------------------------------------------------
(* The theorems about the connections.                                     *)

LEMMA EvmInvariance == EvmSpec => []EvmInv
  BY EvmInitInv, EvmNextInv, PTL DEF EvmSpec

\* Every variable of EvmProviders keeps its type: no block number is below one
\* whatever the confirmations, and a listener has the confirmations it was made with.
THEOREM EvmTypeCorrect == EvmSpec => []EvmTypeOK
  BY EvmInvariance, PTL DEF EvmInv

\* A live socket without a listener is one of a chain that is not subscribed or was
\* subscribed when it had none, for any endpoints and any changes of the row.
THEOREM DeafAlwaysExplained == EvmSpec => []DeafExplained
  BY EvmInvariance, PTL DEF EvmInv

\* The listener passes no block that is not counted as missed, for any confirmations
\* the row is given while the pod runs.
THEOREM GapAlwaysExplained == EvmSpec => []GapExplained
  BY EvmInvariance, PTL DEF EvmInv
=============================================================================
