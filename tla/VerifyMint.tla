------------------------------ MODULE VerifyMint ------------------------------
(***************************************************************************)
(* The chain of verify_mint jobs that walks a contract's token ids.        *)
(*                                                                         *)
(* Creating a contract inserts a job for its first ids.  A job asks the    *)
(* chain for the URI of each of its ids, upserts the tokens it finds and,  *)
(* when it found any, inserts the job of the next ids.  Upserts, the       *)
(* completed status and the next job are one database transaction; the     *)
(* started and the failed status are written outside of it, through        *)
(* another connection, and are visible at once.                            *)
(*                                                                         *)
(* Chains multiply: a transfer of a token that is not indexed yet starts   *)
(* one at that token, two concurrent creations start two, and two          *)
(* transactions that upsert the same tokens wait for one another's rows.   *)
(*                                                                         *)
(* The contract has no base URI: with one, every id has a URI and the chain *)
(* no end.                                                                 *)
(*                                                                         *)
(* Which execution may run which row is the subject of TokenJobs; here a   *)
(* second one joins only as the fault that module calls outliving.         *)
(***************************************************************************)
EXTENDS Integers, FiniteSets, FiniteSetsExt

CONSTANTS
  MaxRow,      \* bound: verify_mint rows
  MaxToken,    \* bound: the greatest id ever minted
  Mintable,    \* the ids that are minted while the model runs
  FirstCount,  \* ids of the first job of a contract (5 in the code)
  BatchCount,  \* ids of every next job (10 in the code)
  Creator,     \* concurrent requests that create the contract
  Execution,   \* handlers
  MaxAge,      \* bound: hours that pass without a new verify_mint row
  MaxTransfer, \* bound: jobs inserted for the transfer of an unknown token
  MaxFaults    \* bound: crashes, RPC and database errors, outlived handlers

ASSUME BoundAssumption ==
  /\ {MaxRow, MaxToken, MaxAge, MaxTransfer, MaxFaults} \subseteq Nat
  /\ Mintable \subseteq 1..MaxToken
  /\ {FirstCount, BatchCount} \subseteq Nat \ {0}
ASSUME CreatorAssumption == IsFiniteSet(Creator)

Row == 1..MaxRow
Token == 1..MaxToken
MaxId == MaxToken + 2 * (FirstCount + BatchCount)   \* no job asks for more
NoRow == 0
NoToken == 0

VARIABLES
  minted,     \* the ids with a token URI, on the chain
  saved,      \* the contracts row exists
  creator,    \* where each creating request is
  status,     \* status of each verify_mint row
  ids,        \* tokensIds of each row
  tokens,     \* ids of the rows of tokens, each with its fetch_metadata row
  age,        \* hours since the newest verify_mint row was inserted
  at,         \* the row each execution works for
  pc,         \* where each execution is
  left,       \* ids the execution has not asked the chain about
  want,       \* the id it found and is upserting
  tx,         \* ids upserted by its open transaction
  found,      \* history: countTokensFound of each completed row
  due,        \* history: minted ids of a row when it was last claimed
  missed,     \* history: minted ids a row took for unminted after an RPC error
  outlived,   \* history: rows that had two executions at once
  transfers,  \* transfers of unknown tokens so far
  faults      \* faults so far

contract == <<minted, saved, creator>>
rows == <<status, ids, age>>
handlers == <<at, pc, left, want, tx>>
history == <<found, due, missed, outlived>>
vars == <<contract, rows, tokens, handlers, history, transfers, faults>>

TypeOK ==
  /\ minted \subseteq Token
  /\ saved \in BOOLEAN
  /\ creator \in [Creator -> {"check", "job", "save", "none", "orphan", "saved"}]
  /\ status \in [Row -> {"absent", "created", "started", "completed", "failed"}]
  /\ ids \in [Row -> SUBSET (1..MaxId)]
  /\ tokens \subseteq minted
  /\ age \in 0..MaxAge
  /\ at \in [Execution -> Row \cup {NoRow}]
  /\ pc \in [Execution -> {"idle", "ask", "close", "fail", "hung"}]
  /\ want \in [Execution -> minted \cup {NoToken}]
  /\ left \in [Execution -> SUBSET (1..MaxId)]
  /\ tx \in [Execution -> SUBSET minted]
  /\ \A e \in Execution : pc[e] # "idle" => left[e] \cup tx[e] \subseteq ids[at[e]]
  /\ found \in [Row -> 0..MaxToken]
  /\ {due, missed} \subseteq [Row -> SUBSET minted]
  /\ \A r \in Row : due[r] \cup missed[r] \subseteq ids[r]
  /\ outlived \subseteq Row
  /\ transfers \in 0..MaxTransfer /\ faults \in 0..MaxFaults

Init ==
  /\ minted = Token \ Mintable
  /\ saved = FALSE
  /\ creator = [c \in Creator |-> "check"]
  /\ status = [r \in Row |-> "absent"]
  /\ ids = [r \in Row |-> {}]
  /\ tokens = {}
  /\ age = 0
  /\ at = [e \in Execution |-> NoRow]
  /\ pc = [e \in Execution |-> "idle"]
  /\ left = [e \in Execution |-> {}]
  /\ want = [e \in Execution |-> NoToken]
  /\ tx = [e \in Execution |-> {}]
  /\ found = [r \in Row |-> 0]
  /\ due = [r \in Row |-> {}]
  /\ missed = [r \in Row |-> {}]
  /\ outlived = {}
  /\ transfers = 0 /\ faults = 0

Used == {r \in Row : status[r] # "absent"}
Running(r) == {e \in Execution : at[e] = r}

Fault == faults < MaxFaults /\ faults' = faults + 1

\* Insertion of a created row for the token ids s, the r-th of the table, when
\* the statuses of the others are st.
Insert(st, s) ==
  LET r == Cardinality(Used) + 1
  IN  /\ r \in Row
      /\ status' = [st EXCEPT ![r] = "created"]
      /\ ids' = [ids EXCEPT ![r] = s]
      /\ age' = 0

\* getNextSequentialFromTokensIds
NextSequential(s) == (Max(s) + 1)..(Max(s) + BatchCount)

-----------------------------------------------------------------------------
(* What happens outside of the handlers.                                   *)

\* Somebody mints a token (external).
Mint(t) ==
  /\ t \notin minted
  /\ minted' = minted \cup {t}
  /\ UNCHANGED <<saved, creator, rows, tokens, handlers, history, transfers, faults>>

\* ContractService.create: the lookup, the first job, the contract itself (which
\* the unique index refuses when another request saved it meanwhile).
CheckContract(c) ==
  /\ creator[c] = "check"
  /\ creator' = [creator EXCEPT ![c] = IF saved THEN "none" ELSE "job"]
  /\ UNCHANGED <<minted, saved, rows, tokens, handlers, history, transfers, faults>>

CreateFirstJob(c) ==
  /\ creator[c] = "job"
  /\ creator' = [creator EXCEPT ![c] = "save"]
  /\ Insert(status, 1..FirstCount)
  /\ UNCHANGED <<minted, saved, tokens, handlers, history, transfers, faults>>

SaveContract(c) ==
  /\ creator[c] = "save"
  /\ creator' = [creator EXCEPT ![c] = IF saved THEN "orphan" ELSE "saved"]
  /\ saved' = TRUE
  /\ UNCHANGED <<minted, rows, tokens, handlers, history, transfers, faults>>

\* createHistory of a transfer of a token that has no row.
TransferUnknown(t) ==
  /\ saved /\ t \in minted \ tokens
  /\ transfers < MaxTransfer /\ transfers' = transfers + 1
  /\ Insert(status, {t})
  /\ UNCHANGED <<contract, tokens, handlers, history, faults>>

PassHour ==
  /\ saved /\ age < MaxAge
  /\ age' = age + 1
  /\ UNCHANGED <<contract, status, ids, tokens, handlers, history, transfers, faults>>

\* differenceInMinutes(last, now) of a row inserted an age ago, in hours.
Difference == -age

\* resyncVerifyMint, with the comparison it makes.
ResyncVerifyMint ==
  /\ IF saved /\ Difference >= 1
       THEN Insert(status, NextSequential(tokens \cup {0}))
       ELSE UNCHANGED rows
  /\ UNCHANGED <<contract, tokens, handlers, history, transfers, faults>>

\* Mutant: the frozen check looks at startedAt and not at the status.
StartedOnce == {r \in Row : status[r] \notin {"absent", "created"}}

\* The UPDATE of checkJobsHaveAlreadyStartedButNotFinished finds rows S started
\* over five minutes ago; it waits while a transaction has written one of them.
Started == {r \in Row : status[r] = "started"}
RowLocked(r) == \E e \in Running(r) : pc[e] \in {"close", "hung"}

CheckFrozen(S) ==
  /\ S # {}
  /\ \A r \in S : ~RowLocked(r)
  /\ status' = [r \in Row |-> IF r \in S THEN "created" ELSE status[r]]
  /\ UNCHANGED <<contract, ids, age, tokens, handlers, history, transfers, faults>>

-----------------------------------------------------------------------------
(* The handler.                                                            *)

\* findOne and the update to Started, visible at once; the transaction is open.
\* A second execution joins a row only when it outlived its Bull job.
Claim(e, r) ==
  /\ pc[e] = "idle" /\ status[r] = "created" /\ ~RowLocked(r)
  /\ IF Running(r) = {}
       THEN UNCHANGED <<outlived, faults>>
       ELSE Fault /\ outlived' = outlived \cup {r}
  /\ status' = [status EXCEPT ![r] = "started"]
  /\ at' = [at EXCEPT ![e] = r]
  /\ pc' = [pc EXCEPT ![e] = "ask"]
  /\ left' = [left EXCEPT ![e] = ids[r]]
  /\ due' = [due EXCEPT ![r] = ids[r] \cap minted]
  /\ missed' = [missed EXCEPT ![r] = {}]
  /\ UNCHANGED <<contract, ids, age, tokens, want, tx, found, transfers>>

\* One token id, in whatever order the answers come: an id with a URI is upserted,
\* one without is skipped.
Ask(e, t) ==
  /\ pc[e] = "ask" /\ want[e] = NoToken /\ t \in left[e]
  /\ left' = [left EXCEPT ![e] = @ \ {t}]
  /\ want' = [want EXCEPT ![e] = IF t \in minted THEN t ELSE NoToken]
  /\ UNCHANGED <<contract, rows, tokens, at, pc, tx, history, transfers, faults>>

\* getTokenUri and getUri turn an RPC error into null: the id looks unminted.
AskFails(e, t) ==
  /\ pc[e] = "ask" /\ want[e] = NoToken /\ t \in left[e] \cap minted
  /\ Fault
  /\ left' = [left EXCEPT ![e] = @ \ {t}]
  /\ missed' = [missed EXCEPT ![at[e]] = @ \cup {t}]
  /\ UNCHANGED <<contract, rows, tokens, at, pc, want, tx, found, due, outlived, transfers>>

\* upsertToken in the transaction: waits for another transaction that upserted the
\* same token, and fails while there is no contracts row to refer to.
Upsert(e) ==
  /\ pc[e] = "ask" /\ want[e] # NoToken
  /\ \A f \in Execution \ {e} : want[e] \notin tx[f]
  /\ want' = [want EXCEPT ![e] = NoToken]
  /\ IF saved
       THEN tx' = [tx EXCEPT ![e] = @ \cup {want[e]}] /\ UNCHANGED pc
       ELSE pc' = [pc EXCEPT ![e] = "fail"] /\ UNCHANGED tx
  /\ UNCHANGED <<contract, rows, tokens, at, left, history, transfers, faults>>

\* The database aborts a transaction of a cycle of waiting ones (external).
Waits(e, f) == want[e] # NoToken /\ want[e] \in tx[f]

AbortDeadlock(e) ==
  /\ \E C \in SUBSET Execution :
       /\ e \in C
       /\ \A f \in C : /\ \E g \in C \ {f} : Waits(f, g)
                       /\ \E g \in C \ {f} : Waits(g, f)
  /\ pc' = [pc EXCEPT ![e] = "fail"]
  /\ want' = [want EXCEPT ![e] = NoToken]
  /\ UNCHANGED <<contract, rows, tokens, at, left, tx, history, transfers, faults>>

\* Anything else the handler awaits throws.
Throw(e) ==
  /\ pc[e] = "ask" /\ Fault
  /\ pc' = [pc EXCEPT ![e] = "fail"]
  /\ want' = [want EXCEPT ![e] = NoToken]
  /\ UNCHANGED <<contract, rows, tokens, at, left, tx, history, transfers>>

\* Mutant: the answers of the ids are not awaited.
CloseEarly(e) ==
  /\ pc[e] = "ask" /\ want[e] = NoToken /\ ~RowLocked(at[e])
  /\ pc' = [pc EXCEPT ![e] = "close"]
  /\ UNCHANGED <<contract, rows, tokens, at, left, want, tx, history, transfers, faults>>

\* The update to Completed, in the transaction: it holds the row from here on.
Close(e) ==
  /\ pc[e] = "ask" /\ left[e] = {} /\ want[e] = NoToken /\ ~RowLocked(at[e])
  /\ pc' = [pc EXCEPT ![e] = "close"]
  /\ UNCHANGED <<contract, rows, tokens, at, left, want, tx, history, transfers, faults>>

\* The connection is given back; what its transaction did not commit is gone.
Release(E) ==
  /\ at' = [e \in Execution |-> IF e \in E THEN NoRow ELSE at[e]]
  /\ pc' = [e \in Execution |-> IF e \in E THEN "idle" ELSE pc[e]]
  /\ left' = [e \in Execution |-> IF e \in E THEN {} ELSE left[e]]
  /\ want' = [e \in Execution |-> IF e \in E THEN NoToken ELSE want[e]]
  /\ tx' = [e \in Execution |-> IF e \in E THEN {} ELSE tx[e]]

\* Mutants: the next job needs a whole batch of tokens, or needs none.
CommitAfterWholeBatch(e) ==
  LET r == at[e]
      completed == [status EXCEPT ![r] = "completed"]
  IN  /\ pc[e] = "close"
      /\ tokens' = tokens \cup tx[e]
      /\ found' = [found EXCEPT ![r] = Cardinality(tx[e])]
      /\ IF tx[e] = ids[r]
           THEN Insert(completed, NextSequential(ids[r]))
           ELSE status' = completed /\ UNCHANGED <<ids, age>>
      /\ Release({e})
      /\ UNCHANGED <<contract, due, missed, outlived, transfers, faults>>

CommitAlwaysNext(e) ==
  LET r == at[e]
      completed == [status EXCEPT ![r] = "completed"]
  IN  /\ pc[e] = "close"
      /\ tokens' = tokens \cup tx[e]
      /\ found' = [found EXCEPT ![r] = Cardinality(tx[e])]
      /\ Insert(completed, NextSequential(ids[r]))
      /\ Release({e})
      /\ UNCHANGED <<contract, due, missed, outlived, transfers, faults>>

\* Insertion of the next job when tokens were found, then the commit.
Commit(e) ==
  LET r == at[e]
      completed == [status EXCEPT ![r] = "completed"]
  IN  /\ pc[e] = "close"
      /\ tokens' = tokens \cup tx[e]
      /\ found' = [found EXCEPT ![r] = Cardinality(tx[e])]
      /\ IF tx[e] # {}
           THEN Insert(completed, NextSequential(ids[r]))
           ELSE status' = completed /\ UNCHANGED <<ids, age>>
      /\ Release({e})
      /\ UNCHANGED <<contract, due, missed, outlived, transfers, faults>>

\* The insertion of the next job fails: the update to Failed goes through another
\* connection and waits for the row this transaction holds.
HangOnOwnLock(e) ==
  /\ pc[e] = "close" /\ tx[e] # {} /\ Fault
  /\ pc' = [pc EXCEPT ![e] = "hung"]
  /\ UNCHANGED <<contract, rows, tokens, at, left, want, tx, history, transfers>>

\* Mutant: the catch gives the row back, as the one of fetch_metadata does.
FailGivesBack(e) ==
  /\ pc[e] = "fail" /\ ~RowLocked(at[e])
  /\ status' = [status EXCEPT ![at[e]] = "created"]
  /\ Release({e})
  /\ UNCHANGED <<contract, ids, age, tokens, history, transfers, faults>>

\* catch: the update to Failed, visible at once, then the rollback.
Fail(e) ==
  /\ pc[e] = "fail" /\ ~RowLocked(at[e])
  /\ status' = [status EXCEPT ![at[e]] = "failed"]
  /\ Release({e})
  /\ UNCHANGED <<contract, ids, age, tokens, history, transfers, faults>>

\* A pod dies with its handlers and requests; the database rolls back.
Crash ==
  /\ Fault
  /\ \E E \in SUBSET Execution, C \in SUBSET Creator :
       /\ Release(E)
       /\ creator' = [c \in Creator |->
                        IF c \notin C THEN creator[c]
                        ELSE CASE creator[c] \in {"check", "job"} -> "none"
                               [] creator[c] = "save" -> "orphan"
                               [] OTHER -> creator[c]]
  /\ UNCHANGED <<minted, saved, rows, tokens, history, transfers>>

-----------------------------------------------------------------------------
Handler(e) ==
  \/ \E r \in Row : Claim(e, r)
  \/ \E t \in left[e] : Ask(e, t) \/ AskFails(e, t)
  \/ Upsert(e) \/ AbortDeadlock(e) \/ Throw(e) \/ Close(e)
  \/ Commit(e) \/ HangOnOwnLock(e) \/ Fail(e)

Next ==
  \/ \E t \in Token : Mint(t) \/ TransferUnknown(t)
  \/ \E c \in Creator : CheckContract(c) \/ CreateFirstJob(c) \/ SaveContract(c)
  \/ PassHour \/ ResyncVerifyMint
  \/ \E S \in SUBSET Started : CheckFrozen(S)
  \/ \E e \in Execution : Handler(e)
  \/ Crash

Spec == Init /\ [][Next]_vars

(* The crons run, a claimed job goes on, the database breaks its deadlocks. *)
Fairness ==
  /\ WF_vars(PassHour) /\ WF_vars(ResyncVerifyMint)
  /\ \A r \in Row : WF_vars(r \in Started /\ CheckFrozen({r}))
  /\ \A r \in Row :
       WF_vars(\E e \in Execution : Running(r) = {} /\ Claim(e, r))
  /\ \A e \in Execution :
       /\ WF_vars(\E t \in left[e] : Ask(e, t))
       /\ WF_vars(Upsert(e)) /\ WF_vars(AbortDeadlock(e)) /\ WF_vars(Close(e))
       /\ WF_vars(Commit(e)) /\ WF_vars(Fail(e))

FairSpec == Spec /\ Fairness

-----------------------------------------------------------------------------
(* Properties.                                                             *)

Completed == {r \in Row : status[r] = "completed"}

\* The chain is never cut between two jobs: whatever crashed or overlapped, a
\* completed row that found tokens has the row of the next ids.
ChainUnbroken ==
  \A r \in Completed : found[r] > 0 => \E s \in Used : ids[s] = NextSequential(ids[r])

\* Chains are not multiplied by crashes or repeated executions: every row is the
\* first of a creation, the job of a transfer, or the only successor of one
\* completed row, as long as no handler outlived its job.
RowsAccounted ==
  outlived = {} =>
    Cardinality(Used) =
      Cardinality({c \in Creator : creator[c] \in {"save", "orphan", "saved"}})
      + transfers + Cardinality({r \in Completed : found[r] > 0})

\* A completed row indexed every id of its batch that was minted when it began,
\* except those an RPC error made look unminted.
BatchIndexed ==
  \A r \in Completed \ outlived : due[r] \ missed[r] \subseteq tokens

\* The rows keep the promise of JobLifecycle, and the next job opens with the commit that
\* completes the one before it: no crash, deadlock or frozen check makes a row that was
\* completed fail, or an ended one run again, unless a handler outlived its job.
Life(s) == IF s \in {"created", "started"} THEN "open" ELSE s
Lifecycle == INSTANCE JobLifecycle WITH Job <- Row, state <- [r \in Row |-> Life(status[r])]
ImplementsLifecycle == Lifecycle!Spec

\* A row that was inserted ends completed or failed, through crashes, frozen checks
\* and database deadlocks, unless a handler waits for its own transaction.
Hung == \E e \in Execution : pc[e] = "hung"
RowsClose ==
  \A r \in Row : status[r] = "created" ~> status[r] \in {"completed", "failed"} \/ Hung

\* A collection minted before its contract was added is indexed to the end, unless a
\* job failed or an RPC error hid a token: then nothing takes the chain up again.
Trouble == Hung \/ \E r \in Row : status[r] = "failed" \/ missed[r] # {}
CollectionIndexed ==
  \A t \in Token :
    status[1] = "created" /\ 1..t \subseteq minted ~> t \in tokens \/ Trouble

\* CHANGELOG.md: the mint check is made again one hour after the last one.
ResyncAfterAnHour == saved /\ age >= 1 ~> age = 0
=============================================================================
