---------------------------- MODULE OwnerTracking ----------------------------
(***************************************************************************)
(* Who owns a token, as the tracker shows it.  Nothing copies the `to` of  *)
(* a transfer: a transfer only makes createHistory ask the chain for the   *)
(* present owner, and so do verify_mint and fetch_owner_address.  All      *)
(* three read the chain in one step and write the column in a later one,   *)
(* none looks at what the column has become in between, and a history row  *)
(* that is saved is a transfer that is never looked at again.              *)
(*                                                                         *)
(* One contract.  Its transfers reach a worker with the logs of a block,   *)
(* if the worker's topicPool knows the contract.                           *)
(***************************************************************************)
EXTENDS Naturals, FiniteSets

CONSTANTS
  Token, Address, Worker,
  Zero,       \* the zero address: the owner of a token that does not exist
  Null,       \* no address: the column before a read succeeds, a failed read
  Reader,     \* the readings of owners that can be in flight at once
  Doubled,    \* the transactions that move the token twice
  HasBase,    \* the contract has a baseURI()
  MaxMoves,   \* bound: transactions of a token
  MaxVerify,  \* bound: verify_mint jobs begun for a token
  MaxFaults   \* bound: crashes, failed calls and lost blocks

ASSUME ValueAssumption ==
  Zero \notin Address /\ Null \notin Address /\ Zero # Null
ASSUME BaseAssumption == HasBase \in BOOLEAN
ASSUME BoundAssumption ==
  MaxMoves \in Nat /\ MaxVerify \in Nat /\ MaxFaults \in Nat /\ Doubled \subseteq Nat

VARIABLES
  holder,     \* the owner on chain
  past,       \* every owner the token has had on chain since it was minted
  txs,        \* how many transactions have moved the token
  mined,      \* transfers in confirmed blocks that no worker has read
  logs,       \* transfers read from a block, createHistory not yet called
  pool,       \* the workers whose topicPool has the contract
  history,    \* rows of tokens_transfer: the transactions of each token
  owner,      \* column ownerAddress, of the tokens in known
  known,      \* tokens that have a row
  stale,      \* tokens whose lastOwnerAddressCheckAt is over 7 days ago
  unverified, \* open verify_mint rows, by token
  verified,   \* verify_mint rows so far
  open,       \* created fetch_owner_address rows, by token
  found,      \* tokens a sweep has found and not yet created the row of
  reading,    \* what each reader does: its kind, token, transfer, step and answer
  raced,      \* readers whose token was written by another since they asked
  lapsed,     \* tokens whose owner a recorded fault may have left behind
  faults

chain == <<holder, past, txs, mined, logs, pool>>
table == <<history, owner, known, stale>>
jobs == <<unverified, verified, open, found>>
vars == <<chain, table, jobs, reading, raced, lapsed, faults>>

Owner == Address \cup {Zero}
Transfer == [token : Token, tx : 1..MaxMoves, n : {1, 2}]
Kind == {"history", "verify", "fetch"}
Idle == [kind |-> "idle"]
Reading == [kind : Kind, token : Token, tx : 0..MaxMoves,
            at : {"find", "save", "token", "uri", "ask", "write", "check"}, got : Owner \cup {Null}]

Busy(r) == reading[r] # Idle
On(r, t) == Busy(r) /\ reading[r].token = t

TypeOK ==
  /\ holder \in [Token -> Owner] /\ past \in [Token -> SUBSET Owner]
  /\ txs \in [Token -> 0..MaxMoves]
  /\ mined \subseteq Transfer /\ logs \subseteq Transfer
  /\ pool \subseteq Worker
  /\ history \in [Token -> SUBSET (1..MaxMoves)]
  /\ owner \in [Token -> Owner \cup {Null}]
  /\ known \subseteq Token /\ stale \subseteq known
  /\ unverified \subseteq Token /\ verified \in [Token -> 0..MaxVerify]
  /\ open \subseteq Token /\ found \subseteq Token
  /\ reading \in [Reader -> Reading \cup {Idle}]
  /\ \A r \in Reader :
       Busy(r) /\ reading[r].kind # "verify" /\ reading[r].at \in {"ask", "write", "check"}
         => reading[r].token \in known
  /\ raced \subseteq Reader
  /\ lapsed \subseteq Token
  /\ faults \in 0..MaxFaults

Init ==
  /\ holder = [t \in Token |-> Zero] /\ past = [t \in Token |-> {}]
  /\ txs = [t \in Token |-> 0] /\ mined = {} /\ logs = {} /\ pool = {}
  /\ history = [t \in Token |-> {}]
  /\ owner = [t \in Token |-> Null] /\ known = {} /\ stale = {}
  /\ unverified = {} /\ verified = [t \in Token |-> 0] /\ open = {} /\ found = {}
  /\ reading = [r \in Reader |-> Idle] /\ raced = {} /\ lapsed = {} /\ faults = 0

-----------------------------------------------------------------------------
(* The chain, and the blocks a worker reads.                               *)

\* One transaction moves the token, once or twice; only where it ends up is seen.
Move(t, a) ==
  /\ txs[t] < MaxMoves /\ a # holder[t]
  /\ holder' = [holder EXCEPT ![t] = a]
  /\ past' = [past EXCEPT ![t] = @ \cup {a}]
  /\ txs' = [txs EXCEPT ![t] = @ + 1]
  /\ mined' = mined \cup
       {[token |-> t, tx |-> txs[t] + 1, n |-> n] : n \in IF txs[t] + 1 \in Doubled THEN {1, 2} ELSE {1}}
  /\ UNCHANGED <<logs, pool, table, jobs, reading, raced, lapsed, faults>>

\* syncLocalCache, every 30 seconds on each worker.
SyncLocalCache(w) ==
  /\ pool' = pool \cup {w}
  /\ UNCHANGED <<holder, past, txs, mined, logs, table, jobs, reading, raced, lapsed, faults>>

\* processLogs: the transfers of a block, when the contract is in the topicPool.
ProcessLogs(w, t, x) ==
  LET block == {m \in mined : m.token = t /\ m.tx = x}
  IN  /\ block # {}
      /\ mined' = mined \ block
      /\ IF w \in pool THEN logs' = logs \cup block /\ UNCHANGED lapsed
                       ELSE lapsed' = lapsed \cup {t} /\ UNCHANGED logs
      /\ UNCHANGED <<holder, past, txs, pool, table, jobs, reading, raced, faults>>

-----------------------------------------------------------------------------
(* Steps of a reading.                                                     *)

Begin(r, k, t, x, at) ==
  reading' = [reading EXCEPT ![r] = [kind |-> k, token |-> t, tx |-> x, at |-> at, got |-> Null]]
Goto(r, at) == reading' = [reading EXCEPT ![r].at = at]
End(r) == reading' = [reading EXCEPT ![r] = Idle] /\ raced' = raced \ {r}

\* handleJsonRpcError keeps the stack that says `execution reverted`: so a call about a
\* token the contract does not have is told from one that failed.
Reverts(t) == holder[t] = Zero

\* Mutant: no answer is taken for the zero address.
OwnerOfZero(t, failed) == IF failed THEN Zero ELSE holder[t]

\* getOwnerOf: null when the call failed, the zero address when it was reverted.
OwnerOf(t, failed) == IF failed THEN Null ELSE IF Reverts(t) THEN Zero ELSE holder[t]

\* The column of a token is written: the readers that asked before are behind.
Wrote(r, t) == raced' = (raced \cup {s \in Reader : On(s, t) /\ reading[s].at = "write"}) \ {r}

\* A reader that was overtaken may leave an older owner; any other that leaves
\* the present one makes good what was wrong.
Settle(r, t, value) ==
  lapsed' = IF r \in raced \/ value = Null THEN lapsed \cup {t}
            ELSE IF value = holder[t] THEN lapsed \ {t} ELSE lapsed

\* The three readings ask alike.
Ask(r) ==
  LET t == reading[r].token
  IN  /\ Busy(r) /\ reading[r].at = "ask"
      /\ \E failed \in BOOLEAN :
           /\ failed => faults < MaxFaults
           /\ faults' = IF failed THEN faults + 1 ELSE faults
           /\ reading' = [reading EXCEPT ![r].at = "write", ![r].got = OwnerOf(t, failed)]
      /\ raced' = raced \ {r}
      /\ UNCHANGED <<chain, table, jobs, lapsed>>

-----------------------------------------------------------------------------
(* createHistory.                                                          *)

CallCreateHistory(r, log) ==
  /\ log \in logs /\ ~Busy(r)
  /\ logs' = logs \ {log}
  /\ Begin(r, "history", log.token, log.tx, "find")
  /\ UNCHANGED <<holder, past, txs, mined, pool, table, jobs, raced, lapsed, faults>>

\* Mutant: any row of the token is taken for the transfer's.
AlreadyExistsAny(r) == history[reading[r].token] # {}

\* A row of the same transaction.  transactionIndex is the transaction's, so that a
\* second transfer of the token in it is taken for the first, and "no row of it
\* with a greater index" always holds below.
AlreadyExists(r) == reading[r].tx \in history[reading[r].token]

FindHistory(r) ==
  /\ Busy(r) /\ reading[r].at = "find"
  /\ IF AlreadyExists(r) THEN End(r) ELSE Goto(r, "save") /\ UNCHANGED raced
  /\ UNCHANGED <<chain, table, jobs, lapsed, faults>>

\* save: rejected by the unique index when the row has appeared since the find.
SaveHistory(r) ==
  LET t == reading[r].token
  IN  /\ Busy(r) /\ reading[r].at = "save"
      /\ IF AlreadyExists(r)
           THEN End(r) /\ UNCHANGED history
           ELSE /\ Goto(r, "token") /\ UNCHANGED raced
                /\ history' = [history EXCEPT ![t] = @ \cup {reading[r].tx}]
      /\ UNCHANGED <<chain, owner, known, stale, jobs, lapsed, faults>>

\* The token is looked up: a verify_mint job for one that has no row.
FindToken(r) ==
  LET t == reading[r].token
  IN  /\ Busy(r) /\ reading[r].at = "token"
      /\ IF t \in known
           THEN Goto(r, "ask") /\ UNCHANGED <<raced, unverified>>
           ELSE End(r) /\ unverified' = unverified \cup {t}
      /\ UNCHANGED <<chain, table, verified, open, found, lapsed, faults>>

\* update of createHistory: the answer, null included.
WriteHistory(r) ==
  LET t == reading[r].token
  IN  /\ Busy(r) /\ reading[r].kind = "history" /\ reading[r].at = "write"
      /\ owner' = [owner EXCEPT ![t] = reading[r].got]
      /\ stale' = stale \ {t}
      /\ Wrote(r, t) /\ Settle(r, t, reading[r].got)
      /\ reading' = [reading EXCEPT ![r] = Idle]
      /\ UNCHANGED <<chain, history, known, jobs, faults>>

-----------------------------------------------------------------------------
(* verify_mint (VerifyMint has its chain, here is what it does to owners). *)

\* A job comes to the token: of createHistory, of the chain or of a refresh.
BeginVerify(r, t) ==
  /\ ~Busy(r) /\ verified[t] < MaxVerify
  /\ verified' = [verified EXCEPT ![t] = @ + 1]
  /\ unverified' = unverified \ {t}
  /\ Begin(r, "verify", t, 0, "uri")
  /\ UNCHANGED <<chain, table, open, found, raced, lapsed, faults>>

\* getTokenUri and getBaseUri turn an error into null.  A token that has neither is
\* passed over, and if it was there its row keeps the owner it had; a base alone makes
\* a URI of any id, minted or not.
AskUri(r) ==
  LET t == reading[r].token
  IN  /\ Busy(r) /\ reading[r].at = "uri"
      /\ \E base, uri \in BOOLEAN :
           LET failed == (HasBase /\ ~base) \/ (~Reverts(t) /\ ~uri)
           IN  /\ base => HasBase
               /\ uri => ~Reverts(t)
               /\ failed => faults < MaxFaults
               /\ faults' = IF failed THEN faults + 1 ELSE faults
               /\ IF base \/ uri
                    THEN Goto(r, "ask") /\ UNCHANGED <<raced, lapsed>>
                    ELSE /\ Wrote(r, t) /\ lapsed' = IF t \in known THEN lapsed \cup {t} ELSE lapsed
                         /\ reading' = [reading EXCEPT ![r] = Idle]
      /\ UNCHANGED <<chain, table, jobs>>

\* The upsert commits.  An undefined owner keeps the one there is.
Upsert(r) ==
  LET t == reading[r].token  got == reading[r].got
  IN  /\ Busy(r) /\ reading[r].kind = "verify" /\ reading[r].at = "write"
      /\ owner' = [owner EXCEPT ![t] = IF got = Null THEN @ ELSE got]
      /\ known' = known \cup {t} /\ stale' = stale \ {t}
      /\ Wrote(r, t) /\ Settle(r, t, got)
      /\ reading' = [reading EXCEPT ![r] = Idle]
      /\ UNCHANGED <<chain, history, jobs, faults>>

-----------------------------------------------------------------------------
(* fetch_owner_address.                                                    *)

\* Seven days pass.
GrowStale(t) ==
  /\ t \in known /\ stale' = stale \cup {t}
  /\ UNCHANGED <<chain, history, owner, known, jobs, reading, raced, lapsed, faults>>

Fetched(t) == t \in open \/ \E r \in Reader : On(r, t) /\ reading[r].kind = "fetch"

\* Mutant: only owners that were checked once are checked again.
DueWhenChecked(t) == t \in known /\ t \in stale /\ owner[t] \notin {Null, Zero}

\* The tokens checkTokensOwnerAddressNotChangeForLongTime asks for.
DueForCheck(t) ==
  /\ t \in known /\ ~Fetched(t)
  /\ owner[t] = Null \/ (t \in stale /\ owner[t] # Zero)

\* The query, every six hours; the rows are created behind its back.
SweepOwners ==
  /\ found' = found \cup {t \in Token : DueForCheck(t)}
  /\ UNCHANGED <<chain, table, unverified, verified, open, reading, raced, lapsed, faults>>

CreateFetchRow(t) ==
  /\ t \in found /\ found' = found \ {t} /\ open' = open \cup {t}
  /\ UNCHANGED <<chain, table, unverified, verified, reading, raced, lapsed, faults>>

\* A row is executed.  Rows carry ten ids whose readings do not depend on each other.
BeginFetch(r, t) ==
  /\ ~Busy(r) /\ t \in open /\ open' = open \ {t}
  /\ Begin(r, "fetch", t, 0, "ask")
  /\ UNCHANGED <<chain, table, unverified, verified, found, raced, lapsed, faults>>

\* The first update, if there is an answer; the second is a step of its own.
WriteFetched(r) ==
  LET t == reading[r].token  got == reading[r].got
  IN  /\ Busy(r) /\ reading[r].kind = "fetch" /\ reading[r].at = "write"
      /\ Goto(r, "check")
      /\ IF got = Null
           THEN UNCHANGED <<owner, raced, lapsed>>
           ELSE /\ owner' = [owner EXCEPT ![t] = got]
                /\ Wrote(r, t) /\ Settle(r, t, got)
      /\ UNCHANGED <<chain, history, known, stale, jobs, faults>>

TouchCheckAt(r) ==
  /\ Busy(r) /\ reading[r].at = "check"
  /\ stale' = stale \ {reading[r].token}
  /\ End(r)
  /\ UNCHANGED <<chain, history, owner, known, jobs, lapsed, faults>>

-----------------------------------------------------------------------------
\* A reading dies at any of its steps: with its pod, or by an error of the
\* database.  The row of a fetch is given back; nothing gives a transfer back.
Die(r) ==
  LET t == reading[r].token
  IN  /\ Busy(r) /\ faults < MaxFaults
      /\ faults' = faults + 1
      /\ End(r)
      /\ IF reading[r].kind = "fetch"
           THEN open' = open \cup {t} /\ UNCHANGED lapsed
           ELSE lapsed' = lapsed \cup {t} /\ UNCHANGED open
      /\ UNCHANGED <<chain, table, unverified, verified, found>>

\* A pod dies with the rows a sweep has yet to create.
LoseSweep ==
  /\ found # {} /\ faults < MaxFaults
  /\ faults' = faults + 1
  /\ found' = {}
  /\ UNCHANGED <<chain, table, unverified, verified, open, reading, raced, lapsed>>

Step(r) ==
  \/ FindHistory(r) \/ SaveHistory(r) \/ FindToken(r) \/ AskUri(r) \/ Ask(r)
  \/ WriteHistory(r) \/ Upsert(r) \/ WriteFetched(r) \/ TouchCheckAt(r)

Next ==
  \/ \E t \in Token, a \in Owner : Move(t, a)
  \/ \E w \in Worker : SyncLocalCache(w)
  \/ \E w \in Worker, t \in Token, x \in 1..MaxMoves : ProcessLogs(w, t, x)
  \/ \E r \in Reader, log \in logs : CallCreateHistory(r, log)
  \/ \E r \in Reader, t \in Token : BeginVerify(r, t) \/ BeginFetch(r, t)
  \/ \E r \in Reader : Step(r) \/ Die(r)
  \/ \E t \in Token : GrowStale(t) \/ CreateFetchRow(t)
  \/ SweepOwners \/ LoseSweep

Spec == Init /\ [][Next]_vars

(* Workers, crons and handlers go on and time passes; nothing makes the    *)
(* chain move or a call fail.                                              *)
Fairness ==
  /\ \A r \in Reader : WF_vars(Step(r))
  /\ \A t \in Token : /\ WF_vars(GrowStale(t)) /\ WF_vars(CreateFetchRow(t))
                      /\ WF_vars(\E r \in Reader : BeginFetch(r, t))
  /\ WF_vars(SweepOwners)

FairSpec == Spec /\ Fairness

-----------------------------------------------------------------------------
(* Properties.                                                             *)

\* A transfer of the token still has to be looked at, by a reading or a job.
Unseen(t) ==
  \/ \E m \in mined \cup logs : m.token = t
  \/ t \in unverified
  \/ \E r \in Reader : On(r, t) /\ reading[r].kind \in {"history", "verify"}

\* An owner that is shown is one the token has had on chain, however old the answer is
\* when it is written: no call that fails and no interleaving of the three writers
\* makes one up.  The zero address is shown of an id that was not minted when it was
\* asked for, if a base makes a URI of it; and then only until its mint is dealt with.
OwnerWasHeld ==
  \A t \in Token :
    \/ owner[t] \in past[t] \cup {Null}
    \/ HasBase /\ owner[t] = Zero /\ (past[t] = {} \/ Unseen(t) \/ t \in lapsed)

\* An owner that is not the present one is about to be corrected, or it has a cause
\* the code cannot see: a reading that died after its transfer was saved, a failed
\* call, a topicPool that did not know the contract, two readings that wrote in the
\* other order than they asked, or a verification that found the token burned.
\* In particular the transfer that is taken for another of its transaction loses nothing.
StaleOwnerExplained ==
  \A t \in known : owner[t] = holder[t] \/ Unseen(t) \/ t \in lapsed

\* Once the chain is still, the owner shown becomes the present one, whatever
\* went wrong before, unless the zero address is shown: that one is never checked
\* again.
OwnerSettles ==
  \A t \in Token : <>[](t \in known /\ owner[t] # Zero => owner[t] = holder[t])
=============================================================================
