------------------------------- MODULE BlockSync -------------------------------
(***************************************************************************)
(* How the blocks of one chain reach the transfer history.                 *)
(*                                                                         *)
(* The watcher listens for new heads on a web socket and adds one job per  *)
(* head n to the evmEvents queue; the job reads block n - Conf.  When it   *)
(* starts it also adds the heads between the last block that was synced    *)
(* (the cursor, in Redis) and the present head.  The workers read the logs *)
(* of the block, start to save its transfers without waiting for them, and *)
(* move the cursor with a get and a set.                                   *)
(*                                                                         *)
(* A head that nobody heard is not noticed by anyone: the watcher checks   *)
(* every 30 seconds that its socket is not closed, and opens another, but  *)
(* only its own start looks back.                                          *)
(***************************************************************************)
EXTENDS Integers, FiniteSets

CONSTANTS
  Conf,        \* confirmations (12 by default)
  MaxHead,     \* bound: the last head mined
  Execution,   \* handlers of syncBlock that can run at once (10 in the code)
  Nobody,      \* no execution
  MaxFaults,   \* bound: closed sockets, RPC, Redis and database errors, dead workers
  MaxRestart   \* bound: how often the watcher dies

FirstHead == 2 * Conf + 1   \* far enough for every block number to be positive
Head == FirstHead..MaxHead
Block == 1..(MaxHead - Conf)
NoHead == 0
NoBlock == 0

ASSUME BoundAssumption ==
  /\ {Conf, MaxFaults, MaxRestart} \subseteq Nat
  /\ MaxHead \in Nat /\ MaxHead > FirstHead
ASSUME NobodyAssumption == Nobody \notin Execution

VARIABLES
  head,        \* the chain's head
  socket,      \* the web socket provider: none, open, closed
  subscribed,  \* subscribeChainId
  listening,   \* the block listener is on that provider
  boot,        \* where onModuleInit of the watcher is
  from, to,    \* lastBlockSync and currentBlockNumber of processPreviousBlocks
  next,        \* the loop of syncBlock
  pending,     \* heads heard whose queue.add has not been made
  job,         \* the Bull job of each head: none, wait, active
  holder,      \* the handler whose result Bull waits for
  at,          \* the head each handler works for
  pc,          \* where each handler is
  known,       \* the cursor as the handler read it
  cursor,      \* last-block-syc, NoBlock when Redis has none
  saving,      \* blocks whose transfers are being saved, by nobody's leave
  saved,       \* blocks whose transfers are all saved
  lost,        \* history: blocks given up by a failed or killed step
  unheard,     \* history: heads mined that no job was added for
  faults, restarts

link == <<socket, subscribed, listening>>
range == <<from, to, next>>
watcher == <<link, boot, range, pending>>
queue == <<job, holder>>
handlers == <<at, pc, known>>
transfers == <<saving, saved>>
workers == <<queue, handlers, cursor, transfers, lost>>
bounds == <<faults, restarts>>
vars == <<head, watcher, workers, unheard, bounds>>

TypeOK ==
  /\ head \in Head
  /\ socket \in {"none", "open", "closed"}
  /\ {subscribed, listening} \subseteq BOOLEAN
  /\ boot \in {"down", "subscribe", "height", "cursor", "loop", "done", "stuck"}
  /\ {from, to, next} \subseteq 0..MaxHead
  /\ pending \subseteq Head
  /\ job \in [1..MaxHead -> {"none", "wait", "active"}]
  /\ holder \in [1..MaxHead -> Execution \cup {Nobody}]
  /\ at \in [Execution -> 0..MaxHead]
  /\ pc \in [Execution -> {"idle", "logs", "get", "set", "return", "throw"}]
  /\ known \in [Execution -> 0..(MaxHead - Conf)]
  /\ cursor \in 0..(MaxHead - Conf)
  /\ saving \cup saved \cup lost \subseteq Block
  /\ saving \cap saved = {}
  /\ unheard \subseteq Head
  /\ faults \in 0..MaxFaults /\ restarts \in 0..MaxRestart

Init ==
  /\ head = FirstHead
  /\ socket = "none" /\ subscribed = FALSE /\ listening = FALSE
  /\ boot = "subscribe" /\ from = 0 /\ to = 0 /\ next = 0
  /\ pending = {}
  /\ job = [n \in 1..MaxHead |-> "none"]
  /\ holder = [n \in 1..MaxHead |-> Nobody]
  /\ at = [e \in Execution |-> NoHead]
  /\ pc = [e \in Execution |-> "idle"]
  /\ known = [e \in Execution |-> NoBlock]
  /\ cursor = NoBlock
  /\ saving = {} /\ saved = {} /\ lost = {} /\ unheard = {}
  /\ faults = 0 /\ restarts = 0

Fault == faults < MaxFaults /\ faults' = faults + 1 /\ UNCHANGED restarts

Heard == socket = "open" /\ listening

-----------------------------------------------------------------------------
(* The chain and the socket (external).                                    *)

Mine ==
  /\ head < MaxHead
  /\ head' = head + 1
  /\ IF Heard
       THEN pending' = pending \cup {head + 1} /\ UNCHANGED unheard
       ELSE unheard' = unheard \cup {head + 1} /\ UNCHANGED pending
  /\ UNCHANGED <<link, boot, range, workers, bounds>>

CloseSocket ==
  /\ socket = "open" /\ Fault
  /\ socket' = "closed"
  /\ UNCHANGED <<head, subscribed, listening, boot, range, pending, workers, unheard>>

-----------------------------------------------------------------------------
(* The watcher.                                                            *)

Boots(where, then) == boot = where /\ boot' = then

\* subscribeBlockNumberByChainId, called by onModuleInit: the flag, the provider of
\* the pool (or a new one), the listener.
Subscribe ==
  /\ Boots("subscribe", "height")
  /\ subscribed' = TRUE
  /\ IF subscribed
       THEN UNCHANGED <<socket, listening>>
       ELSE /\ socket' = IF socket = "none" THEN "open" ELSE socket
            /\ listening' = TRUE
  /\ UNCHANGED <<head, range, pending, workers, unheard, bounds>>

\* processPreviousBlocks: the head, then the cursor or else the head.
GetBlockNumber ==
  /\ Boots("height", "cursor")
  /\ to' = head
  /\ UNCHANGED <<head, link, from, next, pending, workers, unheard, bounds>>

GetLatestBlockNumberSync ==
  /\ Boots("cursor", "loop")
  /\ from' = IF cursor = NoBlock THEN to ELSE cursor
  /\ next' = from'
  /\ UNCHANGED <<head, link, to, pending, workers, unheard, bounds>>

\* One of the steps so far throws: nobody awaits onModuleInit's promise, and the
\* process goes on.
BootFails ==
  /\ \/ boot = "subscribe" /\ ~subscribed
     \/ boot \in {"height", "cursor"}
  /\ Fault
  /\ boot' = "stuck"
  /\ UNCHANGED <<head, link, range, pending, workers, unheard>>

\* enqueueBlockSync(n): Bull adds no second job with the id of n.
EnqueueBlockSync(n) ==
  /\ job' = [job EXCEPT ![n] = IF @ = "none" THEN "wait" ELSE @]
  /\ unheard' = unheard \ {n}

\* range(from, to): lodash counts down when the cursor is past the head that was asked for.
Following == IF next < to THEN next + 1 ELSE next - 1

\* Mutant: a range without its last block.
InRangeShort == next # to /\ Following # to

\* syncBlock: range(from, to) leaves `to` out.
InRange == next # to

SyncBlock ==
  /\ boot = "loop" /\ InRange
  /\ EnqueueBlockSync(next)
  /\ next' = Following
  /\ UNCHANGED <<head, link, boot, from, to, pending, holder, handlers, cursor, transfers, lost, bounds>>

SyncBlockDone ==
  /\ ~InRange /\ Boots("loop", "done")
  /\ UNCHANGED <<head, link, range, pending, workers, unheard, bounds>>

\* The listener adds the job of a head it heard.
OnBlock(n) ==
  /\ n \in pending
  /\ pending' = pending \ {n}
  /\ EnqueueBlockSync(n)
  /\ UNCHANGED <<head, link, boot, range, holder, handlers, cursor, transfers, lost, bounds>>

\* queue.add fails: logged, and the block is forgotten.
AddFails(n) ==
  /\ Fault
  /\ \/ n \in pending /\ pending' = pending \ {n} /\ UNCHANGED next
     \/ boot = "loop" /\ InRange /\ n = next /\ next' = Following /\ UNCHANGED pending
  /\ unheard' = unheard \ {n}
  /\ lost' = lost \cup {n - Conf}
  /\ UNCHANGED <<head, link, boot, from, to, queue, handlers, cursor, transfers>>

\* checkingIfSocketConnectionIsStillOpen: a closed provider is replaced and
\* subscribed again; the first provider may also be its doing, without a listener.
CheckSocket ==
  /\ boot # "down"
  /\ \/ socket = "none" /\ UNCHANGED <<subscribed, listening>>
     \/ socket = "closed" /\ subscribed' = TRUE /\ listening' = TRUE
     \/ socket = "open" /\ UNCHANGED <<subscribed, listening>>
  /\ socket' = "open"
  /\ UNCHANGED <<head, boot, range, pending, workers, unheard, bounds>>

CrashWatcher ==
  /\ boot # "down" /\ restarts < MaxRestart
  /\ restarts' = restarts + 1
  /\ boot' = "down"
  /\ socket' = "none" /\ subscribed' = FALSE /\ listening' = FALSE
  /\ from' = 0 /\ to' = 0 /\ next' = 0
  /\ pending' = {}
  /\ unheard' = unheard \cup pending
  /\ UNCHANGED <<head, workers, faults>>

StartWatcher ==
  /\ Boots("down", "subscribe")
  /\ UNCHANGED <<head, link, range, pending, workers, unheard, bounds>>

-----------------------------------------------------------------------------
(* The queue and its handlers.                                             *)

Goto(e, where) == pc' = [pc EXCEPT ![e] = where]

\* Mutant: the confirmations are not subtracted.
BlockOfHead(e) == at[e]

\* The block a handler works for.
BlockOf(e) == at[e] - Conf

StartHandler(e, n) ==
  /\ pc[e] = "idle" /\ job[n] = "wait"
  /\ job' = [job EXCEPT ![n] = "active"]
  /\ holder' = [holder EXCEPT ![n] = e]
  /\ at' = [at EXCEPT ![e] = n]
  /\ Goto(e, "logs")
  /\ UNCHANGED <<head, watcher, known, cursor, transfers, lost, unheard, bounds>>

\* Mutant: a block below the cursor counts as synced.
GetLogsAboveCursor(e) ==
  /\ pc[e] = "logs"
  /\ saving' = saving \cup ({b \in {BlockOf(e)} : b > cursor} \ saved)
  /\ Goto(e, "get")
  /\ UNCHANGED <<head, watcher, queue, at, known, cursor, saved, lost, unheard, bounds>>

\* getLogsByChainIdAndBlockNumber: the transfers start to be saved.
GetLogs(e) ==
  /\ pc[e] = "logs"
  /\ saving' = saving \cup ({BlockOf(e)} \ saved)
  /\ Goto(e, "get")
  /\ UNCHANGED <<head, watcher, queue, at, known, cursor, saved, lost, unheard, bounds>>

\* The first endpoint that answers is believed: one that is behind has no logs of the
\* block, whose header comes from another pool.
GetLogsBehind(e) ==
  /\ pc[e] = "logs" /\ Fault
  /\ lost' = lost \cup {BlockOf(e)}
  /\ Goto(e, "get")
  /\ UNCHANGED <<head, watcher, queue, at, known, cursor, transfers, unheard>>

\* No endpoint answers, or getBlock does not know the block.
GetLogsFails(e) ==
  /\ pc[e] = "logs" /\ Fault
  /\ Goto(e, "throw")
  /\ lost' = lost \cup {BlockOf(e)}
  /\ UNCHANGED <<head, watcher, queue, at, known, cursor, transfers, unheard>>

\* Mutant: the block is not compared with the cursor.
GetCursorUncompared(e) ==
  /\ pc[e] = "get"
  /\ known' = [known EXCEPT ![e] = cursor]
  /\ Goto(e, "set")
  /\ UNCHANGED <<head, watcher, queue, at, cursor, transfers, lost, unheard, bounds>>

\* saveLastBlockNumberSync: the get, with its comparison, and the set.
GetCursor(e) ==
  /\ pc[e] = "get"
  /\ known' = [known EXCEPT ![e] = cursor]
  /\ Goto(e, IF cursor = NoBlock \/ cursor < BlockOf(e) THEN "set" ELSE "return")
  /\ UNCHANGED <<head, watcher, queue, at, cursor, transfers, lost, unheard, bounds>>

SetCursor(e) ==
  /\ pc[e] = "set"
  /\ cursor' = BlockOf(e)
  /\ Goto(e, "return")
  /\ UNCHANGED <<head, watcher, queue, at, known, transfers, lost, unheard, bounds>>

\* The handler ends: a completed job and a failed one are removed alike.
Finish(e) ==
  /\ pc[e] \in {"return", "throw"}
  /\ IF holder[at[e]] = e
       THEN /\ job' = [job EXCEPT ![at[e]] = "none"]
            /\ holder' = [holder EXCEPT ![at[e]] = Nobody]
       ELSE UNCHANGED queue
  /\ at' = [at EXCEPT ![e] = NoHead]
  /\ known' = [known EXCEPT ![e] = NoBlock]
  /\ Goto(e, "idle")
  /\ UNCHANGED <<head, watcher, cursor, transfers, lost, unheard, bounds>>

\* createHistory of the transfers of a block ends, or one of them throws: nobody
\* hears of it.
SaveHistory(b) ==
  /\ b \in saving
  /\ saving' = saving \ {b} /\ saved' = saved \cup {b}
  /\ UNCHANGED <<head, watcher, queue, handlers, cursor, lost, unheard, bounds>>

SaveHistoryFails(b) ==
  /\ b \in saving /\ Fault
  /\ saving' = saving \ {b} /\ lost' = lost \cup {b}
  /\ UNCHANGED <<head, watcher, queue, handlers, cursor, saved, unheard>>

\* A worker dies with some handlers, and the saves they started.
CrashWorker ==
  /\ Fault
  /\ \E E \in SUBSET Execution, B \in SUBSET saving :
       /\ at' = [e \in Execution |-> IF e \in E THEN NoHead ELSE at[e]]
       /\ pc' = [e \in Execution |-> IF e \in E THEN "idle" ELSE pc[e]]
       /\ known' = [e \in Execution |-> IF e \in E THEN NoBlock ELSE known[e]]
       /\ holder' = [n \in 1..MaxHead |-> IF holder[n] \in E THEN Nobody ELSE holder[n]]
       /\ saving' = saving \ B
       /\ lost' = lost \cup B
  /\ UNCHANGED <<head, watcher, job, cursor, saved, unheard>>

\* The three minutes of `timeout` pass, or a busy process loses the lock of its job:
\* the handler runs on in both cases.
Outlive(n) ==
  /\ job[n] = "active" /\ holder[n] # Nobody /\ Fault
  /\ holder' = [holder EXCEPT ![n] = Nobody]
  /\ \/ job' = [job EXCEPT ![n] = "none"] /\ lost' = lost \cup {n - Conf}
     \/ UNCHANGED <<job, lost>>
  /\ UNCHANGED <<head, watcher, handlers, cursor, transfers, unheard>>

\* The stalled check: back to the queue, or failed when it stalled before.
RecoverStalled(n) ==
  /\ job[n] = "active" /\ holder[n] = Nobody
  /\ \/ job' = [job EXCEPT ![n] = "wait"] /\ UNCHANGED lost
     \/ job' = [job EXCEPT ![n] = "none"] /\ lost' = lost \cup {n - Conf}
  /\ UNCHANGED <<head, watcher, holder, handlers, cursor, transfers, unheard, bounds>>

-----------------------------------------------------------------------------
Watcher ==
  \/ Subscribe \/ GetBlockNumber \/ GetLatestBlockNumberSync
  \/ SyncBlock \/ SyncBlockDone \/ StartWatcher

Handler(e) == GetLogs(e) \/ GetCursor(e) \/ SetCursor(e) \/ Finish(e)

Next ==
  \/ Mine \/ CloseSocket
  \/ Watcher \/ BootFails \/ CheckSocket \/ CrashWatcher
  \/ \E n \in 1..MaxHead :
       \/ OnBlock(n) \/ AddFails(n) \/ Outlive(n) \/ RecoverStalled(n)
       \/ \E e \in Execution : StartHandler(e, n)
  \/ \E e \in Execution : Handler(e) \/ GetLogsFails(e) \/ GetLogsBehind(e)
  \/ \E b \in Block : SaveHistory(b) \/ SaveHistoryFails(b)
  \/ CrashWorker

Spec == Init /\ [][Next]_vars

-----------------------------------------------------------------------------
(* Properties.                                                             *)

\* Transfers are taken only from blocks with all their confirmations, whether the
\* listener, the start or a repeated job asked for the block.
OnlyConfirmed == \A b \in saving \cup saved : b + Conf <= head

Reached(b) == b \in saved \cup saving \cup lost

\* Whatever died, overlapped or came out of order, and however far the cursor is:
\* a block whose transfers are not saved still has its job, was given up by a step
\* that failed, or had a head that nobody heard.
HolesExplained ==
  \A n \in (FirstHead + 1)..head :
    Reached(n - Conf) \/ job[n] # "none" \/ n \in pending \cup unheard

\* Once its start is over, the watcher has added every head it had not heard
\* between the cursor and the one before the chain's head.
RestartCatchesUp ==
  boot = "done" => \A n \in unheard : n < from \/ n >= to

\* The cursor goes back only when a handler writes it that read it before another
\* one did the same: the get and the set are not one step.
CursorRegressesOnlyWhenStale ==
  [][cursor' < cursor => \E e \in Execution : pc[e] = "set" /\ known[e] # cursor]_vars
=============================================================================
