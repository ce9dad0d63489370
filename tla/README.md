# Verification of nft-tracker

TLA+ modules of the parts of nft-tracker that keep state over time, the TLC
configurations that check small instances of them, and theorems that TLAPS
proves for every instance. Paths are relative to the repository; `tokens/`
stands for `src/modules/tokens/`, `evm/` for `src/modules/blockchain/evm/`.

## The system

nft-tracker indexes ERC-721 collections. Its pods (`standalone`, `watcher`,
`worker`) share a PostgreSQL database (READ COMMITTED, TypeORM), a Redis with
Bull queues and a Redis cache, and talk to RPC nodes and Cloudinary.

| component | state | operations | interacts through | module |
|---|---|---|---|---|
| Token job lifecycle (`tokens/queue/tokens-job.processor.ts`, `tokens/tokens-jobs*.ts`) | rows of `tokens_jobs`: status, executeAt, startedAt, attempts; the Bull jobs | createJob, scheduleNextJobs (crons), execute (five handlers), checkJobsHaveAlreadyStartedButNotFinished | table, queue | TokenJobs, JobLifecycle |
| Verify-mint chain (`tokens/tokens-jobs-verify-mint.service.ts`, `src/modules/contracts/contract.service.ts`) | contracts, verify_mint rows, tokens | create, execute, verifyMintByTokensIds, resyncVerifyMint | table, one transaction per job | VerifyMint |
| Block synchronisation (`evm/evm-events.services.ts`, `evm/queue/`) | listener, evmEvents queue, cursor in Redis, topicPool | subscribe, processPreviousBlocks, syncBlock, syncBlockHandler | queue, cache, createHistory | BlockSync |
| EVM and ERC-721 providers, liveness (`evm/evm.service.ts`, `evm/providers/`, `src/modules/health/`) | pools of JSON-RPC and web socket providers, subscription flag | getWebSocketProviderByChainId, the 30-second check, the probe | configuration store, sockets | EvmProviders |
| Owner tracking (`tokens/tokens-transfer.service.ts`, `tokens/tokens-jobs-fetch-owner-address.service.ts`) | token_transfers, owner columns, topicPool | createHistory, execute, the sweep of owners seven days old | tokens, jobs | OwnerTracking |
| Metadata and media cache (`tokens/tokens-jobs-fetch-metadata.service.ts`, `tokens/tokens-jobs-upload-asset.service.ts`) | image, asset and asset-job columns of tokens; assets | updateMetadataToken, updateAssetToken, checkTokensWithoutMediaCache | tokens, assets, jobs | MediaCache |
| Refresh-token requests (`tokens/tokens-jobs.service.ts`, `tokens/tokens-jobs-refresh-token.service.ts`) | open refresh_token rows, URI and metadata shown | createRefreshTokenJob, execute | table | RefreshToken |
| Webhooks (`src/modules/webhook/`) | attempts and their codes | send, retry, the minute job | queue | Webhook |
| Configuration (`src/modules/configuration/`) | the table, a copy of it per pod | load, create, update, remove | table | ConfigurationStore |
| Pause, shutdown, repeatable jobs (`src/modules/queue/`, `src/common/helpers/`, `src/main.ts`) | paused queues, repeatable jobs | onModuleInit, onModuleDestroy, gracefulShutdownFn, scheduleRepeatableJob | Redis | Pods |
| Auth, swagger, metrics, DTOs, migrations, token queries | — | — | — | — |

What is hard: handlers, crons and Bull act on a row without locking it; jobs are
retried, stall and outlive their queue entry; a transaction and writes outside
of it touch the same row; the watcher's listener, its start and the workers move
one cursor; several promises are not awaited; what is read from the chain, a
table or a store is written some steps later, over whatever came in between.
`PROJECT.json` lists each hazard at its line, with the properties that would
catch it.

What makes each component correct:

* **jobs** – a row is worked on by one handler at a time; a 429 puts it off; it
  ends completed or failed through any crash; a closed row is not opened again.
* **chain** – it is neither cut nor multiplied; a batch that is closed is
  indexed; a collection is walked to its end.
* **blocks** – only confirmed blocks are read; no block is missing without a
  cause; a restart catches up.
* **providers** – a closed socket is replaced and listened to; a change of the
  configuration passes over no block unnoticed; the liveness probe recovers.
* **owners** – the owner shown is one the chain had, or zero of an id that was not minted; it is the present one, or
  the cause is known; a token that rests ends up with its holder.
* **media** – the columns of a token agree with one another, a copy that is shown
  is not lost, and what can be cached is cached or linked to a row.
* **refresh** – a request is answered by a row that asks the chain after it, rows
  do not pile up, and what is shown does not go back without a cause.
* **webhooks, pods** – a webhook that wants retries is sent again until it is taken,
  and not twice without a cause; the schedule survives releases; a pod that closed is idle.
* **configuration** – rows fit their schema; a pod knows what it served; a row
  that was created has its migration.

## Modules

Each module has a header that says what its state stands for and what it leaves
to others. Definitions marked `Mutant` are the bugs the properties are tried
against; they belong to no specification.

### TokenJobs (with JobLifecycle)

The rows of `tokens_jobs`, the polling crons, the Bull queue and the handlers.
A row has a `status`; `due` holds the created rows whose executeAt has passed
and `overdue` the started rows older than five minutes, so that time is two
sets and not a clock (`ComeDue`, `GrowOverdue`). `ScheduleNextJobs` is the find
of a cron and `QueueAdd` each of its `queue.add`: a crash may come between them,
and Bull ignores an id it knows. `Read`, `Claim`, `Complete`, `Fail`, `Backoff`,
`Abandon` are the steps of `execute`; `CheckFrozen` is one UPDATE per type.

Bull is external and modelled from the options the code gives it: attempts
(1 for verify_mint, 3 for the others), the 15-minute timeout (`Timeout`: the attempt fails, the
handler runs on), removeOnFail, removeOnComplete with an age (`kept`,
`PurgeKept`), lost locks and the stalled check. A row whose Bull job was taken
from a running handler is remembered in `outlived`: for such rows exclusivity
cannot hold, and the properties say so instead of assuming it away.

`JobLifecycle` is what the rest of the tracker may rely on: a row opens once, ends
completed or failed, stays what it became unless it was outlived, and may open its
successor as it completes. TokenJobs and VerifyMint both implement it
(`ImplementsLifecycle`; open = created or started): TokenJobs with the queue and without
the work, VerifyMint with the work and without the queue. This is what ties the
two: VerifyMint lets a second handler onto a row only as a counted fault that
marks the row outlived, and TokenJobs shows that there is no other way to get there.

### VerifyMint

Rows of type verify_mint of one contract without a base URI, the transaction of
each handler (`tx`: token rows it has upserted and locked), the statuses written
outside of it, the two requests that may create the contract, and transfers of
unknown tokens. A token and the fetch_metadata row that `upsertToken` inserts
with it appear and disappear together, and are one element of `tokens`. What
PostgreSQL does is modelled as the code meets it: an upsert waits
for a row another open transaction wrote, a cycle of waits is broken by
aborting one, a status written outside waits for a row a transaction has
updated. `HangOnOwnLock` is the handler that waits for itself. The conditions
under which a second handler is on the same row are TokenJobs' subject; here it
joins only as a counted fault. In `ImplementsLifecycle` a claim is a stutter (or an
`Outlive`), `Fail` a `Turn`, and `Commit` a `Succeed`, which completes the row and opens
its successor at once, or a `Turn` when nothing was found.

### BlockSync

One chain: heads, the socket and its listener, the watcher's start
(`boot`), the queue (one Bull job per head `n`, which reads block `n - Conf`),
the handlers with the get and the set of the cursor, and the transfers that are
saved behind the job's back (`saving`). A start whose cursor has already passed the
head it asked for counts down (`Following`), as lodash's range does. `unheard` and `lost` are history: heads
no job was added for, and blocks given up by a step that failed. The watcher
and the workers die apart (a standalone pod that dies is both).

### EvmProviders

What BlockSync takes for granted of the socket. `row` is the EVM item of the
pod's configuration, `up` the endpoints that answer; `rpc` and `ws` are the two
pools, `hears` the confirmations the listener of the pooled socket was made with.
`CheckSocket` is the 30-second cron: a closed socket is unsubscribed, replaced
(`Replaced`: the old one is destroyed before a URL is looked for) and listened
to; a missing one is made, and nobody listens to it. `Subscribe` is
onModuleInit. `ProbeSocket` and `ProbeRpc` are the two halves of the liveness
request, between which anything may happen. `asked` is what the listener asked for;
that `enqueueBlockSync` swallows a failing `queue.add` is `AddFails` of BlockSync. The row, the endpoints and the other
indicators change at any time.

### OwnerTracking

The three writers of `owner_address`: createHistory (find, save, find of the
token, call, update), verify_mint (calls for the URI, call for the owner, upsert) and
fetch_owner_address with its sweep. Each reads the owner in one step (`Ask`) and writes
in a later one. verify_mint asks for the URI first (`AskUri`): a call that fails looks
like a token without one, which is passed over. With a base URI (`HasBase`) an id that
is not minted has a URI too, and its row is written with the zero address, for
`ownerOf` reverts; `OwnerWasHeld` names that case, and says when it ends. A
transfer is its token and transaction; a transaction of `Doubled` moves the token
twice with one transactionIndex, as the code's lookup meets it. A worker
knows a contract once `SyncLocalCache` has run there; before, `ProcessLogs` drops
its transfers. `lapsed` remembers tokens whose owner a cause the code cannot
see may have left behind, `raced` the readers another write overtook: a later
write of the present owner makes good for both.

### RefreshToken

Requests look for an open row (`FindRefresh`) and insert one (`InsertRefresh`),
two steps that cross. A row asks the contract for the URI (`AskContract`), upserts it,
fetches the metadata of the URI that is in the table then, writes it and completes.
The chain is a version per token, 0 before its mint; a URI is a version with or without
the base, `got` is the one the row was told and `content` what it fetched. A call that
fails is an answer like any other, null: then the token is passed over, the row goes on
with the URI the token has, and `hidden` remembers it.

Two more programs write the same columns. verify_mint asks and upserts in two
steps (`AskForMint`, `UpsertMint`). And whoever writes a URI also inserts a
fetch_metadata row that carries it (`UpsertToken`), executed whenever its turn
comes, as often as the table gives it back (`ExecuteFetchMetadata`; `fetches` keeps
the URIs). `crossed` remembers tokens of which two rows asked and wrote at once,
`behind` those whose metadata a fetch_metadata row of an older URI, or a refresh
from which an answer was hidden, has made older than a refresh; the next
write of newer metadata makes good for that.

### MediaCache

The columns `imageRawUrl`, `hasMetadata`, `assetId`, `hasAsset` and
`assetTokenJobId` of tokens (`image`, `hasMetadata`, `assetOf`, `hasAsset`,
`linked`), the rows of `tokens_assets` and the four programs that write them
without a lock: the fetch_metadata handler, the upload_asset handler, the
refresh_token handler, which does the work of both, and the cron
`checkTokensWithoutMediaCache`. Each find and each UPDATE is a step of its own,
and what a find returned (`work[e].asset`, `work[e].job`) is kept until the UPDATE
that uses it. An asset is named by its URI, which its publicId is a hash of. An
URL answers one of `Serves[t]`: an image, content without an image, or nothing.

The life of a row is TokenJobs' subject: here created rows are counted
(`fetches`, `uploads`), starting takes one and a crash gives it back; for
`uploadRows`, rows of any status are counted, as the finds of the cron and of
updateMetadataToken ask for. The metadata cron's lookup and insert are one step;
the lookup and the insert of the media cron are two, because its runs
overlap (`Cron`). TypeORM is modelled as the code meets it: a column set to
undefined keeps its value (`Defined`), so a metadata update that finds no asset
writes `hasAsset = false` and leaves `assetId`; the group of tokens whose image is
null is passed over, because null in the where of `findOne` is no condition and
null in the criteria of `update` equals nothing.

### ConfigurationStore

`tables` are the states the table has had, so that a load can be of an earlier
one; `store` is the copy of each pod and `since` the state it is of. A load is a
query (`LoadFind`) and an assignment (`LoadApply`), and throws when an active row
does not fit its schema. Update and creation are find, write and load; a
creation then writes the types and the migration, in the same step as the assignment, or
fails to (`written`): what it awaits in between touches nothing that is modelled, and a
crash there is one before the assignment, for the copy dies with the pod. A removal loads
nothing. `Sql` is an operator's statement, which no schema checks. `behind`
remembers pods whose table was changed by another hand, or whose loads crossed.

### Webhook and Pods

`Webhook` has the attempts (`code`), the retries in the queue and the workers:
one is idle, posts, logs, or pages through the failed attempts (`AddRetry`, `NextPage`,
`Turn`, `Page`: an offset into a set that shrinks while it is read). The scan leaves out
attempts whose sender set `retry` to false (`retryOn`): these fail once and stay
failed, and `FailureRetried` is about the others. Nothing in
`src/` calls `WebhookService.send` yet: `Send` is whoever will, once for each
webhook, with retries or without. `taken` is history: the endpoint took it once, twice, or maybe more
for a cause that no sender can see.

`Pods` extends it with the pods its workers run in: start, `scheduleRepeatableJob`
(list, remove what dangles, add), the signal, pause, exit, the 30-second timer and
the crash. A repeatable job is its id and cron; releases differ in the cron.
A dead pod's jobs come back or are lost (`Die`).

## Runs

| run | instance | shows |
|---|---|---|
| jobs | a fetch_metadata and a refresh_token row, 2 handlers, 1 answer 429, 1 fault | TypeOK, ExclusiveExecution, BackoffRespected, ImplementsLifecycle, WatchedJobsClose, UnwatchedJobsCloseOrOrphan |
| mint_safety | 3 tokens (one minted meanwhile), 5 rows, 2 handlers, 1 transfer, 1 fault | ChainUnbroken, RowsAccounted, BatchIndexed, ImplementsLifecycle |
| mint_live | 2 creators, jobs of 2 ids and of 1, 2 tokens, 5 rows, 2 handlers, 1 fault | RowsClose, CollectionIndexed |
| mint_resync | 1 creator, 1 handler | violation of ResyncAfterAnHour |
| blocks | 2 heads after the first, 2 handlers, 1 fault, 1 restart | TypeOK, HolesExplained, RestartCatchesUp, CursorRegressesOnlyWhenStale |
| media_safety | 2 tokens, 2 images, 2 handlers, 1 sweep at a time, 1 change, 1 refresh | TypeOK, HasAssetIsTrue, UploadRowsBounded, CopyKept |
| media_live | 2 tokens with one id, late metadata, 1 handler, 1 sweep, 1 fault | MediaSavedOrLinked, MetadataArrives |
| owners | 1 token with a base URI, 2 transactions (one of two transfers), 3 kinds of reading, 2 at once, 1 fault | OwnerWasHeld, StaleOwnerExplained, OwnerSettles |
| config | 2 pods, 2 requests at once, 2 rows, 3 changes, 1 crash | RowsFit, StoreCurrent, CreatedMigrated |
| evm | confirmations 1, 2 or 4, 5 heads, 2 changes, 1 closing, no default socket | DeafExplained, GapExplained, AlarmEnds |
| refresh | 1 token with a base URI, 2 requests at once, 2 rows, 1 verify_mint, 2 versions, 1 fault | OpenRowsBounded, RequestCovered, ShowsLatest |
| pods | 2 pods, 2 crons, 2 webhooks on pages of one, 1 fault | TypeOK, SentTwiceExplained, MissingExplained, OldCronGone, ClosedIsIdle, FailureRetried |

**Bounds.** Two handlers are what an overlap needs, and one fault next to them
what a recovery needs; every number of both is left to the theorems.
`MaxAttempts` (answers 429) only bounds a counter: nothing in the code ends the
backoff, so WatchedJobsClose says that a row ends if its answers stop being 429.
In mint_safety first jobs
of 1 id and next jobs of 2 (5 and 10 in the code) keep a full batch, a partial
batch and an empty one; in mint_live jobs of 2 ids and then 1 let the chains of
two creations meet in opposite orders in their first batches. `MaxRow` is chosen so
that no chain of mint_live reaches it. With one
confirmation the cursor is one head behind, which is enough for the restart to
look back over blocks it has read and for the race to pass one. Two tokens are what an image shared
or an id shared needs, two images what a change needs; two handlers put a
metadata update and an upload of one token against each other. Sweeps that overlap
are left to the theorem, which bounds the upload rows for any number of them.
media_safety leaves crashes out (a handler that
dies between two of its steps is one that is never scheduled again, which safety
already covers); media_live has them.

In owners and refresh tokens share nothing, and one is an instance; two
transactions and a doubled one are what a stale answer and the lookup by
transactionIndex need. Both have a base URI, with which a call can fail in one more
way and an answer can be wrong rather than empty; without one the states are fewer
(`HasBase = FALSE` passes as well), and the theorems cover both. In refresh two rows and
one verify_mint of a token are what crossing needs, and one fault is a call that
fails, a row that fails or a handler that dies, next to fetch_metadata rows that run as
often as they like. In evm the confirmations differ by three, because a listener
whose confirmations sink passes over as many blocks as they sank: a difference of
one or two hides what a greater one shows. In config pods and requests are
symmetric, for nothing in the module tells one from another; one request updates the
schema while another creates a row, and the bodies are chosen so that one of two crossed
writes would leave a value beside a schema it does not fit. In pods one webhook
has failed before and one is yet to fail, and pages hold one attempt, so that a
page slips when a retry takes its row out of the scan; one pod runs the old release and
one the new, as while a deployment rolls, and either may start again. Other pairs of
releases, and more pods, are left to the theorems.

**Fairness.** Crons tick, workers take jobs, a handler that was called goes on,
a socket opens or is refused, a request of the probe comes: weak fairness of each
of those actions. Nothing makes a row appear, a block be mined, a token move or a
fault happen, and in Pods nothing makes a pod start or stop. Some assumptions deserve
a word. `PurgeKept` is fair because a busy queue completes other jobs, which is
when Bull removes kept ones: the last row of an idle queue would stay blocked
(a listed hazard). `AbortDeadlock` is fair because PostgreSQL looks for
deadlocks after a second of waiting. In MediaCache the starts of the
handlers are strongly fair, since rows share the handlers and are taken in the order they
came; the metadata cron is strongly fair for each token, since it takes its
tokens in random order each minute while fetches of them come and go. In Pods a
retry that waits while workers come free again and again is taken (one queue,
first in, first out), and so is the minute's scan; not a particular retry, which is
more than the property needs. In EvmProviders a socket whose endpoint no longer answers
closes in the end.

`ResyncVerifyMint` is a cron that is always enabled and, as the code stands,
changes nothing; `CheckSocket` likewise when the socket is open. The deadlock
check is on except in config, evm, refresh and pods: there requests, changes and
starts of pods are bounded and come from outside, and when they are used up the
system rests.

## Findings

`mint_resync`: `differenceInMinutes(last, now)` is never positive, so the
hourly resync (`tokens/tokens-jobs-verify-mint.service.ts:205`) inserts
nothing, against `CHANGELOG.md:121`.

Other places where the code differs from its docs or comments. The first three
have the property that allows them; the rest came up in reading:

* `evm/evm-events.services.ts:139`: lodash's range excludes its end, so that the
  head at a restart is in neither the range nor the listener's later heads, against
  `CHANGELOG.md:74` (RestartCatchesUp says `n >= to`).
* `evm/queue/evm-events-watcher.processor.ts:20-21`: the listener is on before the
  cursor is read; a head heard and synced in between moves the cursor past heads
  mined while the pod was down (RestartCatchesUp says `n < from`).
* `tokens/tokens-jobs-fetch-metadata.service.ts:243`: a link to an upload row is never
  cleared, so the image that comes later is not uploaded, against `README.md:41`
  (MediaSavedOrLinked allows a linked token).
* `src/common/helpers/queue.helper.ts:5`: "removes all repeatable jobs with a given
  id", but a single one is left; the first pod of a release with another cron
  leaves the old schedule beside its own (OldCronGone asks for two).
* `src/main.ts:78,85`: `exitHandler(1, ...)` returns a function nobody calls, so
  that an unhandled error does not end the pod. Pods has no such exit.
* `evm/evm-events.services.ts:46`: a block of Moonbeam is read at every start and
  its answer dropped.

What the passing runs allow shows the limits of what does hold. A refresh_token row
whose handler dies stays started for ever (`UnwatchedJobsCloseOrOrphan`) and every
later request joins it. A chain ends at the first failed row or the first batch of
RPC errors (`CollectionIndexed`). A block given up by a failed step, or mined while the
socket was closed, stays missing (`HolesExplained`). A token that is linked to a row
is never looked at again (`MediaSavedOrLinked`): the row may have failed, or may have been over
before that token's image was written, whose update had looked for the asset too
early. The sweep of owners leaves out the zero address (`OwnerSettles`), and a burned
token keeps its former owner when verify_mint passes over it. A request may join
a refresh that has already asked the contract, and an RPC error during a refresh
leaves the token its old URI while the row completes (`RequestCovered`). A
fetch_metadata row that is executed late puts the metadata of an older URI over newer
(`ShowsLatest`). An id of a contract with a base URI that is not minted yet is stored
with the zero address as its owner (`OwnerWasHeld`), which the sweep leaves out: only
its mint, seen as a transfer, or a verification corrects it. A webhook sent with
`retry: false` is sent once. A forced
replacement of a socket without a URL leaves a destroyed provider in the pool, on
which the check throws for ever (`AlarmEnds`). A pod learns of another pod's update
only at its next load (`StoreCurrent`).

## Proofs

Eight modules `*_proofs`, each for every value of the constants that satisfies the
assumptions of its module (sets are disjoint from their null values, bounds are
naturals, sets that are counted are finite, the seeded rows fit). In each, one
invariant (`IInv` in most) holds initially and is preserved by every action; the theorems
follow from it by temporal reasoning. Below, the theorems, and what had to be added
to make the properties inductive.

* **TokenJobs_proofs** – `TypeCorrect`, `Exclusive` (ExclusiveExecution),
  `BackoffIsRespected`, `Implements` (ImplementsLifecycle, the refinement).
  Exclusivity is not inductive: that a Bull job is waiting says nothing of the
  handlers unless a handler works for a row only while Bull has an active job of
  it with that handler as its holder, or the row was outlived (`Held`), an idle
  handler works for nothing and a busy one for a row (`Busy`), only rows that were
  inserted are picked, queued or worked on (`Inserted`), and a row a handler is
  about to claim or works on has the status it left it with (`Undisturbed`), on
  which the backoff and the refinement rest: every write of a handler is a step of
  `MayTurn` or a stutter (`WriteTurns`).
* **VerifyMint_proofs** – `TypeCorrect`, `ChainNeverBroken`, `BatchAlwaysIndexed`,
  `RowsAlwaysAccounted`, `Implements` (the refinement of JobLifecycle). The table is filled from its first row and every row has
  consecutive ids (`Filled`, `Shaped`), which gives the successor its row. What an
  execution holds (`Hold`): every id that was minted when it began is still to be
  asked for, found, or written off as an error. `Alone`: two executions are on a
  row only when one outlived its job. The refinement rests on them: whoever commits or
  fails has a row that is open, or outlived (`OwnRow`), and what an insertion
  fills is a row that was absent (`InsertCreates`). For the accounting, the theorems on finite
  sets count rows and their origins: a step adds as many to one as to the other.
* **BlockSync_proofs** – `TypeCorrect`, `OnlyConfirmedAlways`,
  `HolesAlwaysExplained`, `RestartAlwaysCatchesUp`,
  `CursorAlwaysForwardUnlessStale`. The cursor is the block of a head that was mined
  (`CursorMined`); what is heard, looped over, queued and worked on is a head that
  was mined and whose block has a positive number (`Watched`, `JobsAskable`,
  `Handled`) – not obvious, since the start takes the cursor, a block, for a head; and the
  heads nobody heard are out of what the loop has passed (`Passed`). The
  cursor theorem adds that a handler at its set compared with what it read.
* **Pods_proofs**, about Pods and Webhook – `TypeCorrect`, `SentTwiceAlwaysExplained`,
  `MissingAlwaysExplained`, `OldCronAlwaysGone`, `ClosedAlwaysIdle`, from the invariant
  `PodInv`, in three parts. Webhooks: a worker has a webhook exactly while it sends
  one (`Busy`), and what is paged or sent again has its row (`Paged`); a webhook two
  workers send at once is noted as perhaps taken twice (`Crossed`); and one the
  endpoint took once is recorded as taken, or whoever has it is about to record it
  (`Recorded`), which is why a second retry in the queue finds the row of the first and
  stops. Schedules: a pod that schedules has a cron (`Planned`); while one schedules
  alone, what it has still to remove is all Redis holds, and the one job it may leave
  is the one scheduled last (`Sole`); schedulings that overlap leave nothing to count
  on (`Beside`); between schedulings the last cron is there (`Left`). Processes: a worker
  is in a pod that is there (`Housed`). Nothing is assumed of the number of
  pods, of their workers or of the releases they run.
  The module also has the theorems of **EvmProviders** – `EvmTypeCorrect`,
  `DeafAlwaysExplained`, `GapAlwaysExplained`, from `EvmInv`. A subscribed chain without
  a socket was subscribed without one (`Muted`); a block was asked for by a listener
  (`Asked`). The gap is stated for every pair of a block asked for and a later one up to
  where the listener has come (`Front`), not for successive blocks asked for: when the
  confirmations rise and sink, the block asked for next may be below ones asked for
  earlier.
* **OwnerTracking_proofs** – `TypeCorrect`, `OwnerWasHeldAlways`,
  `StaleOwnerAlwaysExplained`. What a reader is about to write is an owner its
  token had, null, or the zero address that a base URI admits (`Held`); a token is where one of its owners is (`ChainHeld`);
  without a base URI rows are of minted tokens (`RowsMinted`). For stale owners, a reader that was not
  overtaken and holds an answer that is no longer true has a transfer on the way.
* **RefreshToken_proofs** – `TypeCorrect`, `OpenRowsAlwaysBounded`,
  `RequestAlwaysCovered`, `ShowsAlwaysLatest`. No answer is newer than the chain, and one
  from which nothing was hidden has the base (`Rows`), so that a URI of a positive
  version leads to its metadata. What a request waits for was asked after it, unless it
  came late (`Requests`). Of a token that is not crossed one row at a time is executed,
  with no verify_mint under way (`InTurn`): its answer is not older than those before
  (`Running`), and a row that is through has left metadata that is not older than
  its answer, or the token is noted as behind (`Through`).
* **ConfigurationStore_proofs** – `TypeCorrect`, `RowsAlwaysFit`,
  `StoreAlwaysSnapshot` (StoreIsSnapshot, which no run checks: a copy is one state of
  the whole table), `StoreAlwaysCurrent`, `CreatedAlwaysMigrated`. What
  a request holds fits what it was made from (`Requests`), and a pod nothing was
  noted against has the present table or a load that will find it (`Current`).
* **MediaCache_proofs** – `TypeCorrect`, `HasAssetHolds` (HasAssetIsTrue),
  `CopyIsKept`, `UploadRowsAreBounded`. `Held` says what a handler still knows when
  it writes: the asset it found is the image of its own payload and, as assets are
  only added, still exists; `SweepHeld` says the same of a sweep. The bound on
  upload rows counts, for each image, the rows that exist with the sweeps about to
  create one (`Room`).

Model-checked only: every liveness property (WatchedJobsClose,
UnwatchedJobsCloseOrOrphan, RowsClose, CollectionIndexed, MediaSavedOrLinked,
MetadataArrives, OwnerSettles, AlarmEnds, FailureRetried), since neither
liveness under fairness nor ENABLED is in reach of the provers. Every safety property
that a run checks is a theorem.

## Not modelled, and what is left

* The order of a poll (oldest executeAt first): any rows within the window of
  its type may be taken. Priority matters to no property here.
* A contract with a base URI in VerifyMint (OwnerTracking and RefreshToken have
  it): every id then has a URI (`evm/providers/ERC721.provider.ts:136`), the chain of jobs has no end and no
  finite instance.
* Token ids beyond 2^53, where `Number` loses digits
  (`tokens/tokens-jobs-verify-mint.service.ts:99`): an instance would only
  restate the arithmetic.
* name, symbol and contractURI of ERC-721 contracts; the contents of metadata; what
  is in the source file `generateTypes` writes and in a migration.
* Pods follows the queue of webhooks; the token-job and event queues are paused
  and scheduled by the same code, and what a dead pod does to them is in TokenJobs and
  BlockSync. A pod that starts while Redis holds a pause of all pods is left out:
  the code pauses locally.
* HTTP and DTO layers, auth, swagger, metrics, migrations, logging, token
  queries, and the scripts that write environments: request mapping and schema, no
  behaviour over time.

Next would be the composition of OwnerTracking with BlockSync, so that a
stale owner is explained by blocks rather than by logs. RefreshToken does not
implement JobLifecycle as it stands: it leaves outlived handlers to TokenJobs, and a
refinement that could not meet one would say more than the code does.
