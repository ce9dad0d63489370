------------------------------ MODULE MediaCache ------------------------------
(***************************************************************************)
(* What a token shows: its metadata, its image and the copy of that image  *)
(* kept in Cloudinary.  Four programs write these columns and none locks   *)
(* them: the fetch_metadata handler, the upload_asset handler (which       *)
(* writes every token with the image it uploaded), the refresh_token       *)
(* handler (which does the work of both), and the cron that looks for      *)
(* tokens without a cached image and gives them an upload row.             *)
(*                                                                         *)
(* An asset is named by its image: its publicId is a hash of the URI, so   *)
(* there is one row of tokens_assets per URI.  The life of the rows of     *)
(* tokens_jobs is TokenJobs' subject: here a created row is one of a       *)
(* count, and a handler that dies gives its row back.                      *)
(***************************************************************************)
EXTENDS Naturals, FiniteSets

CONSTANTS
  Token,       \* rows of tokens
  Uri,         \* image URIs
  Cached,      \* the tokens whose contract has cacheMedia
  IdOf,        \* the token id of each token (two contracts may share ids)
  Serves,      \* the payloads the metadata URL of each token may answer
  Execution,   \* the handlers that can run at once
  Cron,        \* the runs of checkJobFrozen that can overlap
  Nil,         \* a column that is null
  Empty,       \* the empty string
  Blank,       \* a payload without content
  Imageless,   \* a payload with content and no image
  MaxRow,      \* bound: created fetch_metadata rows of a token
  MaxChange,   \* bound: changes of what the metadata URLs answer
  MaxUpsert,   \* bound: repeated indexings of tokens, refreshes included
  MaxFaults    \* bound: crashes and failed requests

Image == Uri \cup {Empty}
Payload == Uri \cup {Blank, Imageless}

ASSUME SetAssumption ==
  /\ IsFiniteSet(Cron)
  /\ Cached \subseteq Token
  /\ Serves \in [Token -> SUBSET Payload \ {{}}]
  /\ DOMAIN IdOf = Token
ASSUME DistinctAssumption ==
  /\ Nil \notin Image \cup Token
  /\ Empty \notin Uri /\ Blank \notin Uri /\ Imageless \notin Uri
  /\ Blank # Imageless
ASSUME BoundAssumption ==
  /\ MaxRow \in Nat \ {0}
  /\ MaxChange \in Nat /\ MaxUpsert \in Nat /\ MaxFaults \in Nat

VARIABLES
  image,        \* imageRawUrl of each token
  hasMetadata,  \* hasMetadata
  assetOf,      \* assetId, by the URI of the asset
  hasAsset,     \* hasAsset
  linked,       \* assetTokenJobId, by the URI of that row
  assets,       \* the URIs that have a row of tokens_assets
  fetches,      \* created fetch_metadata rows of each token
  uploads,      \* created upload_asset rows of each image
  uploadRows,   \* upload_asset rows of each image, whatever their status
  served,       \* what the metadata URL of each token answers
  work,         \* what each execution does
  cron,         \* what each run of checkTokensWithoutMediaCache does
  changes, upserts, faults

tokens == <<image, hasMetadata, assetOf, hasAsset, linked>>
jobs == <<fetches, uploads, uploadRows>>
bounds == <<changes, upserts, faults>>
vars == <<tokens, assets, jobs, served, work, cron, bounds>>

\* kind is the type of the row; asset and job are what the finds returned.
Work == [kind : {"idle", "fetch_metadata", "refresh_token", "upload_asset"},
         at : {"idle", "fetch", "asset", "job", "update", "token", "upload", "save", "tokens"},
         token : Token \cup {Nil},
         payload : Payload \cup {Nil},
         asset : Uri \cup {Nil},
         job : Uri \cup {Nil},
         uri : Image \cup {Nil}]

IdleWork == [kind |-> "idle", at |-> "idle", token |-> Nil, payload |-> Nil,
             asset |-> Nil, job |-> Nil, uri |-> Nil]

\* todo are the images of the query's result that the loop has not come to.
Sweep == [at : {"idle", "find", "link", "create"},
          todo : SUBSET Image, uri : Image \cup {Nil}]

IdleSweep == [at |-> "idle", todo |-> {}, uri |-> Nil]

TypeOK ==
  /\ image \in [Token -> Image \cup {Nil}]
  /\ hasMetadata \in [Token -> BOOLEAN] /\ hasAsset \in [Token -> BOOLEAN]
  /\ assetOf \in [Token -> Uri \cup {Nil}] /\ linked \in [Token -> Image \cup {Nil}]
  /\ assets \subseteq Uri
  /\ fetches \in [Token -> 0..MaxRow]
  /\ uploads \in [Image -> Nat] /\ uploadRows \in [Image -> Nat]
  /\ served \in [Token -> Payload]
  /\ work \in [Execution -> Work] /\ cron \in [Cron -> Sweep]
  /\ changes \in 0..MaxChange /\ upserts \in 0..MaxUpsert /\ faults \in 0..MaxFaults

\* Tokens as upsertToken leaves them: no metadata, and a row to fetch it.
Init ==
  /\ image = [t \in Token |-> Nil]
  /\ hasMetadata = [t \in Token |-> FALSE]
  /\ assetOf = [t \in Token |-> Nil]
  /\ hasAsset = [t \in Token |-> FALSE]
  /\ linked = [t \in Token |-> Nil]
  /\ assets = {}
  /\ fetches = [t \in Token |-> 1]
  /\ uploads = [u \in Image |-> 0]
  /\ uploadRows = [u \in Image |-> 0]
  /\ served \in {s \in [Token -> Payload] : \A t \in Token : s[t] \in Serves[t]}
  /\ work = [e \in Execution |-> IdleWork]
  /\ cron = [c \in Cron |-> IdleSweep]
  /\ changes = 0 /\ upserts = 0 /\ faults = 0

-----------------------------------------------------------------------------
(* Around the handlers: the metadata server, indexing, the metadata cron.  *)

\* The metadata URL of a token starts to answer something else.
Change(t) ==
  /\ changes < MaxChange
  /\ \E p \in Serves[t] \ {served[t]} : served' = [served EXCEPT ![t] = p]
  /\ changes' = changes + 1
  /\ UNCHANGED <<tokens, assets, jobs, work, cron, upserts, faults>>

\* upsertToken of a token that is known: a further fetch_metadata row.
UpsertToken(t) ==
  /\ upserts < MaxUpsert /\ fetches[t] < MaxRow
  /\ fetches' = [fetches EXCEPT ![t] = @ + 1]
  /\ upserts' = upserts + 1
  /\ UNCHANGED <<tokens, assets, uploads, uploadRows, served, work, cron, changes, faults>>

\* Mutant: tokens count as fetched once they have an image column.
RecheckUnfetched(t) ==
  /\ ~hasMetadata[t] /\ image[t] = Nil
  /\ \A s \in Token : IdOf[s] = IdOf[t] => fetches[s] = 0
  /\ fetches' = [fetches EXCEPT ![t] = @ + 1]
  /\ UNCHANGED <<tokens, assets, uploads, uploadRows, served, work, cron, bounds>>

\* checkTokensWithoutMetadataForLongTime, for one of its tokens.  Its lookup asks
\* for created rows of the token id, of whatever contract.
CheckTokenWithoutMetadata(t) ==
  /\ ~hasMetadata[t]
  /\ \A s \in Token : IdOf[s] = IdOf[t] => fetches[s] = 0
  /\ fetches' = [fetches EXCEPT ![t] = @ + 1]
  /\ UNCHANGED <<tokens, assets, uploads, uploadRows, served, work, cron, bounds>>

-----------------------------------------------------------------------------
(* fetch_metadata and the first half of refresh_token.                     *)

Become(e, w) == work' = [work EXCEPT ![e] = w]
Goto(e, where) == work' = [work EXCEPT ![e].at = where]
Idle(e) == Become(e, IdleWork)

StartFetchMetadata(e, t) ==
  /\ work[e].at = "idle" /\ fetches[t] > 0
  /\ fetches' = [fetches EXCEPT ![t] = @ - 1]
  /\ Become(e, [IdleWork EXCEPT !.kind = "fetch_metadata", !.at = "fetch", !.token = t])
  /\ UNCHANGED <<tokens, assets, uploads, uploadRows, served, cron, bounds>>

\* refresh_token begins with verifyMintByTokensIds, which upserts the token.
StartRefreshToken(e, t) ==
  /\ work[e].at = "idle" /\ upserts < MaxUpsert /\ fetches[t] < MaxRow
  /\ fetches' = [fetches EXCEPT ![t] = @ + 1]
  /\ upserts' = upserts + 1
  /\ Become(e, [IdleWork EXCEPT !.kind = "refresh_token", !.at = "fetch", !.token = t])
  /\ UNCHANGED <<tokens, assets, uploads, uploadRows, served, cron, changes, faults>>

FetchMetadata(e) ==
  /\ work[e].at = "fetch"
  /\ Become(e, [work[e] EXCEPT !.at = "asset", !.payload = served[work[e].token]])
  /\ UNCHANGED <<tokens, assets, jobs, served, cron, bounds>>

\* A 429 puts a fetch_metadata row off; any other error fails the row, which
\* nobody takes up again but the cron for tokens without metadata.
FetchFails(e) ==
  LET t == work[e].token
  IN  /\ work[e].at = "fetch" /\ faults < MaxFaults
      /\ faults' = faults + 1
      /\ Idle(e)
      /\ \/ /\ work[e].kind = "fetch_metadata" /\ fetches[t] < MaxRow
            /\ fetches' = [fetches EXCEPT ![t] = @ + 1]
         \/ UNCHANGED fetches
      /\ UNCHANGED <<tokens, assets, uploads, uploadRows, served, cron, changes, upserts>>

\* sanitizePayload: the image of a payload, or the empty string.
ImageOf(p) == IF p \in Uri THEN p ELSE Empty

\* updateMetadataToken, the find of the asset; without one no row is looked for.
FindAsset(e) ==
  LET w == work[e]
  IN  /\ w.at = "asset"
      /\ IF ImageOf(w.payload) \in assets
           THEN Become(e, [w EXCEPT !.at = "job", !.asset = w.payload])
           ELSE Goto(e, "update")
      /\ UNCHANGED <<tokens, assets, jobs, served, cron, bounds>>

\* updateMetadataToken, the find of a row that uploads the image.
FindAssetTokenJob(e) ==
  LET w == work[e]
  IN  /\ w.at = "job"
      /\ Become(e, [w EXCEPT !.at = "update",
                             !.job = IF uploadRows[w.payload] > 0 THEN w.payload ELSE Nil])
      /\ UNCHANGED <<tokens, assets, jobs, served, cron, bounds>>

\* A column that is set to undefined keeps its value.
Defined(v, old) == IF v = Nil THEN old ELSE v

\* The UPDATE by address, chain and token id, with the values of two columns.
UpdateToken(e, asset, has) ==
  LET w == work[e]
  IN  /\ w.at = "update"
      /\ image' = [image EXCEPT ![w.token] = ImageOf(w.payload)]
      /\ hasMetadata' = [hasMetadata EXCEPT ![w.token] = w.payload # Blank]
      /\ assetOf' = [assetOf EXCEPT ![w.token] = asset]
      /\ hasAsset' = [hasAsset EXCEPT ![w.token] = has]
      /\ linked' = [linked EXCEPT ![w.token] = Defined(w.job, @)]
      /\ IF w.kind = "refresh_token" THEN Goto(e, "token") ELSE Idle(e)
      /\ UNCHANGED <<assets, jobs, served, cron, bounds>>

\* Mutant: hasAsset is undefined when there is no asset.
UpdateKeepsHasAsset(e) ==
  UpdateToken(e, Defined(work[e].asset, assetOf[work[e].token]),
                 work[e].asset # Nil \/ hasAsset[work[e].token])

\* Mutant: assetId is null when there is no asset.
UpdateClearsAsset(e) == UpdateToken(e, work[e].asset, work[e].asset # Nil)

\* updateMetadataToken, its UPDATE, and the end of a fetch_metadata row.
UpdateMetadataToken(e) ==
  UpdateToken(e, Defined(work[e].asset, assetOf[work[e].token]), work[e].asset # Nil)

\* refresh_token reads the token again: it uploads what the image is now.  A
\* cached token without an image fails the row, one that is not cached ends it.
GetToken(e) ==
  LET t == work[e].token
  IN  /\ work[e].at = "token"
      /\ IF t \in Cached /\ image[t] \in Uri
           THEN Become(e, [work[e] EXCEPT !.at = "upload", !.uri = image[t]])
           ELSE Idle(e)
      /\ UNCHANGED <<tokens, assets, jobs, served, cron, bounds>>

-----------------------------------------------------------------------------
(* upload_asset and the second half of refresh_token.                      *)

StartUploadAsset(e, u) ==
  /\ work[e].at = "idle" /\ uploads[u] > 0
  /\ uploads' = [uploads EXCEPT ![u] = @ - 1]
  /\ Become(e, [IdleWork EXCEPT !.kind = "upload_asset", !.at = "upload", !.uri = u])
  /\ UNCHANGED <<tokens, assets, fetches, uploadRows, served, cron, bounds>>

\* Mutant: an answer without a file is taken for a file.
UploadAnything(e) ==
  /\ work[e].at = "upload"
  /\ Goto(e, "save")
  /\ UNCHANGED <<tokens, assets, jobs, served, cron, bounds>>

UploadAsset(e) ==
  /\ work[e].at = "upload" /\ work[e].uri \in Uri
  /\ Goto(e, "save")
  /\ UNCHANGED <<tokens, assets, jobs, served, cron, bounds>>

\* Cloudinary refuses the empty file name, and may refuse any other: the row
\* fails for good.
UploadFails(e) ==
  /\ work[e].at = "upload"
  /\ \/ work[e].uri = Empty /\ UNCHANGED faults
     \/ work[e].uri # Empty /\ faults < MaxFaults /\ faults' = faults + 1
  /\ Idle(e)
  /\ UNCHANGED <<tokens, assets, jobs, served, cron, changes, upserts>>

\* updateAssetToken: the upsert by publicId and the find of what it wrote.
UpsertAsset(e) ==
  /\ work[e].at = "save"
  /\ assets' = assets \cup {work[e].uri}
  /\ Goto(e, "tokens")
  /\ UNCHANGED <<tokens, jobs, served, cron, bounds>>

\* updateAssetToken, its UPDATE of every token with that image.
UpdateAssetToken(e) ==
  LET u == work[e].uri
  IN  /\ work[e].at = "tokens"
      /\ assetOf' = [t \in Token |-> IF image[t] = u THEN u ELSE assetOf[t]]
      /\ hasAsset' = [t \in Token |-> image[t] = u \/ hasAsset[t]]
      /\ Idle(e)
      /\ UNCHANGED <<image, hasMetadata, linked, assets, jobs, served, cron, bounds>>

\* A pod dies.  The frozen check gives the rows it worked on back, but for a
\* refresh_token row; a sweep of the cron is simply over.
CrashHandler(e) ==
  LET w == work[e]
  IN  /\ w.at # "idle" /\ faults < MaxFaults
      /\ w.kind = "fetch_metadata" => fetches[w.token] < MaxRow
      /\ faults' = faults + 1
      /\ Idle(e)
      /\ fetches' = IF w.kind = "fetch_metadata"
                      THEN [fetches EXCEPT ![w.token] = @ + 1] ELSE fetches
      /\ uploads' = IF w.kind = "upload_asset"
                      THEN [uploads EXCEPT ![w.uri] = @ + 1] ELSE uploads
      /\ UNCHANGED <<tokens, assets, uploadRows, served, cron, changes, upserts>>

CrashCron(c) ==
  /\ cron[c].at # "idle" /\ faults < MaxFaults
  /\ faults' = faults + 1
  /\ cron' = [cron EXCEPT ![c] = IdleSweep]
  /\ UNCHANGED <<tokens, assets, jobs, served, work, changes, upserts>>

-----------------------------------------------------------------------------
(* checkTokensWithoutMediaCache.                                           *)

Uncached(t) == t \in Cached /\ ~hasAsset[t] /\ linked[t] = Nil

\* The query; when it finds nothing the run is over.  Tokens with a null image form a
\* group of their own, for which the loop does nothing: null in the where of findOne
\* is no condition, so some row is found, and null in the criteria of update equals
\* no image.
FindUncached(c) ==
  LET found == {image[t] : t \in {s \in Token : Uncached(s)}} \ {Nil}
  IN  /\ cron[c].at = "idle"
      /\ cron' = [cron EXCEPT ![c] = IF found = {} THEN IdleSweep
                                      ELSE [at |-> "find", todo |-> found, uri |-> Nil]]
      /\ UNCHANGED <<tokens, assets, jobs, served, work, bounds>>

\* Mutant: the loop does not look for a row of the image.
FindUploadNever(c) ==
  \E u \in cron[c].todo :
    /\ cron[c].at = "find"
    /\ cron' = [cron EXCEPT ![c] = [at |-> "create", todo |-> cron[c].todo \ {u}, uri |-> u]]
    /\ UNCHANGED <<tokens, assets, jobs, served, work, bounds>>

\* One round of the loop: is there a row of that image?
FindUpload(c) ==
  \E u \in cron[c].todo :
    /\ cron[c].at = "find"
    /\ cron' = [cron EXCEPT ![c] = [at |-> IF uploadRows[u] > 0 THEN "link" ELSE "create",
                                    todo |-> cron[c].todo \ {u}, uri |-> u]]
    /\ UNCHANGED <<tokens, assets, jobs, served, work, bounds>>

NextRound(c) ==
  cron' = [cron EXCEPT ![c] = IF cron[c].todo = {} THEN IdleSweep
                              ELSE [cron[c] EXCEPT !.at = "find", !.uri = Nil]]

\* There is: every token with that image refers to it, cached or not.
LinkTokens(c) ==
  /\ cron[c].at = "link"
  /\ linked' = [t \in Token |-> IF image[t] = cron[c].uri THEN cron[c].uri ELSE linked[t]]
  /\ NextRound(c)
  /\ UNCHANGED <<image, hasMetadata, assetOf, hasAsset, assets, jobs, served, work, bounds>>

\* Mutant: a created row counts as linked, and is not inserted.
CreateNoUpload(c) ==
  /\ cron[c].at = "create"
  /\ NextRound(c)
  /\ UNCHANGED <<tokens, assets, jobs, served, work, bounds>>

\* There is none: a row is created, and linked by a later run of the cron.
CreateUpload(c) ==
  LET u == cron[c].uri
  IN  /\ cron[c].at = "create"
      /\ uploads' = [uploads EXCEPT ![u] = @ + 1]
      /\ uploadRows' = [uploadRows EXCEPT ![u] = @ + 1]
      /\ NextRound(c)
      /\ UNCHANGED <<tokens, assets, fetches, served, work, bounds>>

-----------------------------------------------------------------------------
Step(e) ==
  \/ FetchMetadata(e) \/ FindAsset(e) \/ FindAssetTokenJob(e) \/ UpdateMetadataToken(e)
  \/ GetToken(e) \/ UploadAsset(e) \/ UploadFails(e) \/ UpsertAsset(e) \/ UpdateAssetToken(e)

SweepStep(c) == FindUncached(c) \/ FindUpload(c) \/ LinkTokens(c) \/ CreateUpload(c)

Next ==
  \/ \E t \in Token : Change(t) \/ UpsertToken(t) \/ CheckTokenWithoutMetadata(t)
  \/ \E e \in Execution :
       \/ \E t \in Token : StartFetchMetadata(e, t) \/ StartRefreshToken(e, t)
       \/ \E u \in Image : StartUploadAsset(e, u)
       \/ Step(e) \/ FetchFails(e) \/ CrashHandler(e)
  \/ \E c \in Cron : SweepStep(c) \/ CrashCron(c)

Spec == Init /\ [][Next]_vars

(* The crons tick, a handler goes on.  Strong fairness of the starts, which *)
(* share the handlers: the queue is served in order.  Strong fairness of    *)
(* the metadata cron: it takes its tokens in random order every minute.     *)
Fairness ==
  /\ \A t \in Token : /\ SF_vars(\E e \in Execution : StartFetchMetadata(e, t))
                      /\ SF_vars(CheckTokenWithoutMetadata(t))
  /\ \A u \in Image : SF_vars(\E e \in Execution : StartUploadAsset(e, u))
  /\ \A e \in Execution : WF_vars(Step(e))
  /\ \A c \in Cron : WF_vars(SweepStep(c))

FairSpec == Spec /\ Fairness

-----------------------------------------------------------------------------
(* Properties.                                                             *)

\* What toPublic shows as raw and gateway: the image and its own copy.
Saved(t) == assetOf[t] = image[t]

\* hasAsset, which the cron trusts, is true only of tokens whose asset is the copy
\* of their present image, although four programs write the columns unlocked and
\* the finds of updateMetadataToken are old when it writes.
HasAssetIsTrue ==
  \A t \in Token : hasAsset[t] => image[t] \in assets /\ Saved(t)

\* The check-then-insert of the cron makes at most one upload row per image and
\* overlapping run: runs that follow one another never add a second.
UploadRowsBounded == \A u \in Image : uploadRows[u] <= Cardinality(Cron)

\* While its image stays, a token never loses the copy it shows, although a
\* metadata update that found no asset runs after the upload.
CopyKept ==
  [][\A t \in Token : Saved(t) /\ image'[t] = image[t] => Saved(t)']_vars

\* README, Cache Media, says that the media of the tokens of a cached contract are saved.
\* What the code gives: a cached token shows the copy of its image in the end, or it is
\* linked to a row, whose upload failed, or was over before its image was written.
MediaSavedOrLinked == \A t \in Cached : image[t] \in Uri ~> Saved(t) \/ linked[t] # Nil

\* A token whose URL answers with metadata in the end has metadata in the end,
\* through failed fetches, and though a row of another contract's token with the
\* same id keeps the cron from inserting one.
MetadataArrives ==
  \A t \in Token : <>[](served[t] # Blank) => <>[]hasMetadata[t]
=============================================================================
