--------------------------- MODULE MediaCache_proofs ---------------------------
(***************************************************************************)
(* Theorems of MediaCache, for any tokens, images, handlers and cron runs. *)
(***************************************************************************)
EXTENDS MediaCache, FiniteSetTheorems, TLAPS

\* What a handler holds when it is at a step, and what its finds returned.
Holds(w, known) ==
  /\ w.kind \in {"fetch_metadata", "refresh_token"} => w.token \in Token
  /\ w.at \in {"fetch", "asset", "job", "update", "token"} =>
       w.kind \in {"fetch_metadata", "refresh_token"}
  /\ w.at \in {"asset", "job", "update"} => w.payload \in Payload
  /\ w.at = "fetch" => w.asset = Nil
  /\ w.at = "job" => w.payload \in Uri
  /\ w.at = "upload" => w.uri \in Image
  /\ w.kind = "upload_asset" => w.uri \in Image
  /\ w.at \in {"save", "tokens"} => w.uri \in Uri
  /\ w.at = "tokens" => w.uri \in known
  /\ w.asset # Nil => w.asset = ImageOf(w.payload) /\ w.asset \in known

Held == \A e \in Execution : Holds(work[e], assets)

SweepHeld == \A c \in Cron : cron[c].at \in {"link", "create"} => cron[c].uri \in Image

IInv == TypeOK /\ Held /\ SweepHeld /\ HasAssetIsTrue

USE DEF tokens, jobs, bounds, Image, Payload

-----------------------------------------------------------------------------
(* IInv is inductive.                                                      *)

LEMMA InitInv == Init => IInv
  <1> SUFFICES ASSUME Init PROVE IInv
    OBVIOUS
  <1>1. IdleWork \in Work /\ IdleSweep \in Sweep
    BY DEF IdleWork, Work, IdleSweep, Sweep
  <1>2. TypeOK
    BY <1>1, BoundAssumption DEF Init, TypeOK
  <1>3. Held
    BY DEF Init, Held, Holds, IdleWork
  <1>4. SweepHeld /\ HasAssetIsTrue
    BY DEF Init, SweepHeld, IdleSweep, HasAssetIsTrue
  <1>5. QED
    BY <1>2, <1>3, <1>4 DEF IInv

\* A step that gives one handler new, well-formed work while assets only grow.
LEMMA WorkStep ==
  ASSUME TypeOK, Held, NEW e \in Execution, NEW w \in Work,
         Become(e, w), Holds(w, assets'), assets \subseteq assets'
  PROVE  work' \in [Execution -> Work] /\ Held'
  <1>1. work' \in [Execution -> Work]
    BY DEF Become, TypeOK
  <1>2. ASSUME NEW f \in Execution PROVE Holds(work'[f], assets')
    <2>1. CASE f = e
      BY <2>1 DEF Become, TypeOK
    <2>2. CASE f # e
      <3>1. work'[f] = work[f] /\ Holds(work[f], assets)
        BY <2>2 DEF Become, TypeOK, Held
      <3>2. QED
        BY <3>1 DEF Holds
    <2>3. QED
      BY <2>1, <2>2
  <1>3. QED
    BY <1>1, <1>2 DEF Held

LEMMA IdleWorkHolds ==
  IdleWork \in Work /\ \A known : Holds(IdleWork, known)
  BY DEF IdleWork, Work, Holds

\* Steps that do not touch what a handler holds, its tokens or the assets.
LEMMA RowStepInv ==
  ASSUME IInv, NEW t \in Token,
         Change(t) \/ UpsertToken(t) \/ CheckTokenWithoutMetadata(t)
  PROVE  IInv'
  <1>1. TypeOK'
    <2>1. CASE Change(t)
      <3>1. \A p \in Serves[t] : p \in Payload
        BY SetAssumption
      <3>2. served' \in [Token -> Payload]
        BY <2>1, <3>1 DEF Change, IInv, TypeOK
      <3>3. changes' \in 0..MaxChange
        BY <2>1, BoundAssumption DEF Change, IInv, TypeOK
      <3>4. QED
        BY <2>1, <3>2, <3>3 DEF Change, IInv, TypeOK
    <2>2. CASE UpsertToken(t)
      BY <2>2, BoundAssumption DEF UpsertToken, IInv, TypeOK
    <2>3. CASE CheckTokenWithoutMetadata(t)
      BY <2>3, BoundAssumption DEF CheckTokenWithoutMetadata, IInv, TypeOK
    <2>4. QED
      BY <2>1, <2>2, <2>3
  <1>2. UNCHANGED <<tokens, assets, work, cron>>
    BY DEF Change, UpsertToken, CheckTokenWithoutMetadata
  <1>3. QED
    BY <1>1, <1>2 DEF IInv, Held, SweepHeld, HasAssetIsTrue, Saved

-----------------------------------------------------------------------------
(* The handlers.                                                           *)

LEMMA StartInv ==
  ASSUME IInv, NEW e \in Execution, NEW t \in Token,
         StartFetchMetadata(e, t) \/ StartRefreshToken(e, t)
  PROVE  IInv'
  <1>1. CASE StartFetchMetadata(e, t)
    <2> DEFINE w == [IdleWork EXCEPT !.kind = "fetch_metadata", !.at = "fetch", !.token = t]
    <2>1. w \in Work /\ Holds(w, assets')
      BY DEF IdleWork, Work, Holds
    <2>2. Become(e, w) /\ assets' = assets
      BY <1>1 DEF StartFetchMetadata
    <2>3. work' \in [Execution -> Work] /\ Held'
      BY <2>1, <2>2, WorkStep DEF IInv
    <2>4. fetches' \in [Token -> 0..MaxRow]
      BY <1>1, BoundAssumption DEF StartFetchMetadata, IInv, TypeOK
    <2>5. UNCHANGED <<tokens, assets, uploads, uploadRows, served, cron, bounds>>
      BY <1>1 DEF StartFetchMetadata
    <2>6. QED
      BY <2>3, <2>4, <2>5 DEF IInv, TypeOK, SweepHeld, HasAssetIsTrue, Saved
  <1>2. CASE StartRefreshToken(e, t)
    <2> DEFINE w == [IdleWork EXCEPT !.kind = "refresh_token", !.at = "fetch", !.token = t]
    <2>1. w \in Work /\ Holds(w, assets')
      BY DEF IdleWork, Work, Holds
    <2>2. Become(e, w) /\ assets' = assets
      BY <1>2 DEF StartRefreshToken
    <2>3. work' \in [Execution -> Work] /\ Held'
      BY <2>1, <2>2, WorkStep DEF IInv
    <2>4. fetches' \in [Token -> 0..MaxRow] /\ upserts' \in 0..MaxUpsert
      BY <1>2, BoundAssumption DEF StartRefreshToken, IInv, TypeOK
    <2>5. UNCHANGED <<tokens, assets, uploads, uploadRows, served, cron, changes, faults>>
      BY <1>2 DEF StartRefreshToken
    <2>6. QED
      BY <2>3, <2>4, <2>5 DEF IInv, TypeOK, SweepHeld, HasAssetIsTrue, Saved
  <1>3. QED
    BY <1>1, <1>2

LEMMA StartUploadInv ==
  ASSUME IInv, NEW e \in Execution, NEW u \in Image, StartUploadAsset(e, u)
  PROVE  IInv'
  <1> DEFINE w == [IdleWork EXCEPT !.kind = "upload_asset", !.at = "upload", !.uri = u]
  <1>1. w \in Work /\ Holds(w, assets')
    BY DEF IdleWork, Work, Holds
  <1>2. Become(e, w) /\ assets' = assets
    BY DEF StartUploadAsset
  <1>3. work' \in [Execution -> Work] /\ Held'
    BY <1>1, <1>2, WorkStep DEF IInv
  <1>4. uploads' \in [Image -> Nat]
    BY DEF StartUploadAsset, IInv, TypeOK
  <1>5. UNCHANGED <<tokens, assets, fetches, uploadRows, served, cron, bounds>>
    BY DEF StartUploadAsset
  <1>6. QED
    BY <1>3, <1>4, <1>5 DEF IInv, TypeOK, SweepHeld, HasAssetIsTrue, Saved

\* A step that changes nothing but what the handler holds.
LEMMA QuietStep ==
  ASSUME IInv, NEW e \in Execution, NEW w \in Work,
         Become(e, w), Holds(w, assets),
         UNCHANGED <<tokens, assets, jobs, served, cron, bounds>>
  PROVE  IInv'
  <1>1. work' \in [Execution -> Work] /\ Held'
    BY WorkStep DEF IInv
  <1>2. QED
    BY <1>1 DEF IInv, TypeOK, SweepHeld, HasAssetIsTrue, Saved

LEMMA FetchInv ==
  ASSUME IInv, NEW e \in Execution, FetchMetadata(e)
  PROVE  IInv'
  <1> DEFINE w == [work[e] EXCEPT !.at = "asset", !.payload = served[work[e].token]]
  <1>1. work[e] \in Work /\ Holds(work[e], assets) /\ work[e].at = "fetch"
    BY DEF FetchMetadata, IInv, TypeOK, Held
  <1>2. served[work[e].token] \in Payload
    BY <1>1 DEF Holds, IInv, TypeOK
  <1>3. w \in Work
    BY <1>1, <1>2 DEF Work
  <1>4. Holds(w, assets)
    BY <1>1, <1>2 DEF Work, Holds
  <1>5. QED
    BY <1>3, <1>4, QuietStep DEF FetchMetadata

LEMMA FindAssetInv ==
  ASSUME IInv, NEW e \in Execution, FindAsset(e)
  PROVE  IInv'
  <1>1. work[e] \in Work /\ Holds(work[e], assets) /\ work[e].at = "asset"
    BY DEF FindAsset, IInv, TypeOK, Held
  <1>2. assets \subseteq Uri
    BY DEF IInv, TypeOK
  <1>3. CASE ImageOf(work[e].payload) \in assets
    <2> DEFINE w == [work[e] EXCEPT !.at = "job", !.asset = work[e].payload]
    <2>1. work[e].payload \in Uri /\ ImageOf(work[e].payload) = work[e].payload
      BY <1>2, <1>3, DistinctAssumption DEF ImageOf
    <2>2. w \in Work /\ Holds(w, assets)
      BY <1>1, <1>3, <2>1 DEF Work, Holds
    <2>3. QED
      BY <1>3, <2>2, QuietStep DEF FindAsset
  <1>4. CASE ImageOf(work[e].payload) \notin assets
    <2> DEFINE w == [work[e] EXCEPT !.at = "update"]
    <2>1. w \in Work /\ Holds(w, assets)
      BY <1>1 DEF Work, Holds
    <2>2. Become(e, w)
      BY <1>4 DEF FindAsset, Goto, Become
    <2>3. QED
      BY <2>1, <2>2, QuietStep DEF FindAsset
  <1>5. QED
    BY <1>3, <1>4

LEMMA FindJobInv ==
  ASSUME IInv, NEW e \in Execution, FindAssetTokenJob(e)
  PROVE  IInv'
  <1> DEFINE w == [work[e] EXCEPT !.at = "update",
                     !.job = IF uploadRows[work[e].payload] > 0 THEN work[e].payload ELSE Nil]
  <1>1. work[e] \in Work /\ Holds(work[e], assets) /\ work[e].at = "job"
    BY DEF FindAssetTokenJob, IInv, TypeOK, Held
  <1>2. w \in Work /\ Holds(w, assets)
    BY <1>1 DEF Work, Holds
  <1>3. QED
    BY <1>2, QuietStep DEF FindAssetTokenJob

LEMMA GetTokenInv ==
  ASSUME IInv, NEW e \in Execution, GetToken(e)
  PROVE  IInv'
  <1>1. work[e] \in Work /\ Holds(work[e], assets) /\ work[e].at = "token"
    BY DEF GetToken, IInv, TypeOK, Held
  <1>2. CASE work[e].token \in Cached /\ image[work[e].token] \in Uri
    <2> DEFINE w == [work[e] EXCEPT !.at = "upload", !.uri = image[work[e].token]]
    <2>1. w \in Work /\ Holds(w, assets)
      BY <1>1, <1>2 DEF Work, Holds
    <2>2. QED
      BY <1>2, <2>1, QuietStep DEF GetToken
  <1>3. CASE ~(work[e].token \in Cached /\ image[work[e].token] \in Uri)
    BY <1>3, IdleWorkHolds, QuietStep DEF GetToken, Idle
  <1>4. QED
    BY <1>2, <1>3

LEMMA UploadInv ==
  ASSUME IInv, NEW e \in Execution, UploadAsset(e)
  PROVE  IInv'
  <1> DEFINE w == [work[e] EXCEPT !.at = "save"]
  <1>1. work[e] \in Work /\ Holds(work[e], assets)
    BY DEF IInv, TypeOK, Held
  <1>2. w \in Work /\ Holds(w, assets)
    BY <1>1 DEF UploadAsset, Work, Holds
  <1>3. QED
    BY <1>2, QuietStep DEF UploadAsset, Goto, Become

\* The handler is done with its row, or gives it up.
LEMMA IdleStep ==
  ASSUME IInv, NEW e \in Execution, Idle(e), UNCHANGED <<tokens, assets, cron>>
  PROVE  /\ work' \in [Execution -> Work]
         /\ Held' /\ SweepHeld' /\ HasAssetIsTrue'
  <1>1. work' \in [Execution -> Work] /\ Held'
    BY IdleWorkHolds, WorkStep DEF IInv, Idle
  <1>2. QED
    BY <1>1 DEF IInv, SweepHeld, HasAssetIsTrue, Saved

LEMMA FailInv ==
  ASSUME IInv, NEW e \in Execution,
         FetchFails(e) \/ UploadFails(e) \/ CrashHandler(e)
  PROVE  IInv'
  <1>1. Idle(e) /\ UNCHANGED <<tokens, assets, cron, uploadRows, served, changes, upserts>>
    BY DEF FetchFails, UploadFails, CrashHandler
  <1>2. work' \in [Execution -> Work] /\ Held' /\ SweepHeld' /\ HasAssetIsTrue'
    BY <1>1, IdleStep
  <1>3. faults' \in 0..MaxFaults
    BY BoundAssumption DEF FetchFails, UploadFails, CrashHandler, IInv, TypeOK
  <1>4. work[e] \in Work /\ Holds(work[e], assets)
    BY DEF IInv, TypeOK, Held
  <1>5. fetches' \in [Token -> 0..MaxRow]
    BY <1>4, BoundAssumption
    DEF FetchFails, UploadFails, CrashHandler, Holds, IInv, TypeOK
  <1>6. uploads' \in [Image -> Nat]
    BY <1>4 DEF FetchFails, UploadFails, CrashHandler, Holds, IInv, TypeOK
  <1>7. QED
    BY <1>1, <1>2, <1>3, <1>5, <1>6 DEF IInv, TypeOK

LEMMA UpdateTokenInv ==
  ASSUME IInv, NEW e \in Execution, UpdateMetadataToken(e)
  PROVE  IInv'
  <1> DEFINE w == work[e]
             t == w.token
             a == Defined(w.asset, assetOf[t])
  <1>1. w \in Work /\ Holds(w, assets) /\ w.at = "update"
    BY DEF UpdateMetadataToken, UpdateToken, IInv, TypeOK, Held
  <1>2. t \in Token /\ w.payload \in Payload
    BY <1>1 DEF Holds
  <1>3. /\ image' = [image EXCEPT ![t] = ImageOf(w.payload)]
        /\ hasMetadata' = [hasMetadata EXCEPT ![t] = w.payload # Blank]
        /\ assetOf' = [assetOf EXCEPT ![t] = a]
        /\ hasAsset' = [hasAsset EXCEPT ![t] = w.asset # Nil]
        /\ linked' = [linked EXCEPT ![t] = Defined(w.job, linked[t])]
        /\ IF w.kind = "refresh_token" THEN Goto(e, "token") ELSE Idle(e)
        /\ UNCHANGED <<assets, jobs, served, cron, bounds>>
    BY DEF UpdateMetadataToken, UpdateToken
  <1>4. ImageOf(w.payload) \in Image
    BY <1>2 DEF ImageOf
  <1>5. a \in Uri \cup {Nil} /\ Defined(w.job, linked[t]) \in Image \cup {Nil}
    BY <1>1, <1>2 DEF Defined, Work, IInv, TypeOK
  <1>6. work' \in [Execution -> Work] /\ Held'
    <2>1. CASE w.kind = "refresh_token"
      <3> DEFINE v == [w EXCEPT !.at = "token"]
      <3>1. v \in Work /\ Holds(v, assets')
        BY <1>1, <1>3, <2>1 DEF Work, Holds
      <3>2. Become(e, v)
        BY <1>3, <2>1 DEF Goto, Become
      <3>3. QED
        BY <1>3, <3>1, <3>2, WorkStep DEF IInv
    <2>2. CASE w.kind # "refresh_token"
      BY <1>3, <2>2, IdleWorkHolds, WorkStep DEF IInv, Idle
    <2>3. QED
      BY <2>1, <2>2
  <1>7. TypeOK'
    <2>1. image' \in [Token -> Image \cup {Nil}] /\ hasMetadata' \in [Token -> BOOLEAN]
      BY <1>2, <1>3, <1>4 DEF IInv, TypeOK
    <2>2. assetOf' \in [Token -> Uri \cup {Nil}] /\ hasAsset' \in [Token -> BOOLEAN]
      BY <1>2, <1>3, <1>5 DEF IInv, TypeOK
    <2>3. linked' \in [Token -> Image \cup {Nil}]
      BY <1>2, <1>3, <1>5 DEF IInv, TypeOK
    <2>4. QED
      BY <1>3, <1>6, <2>1, <2>2, <2>3 DEF IInv, TypeOK
  <1>8. HasAssetIsTrue'
    <2> SUFFICES ASSUME NEW s \in Token, hasAsset'[s]
                 PROVE  image'[s] \in assets' /\ assetOf'[s] = image'[s]
      BY DEF HasAssetIsTrue, Saved
    <2>1. CASE s = t
      <3>1. w.asset # Nil
        BY <1>2, <1>3, <2>1 DEF IInv, TypeOK
      <3>2. w.asset = ImageOf(w.payload) /\ w.asset \in assets
        BY <1>1, <3>1 DEF Holds
      <3>3. QED
        BY <1>2, <1>3, <2>1, <3>1, <3>2 DEF Defined, IInv, TypeOK
    <2>2. CASE s # t
      BY <1>3, <2>2 DEF IInv, TypeOK, HasAssetIsTrue, Saved
    <2>3. QED
      BY <2>1, <2>2
  <1>9. QED
    BY <1>3, <1>6, <1>7, <1>8 DEF IInv, SweepHeld

LEMMA UpsertAssetInv ==
  ASSUME IInv, NEW e \in Execution, UpsertAsset(e)
  PROVE  IInv'
  <1> DEFINE w == [work[e] EXCEPT !.at = "tokens"]
  <1>1. work[e] \in Work /\ Holds(work[e], assets)
    BY DEF IInv, TypeOK, Held
  <1>2. work[e].uri \in Uri /\ assets' = assets \cup {work[e].uri}
    BY <1>1 DEF UpsertAsset, Holds
  <1>3. w \in Work /\ Holds(w, assets')
    BY <1>1, <1>2 DEF UpsertAsset, Work, Holds
  <1>4. Become(e, w) /\ UNCHANGED <<tokens, jobs, served, cron, bounds>>
    BY DEF UpsertAsset, Goto, Become
  <1>5. work' \in [Execution -> Work] /\ Held'
    BY <1>2, <1>3, <1>4, WorkStep DEF IInv
  <1>6. assets' \subseteq Uri
    BY <1>2 DEF IInv, TypeOK
  <1>7. QED
    BY <1>2, <1>4, <1>5, <1>6 DEF IInv, TypeOK, SweepHeld, HasAssetIsTrue, Saved

LEMMA UpdateAssetInv ==
  ASSUME IInv, NEW e \in Execution, UpdateAssetToken(e)
  PROVE  IInv'
  <1> DEFINE u == work[e].uri
  <1>1. u \in Uri /\ u \in assets
    BY DEF UpdateAssetToken, IInv, Held, Holds
  <1>2. /\ assetOf' = [t \in Token |-> IF image[t] = u THEN u ELSE assetOf[t]]
        /\ hasAsset' = [t \in Token |-> image[t] = u \/ hasAsset[t]]
        /\ Idle(e)
        /\ UNCHANGED <<image, hasMetadata, linked, assets, jobs, served, cron, bounds>>
    BY DEF UpdateAssetToken
  <1>3. work' \in [Execution -> Work] /\ Held'
    BY <1>2, IdleWorkHolds, WorkStep DEF IInv, Idle
  <1>4. TypeOK'
    <2>1. assetOf' \in [Token -> Uri \cup {Nil}]
      BY <1>1, <1>2 DEF IInv, TypeOK
    <2>2. hasAsset' \in [Token -> BOOLEAN]
      BY <1>2 DEF IInv, TypeOK
    <2>3. QED
      BY <1>2, <1>3, <2>1, <2>2 DEF IInv, TypeOK
  <1>5. HasAssetIsTrue'
    BY <1>1, <1>2 DEF HasAssetIsTrue, Saved, IInv
  <1>6. QED
    BY <1>2, <1>3, <1>4, <1>5 DEF IInv, SweepHeld

-----------------------------------------------------------------------------
(* The cron.                                                               *)

LEMMA NextRoundInv ==
  ASSUME IInv, NEW c \in Cron, NextRound(c)
  PROVE  cron' \in [Cron -> Sweep] /\ SweepHeld'
  <1>1. cron[c] \in Sweep
    BY DEF IInv, TypeOK
  <1> DEFINE w == IF cron[c].todo = {} THEN IdleSweep
                  ELSE [cron[c] EXCEPT !.at = "find", !.uri = Nil]
  <1>2. w \in Sweep /\ w.at \notin {"link", "create"}
    BY <1>1 DEF Sweep, IdleSweep
  <1>3. cron' = [cron EXCEPT ![c] = w]
    BY DEF NextRound
  <1> HIDE DEF w
  <1>4. QED
    BY <1>2, <1>3 DEF IInv, TypeOK, SweepHeld

LEMMA CronInv ==
  ASSUME IInv, NEW c \in Cron, SweepStep(c) \/ CrashCron(c)
  PROVE  IInv'
  <1>1. CASE FindUncached(c)
    <2> DEFINE found == {image[t] : t \in {s \in Token : Uncached(s)}} \ {Nil}
               w == IF found = {} THEN IdleSweep
                    ELSE [at |-> "find", todo |-> found, uri |-> Nil]
    <2>1. found \subseteq Image
      BY DEF IInv, TypeOK
    <2>2. w \in Sweep /\ w.at \notin {"link", "create"}
      BY <2>1 DEF Sweep, IdleSweep
    <2>3. cron' = [cron EXCEPT ![c] = w]
      BY <1>1 DEF FindUncached
    <2> HIDE DEF w
    <2>4. UNCHANGED <<tokens, assets, jobs, served, work, bounds>>
      BY <1>1 DEF FindUncached
    <2>5. cron' \in [Cron -> Sweep] /\ SweepHeld'
      BY <2>2, <2>3 DEF IInv, TypeOK, SweepHeld
    <2>6. QED
      BY <2>4, <2>5 DEF IInv, TypeOK, Held, HasAssetIsTrue, Saved
  <1>2. CASE FindUpload(c)
    <2>1. cron[c] \in Sweep
      BY DEF IInv, TypeOK
    <2>2. PICK u \in cron[c].todo :
            /\ cron' = [cron EXCEPT ![c] =
                          [at |-> IF uploadRows[u] > 0 THEN "link" ELSE "create",
                           todo |-> cron[c].todo \ {u}, uri |-> u]]
            /\ UNCHANGED <<tokens, assets, jobs, served, work, bounds>>
      BY <1>2 DEF FindUpload
    <2> DEFINE w == [at |-> IF uploadRows[u] > 0 THEN "link" ELSE "create",
                     todo |-> cron[c].todo \ {u}, uri |-> u]
    <2>3. u \in Image
      BY <2>1 DEF Sweep
    <2>4. w \in Sweep /\ w.uri \in Image
      BY <2>1, <2>3 DEF Sweep
    <2>5. cron' \in [Cron -> Sweep] /\ SweepHeld'
      BY <2>2, <2>4 DEF IInv, TypeOK, SweepHeld
    <2>6. QED
      BY <2>2, <2>5 DEF IInv, TypeOK, Held, HasAssetIsTrue, Saved
  <1>3. CASE LinkTokens(c)
    <2>1. cron[c].uri \in Image
      BY <1>3 DEF LinkTokens, IInv, SweepHeld
    <2>2. cron' \in [Cron -> Sweep] /\ SweepHeld'
      BY <1>3, NextRoundInv DEF LinkTokens
    <2>3. linked' \in [Token -> Image \cup {Nil}]
      BY <1>3, <2>1 DEF LinkTokens, IInv, TypeOK
    <2>4. UNCHANGED <<image, hasMetadata, assetOf, hasAsset, assets, jobs, served, work, bounds>>
      BY <1>3 DEF LinkTokens
    <2>5. QED
      BY <2>2, <2>3, <2>4 DEF IInv, TypeOK, Held, HasAssetIsTrue, Saved
  <1>4. CASE CreateUpload(c)
    <2>1. cron' \in [Cron -> Sweep] /\ SweepHeld'
      BY <1>4, NextRoundInv DEF CreateUpload
    <2>2. uploads' \in [Image -> Nat] /\ uploadRows' \in [Image -> Nat]
      <3>1. cron[c].uri \in Image
        BY <1>4 DEF CreateUpload, IInv, SweepHeld
      <3>2. /\ uploads' = [uploads EXCEPT ![cron[c].uri] = uploads[cron[c].uri] + 1]
            /\ uploadRows' = [uploadRows EXCEPT ![cron[c].uri] = uploadRows[cron[c].uri] + 1]
        BY <1>4 DEF CreateUpload
      <3>3. QED
        BY <3>1, <3>2 DEF IInv, TypeOK
    <2>3. UNCHANGED <<tokens, assets, fetches, served, work, bounds>>
      BY <1>4 DEF CreateUpload
    <2>4. QED
      BY <2>1, <2>2, <2>3 DEF IInv, TypeOK, Held, HasAssetIsTrue, Saved
  <1>5. CASE CrashCron(c)
    <2>1. IdleSweep \in Sweep /\ IdleSweep.at \notin {"link", "create"}
      BY DEF IdleSweep, Sweep
    <2>2. cron' \in [Cron -> Sweep] /\ SweepHeld'
      BY <1>5, <2>1 DEF CrashCron, IInv, TypeOK, SweepHeld
    <2>3. faults' \in 0..MaxFaults
      BY <1>5, BoundAssumption DEF CrashCron, IInv, TypeOK
    <2>4. QED
      BY <1>5, <2>2, <2>3 DEF CrashCron, IInv, TypeOK, Held, HasAssetIsTrue, Saved
  <1>6. QED
    BY <1>1, <1>2, <1>3, <1>4, <1>5 DEF SweepStep

-----------------------------------------------------------------------------
(* Every step keeps IInv; type correctness, hasAsset, and the copy.        *)

LEMMA NextInv == IInv /\ [Next]_vars => IInv'
  <1> SUFFICES ASSUME IInv, [Next]_vars PROVE IInv'
    OBVIOUS
  <1>1. ASSUME NEW t \in Token, Change(t) \/ UpsertToken(t) \/ CheckTokenWithoutMetadata(t)
        PROVE  IInv'
    BY <1>1, RowStepInv
  <1>2. ASSUME NEW e \in Execution, NEW t \in Token,
               StartFetchMetadata(e, t) \/ StartRefreshToken(e, t)
        PROVE  IInv'
    BY <1>2, StartInv
  <1>3. ASSUME NEW e \in Execution, NEW u \in Image, StartUploadAsset(e, u)
        PROVE  IInv'
    BY <1>3, StartUploadInv
  <1>4. ASSUME NEW e \in Execution, Step(e) PROVE IInv'
    BY <1>4, FetchInv, FindAssetInv, FindJobInv, UpdateTokenInv, GetTokenInv, UploadInv,
       FailInv, UpsertAssetInv, UpdateAssetInv DEF Step
  <1>5. ASSUME NEW e \in Execution, FetchFails(e) \/ CrashHandler(e) PROVE IInv'
    BY <1>5, FailInv
  <1>6. ASSUME NEW c \in Cron, SweepStep(c) \/ CrashCron(c) PROVE IInv'
    BY <1>6, CronInv
  <1>7. CASE UNCHANGED vars
    BY <1>7 DEF vars, IInv, TypeOK, Held, SweepHeld, HasAssetIsTrue, Saved
  <1>8. QED
    BY <1>1, <1>2, <1>3, <1>4, <1>5, <1>6, <1>7 DEF Next

\* Every column and every handler stays within its type, whatever the tokens,
\* images, handlers and cron runs are.
THEOREM TypeCorrect == Spec => []TypeOK
  <1>1. IInv => TypeOK
    BY DEF IInv
  <1>2. QED
    BY InitInv, NextInv, <1>1, PTL DEF Spec

\* hasAsset, on which checkTokensWithoutMediaCache relies, never claims a copy that
\* is not the copy of the present image.
THEOREM HasAssetHolds == Spec => []HasAssetIsTrue
  <1>1. IInv => HasAssetIsTrue
    BY DEF IInv
  <1>2. QED
    BY InitInv, NextInv, <1>1, PTL DEF Spec

CopyStep == \A t \in Token : Saved(t) /\ image'[t] = image[t] => Saved(t)'

LEMMA StepKeepsCopy == IInv /\ [Next]_vars => CopyStep
  <1> SUFFICES ASSUME IInv, [Next]_vars, NEW t \in Token,
                      assetOf[t] = image[t], image'[t] = image[t]
               PROVE  assetOf'[t] = image'[t]
    BY DEF CopyStep, Saved
  <1>1. ASSUME NEW e \in Execution, UpdateMetadataToken(e)
        PROVE  assetOf'[t] = image'[t]
    <2>1. /\ image' = [image EXCEPT ![work[e].token] = ImageOf(work[e].payload)]
          /\ assetOf' = [assetOf EXCEPT ![work[e].token] =
                           Defined(work[e].asset, assetOf[work[e].token])]
      BY <1>1 DEF UpdateMetadataToken, UpdateToken
    <2>2. Holds(work[e], assets)
      BY DEF IInv, Held
    <2>3. QED
      BY <2>1, <2>2 DEF Defined, Holds, IInv, TypeOK
  <1>2. ASSUME NEW e \in Execution, UpdateAssetToken(e)
        PROVE  assetOf'[t] = image'[t]
    BY <1>2 DEF UpdateAssetToken
  <1>3. CASE UNCHANGED <<image, assetOf>>
    BY <1>3
  <1>4. \/ \E e \in Execution : UpdateMetadataToken(e) \/ UpdateAssetToken(e)
        \/ UNCHANGED <<image, assetOf>>
    BY DEF Next, Step, SweepStep, vars, Change, UpsertToken, CheckTokenWithoutMetadata,
       StartFetchMetadata, StartRefreshToken, StartUploadAsset, FetchMetadata, FindAsset,
       FindAssetTokenJob, GetToken, UploadAsset, UploadFails, UpsertAsset, FetchFails,
       CrashHandler, FindUncached, FindUpload, LinkTokens, CreateUpload, CrashCron
  <1>5. QED
    BY <1>1, <1>2, <1>3, <1>4

\* No interleaving of metadata updates and uploads takes from a token the copy of an
\* image that it keeps.
THEOREM CopyIsKept == Spec => CopyKept
  <1>1. IInv /\ [Next]_vars => [CopyStep]_vars
    BY StepKeepsCopy
  <1>2. QED
    BY InitInv, NextInv, <1>1, PTL DEF Spec, CopyKept, CopyStep

-----------------------------------------------------------------------------
(* Upload rows.                                                            *)

\* The cron runs that have decided to create a row of an image.
Creators(u) == {c \in Cron : cron[c].at = "create" /\ cron[c].uri = u}

\* Each of them has room: once there is a row, no run decides to create another.
Room == \A u \in Image : uploadRows[u] + Cardinality(Creators(u)) <= Cardinality(Cron)

LEMMA CronCount ==
  /\ IsFiniteSet(Cron) /\ Cardinality(Cron) \in Nat
  /\ \A S \in SUBSET Cron : /\ IsFiniteSet(S) /\ Cardinality(S) \in Nat
                            /\ Cardinality(S) <= Cardinality(Cron)
  BY SetAssumption, FS_CardinalityType, FS_Subset

\* A step that inserts no row, after which no run is a creator that was none.
LEMMA FewerCreators ==
  ASSUME TypeOK, NEW u \in Image, uploadRows'[u] = uploadRows[u],
         Creators(u)' \subseteq Creators(u),
         uploadRows[u] + Cardinality(Creators(u)) <= Cardinality(Cron)
  PROVE  uploadRows'[u] + Cardinality(Creators(u)') <= Cardinality(Cron)
  <1>1. Creators(u) \in SUBSET Cron /\ Creators(u)' \in SUBSET Cron
    BY DEF Creators
  <1>2. Cardinality(Creators(u)') <= Cardinality(Creators(u))
    BY <1>1, CronCount, FS_Subset
  <1>3. uploadRows[u] \in Nat
    BY DEF TypeOK
  <1>4. QED
    BY <1>1, <1>2, <1>3, CronCount

LEMMA NextRoundMoves ==
  ASSUME TypeOK, NEW c \in Cron, NextRound(c)
  PROVE  cron'[c].at # "create" /\ \A d \in Cron \ {c} : cron'[d] = cron[d]
  <1>1. cron[c] \in Sweep
    BY DEF TypeOK
  <1>2. cron'[c] = IF cron[c].todo = {} THEN IdleSweep
                   ELSE [cron[c] EXCEPT !.at = "find", !.uri = Nil]
    BY DEF NextRound, TypeOK
  <1>3. cron'[c].at # "create"
    BY <1>1, <1>2 DEF IdleSweep, Sweep
  <1>4. QED
    BY <1>3 DEF NextRound, TypeOK

LEMMA InitRoom == Init => Room
  <1> SUFFICES ASSUME Init, NEW u \in Image
               PROVE  uploadRows[u] + Cardinality(Creators(u)) <= Cardinality(Cron)
    BY DEF Room
  <1>1. Creators(u) = {}
    BY DEF Init, Creators, IdleSweep
  <1>2. QED
    BY <1>1, CronCount, FS_EmptySet DEF Init

LEMMA NextRoom == IInv /\ Room /\ [Next]_vars => Room'
  <1> SUFFICES ASSUME IInv, Room, [Next]_vars, NEW u \in Image
               PROVE  uploadRows'[u] + Cardinality(Creators(u)') <= Cardinality(Cron)
    BY DEF Room
  <1>1. TypeOK /\ uploadRows[u] + Cardinality(Creators(u)) <= Cardinality(Cron)
    BY DEF IInv, Room
  <1>2. CASE UNCHANGED <<uploadRows, cron>>
    <2>1. uploadRows'[u] = uploadRows[u] /\ Creators(u)' \subseteq Creators(u)
      BY <1>2 DEF Creators
    <2>2. QED
      BY <1>1, <2>1, FewerCreators
  <1>3. ASSUME NEW c \in Cron, FindUncached(c) \/ LinkTokens(c) \/ CrashCron(c)
        PROVE  uploadRows'[u] + Cardinality(Creators(u)') <= Cardinality(Cron)
    <2>1. uploadRows' = uploadRows
      BY <1>3 DEF FindUncached, LinkTokens, CrashCron
    <2>2. cron'[c].at # "create" /\ \A d \in Cron \ {c} : cron'[d] = cron[d]
      <3>1. CASE LinkTokens(c)
        BY <1>1, <3>1, NextRoundMoves DEF LinkTokens
      <3>2. CASE FindUncached(c)
        <4> DEFINE found == {image[t] : t \in {s \in Token : Uncached(s)}} \ {Nil}
                   w == IF found = {} THEN IdleSweep
                        ELSE [at |-> "find", todo |-> found, uri |-> Nil]
        <4>1. w.at # "create"
          BY DEF IdleSweep
        <4>2. cron' = [cron EXCEPT ![c] = w]
          BY <3>2 DEF FindUncached
        <4> HIDE DEF w
        <4>3. QED
          BY <1>1, <4>1, <4>2 DEF TypeOK
      <3>3. CASE CrashCron(c)
        BY <1>1, <3>3 DEF CrashCron, IdleSweep, TypeOK
      <3>4. QED
        BY <1>3, <3>1, <3>2, <3>3
    <2>3. Creators(u)' \subseteq Creators(u)
      BY <2>2 DEF Creators
    <2>4. QED
      BY <1>1, <2>1, <2>3, FewerCreators
  <1>4. ASSUME NEW c \in Cron, FindUpload(c)
        PROVE  uploadRows'[u] + Cardinality(Creators(u)') <= Cardinality(Cron)
    <2>1. uploadRows' = uploadRows /\ uploadRows[u] \in Nat
      BY <1>1, <1>4 DEF FindUpload, TypeOK
    <2>2. CASE uploadRows[u] = 0
      <3>1. Creators(u)' \in SUBSET Cron
        BY DEF Creators
      <3>2. QED
        BY <2>1, <2>2, <3>1, CronCount
    <2>3. CASE uploadRows[u] > 0
      <3>1. PICK v \in cron[c].todo :
              cron' = [cron EXCEPT ![c] = [at |-> IF uploadRows[v] > 0 THEN "link" ELSE "create",
                                           todo |-> cron[c].todo \ {v}, uri |-> v]]
        BY <1>4 DEF FindUpload
      <3>2. /\ cron'[c].at = "create" => cron'[c].uri # u
            /\ \A d \in Cron \ {c} : cron'[d] = cron[d]
        BY <1>1, <2>3, <3>1 DEF TypeOK
      <3>3. Creators(u)' \subseteq Creators(u)
        BY <3>2 DEF Creators
      <3>4. QED
        BY <1>1, <2>1, <3>3, FewerCreators
    <2>4. QED
      BY <2>1, <2>2, <2>3
  <1>5. ASSUME NEW c \in Cron, CreateUpload(c)
        PROVE  uploadRows'[u] + Cardinality(Creators(u)') <= Cardinality(Cron)
    <2>1. cron'[c].at # "create" /\ \A d \in Cron \ {c} : cron'[d] = cron[d]
      BY <1>1, <1>5, NextRoundMoves DEF CreateUpload
    <2>2. cron[c].uri \in Image /\ cron[c].at = "create"
      BY <1>5 DEF CreateUpload, IInv, SweepHeld
    <2>3. uploadRows' = [uploadRows EXCEPT ![cron[c].uri] = uploadRows[cron[c].uri] + 1]
      BY <1>5 DEF CreateUpload
    <2>4. CASE u = cron[c].uri
      <3>1. c \in Creators(u) /\ Creators(u)' = Creators(u) \ {c}
        BY <2>1, <2>2, <2>4 DEF Creators
      <3>2. Creators(u) \in SUBSET Cron
        BY DEF Creators
      <3>3. Cardinality(Creators(u)') = Cardinality(Creators(u)) - 1
        BY <3>1, <3>2, CronCount, FS_RemoveElement
      <3>4. uploadRows'[u] = uploadRows[u] + 1 /\ uploadRows[u] \in Nat
        BY <1>1, <2>3, <2>4 DEF TypeOK
      <3>5. QED
        BY <1>1, <3>2, <3>3, <3>4, CronCount
    <2>5. CASE u # cron[c].uri
      <3>1. uploadRows'[u] = uploadRows[u]
        BY <1>1, <2>2, <2>3, <2>5 DEF TypeOK
      <3>2. Creators(u)' \subseteq Creators(u)
        BY <2>1 DEF Creators
      <3>3. QED
        BY <1>1, <3>1, <3>2, FewerCreators
    <2>6. QED
      BY <2>4, <2>5
  <1>6. \/ \E c \in Cron : SweepStep(c) \/ CrashCron(c)
        \/ UNCHANGED <<uploadRows, cron>>
    BY DEF Next, Step, vars, Change, UpsertToken, CheckTokenWithoutMetadata,
       StartFetchMetadata, StartRefreshToken, StartUploadAsset, FetchMetadata, FindAsset,
       FindAssetTokenJob, UpdateMetadataToken, UpdateToken, GetToken, UploadAsset,
       UploadFails, UpsertAsset, UpdateAssetToken, FetchFails, CrashHandler
  <1>7. QED
    BY <1>2, <1>3, <1>4, <1>5, <1>6 DEF SweepStep

\* However many images and tokens there are, the unlocked check-then-insert of the
\* cron makes at most as many rows of an image as runs of it overlap.
THEOREM UploadRowsAreBounded == Spec => []UploadRowsBounded
  <1>1. IInv /\ Room => UploadRowsBounded
    <2> SUFFICES ASSUME IInv, Room, NEW u \in Image
                 PROVE  uploadRows[u] <= Cardinality(Cron)
      BY DEF UploadRowsBounded
    <2>1. Creators(u) \in SUBSET Cron
      BY DEF Creators
    <2>2. uploadRows[u] \in Nat /\ uploadRows[u] + Cardinality(Creators(u)) <= Cardinality(Cron)
      BY DEF IInv, TypeOK, Room
    <2>3. QED
      BY <2>1, <2>2, CronCount
  <1>2. QED
    BY InitInv, NextInv, InitRoom, NextRoom, <1>1, PTL DEF Spec
=============================================================================
