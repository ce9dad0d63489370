---------------------------- MODULE RefreshToken ----------------------------
(***************************************************************************)
(* Refreshes that clients ask for.  GET /nfts/by-token with refreshCache   *)
(* looks for an open refresh_token row of the token and inserts one when   *)
(* there is none: a find and an insert, which two requests can interleave. *)
(* A row that is executed asks the contract for the token's URI, writes    *)
(* it, and fetches the metadata that is there.                             *)
(*                                                                         *)
(* It is not alone: verify_mint writes the URI too, whoever writes it also *)
(* inserts a fetch_metadata row that carries it, and such a row is         *)
(* executed when its turn comes, however old its URI is by then.           *)
(*                                                                         *)
(* A request that finds a row is content with it, also when its handler    *)
(* has already asked the contract, or died: nothing gives a started        *)
(* refresh_token row back.  The life of rows in the queue is TokenJobs'    *)
(* subject, media is MediaCache's; here, what a request gets out of it.    *)
(***************************************************************************)
EXTENDS Naturals, Sequences, FiniteSets

CONSTANTS
  Token, Request,
  HasBase,     \* the contract has a baseURI() and its tokenURI() is relative to it
  MaxVersion,  \* bound: changes of a token's URI; it is minted with the first
  MaxRows,     \* bound: refresh_token rows
  MaxMints,    \* bound: verify_mint transactions that ask for a token
  MaxFaults    \* bound: failed calls and dead handlers

ASSUME HasBaseAssumption == HasBase \in BOOLEAN
ASSUME RequestAssumption == IsFiniteSet(Request)
ASSUME BoundAssumption == {MaxVersion, MaxRows, MaxMints, MaxFaults} \subseteq Nat

VARIABLES
  data,     \* the version of the URI on chain, 0 for a token that is not minted
  rows,     \* the refresh_token rows, in the order they were inserted
  uri,      \* column tokenUri: what it was made of, NoUri for a token without a row
  meta,     \* the version of the metadata shown, 0 for none
  minting,  \* the answers verify_mint transactions of a token hold and have not written
  mints,    \* how many of them have asked
  fetches,  \* the URIs that fetch_metadata rows of a token carry
  req,      \* what each request does or waits for
  crossed,  \* tokens two of whose rows asked and wrote at once
  behind,   \* tokens whose metadata a recorded cause has made older than a refresh of it
  faults

columns == <<uri, meta>>
others == <<minting, mints, fetches>>
causes == <<crossed, behind>>
vars == <<data, rows, columns, others, req, causes, faults>>

Version == 0..MaxVersion
Uri == [base : BOOLEAN, v : Version]
NoUri == [base |-> FALSE, v |-> 0]   \* formatTokenUri: ''
Status == {"created", "started", "completed", "failed"}
RowSet == [token : Token, status : Status, 
           at : {"wait", "verify", "upsert", "fetch", "update", "complete", "dead"},
           hidden : BOOLEAN, got : Uri, content : Version]
HasAsked == {"upsert", "fetch", "update", "complete"}
Idle == [at |-> "idle"]
Asking == [at : {"insert", "joined"}, token : Token, since : Version, row : 0..MaxRows, late : BOOLEAN]

TypeOK ==
  /\ data \in [Token -> Version]
  /\ rows \in Seq(RowSet) /\ Len(rows) <= MaxRows
  /\ uri \in [Token -> Uri] /\ meta \in [Token -> Version]
  /\ minting \in [Token -> SUBSET Uri] /\ fetches \in [Token -> SUBSET Uri]
  /\ mints \in [Token -> 0..MaxMints]
  /\ req \in [Request -> Asking \cup {Idle}]
  /\ crossed \subseteq Token /\ behind \subseteq Token /\ faults \in 0..MaxFaults
  /\ \A i \in DOMAIN rows : rows[i].status = "started" <=> rows[i].at # "wait"

Init ==
  /\ data = [t \in Token |-> 0] /\ rows = <<>>
  /\ uri = [t \in Token |-> NoUri] /\ meta = [t \in Token |-> 0]
  /\ minting = [t \in Token |-> {}] /\ fetches = [t \in Token |-> {}]
  /\ mints = [t \in Token |-> 0]
  /\ req = [q \in Request |-> Idle] /\ crossed = {} /\ behind = {} /\ faults = 0

Fault == faults < MaxFaults /\ faults' = faults + 1

-----------------------------------------------------------------------------
(* Requests.                                                               *)

OpenRows(t) == {i \in DOMAIN rows : rows[i].token = t /\ rows[i].status \in {"created", "started"}}

\* Mutant: a row that is being executed does not count.
JoinableCreated(t) == {i \in DOMAIN rows : rows[i].token = t /\ rows[i].status = "created"}

\* The rows createRefreshTokenJob looks for.
Joinable(t) == OpenRows(t)

\* findByToken with refreshCache, up to the result of the query.
FindRefresh(q, t) ==
  /\ req[q] = Idle
  /\ \/ /\ Joinable(t) = {} /\ Len(rows) < MaxRows
        /\ req' = [req EXCEPT ![q] = [at |-> "insert", token |-> t, since |-> data[t],
                                      row |-> 0, late |-> FALSE]]
     \/ \E i \in Joinable(t) :
          req' = [req EXCEPT ![q] = [at |-> "joined", token |-> t, since |-> data[t],
                                     row |-> i, late |-> rows[i].at \in HasAsked]]
  /\ UNCHANGED <<data, rows, columns, others, causes, faults>>

\* createJob.
InsertRefresh(q) ==
  /\ req[q].at = "insert" /\ Len(rows) < MaxRows
  /\ rows' = Append(rows, [token |-> req[q].token, status |-> "created", at |-> "wait",
                           hidden |-> FALSE, got |-> NoUri, content |-> 0])
  /\ req' = [req EXCEPT ![q].at = "joined", ![q].row = Len(rows) + 1]
  /\ UNCHANGED <<data, columns, others, causes, faults>>

\* The client has its answer, long before the row is executed; it may ask again.
Leave(q) ==
  /\ req[q].at = "joined" /\ req' = [req EXCEPT ![q] = Idle]
  /\ UNCHANGED <<data, rows, columns, others, causes, faults>>

-----------------------------------------------------------------------------
(* The URI of a token.                                                     *)

\* The chain moves on: the token is minted, or its URI changes.
Advance(t) ==
  /\ data[t] < MaxVersion /\ data' = [data EXCEPT ![t] = @ + 1]
  /\ UNCHANGED <<rows, columns, others, req, causes, faults>>

\* formatTokenUri: empty only when there is neither a base nor a URI.  A base alone
\* makes a URI of a token that does not exist.
FormatTokenUri(base, v) == [base |-> base, v |-> v]

\* Mutant: what the token's row has is taken for the answer.
AnswerCached(t, base, found) ==
  IF uri[t] # NoUri THEN uri[t] ELSE FormatTokenUri(base, IF found THEN data[t] ELSE 0)

\* What verifyMintByTokensIds makes of the contract's answers.
Answer(t, base, found) == FormatTokenUri(base, IF found THEN data[t] ELSE 0)

\* getBaseUri and getTokenUri turn an error into null, like the answer about a token
\* that is not minted.  A call that failed has hidden something.
Hides(t, base, found) == (HasBase /\ ~base) \/ (data[t] # 0 /\ ~found)

Answers(t, base, found) ==
  /\ base => HasBase
  /\ found => data[t] # 0
  /\ IF Hides(t, base, found) THEN Fault ELSE UNCHANGED faults

\* Only the right URI leads to the metadata.
Right(u) == u.base = HasBase /\ u.v # 0

\* fetchMetadata: what is not a URL, or leads to no object, is empty metadata.
Content(u) == IF Right(u) THEN u.v ELSE 0

-----------------------------------------------------------------------------
(* Execution of a row.                                                     *)

At(i, at) == i \in DOMAIN rows /\ rows[i].at = at
Started(t) == {i \in DOMAIN rows : rows[i].token = t /\ rows[i].status = "started" /\ rows[i].at # "dead"}

\* Created and due: execute sets it to Started.
Execute(i) ==
  LET t == rows[i].token
  IN  /\ At(i, "wait") /\ rows[i].status = "created"
      /\ rows' = [rows EXCEPT ![i].status = "started", ![i].at = "verify"]
      /\ crossed' = IF Started(t) # {} \/ minting[t] # {} THEN crossed \cup {t} ELSE crossed
      /\ UNCHANGED <<data, columns, others, req, behind, faults>>

AskContract(i) ==
  LET t == rows[i].token
  IN  /\ At(i, "verify")
      /\ \E base, found \in BOOLEAN :
           /\ Answers(t, base, found)
           /\ rows' = [rows EXCEPT ![i].at = "upsert",
                         ![i].hidden = Hides(t, base, found), ![i].got = Answer(t, base, found)]
      /\ UNCHANGED <<data, columns, others, req, causes>>

Close(i, status) == rows' = [rows EXCEPT ![i].status = status, ![i].at = "wait"]

\* What its handler knew is gone.
Drop(i, status, at) ==
  rows' = [rows EXCEPT ![i].status = status, ![i].at = at, ![i].hidden = FALSE, ![i].got = NoUri, ![i].content = 0]

\* upsertToken: the URI, and in the same transaction a fetch_metadata row that carries it.
UpsertToken(t, u) ==
  /\ uri' = [uri EXCEPT ![t] = u]
  /\ fetches' = [fetches EXCEPT ![t] = @ \cup {u}]

\* A token without a URI is passed over, and the URI its row has is used; when it has
\* no row either, the refresh fails.
Upsert(i) ==
  LET t == rows[i].token  got == rows[i].got
  IN  /\ At(i, "upsert")
      /\ IF got = NoUri THEN UNCHANGED <<uri, fetches>> ELSE UpsertToken(t, got)
      /\ IF uri'[t] = NoUri THEN Drop(i, "failed", "wait") ELSE rows' = [rows EXCEPT ![i].at = "fetch"]
      /\ UNCHANGED <<data, meta, minting, mints, req, causes, faults>>

\* Mutant: metadata that is there is not fetched again.
FetchOnce(i) ==
  LET t == rows[i].token
  IN  /\ At(i, "fetch")
      /\ rows' = [rows EXCEPT ![i].at = "update", ![i].content = IF meta[t] # 0 THEN meta[t] ELSE Content(uri[t])]
      /\ UNCHANGED <<data, columns, others, req, causes, faults>>

\* The metadata is fetched from the URI the token now has; a wrong one may fail.
Fetch(i) ==
  LET u == uri[rows[i].token]
  IN  /\ At(i, "fetch")
      /\ \/ rows' = [rows EXCEPT ![i].at = "update", ![i].content = Content(u)]
         \/ ~Right(u) /\ Drop(i, "failed", "wait")
      /\ UNCHANGED <<data, columns, others, req, causes, faults>>

\* The refreshes of a token that have written metadata and not failed since.
Learned(t) == {i \in DOMAIN rows : rows[i].token = t /\ (rows[i].status = "completed" \/ rows[i].at = "complete")}

\* Content c is older than what one of these refreshes had from the contract.
Older(c, learned) == \E i \in learned : c < rows[i].got.v

\* Only a refresh from which the contract's answer was hidden can leave the token behind.
UpdateMetadata(i) ==
  LET t == rows[i].token  c == rows[i].content
  IN  /\ At(i, "update")
      /\ meta' = [meta EXCEPT ![t] = c]
      /\ behind' = IF rows[i].hidden /\ Older(c, Learned(t) \cup {i}) THEN behind \cup {t} ELSE behind \ {t}
      /\ rows' = [rows EXCEPT ![i].at = "complete"]
      /\ UNCHANGED <<data, uri, others, req, crossed, faults>>

\* The media, if it is cached, and the update to Completed.
Complete(i) ==
  /\ At(i, "complete")
  /\ Close(i, "completed")
  /\ UNCHANGED <<data, columns, others, req, causes, faults>>

\* A call throws: the row is Failed, and Bull's other attempts find it so.
Fail(i) ==
  /\ i \in DOMAIN rows /\ rows[i].status = "started" /\ rows[i].at # "dead" /\ Fault
  /\ Drop(i, "failed", "wait")
  /\ UNCHANGED <<data, columns, others, req, causes>>

\* The pod dies, or the update in the catch fails too: checkJobFrozenHandler does not
\* look at refresh_token rows.
Die(i) ==
  /\ i \in DOMAIN rows /\ rows[i].status = "started" /\ rows[i].at # "dead" /\ Fault
  /\ Drop(i, "started", "dead")
  /\ UNCHANGED <<data, columns, others, req, causes>>

Work(i) ==
  \/ Execute(i) \/ AskContract(i) \/ Upsert(i) \/ Fetch(i) \/ UpdateMetadata(i) \/ Complete(i)

-----------------------------------------------------------------------------
(* The other rows of the token.                                            *)

\* A verify_mint row comes to the token; one without a URI is passed over.
AskForMint(t) ==
  /\ mints[t] < MaxMints /\ mints' = [mints EXCEPT ![t] = @ + 1]
  /\ \E base, found \in BOOLEAN :
       /\ Answers(t, base, found) /\ Answer(t, base, found) # NoUri
       /\ minting' = [minting EXCEPT ![t] = @ \cup {Answer(t, base, found)}]
  /\ crossed' = IF Started(t) # {} THEN crossed \cup {t} ELSE crossed
  /\ UNCHANGED <<data, rows, columns, fetches, req, behind>>

\* It commits, or it is rolled back.
UpsertMint(t, u) ==
  /\ u \in minting[t] /\ minting' = [minting EXCEPT ![t] = @ \ {u}]
  /\ \/ UpsertToken(t, u) /\ UNCHANGED faults
     \/ Fault /\ UNCHANGED <<uri, fetches>>
  /\ UNCHANGED <<data, rows, meta, mints, req, causes>>

\* A fetch_metadata row writes what its URI leads to, whenever its turn comes: it may have
\* been put off, given back by the frozen check or inserted again by
\* checkTokensWithoutMetadataForLongTime, with a URI the token had.  One that fails
\* writes nothing.
ExecuteFetchMetadata(t, u) ==
  /\ u \in fetches[t]
  /\ meta' = [meta EXCEPT ![t] = Content(u)]
  /\ behind' = IF Older(Content(u), Learned(t)) THEN behind \cup {t} ELSE behind \ {t}
  /\ UNCHANGED <<data, rows, uri, others, req, crossed, faults>>

Next ==
  \/ \E t \in Token : Advance(t)
  \/ \E q \in Request, t \in Token : FindRefresh(q, t)
  \/ \E q \in Request : InsertRefresh(q) \/ Leave(q)
  \/ \E i \in 1..MaxRows : Work(i) \/ Fail(i) \/ Die(i)
  \/ \E t \in Token : AskForMint(t)
  \/ \E t \in Token, u \in Uri : UpsertMint(t, u) \/ ExecuteFetchMetadata(t, u)

Spec == Init /\ [][Next]_vars

-----------------------------------------------------------------------------
(* Properties.                                                             *)

Inserting(t) == {q \in Request : req[q].at = "insert" /\ req[q].token = t}

\* However requests interleave, a token has no more open rows than requests that
\* were between their find and their insert at once.
OpenRowsBounded ==
  \A t \in Token : Cardinality(OpenRows(t)) + Cardinality(Inserting(t)) <= Cardinality(Request)

\* A completed refresh asked the contract after the request that it answers and wrote
\* metadata that is not older, unless the request joined a row that had asked already, or
\* a call failed: an error of the node is taken for a token without a URI, and the row
\* completes with the URI the token had.
RequestCovered ==
  \A q \in Request :
    LET row == rows[req[q].row]
    IN  req[q].at = "joined" /\ ~req[q].late /\ row.status = "completed" /\ ~row.hidden
          => /\ row.got.v >= req[q].since
             /\ row.content >= req[q].since \/ row.token \in crossed

Completed(t) == {i \in DOMAIN rows : rows[i].token = t /\ rows[i].status = "completed"}

\* The metadata that is shown is not older than what any completed refresh of the token
\* had asked for, unless two rows of it asked and wrote at once, or the last that wrote
\* the metadata was a fetch_metadata row of an older URI or a refresh a call of which failed.
ShowsLatest ==
  \A t \in Token \ (crossed \cup behind) : \A i \in Completed(t) : meta[t] >= rows[i].got.v
=============================================================================
