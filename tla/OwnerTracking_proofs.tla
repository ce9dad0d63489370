------------------------- MODULE OwnerTracking_proofs -------------------------
(***************************************************************************)
(* Theorems of OwnerTracking, for any tokens, addresses, workers and       *)
(* readers.                                                                *)
(***************************************************************************)
EXTENDS OwnerTracking, TLAPS

\* An owner that can be read of a token that has had the owners p.
Readable(v, p) == v \in p \cup {Null} \/ (HasBase /\ v = Zero)

\* What a reader holds at each of its steps, when k are the tokens with a row and p
\* the owners each has had.  Without a base only a token that was minted has a URI.
Holds(s, k, p) ==
  s \in Reading =>
    /\ s.kind = "history" => s.tx \in 1..MaxMoves
    /\ s.at \in {"find", "save", "token"} => s.kind = "history"
    /\ s.at = "uri" => s.kind = "verify"
    /\ s.at = "check" => s.kind = "fetch"
    /\ s.kind # "verify" /\ s.at \in {"ask", "write", "check"} => s.token \in k
    /\ s.at = "write" => Readable(s.got, p[s.token])
    /\ s.kind = "verify" /\ s.at \in {"ask", "write"} => HasBase \/ p[s.token] # {}

Held == \A r \in Reader : Holds(reading[r], known, past)

\* A token that was minted is where one of its owners is.
ChainHeld == \A t \in Token : holder[t] \in past[t] \/ (past[t] = {} /\ holder[t] = Zero)

\* A fetch is made only of a row, a row only of a token that has a URI, and only a row
\* has an owner.
RowsMinted ==
  /\ open \cup found \subseteq known
  /\ HasBase \/ \A t \in known : past[t] # {}
  /\ \A t \in Token \ known : owner[t] = Null

OwnersRead == \A t \in Token : Readable(owner[t], past[t])

IInv == TypeOK /\ Held /\ ChainHeld /\ RowsMinted /\ OwnersRead

USE DEF chain, table, jobs, Owner

-----------------------------------------------------------------------------
(* IInv is inductive.                                                      *)

LEMMA IdleIsNoReading == Idle \notin Reading
  BY DEF Idle, Reading, Kind

LEMMA InitInv == Init => IInv
  <1> SUFFICES ASSUME Init PROVE IInv
    OBVIOUS
  <1>1. TypeOK
    BY BoundAssumption DEF Init, TypeOK, Busy
  <1>2. Held
    BY IdleIsNoReading DEF Init, Held, Holds
  <1>3. ChainHeld /\ RowsMinted /\ OwnersRead
    BY DEF Init, ChainHeld, RowsMinted, OwnersRead, Readable
  <1>4. QED
    BY <1>1, <1>2, <1>3 DEF IInv

\* The conjuncts of TypeOK that are about readers follow from Held.
LEMMA ReadersOnRows ==
  ASSUME reading \in [Reader -> Reading \cup {Idle}], Held
  PROVE  \A r \in Reader :
           Busy(r) /\ reading[r].kind # "verify" /\ reading[r].at \in {"ask", "write", "check"}
             => reading[r].token \in known
  BY DEF Held, Holds, Busy

\* A step of one reader, while the rows and the past only grow.
LEMMA ReaderStep ==
  ASSUME IInv, NEW r \in Reader, NEW s \in Reading \cup {Idle},
         reading' = [reading EXCEPT ![r] = s], Holds(s, known', past'),
         known \subseteq known', \A t \in Token : past[t] \subseteq past'[t]
  PROVE  reading' \in [Reader -> Reading \cup {Idle}] /\ Held'
  <1>1. reading' \in [Reader -> Reading \cup {Idle}]
    BY DEF IInv, TypeOK
  <1>2. ASSUME NEW q \in Reader PROVE Holds(reading'[q], known', past')
    <2>1. CASE q = r
      BY <2>1 DEF IInv, TypeOK
    <2>2. CASE q # r
      <3>1. reading'[q] = reading[q] /\ Holds(reading[q], known, past)
        BY <2>2 DEF IInv, TypeOK, Held
      <3>2. reading[q] \in Reading => reading[q].token \in Token
        BY DEF Reading
      <3>3. QED
        BY <3>1, <3>2 DEF Holds, Readable
    <2>3. QED
      BY <2>1, <2>2
  <1>3. QED
    BY <1>1, <1>2 DEF Held

\* The same for a step that leaves every reader where it is.
LEMMA ReadersStay ==
  ASSUME IInv, reading' = reading,
         known \subseteq known', \A t \in Token : past[t] \subseteq past'[t]
  PROVE  reading' \in [Reader -> Reading \cup {Idle}] /\ Held'
  <1>1. ASSUME NEW q \in Reader PROVE Holds(reading[q], known', past')
    <2>1. Holds(reading[q], known, past)
      BY DEF IInv, Held
    <2>2. reading[q] \in Reading => reading[q].token \in Token
      BY DEF Reading
    <2>3. QED
      BY <2>1, <2>2 DEF Holds, Readable
  <1>2. QED
    BY <1>1 DEF IInv, TypeOK, Held

\* The part of IInv that is left when the readers are settled, for a step that does
\* not move a token, makes no row and writes no owner.
LEMMA TablesStay ==
  ASSUME IInv, UNCHANGED <<holder, past, owner, known>>,
         reading' \in [Reader -> Reading \cup {Idle}], Held',
         txs' \in [Token -> 0..MaxMoves], mined' \subseteq Transfer, logs' \subseteq Transfer,
         pool' \subseteq Worker, history' \in [Token -> SUBSET (1..MaxMoves)],
         stale' \subseteq known', unverified' \subseteq Token,
         verified' \in [Token -> 0..MaxVerify], open' \cup found' \subseteq known',
         raced' \subseteq Reader, lapsed' \subseteq Token, faults' \in 0..MaxFaults
  PROVE  IInv'
  <1>1. TypeOK'
    BY ReadersOnRows DEF IInv, TypeOK, Held, Holds, Busy
  <1>2. ChainHeld' /\ RowsMinted' /\ OwnersRead'
    BY DEF IInv, ChainHeld, RowsMinted, OwnersRead
  <1>3. QED
    BY <1>1, <1>2 DEF IInv

\* The chain and the blocks.
LEMMA ChainInv ==
  ASSUME IInv,
         \/ \E t \in Token, a \in Owner : Move(t, a)
         \/ \E w \in Worker : SyncLocalCache(w)
         \/ \E w \in Worker, t \in Token, x \in 1..MaxMoves : ProcessLogs(w, t, x)
  PROVE  IInv'
  <1>1. CASE \E t \in Token, a \in Owner : Move(t, a)
    <2>1. PICK t \in Token, a \in Owner : Move(t, a)
      BY <1>1
    <2>2. /\ UNCHANGED <<owner, known, reading, stale, history, logs, pool, jobs, raced, lapsed, faults>>
          /\ holder' \in [Token -> Owner] /\ past' \in [Token -> SUBSET Owner]
          /\ \A u \in Token : past[u] \subseteq past'[u]
      BY <2>1 DEF Move, IInv, TypeOK
    <2>3. txs' \in [Token -> 0..MaxMoves] /\ mined' \subseteq Transfer
      BY <2>1, BoundAssumption DEF Move, IInv, TypeOK, Transfer
    <2>4. reading' \in [Reader -> Reading \cup {Idle}] /\ Held'
      BY <2>2, ReadersStay
    <2>5. TypeOK'
      BY <2>2, <2>3, <2>4, ReadersOnRows DEF IInv, TypeOK, Busy
    <2>6. ChainHeld'
      BY <2>1 DEF Move, IInv, TypeOK, ChainHeld
    <2>7. RowsMinted' /\ OwnersRead'
      BY <2>2 DEF IInv, TypeOK, RowsMinted, OwnersRead, Readable
    <2>8. QED
      BY <2>4, <2>5, <2>6, <2>7 DEF IInv
  <1>2. CASE \E w \in Worker : SyncLocalCache(w)
    <2>1. PICK w \in Worker : SyncLocalCache(w)
      BY <1>2
    <2>2. reading' \in [Reader -> Reading \cup {Idle}] /\ Held'
      BY <2>1, ReadersStay DEF SyncLocalCache
    <2>3. QED
      BY <2>1, <2>2, TablesStay DEF SyncLocalCache, IInv, TypeOK, RowsMinted
  <1>3. CASE \E w \in Worker, t \in Token, x \in 1..MaxMoves : ProcessLogs(w, t, x)
    <2>1. PICK w \in Worker, t \in Token, x \in 1..MaxMoves : ProcessLogs(w, t, x)
      BY <1>3
    <2>2. reading' \in [Reader -> Reading \cup {Idle}] /\ Held'
      BY <2>1, ReadersStay DEF ProcessLogs
    <2>3. mined' \subseteq Transfer /\ logs' \subseteq Transfer /\ lapsed' \subseteq Token
      BY <2>1 DEF ProcessLogs, IInv, TypeOK
    <2>4. QED
      BY <2>1, <2>2, <2>3, TablesStay DEF ProcessLogs, IInv, TypeOK, RowsMinted
  <1>4. QED
    BY <1>1, <1>2, <1>3

\* A reading of either of the three kinds begins.
LEMMA BeginInv ==
  ASSUME IInv, NEW r \in Reader,
         \/ \E log \in logs : CallCreateHistory(r, log)
         \/ \E t \in Token : BeginVerify(r, t) \/ BeginFetch(r, t)
  PROVE  IInv'
  <1>1. CASE \E log \in logs : CallCreateHistory(r, log)
    <2>1. PICK log \in logs : CallCreateHistory(r, log)
      BY <1>1
    <2> DEFINE s == [kind |-> "history", token |-> log.token, tx |-> log.tx, at |-> "find", got |-> Null]
    <2>2. log.token \in Token /\ log.tx \in 1..MaxMoves
      BY DEF IInv, TypeOK, Transfer
    <2>3. s \in Reading /\ Holds(s, known', past')
      BY <2>2, BoundAssumption DEF Reading, Kind, Holds
    <2>4. reading' \in [Reader -> Reading \cup {Idle}] /\ Held'
      BY <2>1, <2>3, ReaderStep DEF CallCreateHistory, Begin
    <2>5. QED
      BY <2>1, <2>4, TablesStay DEF CallCreateHistory, IInv, TypeOK, RowsMinted
  <1>2. ASSUME NEW t \in Token, BeginVerify(r, t) PROVE IInv'
    <2> DEFINE s == [kind |-> "verify", token |-> t, tx |-> 0, at |-> "uri", got |-> Null]
    <2>1. s \in Reading /\ Holds(s, known', past')
      BY BoundAssumption DEF Reading, Kind, Holds
    <2>2. reading' \in [Reader -> Reading \cup {Idle}] /\ Held'
      BY <1>2, <2>1, ReaderStep DEF BeginVerify, Begin
    <2>3. verified' \in [Token -> 0..MaxVerify] /\ unverified' \subseteq Token
      BY <1>2, BoundAssumption DEF BeginVerify, IInv, TypeOK
    <2>4. QED
      BY <1>2, <2>2, <2>3, TablesStay DEF BeginVerify, IInv, TypeOK, RowsMinted
  <1>3. ASSUME NEW t \in Token, BeginFetch(r, t) PROVE IInv'
    <2> DEFINE s == [kind |-> "fetch", token |-> t, tx |-> 0, at |-> "ask", got |-> Null]
    <2>1. t \in known /\ known' = known
      BY <1>3 DEF BeginFetch, IInv, RowsMinted
    <2>2. s \in Reading /\ Holds(s, known', past')
      BY <2>1, BoundAssumption DEF Reading, Kind, Holds
    <2>3. reading' \in [Reader -> Reading \cup {Idle}] /\ Held'
      BY <1>3, <2>2, ReaderStep DEF BeginFetch, Begin
    <2>4. QED
      BY <1>3, <2>3, TablesStay DEF BeginFetch, IInv, TypeOK, RowsMinted
  <1>4. QED
    BY <1>1, <1>2, <1>3

\* A reader at work has a reading of a token.
LEMMA BusyReading ==
  ASSUME IInv, NEW r \in Reader, Busy(r)
  PROVE  /\ reading[r] \in Reading /\ Holds(reading[r], known, past)
         /\ reading[r].token \in Token
  BY DEF IInv, TypeOK, Held, Busy, Reading

\* A step after which the reader is idle.
LEMMA ReaderEnds ==
  ASSUME IInv, NEW r \in Reader, reading' = [reading EXCEPT ![r] = Idle],
         known \subseteq known', past' = past
  PROVE  reading' \in [Reader -> Reading \cup {Idle}] /\ Held'
  <1>1. Holds(Idle, known', past')
    BY IdleIsNoReading DEF Holds
  <1>2. QED
    BY <1>1, ReaderStep DEF IInv, TypeOK

\* A step after which the reader is elsewhere, with the answer it had.
LEMMA ReaderGoes ==
  ASSUME IInv, NEW r \in Reader, Busy(r), NEW at, Goto(r, at), UNCHANGED <<known, past>>,
         \/ reading[r].at = "find" /\ at = "save"
         \/ reading[r].at = "save" /\ at = "token"
         \/ reading[r].at = "token" /\ at = "ask" /\ reading[r].token \in known
         \/ /\ reading[r].at = "uri" /\ at = "ask"
            /\ HasBase \/ past[reading[r].token] # {}
         \/ reading[r].at = "write" /\ at = "check" /\ reading[r].kind = "fetch"
  PROVE  reading' \in [Reader -> Reading \cup {Idle}] /\ Held'
  <1> DEFINE s == [reading[r] EXCEPT !.at = at]
  <1>1. s \in Reading /\ reading' = [reading EXCEPT ![r] = s]
    BY BusyReading DEF Goto, Reading, IInv, TypeOK
  <1>2. Holds(s, known', past')
    <2>1. reading[r] \in Reading /\ Holds(reading[r], known, past)
      BY BusyReading
    <2>2. /\ s.kind = reading[r].kind /\ s.token = reading[r].token
          /\ s.tx = reading[r].tx /\ s.got = reading[r].got /\ s.at = at
      BY <2>1 DEF Reading
    <2>3. QED
      BY <2>1, <2>2 DEF Holds
  <1>3. QED
    BY <1>1, <1>2, ReaderStep

\* The question: the answer is where the token is, or nothing.
LEMMA AskInv ==
  ASSUME IInv, NEW r \in Reader, Ask(r)
  PROVE  IInv'
  <1> DEFINE t == reading[r].token
  <1>1. PICK failed \in BOOLEAN :
          /\ failed => faults < MaxFaults
          /\ faults' = IF failed THEN faults + 1 ELSE faults
          /\ reading' = [reading EXCEPT ![r].at = "write", ![r].got = OwnerOf(t, failed)]
    BY DEF Ask
  <1>2. /\ Busy(r) /\ reading[r].at = "ask" /\ raced' = raced \ {r}
        /\ UNCHANGED <<chain, table, jobs, lapsed>>
    BY DEF Ask
  <1>3. reading[r] \in Reading /\ Holds(reading[r], known, past) /\ t \in Token
    BY <1>2, BusyReading
  <1> DEFINE got == OwnerOf(t, failed)
             s == [reading[r] EXCEPT !.at = "write", !.got = got]
  <1>4. holder[t] \in Owner /\ (holder[t] \in past[t] \/ (past[t] = {} /\ holder[t] = Zero))
    BY <1>3 DEF IInv, TypeOK, ChainHeld
  <1>5. HasBase \/ past[t] # {}
    BY <1>2, <1>3 DEF Holds, IInv, RowsMinted
  <1>6. got \in Owner \cup {Null} /\ Readable(got, past[t])
    BY <1>4, <1>5 DEF OwnerOf, Reverts, Readable
  <1>7. s \in Reading /\ reading' = [reading EXCEPT ![r] = s]
    BY <1>1, <1>3, <1>6 DEF Reading, IInv, TypeOK
  <1>8. Holds(s, known', past')
    <2>1. /\ s.kind = reading[r].kind /\ s.token = t
          /\ s.tx = reading[r].tx /\ s.got = got /\ s.at = "write"
      BY <1>3 DEF Reading
    <2>2. UNCHANGED <<known, past>>
      BY <1>2
    <2>3. QED
      BY <1>2, <1>3, <1>5, <1>6, <2>1, <2>2 DEF Holds
  <1>9. reading' \in [Reader -> Reading \cup {Idle}] /\ Held'
    BY <1>2, <1>7, <1>8, ReaderStep
  <1>10. faults' \in 0..MaxFaults
    BY <1>1, BoundAssumption DEF IInv, TypeOK
  <1>11. QED
    BY <1>2, <1>9, <1>10, TablesStay DEF IInv, TypeOK, RowsMinted

\* The question for the URI: without a base it has an answer only of a token that is there.
LEMMA AskUriInv ==
  ASSUME IInv, NEW r \in Reader, AskUri(r)
  PROVE  IInv'
  <1> DEFINE t == reading[r].token
  <1>1. PICK base \in BOOLEAN, uri \in BOOLEAN :
          LET failed == (HasBase /\ ~base) \/ (~Reverts(t) /\ ~uri)
          IN  /\ base => HasBase
              /\ uri => ~Reverts(t)
              /\ failed => faults < MaxFaults
              /\ faults' = IF failed THEN faults + 1 ELSE faults
              /\ IF base \/ uri
                   THEN Goto(r, "ask") /\ UNCHANGED <<raced, lapsed>>
                   ELSE /\ Wrote(r, t) /\ lapsed' = IF t \in known THEN lapsed \cup {t} ELSE lapsed
                        /\ reading' = [reading EXCEPT ![r] = Idle]
    BY DEF AskUri
  <1>2. /\ Busy(r) /\ reading[r].at = "uri" /\ UNCHANGED <<chain, table, jobs>>
    BY DEF AskUri
  <1>3. reading[r] \in Reading /\ Holds(reading[r], known, past) /\ t \in Token
    BY <1>2, BusyReading
  <1>4. reading' \in [Reader -> Reading \cup {Idle}] /\ Held'
    <2>1. CASE base \/ uri
      <3>1. HasBase \/ past[t] # {}
        BY <1>1, <1>3, <2>1 DEF IInv, ChainHeld, Reverts
      <3>2. Goto(r, "ask")
        BY <1>1, <2>1
      <3>3. QED
        BY <1>2, <3>1, <3>2, ReaderGoes
    <2>2. CASE ~(base \/ uri)
      BY <1>1, <1>2, <2>2, ReaderEnds
    <2>3. QED
      BY <2>1, <2>2
  <1>5. faults' \in 0..MaxFaults
    BY <1>1, BoundAssumption DEF IInv, TypeOK
  <1>6. raced' \subseteq Reader /\ lapsed' \subseteq Token
    BY <1>1, <1>3 DEF Wrote, IInv, TypeOK
  <1>7. QED
    BY <1>2, <1>4, <1>5, <1>6, TablesStay DEF IInv, TypeOK, RowsMinted

\* createHistory up to its question.
LEMMA HistoryInv ==
  ASSUME IInv, NEW r \in Reader, FindHistory(r) \/ SaveHistory(r) \/ FindToken(r)
  PROVE  IInv'
  <1>1. ASSUME FindHistory(r) PROVE IInv'
    <2>1. reading' \in [Reader -> Reading \cup {Idle}] /\ Held'
      BY <1>1, ReaderEnds, ReaderGoes DEF FindHistory, End
    <2>2. raced' \subseteq Reader
      BY <1>1 DEF FindHistory, End, IInv, TypeOK
    <2>3. QED
      BY <1>1, <2>1, <2>2, TablesStay DEF FindHistory, IInv, TypeOK, RowsMinted
  <1>2. ASSUME SaveHistory(r) PROVE IInv'
    <2>1. reading' \in [Reader -> Reading \cup {Idle}] /\ Held'
      BY <1>2, ReaderEnds, ReaderGoes DEF SaveHistory, End
    <2>2. raced' \subseteq Reader
      BY <1>2 DEF SaveHistory, End, IInv, TypeOK
    <2>3. reading[r].tx \in 1..MaxMoves
      BY <1>2, BusyReading DEF SaveHistory, Holds
    <2>4. history' \in [Token -> SUBSET (1..MaxMoves)]
      BY <1>2, <2>3 DEF SaveHistory, IInv, TypeOK
    <2>5. QED
      BY <1>2, <2>1, <2>2, <2>4, TablesStay DEF SaveHistory, IInv, TypeOK, RowsMinted
  <1>3. ASSUME FindToken(r) PROVE IInv'
    <2>1. reading' \in [Reader -> Reading \cup {Idle}] /\ Held'
      BY <1>3, ReaderEnds, ReaderGoes DEF FindToken, End
    <2>2. raced' \subseteq Reader
      BY <1>3 DEF FindToken, End, IInv, TypeOK
    <2>3. unverified' \subseteq Token
      BY <1>3, BusyReading DEF FindToken, IInv, TypeOK
    <2>4. QED
      BY <1>3, <2>1, <2>2, <2>3, TablesStay DEF FindToken, IInv, TypeOK, RowsMinted
  <1>4. QED
    BY <1>1, <1>2, <1>3

\* A write of an owner that was read, of a token with a row or with one from now on.
LEMMA WriteKeeps ==
  ASSUME IInv, NEW t \in Token, NEW v, Readable(v, past[t]), HasBase \/ past[t] # {},
         t \in known', owner' = [owner EXCEPT ![t] = v], known' \in {known, known \cup {t}},
         UNCHANGED <<holder, past, open, found>>
  PROVE  /\ owner' \in [Token -> Owner \cup {Null}] /\ known' \subseteq Token
         /\ ChainHeld' /\ RowsMinted' /\ OwnersRead'
  <1>1. v \in Owner \cup {Null}
    BY DEF Readable, IInv, TypeOK
  <1>2. owner' \in [Token -> Owner \cup {Null}] /\ known' \subseteq Token
    BY <1>1 DEF IInv, TypeOK
  <1>3. ChainHeld' /\ RowsMinted' /\ OwnersRead'
    BY DEF IInv, TypeOK, ChainHeld, RowsMinted, OwnersRead
  <1>4. QED
    BY <1>2, <1>3

\* The three writes, and the touch that ends a fetch.
LEMMA WriteInv ==
  ASSUME IInv, NEW r \in Reader,
         WriteHistory(r) \/ Upsert(r) \/ WriteFetched(r) \/ TouchCheckAt(r)
  PROVE  IInv'
  <1> DEFINE t == reading[r].token  got == reading[r].got
  <1>1. Busy(r)
    BY DEF WriteHistory, Upsert, WriteFetched, TouchCheckAt
  <1>2. reading[r] \in Reading /\ Holds(reading[r], known, past) /\ t \in Token
    BY <1>1, BusyReading
  <1>3. ASSUME WriteHistory(r) PROVE IInv'
    <2>1. t \in known /\ (HasBase \/ past[t] # {}) /\ Readable(got, past[t])
      BY <1>2, <1>3 DEF WriteHistory, Holds, IInv, RowsMinted
    <2>2. reading' \in [Reader -> Reading \cup {Idle}] /\ Held'
      BY <1>3, ReaderEnds DEF WriteHistory
    <2>3. /\ owner' \in [Token -> Owner \cup {Null}] /\ known' \subseteq Token
          /\ ChainHeld' /\ RowsMinted' /\ OwnersRead'
      BY <1>2, <1>3, <2>1, WriteKeeps DEF WriteHistory
    <2>4. raced' \subseteq Reader /\ lapsed' \subseteq Token /\ stale' \subseteq known'
      BY <1>2, <1>3 DEF WriteHistory, Wrote, Settle, IInv, TypeOK
    <2>5. TypeOK'
      BY <1>3, <2>2, <2>3, <2>4, ReadersOnRows DEF WriteHistory, IInv, TypeOK, Held, Holds, Busy
    <2>6. QED
      BY <2>2, <2>3, <2>5 DEF IInv
  <1>4. ASSUME Upsert(r) PROVE IInv'
    <2>1. reading' \in [Reader -> Reading \cup {Idle}] /\ Held'
      BY <1>2, <1>4, ReaderEnds DEF Upsert, IInv, TypeOK
    <2>2. raced' \subseteq Reader /\ lapsed' \subseteq Token
      BY <1>2, <1>4 DEF Upsert, Wrote, Settle, IInv, TypeOK
    <2> DEFINE v == IF got = Null THEN owner[t] ELSE got
    <2>3. (HasBase \/ past[t] # {}) /\ Readable(v, past[t])
      BY <1>2, <1>4 DEF Upsert, Holds, IInv, OwnersRead
    <2>4. /\ owner' = [owner EXCEPT ![t] = v]
          /\ known' = known \cup {t} /\ stale' = stale \ {t}
          /\ UNCHANGED <<chain, history, jobs, faults>>
      BY <1>4 DEF Upsert
    <2>5. /\ owner' \in [Token -> Owner \cup {Null}] /\ known' \subseteq Token
          /\ ChainHeld' /\ RowsMinted' /\ OwnersRead'
      BY <1>2, <2>3, <2>4, WriteKeeps
    <2>6. TypeOK'
      BY <2>1, <2>2, <2>4, <2>5, ReadersOnRows DEF IInv, TypeOK, Held, Holds, Busy
    <2>7. QED
      BY <2>1, <2>5, <2>6 DEF IInv
  <1>5. ASSUME WriteFetched(r) PROVE IInv'
    <2>1. t \in known /\ (HasBase \/ past[t] # {}) /\ Readable(got, past[t])
      BY <1>2, <1>5 DEF WriteFetched, Holds, IInv, RowsMinted
    <2>2. reading' \in [Reader -> Reading \cup {Idle}] /\ Held'
      BY <1>5, ReaderGoes DEF WriteFetched
    <2>3. raced' \subseteq Reader /\ lapsed' \subseteq Token
      BY <1>2, <1>5 DEF WriteFetched, Wrote, Settle, IInv, TypeOK
    <2>4. CASE got = Null
      BY <1>5, <2>2, <2>3, <2>4, TablesStay DEF WriteFetched, IInv, TypeOK, RowsMinted
    <2>5. CASE got # Null
      <3>1. /\ owner' \in [Token -> Owner \cup {Null}] /\ known' \subseteq Token
            /\ ChainHeld' /\ RowsMinted' /\ OwnersRead'
        BY <1>2, <1>5, <2>1, <2>5, WriteKeeps DEF WriteFetched
      <3>2. TypeOK'
        BY <1>5, <2>2, <2>3, <3>1, ReadersOnRows DEF WriteFetched, IInv, TypeOK, Held, Holds, Busy
      <3>3. QED
        BY <2>2, <3>1, <3>2 DEF IInv
    <2>6. QED
      BY <2>4, <2>5
  <1>6. ASSUME TouchCheckAt(r) PROVE IInv'
    <2>1. reading' \in [Reader -> Reading \cup {Idle}] /\ Held'
      BY <1>6, ReaderEnds DEF TouchCheckAt, End
    <2>2. stale' \subseteq known' /\ raced' \subseteq Reader
      BY <1>6 DEF TouchCheckAt, End, IInv, TypeOK
    <2>3. QED
      BY <1>6, <2>1, <2>2, TablesStay DEF TouchCheckAt, IInv, TypeOK, RowsMinted
  <1>7. QED
    BY <1>3, <1>4, <1>5, <1>6

\* Sweeps, the passing of time, and the faults.
LEMMA SweepInv ==
  ASSUME IInv,
         \/ \E t \in Token : GrowStale(t) \/ CreateFetchRow(t)
         \/ SweepOwners \/ LoseSweep
  PROVE  IInv'
  <1>1. reading' = reading /\ known' = known /\ past' = past
    BY DEF GrowStale, CreateFetchRow, SweepOwners, LoseSweep
  <1>2. reading' \in [Reader -> Reading \cup {Idle}] /\ Held'
    BY <1>1, ReadersStay
  <1>3. ASSUME NEW t \in Token, GrowStale(t) PROVE IInv'
    BY <1>2, <1>3, TablesStay DEF GrowStale, IInv, TypeOK, RowsMinted
  <1>4. ASSUME NEW t \in Token, CreateFetchRow(t) PROVE IInv'
    BY <1>2, <1>4, TablesStay DEF CreateFetchRow, IInv, TypeOK, RowsMinted
  <1>5. ASSUME SweepOwners PROVE IInv'
    BY <1>2, <1>5, TablesStay DEF SweepOwners, DueForCheck, IInv, TypeOK, RowsMinted
  <1>6. ASSUME LoseSweep PROVE IInv'
    BY <1>2, <1>6, TablesStay, BoundAssumption DEF LoseSweep, IInv, TypeOK, RowsMinted
  <1>7. QED
    BY <1>3, <1>4, <1>5, <1>6

LEMMA DieInv ==
  ASSUME IInv, NEW r \in Reader, Die(r)
  PROVE  IInv'
  <1>1. reading[r] \in Reading /\ Holds(reading[r], known, past) /\ reading[r].token \in Token
    BY BusyReading DEF Die
  <1>2. reading[r].kind = "fetch" => reading[r].token \in known
    BY <1>1 DEF Holds, Reading
  <1>3. reading' \in [Reader -> Reading \cup {Idle}] /\ Held'
    BY ReaderEnds DEF Die, End
  <1>4. open' \cup found' \subseteq known' /\ lapsed' \subseteq Token /\ raced' \subseteq Reader
    BY <1>1, <1>2 DEF Die, End, IInv, TypeOK, RowsMinted
  <1>5. faults' \in 0..MaxFaults
    BY BoundAssumption DEF Die, IInv, TypeOK
  <1>6. QED
    BY <1>3, <1>4, <1>5, TablesStay DEF Die, IInv, TypeOK

LEMMA NextInv == IInv /\ [Next]_vars => IInv'
  <1> SUFFICES ASSUME IInv, [Next]_vars PROVE IInv'
    OBVIOUS
  <1>1. CASE Next
    BY <1>1, ChainInv, BeginInv, HistoryInv, AskUriInv, AskInv, WriteInv, SweepInv, DieInv DEF Next, Step
  <1>2. CASE UNCHANGED vars
    <2>1. reading' \in [Reader -> Reading \cup {Idle}] /\ Held'
      BY <1>2, ReadersStay DEF vars
    <2>2. QED
      BY <1>2, <2>1, TablesStay DEF vars, IInv, TypeOK, RowsMinted
  <1>3. QED
    BY <1>1, <1>2

-----------------------------------------------------------------------------
(* StaleOwnerExplained.  Unseen is not inductive: a transfer that is taken *)
(* for one whose row is saved is dropped, and an answer that is overtaken  *)
(* is no correction.  Fresh counts what does lead to one.                  *)

\* A reading that will look at the token or has, and if it has not been overtaken
\* writes where it is now.
Due(r) ==
  /\ reading[r].kind \in {"history", "verify"}
  /\ reading[r].at \in {"find", "save"} => reading[r].tx \notin history[reading[r].token]
  /\ reading[r].at = "write" => r \in raced \/ reading[r].got \in {Null, holder[reading[r].token]}

Fresh(t) ==
  \/ \E m \in mined \cup logs : m.token = t /\ m.tx \notin history[t]
  \/ t \in unverified
  \/ \E r \in Reader : On(r, t) /\ Due(r)

Explained(t) == Fresh(t) \/ t \in lapsed

\* Transactions are numbered as they come, so that a new one has no row.
Numbered == \A t \in Token : history[t] \subseteq 1..txs[t]

LogsNumbered ==
  /\ \A m \in mined \cup logs : m.tx <= txs[m.token]
  /\ \A r \in Reader : Busy(r) => reading[r].tx <= txs[reading[r].token]

Owners == \A t \in known : owner[t] = holder[t] \/ Explained(t)

\* An answer that is about to be written.
Pending(r, t) == On(r, t) /\ reading[r].at = "write" /\ r \notin raced /\ reading[r].got # Null

Answers ==
  \A r \in Reader, t \in Token : Pending(r, t) => reading[r].got = holder[t] \/ Explained(t)

SInv == IInv /\ Numbered /\ LogsNumbered /\ Owners /\ Answers

LEMMA InitSInv == Init => SInv
  <1> SUFFICES ASSUME Init PROVE SInv
    OBVIOUS
  <1>1. IInv
    BY InitInv
  <1>2. Numbered /\ LogsNumbered /\ Owners /\ Answers
    BY DEF Init, Numbered, LogsNumbered, Owners, Answers, Pending, On, Busy
  <1>3. QED
    BY <1>1, <1>2 DEF SInv

\* A step that writes no owner and moves no token, makes no new answer wrong and keeps
\* what explains an owner that is not the present one.
LEMMA NoWrite ==
  ASSUME SInv, IInv', UNCHANGED <<holder, owner, known, txs>>, Numbered', LogsNumbered',
         \A u \in Token : Explained(u) => Explained(u)',
         \A q \in Reader, u \in Token :
           Pending(q, u)' => \/ Pending(q, u) /\ reading'[q].got = reading[q].got
                            \/ reading'[q].got = holder[u]
  PROVE  SInv'
  <1>1. Owners'
    BY DEF SInv, IInv, TypeOK, Owners
  <1>2. Answers'
    BY DEF SInv, Answers
  <1>3. QED
    BY <1>1, <1>2 DEF SInv

\* In particular a step of no reader.
LEMMA NoReader ==
  ASSUME SInv, IInv', UNCHANGED <<holder, owner, known, txs, history, reading, raced>>,
         logs' \subseteq mined \cup logs, mined' \subseteq mined, unverified' = unverified,
         lapsed \subseteq lapsed',
         \A m \in mined \cup logs : m \in mined' \cup logs' \/ m.token \in lapsed'
  PROVE  SInv'
  <1>1. Numbered' /\ LogsNumbered'
    BY DEF SInv, Numbered, LogsNumbered, Busy
  <1>2. \A u \in Token : Explained(u) => Explained(u)'
    <2> SUFFICES ASSUME NEW u \in Token, Explained(u) PROVE Explained(u)'
      OBVIOUS
    <2>1. CASE \E m \in mined \cup logs : m.token = u /\ m.tx \notin history[u]
      BY <2>1 DEF Explained, Fresh
    <2>2. CASE \E q \in Reader : On(q, u) /\ Due(q)
      <3>1. PICK q \in Reader : On(q, u) /\ Due(q)
        BY <2>2
      <3>2. On(q, u)' /\ Due(q)'
        BY <3>1 DEF On, Busy, Due
      <3>3. QED
        BY <3>2 DEF Explained, Fresh
    <2>3. CASE u \in unverified \/ u \in lapsed
      BY <2>3 DEF Explained, Fresh
    <2>4. QED
      BY <2>1, <2>2, <2>3 DEF Explained, Fresh
  <1>3. \A q \in Reader, u \in Token :
           Pending(q, u)' => Pending(q, u) /\ reading'[q].got = reading[q].got
    BY DEF Pending, On, Busy
  <1>4. QED
    BY <1>1, <1>2, <1>3, NoWrite

LEMMA MoveSInv ==
  ASSUME SInv, IInv', NEW t \in Token, NEW a \in Owner, Move(t, a)
  PROVE  SInv'
  <1> DEFINE m == [token |-> t, tx |-> txs[t] + 1, n |-> 1]
  <1>1. /\ txs \in [Token -> 0..MaxMoves] /\ holder \in [Token -> Owner]
        /\ txs' = [txs EXCEPT ![t] = @ + 1] /\ holder' = [holder EXCEPT ![t] = a]
        /\ m \in mined' /\ mined \subseteq mined'
        /\ UNCHANGED <<logs, history, owner, known, unverified, reading, raced, lapsed>>
    BY DEF Move, SInv, IInv, TypeOK
  <1>2. Numbered'
    BY <1>1, BoundAssumption DEF SInv, Numbered
  <1>3. LogsNumbered'
    <2>1. \A u \in Token : txs[u] <= txs'[u] /\ txs[u] \in Nat /\ txs'[u] \in Nat
      BY <1>1, BoundAssumption
    <2>2. ASSUME NEW l \in mined' \cup logs' PROVE l.tx <= txs'[l.token]
      <3>1. CASE l \in mined \cup logs
        <4>1. l.token \in Token /\ l.tx \in Nat /\ l.tx <= txs[l.token]
          BY <3>1, BoundAssumption DEF SInv, IInv, TypeOK, Transfer, LogsNumbered
        <4>2. QED
          BY <4>1, <2>1
      <3>2. CASE l \notin mined \cup logs
        <4>1. l.token = t /\ l.tx = txs[t] + 1
          BY <3>2 DEF Move
        <4>2. QED
          BY <4>1, <1>1
      <3>3. QED
        BY <3>1, <3>2
    <2>3. ASSUME NEW q \in Reader, Busy(q)' PROVE reading'[q].tx <= txs'[reading'[q].token]
      <3>1. Busy(q) /\ reading'[q] = reading[q]
        BY <1>1, <2>3 DEF Busy
      <3>2. reading[q].token \in Token /\ reading[q].tx \in Nat
        BY <3>1, BusyReading, BoundAssumption DEF SInv, Reading
      <3>3. reading[q].tx <= txs[reading[q].token]
        BY <3>1 DEF SInv, LogsNumbered
      <3>4. QED
        BY <2>1, <3>1, <3>2, <3>3
    <2>4. QED
      BY <2>2, <2>3 DEF LogsNumbered
  <1>4. Explained(t)'
    <2>1. txs[t] + 1 \notin history[t]
      BY <1>1, BoundAssumption DEF SInv, Numbered
    <2>2. QED
      BY <1>1, <2>1 DEF Explained, Fresh
  <1>5. ASSUME NEW u \in Token, u # t, Explained(u) PROVE Explained(u)'
    <2>1. CASE \E q \in Reader : On(q, u) /\ Due(q)
      <3>1. PICK q \in Reader : On(q, u) /\ Due(q)
        BY <2>1
      <3>2. On(q, u)' /\ Due(q)'
        BY <1>1, <1>5, <3>1 DEF On, Busy, Due
      <3>3. QED
        BY <3>2 DEF Explained, Fresh
    <2>2. CASE ~\E q \in Reader : On(q, u) /\ Due(q)
      BY <1>1, <1>5, <2>2 DEF Explained, Fresh
    <2>3. QED
      BY <2>1, <2>2
  <1>6. \A u \in Token : u # t => holder'[u] = holder[u]
    BY <1>1
  <1>7. Owners'
    BY <1>1, <1>4, <1>5, <1>6 DEF SInv, IInv, TypeOK, Owners
  <1>8. Answers'
    <2>1. ASSUME NEW q \in Reader, NEW u \in Token, Pending(q, u)'
          PROVE  (reading[q].got = holder[u] \/ Explained(u))'
      <3>1. Pending(q, u) /\ reading'[q] = reading[q]
        BY <1>1, <2>1 DEF Pending, On, Busy
      <3>2. QED
        BY <1>4, <1>5, <1>6, <3>1 DEF SInv, Answers
    <2>2. QED
      BY <2>1 DEF Answers
  <1>9. QED
    BY <1>2, <1>3, <1>7, <1>8 DEF SInv

\* A step of one reader that writes no owner and saves no row: what it takes up or
\* drops has to stay explained.
LEMMA ReaderNoWrite ==
  ASSUME SInv, IInv', NEW r \in Reader,
         UNCHANGED <<holder, owner, known, txs, history, mined>>,
         logs' \subseteq logs, lapsed \subseteq lapsed',
         \A q \in Reader \ {r} : reading'[q] = reading[q] /\ (q \in raced' <=> q \in raced),
         Busy(r)' => reading'[r].tx <= txs[reading'[r].token],
         \A u \in Token : Pending(r, u)' => reading'[r].got = holder[u],
         \A u \in Token : On(r, u) /\ Due(r) => Explained(u)',
         \A m \in logs \ logs' : m.tx \notin history[m.token] => Explained(m.token)',
         \A u \in unverified \ unverified' : Explained(u)'
  PROVE  SInv'
  <1>1. Numbered'
    BY DEF SInv, Numbered
  <1>2. LogsNumbered'
    <2>1. ASSUME NEW q \in Reader, Busy(q)' PROVE reading'[q].tx <= txs[reading'[q].token]
      BY <2>1 DEF SInv, LogsNumbered, Busy
    <2>2. QED
      BY <2>1 DEF SInv, LogsNumbered
  <1>3. ASSUME NEW u \in Token, Explained(u) PROVE Explained(u)'
    <2>1. CASE \E m \in mined \cup logs : m.token = u /\ m.tx \notin history[u]
      BY <2>1 DEF Explained, Fresh
    <2>2. CASE \E q \in Reader : On(q, u) /\ Due(q)
      <3>1. PICK q \in Reader : On(q, u) /\ Due(q)
        BY <2>2
      <3>2. CASE q = r
        BY <3>1, <3>2
      <3>3. CASE q # r
        <4>1. On(q, u)' /\ Due(q)'
          BY <3>1, <3>3 DEF On, Busy, Due
        <4>2. QED
          BY <4>1 DEF Explained, Fresh
      <3>4. QED
        BY <3>2, <3>3
    <2>3. CASE u \in unverified \/ u \in lapsed
      BY <2>3 DEF Explained, Fresh
    <2>4. QED
      BY <1>3, <2>1, <2>2, <2>3 DEF Explained, Fresh
  <1>4. \A q \in Reader, u \in Token :
           Pending(q, u)' => \/ Pending(q, u) /\ reading'[q].got = reading[q].got
                            \/ reading'[q].got = holder[u]
    BY DEF Pending, On, Busy
  <1>5. QED
    BY <1>1, <1>2, <1>3, <1>4, NoWrite

\* What a reader is about is a transfer that happened.
LEMMA ReaderNumbered ==
  ASSUME SInv, NEW r \in Reader, Busy(r)
  PROVE  reading[r].tx <= txs[reading[r].token]
  BY DEF SInv, LogsNumbered

LEMMA BeginSInv ==
  ASSUME SInv, IInv', NEW r \in Reader,
         \/ \E log \in logs : CallCreateHistory(r, log)
         \/ \E t \in Token : BeginVerify(r, t) \/ BeginFetch(r, t)
  PROVE  SInv'
  <1>1. reading \in [Reader -> Reading \cup {Idle}] /\ ~Busy(r)
    BY DEF SInv, IInv, TypeOK, CallCreateHistory, BeginVerify, BeginFetch
  <1>2. ASSUME NEW log \in logs, CallCreateHistory(r, log) PROVE SInv'
    <2>1. /\ reading'[r] = [kind |-> "history", token |-> log.token, tx |-> log.tx,
                            at |-> "find", got |-> Null]
          /\ \A q \in Reader \ {r} : reading'[q] = reading[q]
          /\ logs' = logs \ {log}
          /\ UNCHANGED <<holder, owner, known, txs, history, mined, unverified, raced, lapsed>>
      BY <1>1, <1>2 DEF CallCreateHistory, Begin
    <2>2. Busy(r)'
      BY <2>1 DEF Busy, Idle
    <2>3. log.tx \notin history[log.token] => Explained(log.token)'
      BY <2>1, <2>2 DEF Explained, Fresh, On, Due
    <2>4. reading'[r].tx <= txs[reading'[r].token]
      BY <2>1 DEF SInv, LogsNumbered
    <2>5. \A u \in Token : ~Pending(r, u)' /\ ~On(r, u)
      BY <1>1, <2>1 DEF Pending, On
    <2>6. QED
      BY <2>1, <2>3, <2>4, <2>5, ReaderNoWrite
  <1>3. ASSUME NEW t \in Token, BeginVerify(r, t) \/ BeginFetch(r, t) PROVE SInv'
    <2>1. /\ reading'[r] = [kind |-> IF BeginVerify(r, t) THEN "verify" ELSE "fetch",
                            token |-> t, tx |-> 0,
                            at |-> IF BeginVerify(r, t) THEN "uri" ELSE "ask", got |-> Null]
          /\ \A q \in Reader \ {r} : reading'[q] = reading[q]
          /\ UNCHANGED <<holder, owner, known, txs, history, mined, logs, raced, lapsed>>
      BY <1>1, <1>3 DEF BeginVerify, BeginFetch, Begin
    <2>2. Busy(r)'
      BY <2>1 DEF Busy, Idle
    <2>3. ASSUME NEW u \in unverified \ unverified' PROVE Explained(u)'
      <3>1. BeginVerify(r, t) /\ u = t
        BY <1>3, <2>3 DEF BeginVerify, BeginFetch
      <3>2. QED
        BY <2>1, <2>2, <3>1 DEF Explained, Fresh, On, Due
    <2>4. reading'[r].tx <= txs[reading'[r].token]
      BY <2>1, BoundAssumption DEF SInv, IInv, TypeOK
    <2>5. \A u \in Token : ~Pending(r, u)' /\ ~On(r, u)
      BY <1>1, <2>1 DEF Pending, On
    <2>6. QED
      BY <2>1, <2>3, <2>4, <2>5, ReaderNoWrite
  <1>4. QED
    BY <1>2, <1>3

LEMMA AskSInv ==
  ASSUME SInv, IInv', NEW r \in Reader, Ask(r)
  PROVE  SInv'
  <1> DEFINE t == reading[r].token
  <1>1. reading[r] \in Reading /\ Holds(reading[r], known, past) /\ t \in Token /\ Busy(r)
    BY BusyReading DEF Ask, SInv
  <1>2. /\ UNCHANGED <<chain, table, jobs, lapsed>> /\ raced' = raced \ {r}
        /\ \A q \in Reader \ {r} : reading'[q] = reading[q]
    BY DEF Ask, SInv, IInv, TypeOK
  <1>3. /\ reading'[r].kind = reading[r].kind /\ reading'[r].token = t
        /\ reading'[r].tx = reading[r].tx /\ reading'[r].at = "write"
        /\ reading'[r].got \in {Null, holder[t]}
    <2>1. PICK failed \in BOOLEAN :
            reading' = [reading EXCEPT ![r].at = "write", ![r].got = OwnerOf(t, failed)]
      BY DEF Ask
    <2> DEFINE got == OwnerOf(t, failed)
    <2>2. got \in {Null, holder[t]}
      BY DEF OwnerOf, Reverts
    <2>3. reading'[r] = [reading[r] EXCEPT !.at = "write", !.got = got]
      BY <1>1, <2>1 DEF SInv, IInv, TypeOK
    <2>4. QED
      BY <1>1, <2>2, <2>3 DEF Reading
  <1>4. Busy(r)'
    BY <1>1, <1>3 DEF Busy, Idle, Reading, Kind
  <1>5. ASSUME NEW u \in Token, On(r, u), Due(r) PROVE Explained(u)'
    BY <1>2, <1>3, <1>4, <1>5 DEF Explained, Fresh, On, Due
  <1>6. \A u \in Token : Pending(r, u)' => reading'[r].got = holder[u]
    BY <1>3 DEF Pending, On
  <1>7. reading'[r].tx <= txs[reading'[r].token]
    BY <1>1, <1>3, ReaderNumbered
  <1>8. QED
    BY <1>2, <1>5, <1>6, <1>7, ReaderNoWrite

\* A verification that has a URI goes on; one that has none leaves the row as it was, and
\* whoever was about to write is overtaken.
LEMMA AskUriSInv ==
  ASSUME SInv, IInv', NEW r \in Reader, AskUri(r)
  PROVE  SInv'
  <1> PICK t \in Token : t = reading[r].token
    BY BusyReading DEF AskUri, SInv
  <1>1. /\ reading[r] \in Reading /\ Holds(reading[r], known, past) /\ Busy(r)
        /\ reading[r].at = "uri" /\ UNCHANGED <<chain, table, jobs>>
        /\ \A q \in Reader \ {r} : reading'[q] = reading[q]
    BY BusyReading DEF AskUri, Goto, SInv, IInv, TypeOK
  <1>2. CASE Goto(r, "ask") /\ UNCHANGED <<raced, lapsed>>
    <2>1. /\ reading'[r].kind = reading[r].kind /\ reading'[r].token = t
          /\ reading'[r].tx = reading[r].tx /\ reading'[r].at = "ask"
      BY <1>1, <1>2 DEF Goto, SInv, IInv, TypeOK, Reading
    <2>2. Busy(r)'
      BY <1>1, <2>1 DEF Busy, Idle, Reading, Kind
    <2>3. ASSUME NEW u \in Token, On(r, u), Due(r) PROVE Explained(u)'
      BY <1>1, <2>1, <2>2, <2>3 DEF Explained, Fresh, On, Due
    <2>4. \A u \in Token : ~Pending(r, u)'
      BY <2>1 DEF Pending
    <2>5. reading'[r].tx <= txs[reading'[r].token]
      BY <1>1, <2>1, ReaderNumbered
    <2>6. QED
      BY <1>1, <1>2, <2>3, <2>4, <2>5, ReaderNoWrite
  <1>3. CASE /\ Wrote(r, t) /\ lapsed' = IF t \in known THEN lapsed \cup {t} ELSE lapsed
             /\ reading' = [reading EXCEPT ![r] = Idle]
    <2>1. ~Busy(r)' /\ (\A q \in Reader : q # r /\ q \in raced => q \in raced')
      BY <1>3 DEF Wrote, Busy, SInv, IInv, TypeOK
    <2>2. Numbered' /\ LogsNumbered'
      <3>1. \A q \in Reader : Busy(q)' => Busy(q) /\ reading'[q] = reading[q]
        BY <1>1, <2>1 DEF Busy
      <3>2. QED
        BY <1>1, <3>1 DEF SInv, Numbered, LogsNumbered
    <2>3. ASSUME NEW u \in Token, Explained(u), u # t \/ t \in known PROVE Explained(u)'
      <3>1. CASE \E q \in Reader : On(q, u) /\ Due(q)
        <4>1. PICK q \in Reader : On(q, u) /\ Due(q)
          BY <3>1
        <4>2. CASE q = r
          BY <1>3, <2>3, <4>1, <4>2 DEF Explained, On
        <4>3. CASE q # r
          <5>1. On(q, u)' /\ Due(q)'
            BY <1>1, <2>1, <4>1, <4>3 DEF On, Busy, Due
          <5>2. QED
            BY <5>1 DEF Explained, Fresh
        <4>4. QED
          BY <4>2, <4>3
      <3>2. CASE ~\E q \in Reader : On(q, u) /\ Due(q)
        BY <1>1, <1>3, <2>3, <3>2 DEF Explained, Fresh
      <3>3. QED
        BY <3>1, <3>2
    <2>4. Owners'
      BY <1>1, <2>3 DEF Owners, SInv, IInv, TypeOK
    <2>5. Answers'
      <3>1. ASSUME NEW q \in Reader, NEW u \in Token, Pending(q, u)'
            PROVE  (reading[q].got = holder[u] \/ Explained(u))'
        <4>1. q # r /\ reading'[q] = reading[q] /\ On(q, u) /\ reading[q].at = "write"
          BY <1>1, <2>1, <3>1 DEF Pending, On, Busy
        <4>2. u # t /\ Pending(q, u)
          BY <1>3, <2>1, <3>1, <4>1 DEF Wrote, Pending
        <4>3. QED
          BY <1>1, <2>3, <4>1, <4>2 DEF SInv, Answers
      <3>2. QED
        BY <3>1 DEF Answers
    <2>6. QED
      BY <2>2, <2>4, <2>5 DEF SInv
  <1>4. QED
    BY <1>2, <1>3 DEF AskUri

LEMMA HistorySInv ==
  ASSUME SInv, IInv', NEW r \in Reader, FindHistory(r) \/ SaveHistory(r) \/ FindToken(r)
  PROVE  SInv'
  <1> PICK t \in Token : t = reading[r].token
    BY BusyReading DEF FindHistory, SaveHistory, FindToken, SInv
  <1> DEFINE x == reading[r].tx
  <1>1. /\ reading[r] \in Reading /\ Holds(reading[r], known, past) /\ t \in Token /\ Busy(r)
        /\ \A q \in Reader \ {r} : reading'[q] = reading[q] /\ (q \in raced' <=> q \in raced)
        /\ UNCHANGED <<chain, owner, known, stale, lapsed>>
    BY BusyReading DEF FindHistory, SaveHistory, FindToken, Goto, End, SInv, IInv, TypeOK
  <1>2. ASSUME End(r) PROVE ~Busy(r)' /\ \A u \in Token : ~Pending(r, u)'
    BY <1>2 DEF End, Busy, Pending, On, SInv, IInv, TypeOK
  <1>3. ASSUME NEW at, Goto(r, at)
        PROVE  /\ reading'[r].at = at /\ reading'[r].kind = reading[r].kind
               /\ reading'[r].token = t /\ reading'[r].tx = x
               /\ Busy(r)'
    <2>1. reading'[r] = [reading[r] EXCEPT !.at = at]
      BY <1>3 DEF Goto, SInv, IInv, TypeOK
    <2>2. /\ reading'[r].at = at /\ reading'[r].kind = reading[r].kind
          /\ reading'[r].token = t /\ reading'[r].tx = x
      BY <1>1, <2>1 DEF Reading
    <2>3. QED
      BY <1>1, <2>2 DEF Busy, Idle, Reading, Kind
  <1>4. x <= txs[t]
    BY <1>1, ReaderNumbered
  <1>5. ASSUME FindHistory(r) PROVE SInv'
    <2>1. ASSUME NEW u \in Token, On(r, u), Due(r) PROVE Explained(u)'
      <3>1. Goto(r, "save") /\ u = t /\ x \notin history[t]
        BY <1>5, <2>1 DEF FindHistory, AlreadyExists, On, Due
      <3>2. On(r, u)' /\ Due(r)'
        BY <1>3, <1>5, <2>1, <3>1 DEF On, Due, FindHistory
      <3>3. QED
        BY <3>2 DEF Explained, Fresh
    <2>2. /\ Busy(r)' => reading'[r].tx <= txs[reading'[r].token]
          /\ \A u \in Token : ~Pending(r, u)'
      BY <1>2, <1>3, <1>4, <1>5 DEF FindHistory, Pending
    <2>3. QED
      BY <1>1, <1>5, <2>1, <2>2, ReaderNoWrite DEF FindHistory
  <1>6. ASSUME FindToken(r) PROVE SInv'
    <2>1. ASSUME NEW u \in Token, On(r, u), Due(r) PROVE Explained(u)'
      <3>1. CASE t \in known
        <4>1. On(r, u)' /\ Due(r)'
          BY <1>3, <1>6, <2>1, <3>1 DEF On, Due, FindToken
        <4>2. QED
          BY <4>1 DEF Explained, Fresh
      <3>2. CASE t \notin known
        BY <1>6, <2>1, <3>2 DEF Explained, Fresh, FindToken, On
      <3>3. QED
        BY <3>1, <3>2
    <2>2. /\ Busy(r)' => reading'[r].tx <= txs[reading'[r].token]
          /\ \A u \in Token : ~Pending(r, u)'
      BY <1>2, <1>3, <1>4, <1>6 DEF FindToken, Pending
    <2>3. unverified \subseteq unverified'
      BY <1>6 DEF FindToken
    <2>4. QED
      BY <1>1, <1>6, <2>1, <2>2, <2>3, ReaderNoWrite DEF FindToken
  <1>7. ASSUME SaveHistory(r), ~AlreadyExists(r) PROVE SInv'
    <2>1. /\ Goto(r, "token") /\ raced' = raced /\ unverified' = unverified
          /\ history' = [history EXCEPT ![t] = @ \cup {x}]
      BY <1>7 DEF SaveHistory
    <2>2. /\ history \in [Token -> SUBSET (1..MaxMoves)] /\ reading[r].kind = "history"
          /\ x \in 1..txs[t]
      BY <1>1, <1>4, <1>7, BoundAssumption DEF SaveHistory, Holds, SInv, IInv, TypeOK
    <2>3. Explained(t)'
      <3>1. On(r, t)' /\ Due(r)'
        BY <1>3, <2>1, <2>2 DEF On, Due
      <3>2. QED
        BY <3>1 DEF Explained, Fresh
    <2>4. ASSUME NEW u \in Token, u # t, Explained(u) PROVE Explained(u)'
      <3>1. history'[u] = history[u]
        BY <2>1, <2>2, <2>4
      <3>2. CASE \E q \in Reader : On(q, u) /\ Due(q)
        <4>1. PICK q \in Reader : On(q, u) /\ Due(q)
          BY <3>2
        <4>2. On(q, u)' /\ Due(q)'
          BY <1>1, <2>4, <3>1, <4>1 DEF On, Busy, Due
        <4>3. QED
          BY <4>2 DEF Explained, Fresh
      <3>3. CASE ~\E q \in Reader : On(q, u) /\ Due(q)
        BY <1>1, <2>1, <2>4, <3>1, <3>3 DEF Explained, Fresh
      <3>4. QED
        BY <3>2, <3>3
    <2>5. Numbered'
      BY <1>1, <2>1, <2>2 DEF SInv, Numbered
    <2>6. LogsNumbered'
      <3>1. ASSUME NEW q \in Reader, Busy(q)' PROVE reading'[q].tx <= txs[reading'[q].token]
        BY <1>1, <1>3, <1>4, <2>1, <3>1 DEF SInv, LogsNumbered, Busy
      <3>2. QED
        BY <1>1, <3>1 DEF SInv, LogsNumbered
    <2>7. ASSUME NEW q \in Reader, NEW u \in Token, Pending(q, u)'
          PROVE  Pending(q, u) /\ reading'[q].got = reading[q].got
      BY <1>1, <1>3, <2>1, <2>7 DEF Pending, On, Busy
    <2>8. \A u \in Token : Explained(u) => Explained(u)'
      BY <2>3, <2>4
    <2>9. \A q \in Reader, u \in Token :
            Pending(q, u)' => \/ Pending(q, u) /\ reading'[q].got = reading[q].got
                             \/ reading'[q].got = holder[u]
      BY <2>7
    <2>10. UNCHANGED <<holder, owner, known, txs>>
      BY <1>1
    <2>11. QED
      BY <2>5, <2>6, <2>8, <2>9, <2>10, NoWrite
  <1>8. ASSUME SaveHistory(r), AlreadyExists(r) PROVE SInv'
    <2>1. \A u \in Token : ~(On(r, u) /\ Due(r))
      BY <1>8 DEF SaveHistory, AlreadyExists, Due
    <2>2. ~Busy(r)' /\ (\A u \in Token : ~Pending(r, u)') /\ history' = history
      BY <1>2, <1>8 DEF SaveHistory
    <2>3. QED
      BY <1>1, <1>8, <2>1, <2>2, ReaderNoWrite DEF SaveHistory
  <1>9. QED
    BY <1>5, <1>6, <1>7, <1>8

\* A reader writes its answer, and whoever else was about to is overtaken.
LEMMA WriteSInv ==
  ASSUME SInv, IInv', NEW r \in Reader, WriteHistory(r) \/ Upsert(r) \/ WriteFetched(r)
  PROVE  SInv'
  <1> PICK t \in Token : t = reading[r].token
    BY BusyReading DEF WriteHistory, Upsert, WriteFetched, SInv
  <1> DEFINE got == reading[r].got
  <1>1. /\ reading[r] \in Reading /\ Holds(reading[r], known, past) /\ t \in Token /\ Busy(r)
        /\ reading[r].at = "write"
        /\ \A q \in Reader \ {r} : reading'[q] = reading[q] /\ (q \in raced => q \in raced')
        /\ UNCHANGED <<chain, history, jobs>>
    BY BusyReading DEF WriteHistory, Upsert, WriteFetched, Wrote, Goto, SInv, IInv, TypeOK
  <1>2. \A u \in Token : ~Pending(r, u)'
    <2>1. reading'[r] = Idle \/ reading'[r].at = "check"
      BY <1>1 DEF WriteHistory, Upsert, WriteFetched, Goto, SInv, IInv, TypeOK, Reading
    <2>2. QED
      BY <2>1 DEF Pending, On, Busy
  <1>3. Busy(r)' => reading'[r].tx <= txs[reading'[r].token]
    <2>1. CASE reading'[r] = Idle
      BY <2>1 DEF Busy
    <2>2. CASE reading'[r] # Idle
      <3>1. reading'[r] = [reading[r] EXCEPT !.at = "check"]
        BY <2>2 DEF WriteHistory, Upsert, WriteFetched, Goto, SInv, IInv, TypeOK
      <3>2. reading'[r].tx = reading[r].tx /\ reading'[r].token = t
        BY <1>1, <3>1 DEF Reading
      <3>3. QED
        BY <1>1, <3>2, ReaderNumbered
    <2>3. QED
      BY <2>1, <2>2
  <1>4. Numbered' /\ LogsNumbered'
    <2>1. \A q \in Reader : Busy(q)' => reading'[q].tx <= txs[reading'[q].token]
      BY <1>1, <1>3 DEF SInv, LogsNumbered, Busy
    <2>2. QED
      BY <1>1, <2>1 DEF SInv, Numbered, LogsNumbered
  \* What is explained other than by the reader that writes stays explained.
  <1>5. ASSUME NEW u \in Token, Fresh(u), ~(On(r, u) /\ Due(r)) PROVE Fresh(u)'
    <2>1. CASE \E q \in Reader : On(q, u) /\ Due(q)
      <3>1. PICK q \in Reader : On(q, u) /\ Due(q)
        BY <2>1
      <3>2. q # r
        BY <1>5, <3>1
      <3>3. On(q, u)' /\ Due(q)'
        BY <1>1, <3>1, <3>2 DEF On, Busy, Due
      <3>4. QED
        BY <3>3 DEF Fresh
    <2>2. CASE ~\E q \in Reader : On(q, u) /\ Due(q)
      BY <1>1, <1>5, <2>2 DEF Fresh
    <2>3. QED
      BY <2>1, <2>2
  <1>6. ASSUME NEW u \in Token, u # t
        PROVE  /\ owner'[u] = owner[u] /\ (u \in known' <=> u \in known)
               /\ (u \in lapsed' <=> u \in lapsed)
               /\ (Explained(u) => Explained(u)')
    <2>1. /\ owner'[u] = owner[u] /\ (u \in known' <=> u \in known)
          /\ (u \in lapsed' <=> u \in lapsed)
      BY <1>6 DEF WriteHistory, Upsert, WriteFetched, Settle, SInv, IInv, TypeOK
    <2>2. ~(On(r, u) /\ Due(r))
      BY <1>6 DEF On
    <2>3. QED
      BY <1>5, <2>1, <2>2 DEF Explained
  \* The token written: the owner is where it is, or that it is not is explained.
  <1>7. t \in known' => (owner[t] = holder[t] \/ Explained(t))'
    <2>1. CASE r \in raced
      <3>1. t \in lapsed' \/ (owner' = owner /\ known' = known /\ lapsed' = lapsed /\ ~Due(r))
        BY <2>1 DEF WriteHistory, Upsert, WriteFetched, Settle, Due
      <3>2. QED
        BY <1>1, <1>5, <3>1 DEF Explained, SInv, Owners
    <2>2. CASE r \notin raced /\ got = Null
      <3>1. t \in lapsed' \/ (owner' = owner /\ known' = known /\ lapsed' = lapsed /\ ~Due(r))
        BY <2>2, ValueAssumption DEF WriteHistory, Upsert, WriteFetched, Settle, Due
      <3>2. QED
        BY <1>1, <1>5, <3>1 DEF Explained, SInv, Owners
    <2>3. CASE r \notin raced /\ got # Null /\ got = holder[t]
      <3>1. owner' = [owner EXCEPT ![t] = got]
        BY <2>3 DEF WriteHistory, Upsert, WriteFetched
      <3>2. QED
        BY <1>1, <2>3, <3>1 DEF SInv, IInv, TypeOK
    <2>4. CASE r \notin raced /\ got # Null /\ got # holder[t]
      <3>1. Pending(r, t) /\ ~Due(r)
        BY <1>1, <2>4 DEF Pending, On, Due
      <3>2. Explained(t)
        BY <1>1, <2>4, <3>1 DEF SInv, Answers
      <3>3. t \in lapsed => t \in lapsed'
        BY <2>4 DEF WriteHistory, Upsert, WriteFetched, Settle
      <3>4. QED
        BY <1>1, <1>5, <3>1, <3>2, <3>3 DEF Explained
    <2>5. QED
      BY <2>1, <2>2, <2>3, <2>4
  \* Another answer about the token that is still to be written as it came.
  <1>8. ASSUME NEW q \in Reader, Pending(q, t)'
        PROVE  (reading[q].got = holder[t] \/ Explained(t))'
    <2>1. q # r /\ Pending(q, t) /\ reading'[q] = reading[q]
      BY <1>1, <1>2, <1>8 DEF Pending, On, Busy
    <2>2. raced' = raced /\ lapsed' = lapsed /\ ~Due(r)
      BY <1>1, <1>8, <2>1 DEF WriteHistory, Upsert, WriteFetched, Wrote, Pending, Due
    <2>3. QED
      BY <1>1, <1>5, <2>1, <2>2 DEF SInv, Answers, Explained
  <1>9. Owners'
    BY <1>1, <1>6, <1>7 DEF Owners, SInv, IInv, TypeOK
  <1>10. Answers'
    <2>1. ASSUME NEW q \in Reader, NEW u \in Token, u # t, Pending(q, u)'
          PROVE  (reading[q].got = holder[u] \/ Explained(u))'
      <3>1. q # r /\ Pending(q, u) /\ reading'[q] = reading[q]
        BY <1>1, <1>2, <2>1 DEF Pending, On, Busy
      <3>2. QED
        BY <1>1, <1>6, <2>1, <3>1 DEF SInv, Answers
    <2>2. QED
      BY <1>8, <2>1 DEF Answers
  <1>11. QED
    BY <1>4, <1>9, <1>10 DEF SInv

\* A reading ends with nothing written: a fetch that is through, or one that died.
LEMMA EndSInv ==
  ASSUME SInv, IInv', NEW r \in Reader, TouchCheckAt(r) \/ Die(r)
  PROVE  SInv'
  <1>1. /\ UNCHANGED <<chain, history, owner, known, unverified>> /\ End(r) /\ Busy(r)
        /\ lapsed \subseteq lapsed'
    BY DEF TouchCheckAt, Die
  <1>2. /\ ~Busy(r)' /\ \A u \in Token : ~Pending(r, u)'
        /\ \A q \in Reader \ {r} : reading'[q] = reading[q] /\ (q \in raced' <=> q \in raced)
    BY <1>1 DEF End, Busy, Pending, On, SInv, IInv, TypeOK
  <1>3. ASSUME NEW u \in Token, On(r, u), Due(r) PROVE Explained(u)'
    <2>1. reading[r].kind # "fetch" /\ ~TouchCheckAt(r)
      BY <1>1, <1>3, BusyReading DEF TouchCheckAt, Due, Holds, SInv
    <2>2. u \in lapsed'
      BY <1>3, <2>1 DEF Die, On
    <2>3. QED
      BY <2>2 DEF Explained
  <1>4. QED
    BY <1>1, <1>2, <1>3, ReaderNoWrite

LEMMA OutsideSInv ==
  ASSUME SInv, IInv',
         \/ \E w \in Worker : SyncLocalCache(w)
         \/ \E w \in Worker, t \in Token, x \in 1..MaxMoves : ProcessLogs(w, t, x)
         \/ \E t \in Token : GrowStale(t) \/ CreateFetchRow(t)
         \/ SweepOwners \/ LoseSweep
  PROVE  SInv'
  <1>1. /\ UNCHANGED <<holder, owner, known, txs, history, reading, raced, unverified>>
        /\ logs' \subseteq mined \cup logs /\ mined' \subseteq mined /\ lapsed \subseteq lapsed'
        /\ \A m \in mined \cup logs : m \in mined' \cup logs' \/ m.token \in lapsed'
    BY DEF SyncLocalCache, ProcessLogs, GrowStale, CreateFetchRow, SweepOwners, LoseSweep
  <1>2. QED
    BY <1>1, NoReader

LEMMA NextSInv == SInv /\ [Next]_vars => SInv'
  <1> SUFFICES ASSUME SInv, [Next]_vars PROVE SInv'
    OBVIOUS
  <1>1. IInv'
    BY NextInv DEF SInv
  <1>2. CASE Next
    BY <1>1, <1>2, MoveSInv, BeginSInv, HistorySInv, AskUriSInv, AskSInv, WriteSInv, EndSInv, OutsideSInv
       DEF Next, Step
  <1>3. CASE UNCHANGED vars
    <2>1. \A m \in mined \cup logs : m \in mined' \cup logs'
      BY <1>3 DEF vars
    <2>2. QED
      BY <1>1, <1>3, <2>1, NoReader DEF vars
  <1>4. QED
    BY <1>2, <1>3

\* What is fresh is still to be looked at.
LEMMA FreshUnseen ==
  ASSUME NEW t \in Token, Fresh(t)
  PROVE  Unseen(t)
  BY DEF Fresh, Unseen, Due

-----------------------------------------------------------------------------
(* The theorems.                                                           *)

\* Every variable keeps to its type; in particular a reading of createHistory or of a
\* fetch that has come to its question is about a token that has a row.
THEOREM TypeCorrect == Spec => []TypeOK
  <1>1. IInv => TypeOK
    BY DEF IInv
  <1>2. QED
    BY InitInv, NextInv, <1>1, PTL DEF Spec

\* The owner shown is one the token has had, with any number of tokens, workers,
\* readings, transfers and faults; or the zero address, shown of an id that had a URI
\* before it was minted and until what its mint leads to has been done.
THEOREM OwnerWasHeldAlways == Spec => []OwnerWasHeld
  <1>1. SInv => OwnerWasHeld
    <2> SUFFICES ASSUME SInv, NEW t \in Token, owner[t] \notin past[t] \cup {Null}
                 PROVE  HasBase /\ owner[t] = Zero /\ (past[t] = {} \/ Unseen(t) \/ t \in lapsed)
      BY DEF OwnerWasHeld
    <2>1. HasBase /\ owner[t] = Zero /\ t \in known
      BY DEF SInv, IInv, OwnersRead, Readable, RowsMinted
    <2>2. CASE past[t] # {}
      <3>1. holder[t] # owner[t]
        BY <2>2 DEF SInv, IInv, ChainHeld
      <3>2. QED
        BY <2>1, <3>1, FreshUnseen DEF SInv, Owners, Explained
    <2>3. QED
      BY <2>1, <2>2
  <1>2. QED
    BY InitSInv, NextSInv, <1>1, PTL DEF Spec

\* An owner that is not the present one has a correction coming or one of the causes
\* that are counted, however many readings overtake each other.
THEOREM StaleOwnerAlwaysExplained == Spec => []StaleOwnerExplained
  <1>1. SInv => StaleOwnerExplained
    <2> SUFFICES ASSUME SInv, NEW t \in known PROVE owner[t] = holder[t] \/ Unseen(t) \/ t \in lapsed
      BY DEF StaleOwnerExplained
    <2>1. t \in Token
      BY DEF SInv, IInv, TypeOK
    <2>2. QED
      BY <2>1, FreshUnseen DEF SInv, Owners, Explained
  <1>2. QED
    BY InitSInv, NextSInv, <1>1, PTL DEF Spec
=============================================================================
