--------------------------- MODULE VerifyMint_proofs ---------------------------
(***************************************************************************)
(* Theorems of VerifyMint, for any tables, tokens, batches, creating       *)
(* requests and executions.                                                *)
(***************************************************************************)
EXTENDS VerifyMint, FiniteSetTheorems, TLAPS

\* The table is filled from its first row on, and nothing is noted of the others.
Filled ==
  /\ Used = 1..Cardinality(Used)
  /\ \A r \in Row \ Used : due[r] = {} /\ missed[r] = {}

\* The ids of a row are consecutive, at most as many as a first and a next job have.
Batch(s) ==
  \E a, b \in Nat :
    s = a..b /\ 1 <= a /\ a <= b /\ b < a + FirstCount + BatchCount /\ b <= MaxId
Shaped == \A r \in Used : Batch(ids[r])

\* What the execution e holds while it works, on a row that is its own: every id that
\* was minted when it began is still to be asked for, found, or written off.
Hold(e) ==
  /\ pc[e] = "idle" => at[e] = NoRow /\ want[e] = NoToken /\ tx[e] = {}
  /\ pc[e] # "idle" =>
       /\ at[e] \in Used /\ want[e] \in ids[at[e]] \cup {NoToken}
       /\ at[e] \notin outlived =>
            /\ status[at[e]] \in {"created", "started"}
            /\ pc[e] = "ask" =>
                 due[at[e]] \ missed[at[e]] \subseteq tx[e] \cup left[e] \cup {want[e]}
            /\ pc[e] \in {"close", "hung"} => due[at[e]] \ missed[at[e]] \subseteq tx[e]
Held == \A e \in Execution : Hold(e)

\* Two executions are on one row only when one of them outlived its job.
Alone ==
  \A e, f \in Execution : e # f /\ at[e] = at[f] /\ at[e] # NoRow => at[e] \in outlived

IInv ==
  /\ TypeOK /\ Filled /\ Shaped /\ Held /\ Alone
  /\ ChainUnbroken /\ BatchIndexed /\ RowsAccounted

\* The two sets that RowsAccounted counts.
Creations == {c \in Creator : creator[c] \in {"save", "orphan", "saved"}}
Extended == {r \in Completed : found[r] > 0}

USE DEF contract, rows, handlers, history, NoRow, NoToken

LEMMA Bounds ==
  /\ MaxRow \in Nat /\ MaxToken \in Nat /\ MaxAge \in Nat /\ MaxTransfer \in Nat /\ MaxFaults \in Nat
  /\ FirstCount \in Nat /\ FirstCount >= 1 /\ BatchCount \in Nat /\ BatchCount >= 1
  /\ MaxId \in Nat /\ MaxId = MaxToken + 2 * (FirstCount + BatchCount)
  BY BoundAssumption DEF MaxId

-----------------------------------------------------------------------------
(* Batches and counts.                                                     *)

\* The ids after a batch with a minted one are a batch.
LEMMA NextBatch ==
  ASSUME NEW s, Batch(s), NEW t \in s, t <= MaxToken
  PROVE  Batch(NextSequential(s))
  <1>1. PICK a \in Nat, b \in Nat :
          s = a..b /\ 1 <= a /\ a <= b /\ b < a + FirstCount + BatchCount /\ b <= MaxId
    BY DEF Batch
  <1>2. Max(s) = b
    BY <1>1 DEF Max
  <1>3. b < MaxToken + FirstCount + BatchCount
    BY <1>1, Bounds
  <1>4. NextSequential(s) = (b + 1)..(b + BatchCount)
    BY <1>2 DEF NextSequential
  <1>5. /\ b + 1 \in Nat /\ b + BatchCount \in Nat /\ 1 <= b + 1 /\ b + 1 <= b + BatchCount
        /\ b + BatchCount < (b + 1) + FirstCount + BatchCount /\ b + BatchCount <= MaxId
    BY <1>3, Bounds
  <1> QED
    BY <1>4, <1>5 DEF Batch

LEMMA FirstBatch == Batch(1..FirstCount)
  BY Bounds DEF Batch

LEMMA TokenBatch == ASSUME NEW t \in Token PROVE Batch({t})
  <1>1. {t} = t..t /\ t \in Nat /\ 1 <= t /\ t < t + FirstCount + BatchCount /\ t <= MaxId
    BY Bounds DEF Token
  <1> QED
    BY <1>1 DEF Batch

LEMMA BatchTyped == ASSUME NEW s, Batch(s) PROVE s \subseteq 1..MaxId
  BY Bounds DEF Batch

LEMMA FiniteSets ==
  /\ IsFiniteSet(Used) /\ IsFiniteSet(Extended) /\ IsFiniteSet(Creations)
  /\ Cardinality(Used) \in Nat /\ Cardinality(Extended) \in Nat /\ Cardinality(Creations) \in Nat
  <1>1. IsFiniteSet(Row)
    BY Bounds, FS_Interval DEF Row
  <1>2. IsFiniteSet(Used) /\ IsFiniteSet(Extended)
    BY <1>1, FS_Subset DEF Used, Extended, Completed
  <1>3. IsFiniteSet(Creations)
    BY CreatorAssumption, FS_Subset DEF Creations
  <1> QED
    BY <1>2, <1>3, FS_CardinalityType

LEMMA TokensCounted == ASSUME NEW s \in SUBSET Token PROVE Cardinality(s) \in 0..MaxToken
  <1>1. IsFiniteSet(Token) /\ Cardinality(Token) = MaxToken
    BY Bounds, FS_Interval DEF Token
  <1>2. IsFiniteSet(s) /\ Cardinality(s) <= MaxToken
    BY <1>1, FS_Subset
  <1> QED
    BY <1>2, FS_CardinalityType, Bounds

LEMMA Accounted ==
  RowsAccounted <=>
    (outlived = {} =>
       Cardinality(Used) = Cardinality(Creations) + transfers + Cardinality(Extended))
  BY DEF RowsAccounted, Creations, Extended

LEMMA AccountedNext ==
  RowsAccounted' <=>
    (outlived' = {} =>
       Cardinality(Used') = Cardinality(Creations') + transfers' + Cardinality(Extended'))
  BY DEF RowsAccounted, Creations, Extended

-----------------------------------------------------------------------------
(* The initial states.                                                     *)

LEMMA InitInv == Init => IInv
  <1> SUFFICES ASSUME Init PROVE IInv
    OBVIOUS
  <1>1. Used = {} /\ Completed = {} /\ Creations = {} /\ Extended = {}
    BY DEF Init, Used, Completed, Creations, Extended
  <1>2. Cardinality({}) = 0
    BY FS_EmptySet
  <1>3. TypeOK
    <2>1. /\ age \in 0..MaxAge /\ transfers \in 0..MaxTransfer /\ faults \in 0..MaxFaults
          /\ found \in [Row -> 0..MaxToken]
      BY Bounds DEF Init
    <2>2. minted \subseteq Token /\ tokens \subseteq minted /\ want \in [Execution -> minted \cup {NoToken}]
      BY DEF Init
    <2>3. /\ ids \in [Row -> SUBSET (1..MaxId)]
          /\ left \in [Execution -> SUBSET (1..MaxId)]
          /\ tx \in [Execution -> SUBSET minted] /\ {due, missed} \subseteq [Row -> SUBSET minted]
      BY DEF Init
    <2> QED
      BY <2>1, <2>2, <2>3 DEF Init, TypeOK
  <1>4. Filled /\ Shaped
    BY <1>1, <1>2 DEF Filled, Shaped, Init
  <1>5. Held /\ Alone
    BY DEF Init, Held, Hold, Alone
  <1>6. ChainUnbroken /\ BatchIndexed
    BY <1>1 DEF ChainUnbroken, BatchIndexed
  <1>7. RowsAccounted
    BY <1>1, <1>2, Accounted DEF Init
  <1> QED
    BY <1>3, <1>4, <1>5, <1>6, <1>7 DEF IInv

-----------------------------------------------------------------------------
(* What a step that leaves some variables alone keeps.                     *)

\* A step that inserts no row, completes none and changes no ids keeps the table and
\* the chain; what is noted of a row may change only while it is in the table.
LEMMA TableStays ==
  ASSUME IInv, UNCHANGED <<ids, found>>,
         \A r \in Row : status'[r] = "absent" <=> status[r] = "absent",
         \A r \in Row : status'[r] = "completed" => status[r] = "completed",
         \A r \in Row \ Used : due'[r] = due[r] /\ missed'[r] = missed[r]
  PROVE  Used' = Used /\ Filled' /\ Shaped' /\ Completed' \subseteq Completed /\ ChainUnbroken'
  <1>1. Used' = Used
    BY DEF Used
  <1>2. Filled'
    BY <1>1 DEF IInv, Filled
  <1>3. Shaped'
    <2> SUFFICES ASSUME NEW r \in Used PROVE Batch(ids'[r])
      BY <1>1 DEF Shaped
    <2>1. Batch(ids[r])
      BY DEF IInv, Shaped
    <2> QED
      BY <2>1
  <1>4. Completed' \subseteq Completed
    BY DEF Completed
  <1>5. ChainUnbroken'
    <2> SUFFICES ASSUME NEW r \in Completed, found[r] > 0
                 PROVE  \E s \in Used : ids[s] = NextSequential(ids[r])
      BY <1>1, <1>4 DEF ChainUnbroken, NextSequential
    <2> QED
      BY DEF IInv, ChainUnbroken
  <1> QED
    BY <1>1, <1>2, <1>3, <1>4, <1>5

\* A step of one execution, or of none, on the variables of the others.
LEMMA OneExecution ==
  ASSUME IInv, NEW e \in Execution, Hold(e)', Used \subseteq Used',
         \A r \in Used : ids'[r] = ids[r], outlived \subseteq outlived',
         \A f \in Execution \ {e} :
           /\ at'[f] = at[f] /\ pc'[f] = pc[f] /\ left'[f] = left[f]
           /\ want'[f] = want[f] /\ tx'[f] = tx[f],
         \A r \in Row :
           \/ r = at[e] \/ r \in outlived'
           \/ \A f \in Execution \ {e} : at[f] # r
           \/ /\ due'[r] = due[r] /\ missed'[r] = missed[r]
              /\ status[r] \in {"created", "started"} => status'[r] \in {"created", "started"},
         at'[e] # NoRow => at'[e] = at[e] \/ at'[e] \in outlived' \/ \A f \in Execution \ {e} : at[f] # at'[e]
  PROVE  Held' /\ Alone'
  <1>1. ASSUME NEW f \in Execution \ {e} PROVE Hold(f)'
    <2>1. Hold(f)
      BY DEF IInv, Held
    <2>2. /\ at'[f] = at[f] /\ pc'[f] = pc[f] /\ left'[f] = left[f]
          /\ want'[f] = want[f] /\ tx'[f] = tx[f]
      OBVIOUS
    <2>3. CASE pc[f] = "idle"
      BY <2>1, <2>2, <2>3 DEF Hold
    <2>4. CASE pc[f] # "idle"
      <3>1. at[f] \in Used /\ at[f] \in Row /\ ids'[at[f]] = ids[at[f]] /\ want[f] \in ids[at[f]] \cup {NoToken}
        BY <2>1, <2>4 DEF Hold, Used
      <3>2. CASE at[f] \in outlived'
        BY <2>2, <2>4, <3>1, <3>2 DEF Hold
      <3>3. CASE at[f] \notin outlived'
        <4>1. at[f] # at[e]
          BY <3>1, <3>3 DEF IInv, Alone, Row
        <4>2. /\ due'[at[f]] = due[at[f]] /\ missed'[at[f]] = missed[at[f]]
              /\ status[at[f]] \in {"created", "started"} => status'[at[f]] \in {"created", "started"}
          BY <3>1, <3>3, <4>1
        <4>3. /\ status[at[f]] \in {"created", "started"}
              /\ pc[f] = "ask" => due[at[f]] \ missed[at[f]] \subseteq tx[f] \cup left[f] \cup {want[f]}
              /\ pc[f] \in {"close", "hung"} => due[at[f]] \ missed[at[f]] \subseteq tx[f]
          BY <2>1, <2>4, <3>3 DEF Hold
        <4> QED
          BY <2>2, <2>4, <3>1, <4>2, <4>3 DEF Hold
      <3> QED
        BY <3>2, <3>3
    <2> QED
      BY <2>3, <2>4
  <1>2. Held'
    <2> SUFFICES ASSUME NEW f \in Execution PROVE Hold(f)'
      BY DEF Held
    <2>1. CASE f = e
      BY <2>1
    <2>2. CASE f # e
      BY <2>2, <1>1
    <2> QED
      BY <2>1, <2>2
  <1>3. Alone'
    <2> SUFFICES ASSUME NEW f \in Execution, NEW g \in Execution,
                        f # g, at'[f] = at'[g], at'[f] # NoRow
                 PROVE  at'[f] \in outlived'
      BY DEF Alone
    <2>1. \A h, k \in Execution : h # k /\ at[h] = at[k] /\ at[h] # NoRow => at[h] \in outlived
      BY DEF IInv, Alone
    <2>2. CASE f = e
      BY <2>1, <2>2
    <2>3. CASE g = e
      BY <2>1, <2>3
    <2>4. CASE f # e /\ g # e
      BY <2>1, <2>4
    <2> QED
      BY <2>2, <2>3, <2>4
  <1> QED
    BY <1>2, <1>3

\* A step outside of the handlers keeps what they hold.
LEMMA NoExecution ==
  ASSUME IInv, UNCHANGED <<handlers, due, missed>>, Used \subseteq Used', outlived' = outlived,
         \A r \in Used : ids'[r] = ids[r],
         \A r \in Row : status[r] \in {"created", "started"} => status'[r] \in {"created", "started"}
  PROVE  Held' /\ Alone'
  <1>1. at' = at /\ pc' = pc /\ left' = left /\ want' = want /\ tx' = tx /\ due' = due /\ missed' = missed
    OBVIOUS
  <1>2. ASSUME NEW f \in Execution PROVE Hold(f)'
    <2>1. Hold(f)
      BY DEF IInv, Held
    <2>2. at[f] \in Used => at[f] \in Row /\ ids'[at[f]] = ids[at[f]]
      BY DEF Used
    <2> QED
      BY <1>1, <2>1, <2>2 DEF Hold
  <1>3. Held'
    BY <1>2 DEF Held
  <1>4. Alone'
    BY <1>1 DEF IInv, Alone
  <1> QED
    BY <1>3, <1>4

\* The count of rows is kept by a step that inserts, completes and creates nothing.
LEMMA CountStays ==
  ASSUME IInv, Used' = Used, Creations' = Creations, Extended' = Extended,
         transfers' = transfers, outlived \subseteq outlived'
  PROVE  RowsAccounted'
  BY Accounted, AccountedNext DEF IInv

\* A completed row keeps what it found, unless it is completed once more.
LEMMA IndexStays ==
  ASSUME IInv, Completed' \ outlived' \subseteq Completed \ outlived, tokens \subseteq tokens',
         \A r \in Completed' \ outlived' : due'[r] \ missed'[r] \subseteq due[r] \ missed[r]
  PROVE  BatchIndexed'
  <1> SUFFICES ASSUME NEW r \in Completed' \ outlived' PROVE due'[r] \ missed'[r] \subseteq tokens'
    BY DEF BatchIndexed
  <1>1. due[r] \ missed[r] \subseteq tokens
    BY DEF IInv, BatchIndexed
  <1> QED
    BY <1>1

-----------------------------------------------------------------------------
(* The steps outside of the handlers.                                      *)

\* A step that touches neither the rows nor what the handlers hold.
LEMMA OutsideStep ==
  ASSUME IInv, UNCHANGED <<status, ids, tokens, handlers, history, transfers, faults>>,
         minted \subseteq minted', minted' \subseteq Token, saved' \in BOOLEAN,
         creator' \in [Creator -> {"check", "job", "save", "none", "orphan", "saved"}],
         age' \in 0..MaxAge, Creations' = Creations
  PROVE  IInv'
  <1> USE DEF IInv
  <1>1. /\ status' = status /\ ids' = ids /\ tokens' = tokens /\ at' = at /\ pc' = pc /\ left' = left
        /\ want' = want /\ tx' = tx /\ found' = found /\ due' = due /\ missed' = missed
        /\ outlived' = outlived /\ transfers' = transfers /\ faults' = faults
    OBVIOUS
  <1>2. TypeOK'
    <2>1. /\ tokens' \subseteq minted' /\ want' \in [Execution -> minted' \cup {NoToken}]
          /\ tx' \in [Execution -> SUBSET minted'] /\ {due', missed'} \subseteq [Row -> SUBSET minted']
      BY <1>1 DEF TypeOK
    <2> QED
      BY <1>1, <2>1 DEF TypeOK
  <1>3. Used' = Used /\ Filled' /\ Shaped' /\ ChainUnbroken' /\ Completed' = Completed
    BY <1>1, TableStays DEF Completed
  <1>4. Held' /\ Alone'
    BY <1>1, <1>3, NoExecution
  <1>5. BatchIndexed'
    BY <1>1, <1>3, IndexStays
  <1>6. RowsAccounted'
    <2>1. Extended' = Extended
      BY <1>1, <1>3 DEF Extended
    <2> QED
      BY <1>1, <1>3, <2>1, CountStays
  <1> QED
    BY <1>2, <1>3, <1>4, <1>5, <1>6

LEMMA MintStep == ASSUME IInv, NEW t \in Token, Mint(t) PROVE IInv'
  <1>1. Creations' = Creations
    BY DEF Mint, Creations
  <1> QED
    BY <1>1, OutsideStep DEF Mint, IInv, TypeOK

LEMMA CheckContractStep == ASSUME IInv, NEW c \in Creator, CheckContract(c) PROVE IInv'
  <1>1. /\ creator[c] = "check" /\ UNCHANGED <<minted, saved, rows, tokens, handlers, history, transfers, faults>>
        /\ creator' = [creator EXCEPT ![c] = IF saved THEN "none" ELSE "job"]
    BY DEF CheckContract
  <1>2. creator' \in [Creator -> {"check", "job", "save", "none", "orphan", "saved"}]
    BY <1>1 DEF IInv, TypeOK
  <1>3. Creations' = Creations
    BY <1>1 DEF Creations, IInv, TypeOK
  <1> QED
    BY <1>1, <1>2, <1>3, OutsideStep DEF IInv, TypeOK

LEMMA SaveContractStep == ASSUME IInv, NEW c \in Creator, SaveContract(c) PROVE IInv'
  <1>1. /\ creator[c] = "save" /\ UNCHANGED <<minted, rows, tokens, handlers, history, transfers, faults>>
        /\ creator' = [creator EXCEPT ![c] = IF saved THEN "orphan" ELSE "saved"] /\ saved' = TRUE
    BY DEF SaveContract
  <1>2. creator' \in [Creator -> {"check", "job", "save", "none", "orphan", "saved"}]
    BY <1>1 DEF IInv, TypeOK
  <1>3. Creations' = Creations
    BY <1>1 DEF Creations, IInv, TypeOK
  <1> QED
    BY <1>1, <1>2, <1>3, OutsideStep DEF IInv, TypeOK

LEMMA PassHourStep == IInv /\ PassHour => IInv'
  <1> SUFFICES ASSUME IInv, PassHour PROVE IInv'
    OBVIOUS
  <1>1. age' \in 0..MaxAge
    BY Bounds DEF PassHour, IInv, TypeOK
  <1>2. UNCHANGED <<contract, status, ids, tokens, handlers, history, transfers, faults>>
    BY DEF PassHour
  <1>3. Creations' = Creations
    BY <1>2 DEF Creations
  <1> QED
    BY <1>1, <1>2, <1>3, OutsideStep DEF IInv, TypeOK

\* The comparison is never true: the difference of a row inserted an age ago is not
\* above zero, and the cron inserts nothing.
LEMMA ResyncStep == IInv /\ ResyncVerifyMint => IInv'
  <1> SUFFICES ASSUME IInv, ResyncVerifyMint PROVE IInv'
    OBVIOUS
  <1>1. ~(Difference >= 1)
    BY Bounds DEF IInv, TypeOK, Difference
  <1>2. UNCHANGED rows /\ UNCHANGED <<contract, tokens, handlers, history, transfers, faults>>
    BY <1>1 DEF ResyncVerifyMint
  <1>3. Creations' = Creations
    BY <1>2 DEF Creations
  <1> QED
    BY <1>2, <1>3, OutsideStep DEF IInv, TypeOK

LEMMA CheckFrozenStep == ASSUME IInv, NEW S \in SUBSET Started, CheckFrozen(S) PROVE IInv'
  <1> USE DEF IInv
  <1>1. /\ status' = [r \in Row |-> IF r \in S THEN "created" ELSE status[r]]
        /\ UNCHANGED <<contract, ids, age, tokens, handlers, history, transfers, faults>>
    BY DEF CheckFrozen
  <1>2. S \subseteq Row /\ \A r \in S : status[r] = "started"
    BY DEF Started
  <1>3. /\ \A r \in Row : status'[r] = "absent" <=> status[r] = "absent"
        /\ \A r \in Row : status'[r] = "completed" <=> status[r] = "completed"
        /\ \A r \in Row : status[r] \in {"created", "started"} => status'[r] \in {"created", "started"}
    BY <1>1, <1>2 DEF TypeOK
  <1>4. TypeOK'
    <2>1. status' \in [Row -> {"absent", "created", "started", "completed", "failed"}]
      BY <1>1 DEF TypeOK
    <2> QED
      BY <1>1, <2>1 DEF TypeOK
  <1>5. Used' = Used /\ Filled' /\ Shaped' /\ ChainUnbroken' /\ Completed' = Completed
    BY <1>1, <1>3, TableStays DEF Completed
  <1>6. Held' /\ Alone'
    BY <1>1, <1>3, <1>5, NoExecution
  <1>7. BatchIndexed'
    BY <1>1, <1>5, IndexStays
  <1>8. RowsAccounted'
    <2>1. Extended' = Extended /\ Creations' = Creations
      BY <1>1, <1>5 DEF Extended, Creations
    <2> QED
      BY <1>1, <1>5, <2>1, CountStays
  <1> QED
    BY <1>4, <1>5, <1>6, <1>7, <1>8

-----------------------------------------------------------------------------
(* The insertion of a row.                                                 *)

\* It is the next one of the table, and the others keep their ids.
LEMMA InsertStep ==
  ASSUME IInv, NEW st \in [Row -> {"absent", "created", "started", "completed", "failed"}],
         \A r \in Row : st[r] = "absent" <=> status[r] = "absent",
         NEW s, Batch(s), Insert(st, s), UNCHANGED <<due, missed>>
  PROVE  /\ \E n \in Row \ Used :
              /\ Used' = Used \cup {n} /\ status'[n] = "created" /\ ids'[n] = s
              /\ \A r \in Row \ {n} : status'[r] = st[r] /\ ids'[r] = ids[r]
         /\ Cardinality(Used') = Cardinality(Used) + 1
         /\ status' \in [Row -> {"absent", "created", "started", "completed", "failed"}]
         /\ ids' \in [Row -> SUBSET (1..MaxId)] /\ age' \in 0..MaxAge
         /\ \A r \in Used : ids'[r] = ids[r]
         /\ Filled' /\ Shaped'
  <1> USE DEF IInv
  <1>1. PICK n : n = Cardinality(Used) + 1
    OBVIOUS
  <1>2. /\ n \in Row /\ status' = [st EXCEPT ![n] = "created"] /\ ids' = [ids EXCEPT ![n] = s] /\ age' = 0
    BY <1>1 DEF Insert
  <1>3. Cardinality(Used) \in Nat /\ IsFiniteSet(Used)
    BY FiniteSets
  <1>4. n \in Row \ Used
    BY <1>1, <1>2, <1>3 DEF Filled
  <1>5. status'[n] = "created" /\ ids'[n] = s
        /\ \A r \in Row \ {n} : status'[r] = st[r] /\ ids'[r] = ids[r]
    BY <1>2 DEF TypeOK
  <1>6. Used' = Used \cup {n}
    BY <1>2, <1>4, <1>5 DEF Used
  <1>7. Cardinality(Used') = Cardinality(Used) + 1
    BY <1>3, <1>4, <1>6, FS_AddElement
  <1>8. /\ status' \in [Row -> {"absent", "created", "started", "completed", "failed"}]
        /\ ids' \in [Row -> SUBSET (1..MaxId)] /\ age' \in 0..MaxAge
    BY <1>2, BatchTyped, Bounds DEF TypeOK
  <1>9. \A r \in Used : r \in Row \ {n}
    BY <1>4 DEF Used
  <1>10. Filled'
    <2>1. Used' = 1..Cardinality(Used')
      BY <1>1, <1>3, <1>6, <1>7 DEF Filled
    <2>2. \A r \in Row \ Used' : due'[r] = {} /\ missed'[r] = {}
      BY <1>6 DEF Filled
    <2> QED
      BY <2>1, <2>2 DEF Filled
  <1>11. Shaped'
    <2> SUFFICES ASSUME NEW r \in Used' PROVE Batch(ids'[r])
      BY DEF Shaped
    <2>1. CASE r = n
      BY <1>5, <2>1
    <2>2. CASE r # n
      <3>1. r \in Used /\ ids'[r] = ids[r]
        BY <2>2, <1>5, <1>6, <1>9
      <3> QED
        BY <3>1 DEF Shaped
    <2> QED
      BY <2>1, <2>2
  <1> QED
    BY <1>4, <1>5, <1>6, <1>7, <1>8, <1>9, <1>10, <1>11

\* A row inserted from outside of the handlers: by a creation, or for a transfer.
LEMMA OutsideInsert ==
  ASSUME IInv, NEW s, Batch(s), Insert(status, s),
         UNCHANGED <<minted, saved, tokens, handlers, history, faults>>,
         creator' \in [Creator -> {"check", "job", "save", "none", "orphan", "saved"}],
         transfers' \in 0..MaxTransfer,
         Cardinality(Creations') + transfers' = Cardinality(Creations) + transfers + 1
  PROVE  IInv'
  <1> USE DEF IInv
  <1>1. /\ tokens' = tokens /\ at' = at /\ pc' = pc /\ left' = left /\ minted' = minted /\ saved' = saved
        /\ want' = want /\ tx' = tx /\ found' = found /\ due' = due /\ missed' = missed
        /\ outlived' = outlived /\ faults' = faults
    OBVIOUS
  <1>2. status \in [Row -> {"absent", "created", "started", "completed", "failed"}]
    BY DEF TypeOK
  <1>3. /\ Cardinality(Used') = Cardinality(Used) + 1
        /\ status' \in [Row -> {"absent", "created", "started", "completed", "failed"}]
        /\ ids' \in [Row -> SUBSET (1..MaxId)] /\ age' \in 0..MaxAge
        /\ \A r \in Used : ids'[r] = ids[r]
        /\ Filled' /\ Shaped'
    BY <1>1, <1>2, InsertStep
  <1>4. PICK n \in Row \ Used :
              /\ Used' = Used \cup {n} /\ status'[n] = "created" /\ ids'[n] = s
              /\ \A r \in Row \ {n} : status'[r] = status[r] /\ ids'[r] = ids[r]
    BY <1>1, <1>2, InsertStep
  <1>5. status[n] = "absent"
    BY <1>4 DEF Used
  <1>6. Completed' = Completed /\ Completed \subseteq Used
    BY <1>4, <1>5 DEF Completed, Used
  <1>7. TypeOK'
    <2>1. \A r \in Row : due'[r] \cup missed'[r] \subseteq ids'[r]
      BY <1>1, <1>3 DEF TypeOK, Filled
    <2>2. \A e \in Execution : pc'[e] # "idle" => left'[e] \cup tx'[e] \subseteq ids'[at'[e]]
      BY <1>1, <1>3 DEF TypeOK, Held, Hold
    <2> QED
      BY <1>1, <1>3, <2>1, <2>2 DEF TypeOK
  <1>8. Held' /\ Alone'
    <2>1. \A r \in Row : status[r] \in {"created", "started"} => status'[r] \in {"created", "started"}
      BY <1>4, <1>5
    <2>2. Used \subseteq Used'
      BY <1>4
    <2> QED
      BY <1>1, <1>3, <2>1, <2>2, NoExecution
  <1>9. ChainUnbroken'
    <2> SUFFICES ASSUME NEW r \in Completed, found[r] > 0
                 PROVE  \E t \in Used' : ids'[t] = NextSequential(ids'[r])
      BY <1>1, <1>6 DEF ChainUnbroken, NextSequential
    <2>1. PICK t \in Used : ids[t] = NextSequential(ids[r])
      BY DEF ChainUnbroken
    <2>2. ids'[t] = ids[t] /\ ids'[r] = ids[r] /\ t \in Used'
      BY <1>3, <1>4, <1>6
    <2> QED
      BY <2>1, <2>2 DEF NextSequential
  <1>10. BatchIndexed'
    BY <1>1, <1>6, IndexStays
  <1>11. RowsAccounted'
    <2>1. Extended' = Extended
      BY <1>1, <1>6 DEF Extended
    <2>2. Cardinality(Used') \in Nat /\ Cardinality(Creations) \in Nat /\ Cardinality(Extended) \in Nat
          /\ Cardinality(Used) \in Nat /\ transfers \in Nat
      BY <1>3, FiniteSets DEF TypeOK
    <2>3. outlived = {} => Cardinality(Used) = Cardinality(Creations) + transfers + Cardinality(Extended)
      BY Accounted
    <2> QED
      BY <1>1, <1>3, <2>1, <2>2, <2>3, AccountedNext
  <1> QED
    BY <1>3, <1>7, <1>8, <1>9, <1>10, <1>11

LEMMA CreateFirstJobStep == ASSUME IInv, NEW c \in Creator, CreateFirstJob(c) PROVE IInv'
  <1>1. /\ creator[c] = "job" /\ creator' = [creator EXCEPT ![c] = "save"]
        /\ Insert(status, 1..FirstCount) /\ UNCHANGED <<minted, saved, tokens, handlers, history, transfers, faults>>
    BY DEF CreateFirstJob
  <1>2. creator' \in [Creator -> {"check", "job", "save", "none", "orphan", "saved"}]
    BY <1>1 DEF IInv, TypeOK
  <1>3. c \notin Creations /\ Creations' = Creations \cup {c}
    BY <1>1 DEF Creations, IInv, TypeOK
  <1>4. Cardinality(Creations') = Cardinality(Creations) + 1
    BY <1>3, FiniteSets, FS_AddElement
  <1>5. Cardinality(Creations') + transfers' = Cardinality(Creations) + transfers + 1
    BY <1>1, <1>4, FiniteSets DEF IInv, TypeOK
  <1>6. transfers' \in 0..MaxTransfer
    BY <1>1 DEF IInv, TypeOK
  <1> QED
    BY <1>1, <1>2, <1>5, <1>6, FirstBatch, OutsideInsert

LEMMA TransferUnknownStep == ASSUME IInv, NEW t \in Token, TransferUnknown(t) PROVE IInv'
  <1>1. /\ transfers < MaxTransfer /\ transfers' = transfers + 1 /\ Insert(status, {t})
        /\ UNCHANGED <<contract, tokens, handlers, history, faults>>
    BY DEF TransferUnknown
  <1>2. Creations' = Creations /\ creator' \in [Creator -> {"check", "job", "save", "none", "orphan", "saved"}]
    BY <1>1 DEF Creations, IInv, TypeOK
  <1>3. transfers' \in 0..MaxTransfer
        /\ Cardinality(Creations') + transfers' = Cardinality(Creations) + transfers + 1
    BY <1>1, <1>2, Bounds, FiniteSets DEF IInv, TypeOK
  <1> QED
    BY <1>1, <1>2, <1>3, TokenBatch, OutsideInsert

-----------------------------------------------------------------------------
(* The handlers.                                                           *)

LEMMA FaultTyped == IInv /\ Fault => faults' \in 0..MaxFaults
  BY Bounds DEF Fault, IInv, TypeOK

\* What an execution that works holds.
LEMMA AtWork ==
  ASSUME IInv, NEW e \in Execution, pc[e] # "idle"
  PROVE  /\ at[e] \in Used /\ at[e] \in Row /\ at[e] # NoRow
         /\ left[e] \subseteq ids[at[e]] /\ tx[e] \subseteq ids[at[e]] \cap minted
         /\ want[e] \in (ids[at[e]] \cap minted) \cup {NoToken}
         /\ at[e] \notin outlived =>
              /\ status[at[e]] \in {"created", "started"}
              /\ pc[e] = "ask" =>
                   due[at[e]] \ missed[at[e]] \subseteq tx[e] \cup left[e] \cup {want[e]}
              /\ pc[e] \in {"close", "hung"} => due[at[e]] \ missed[at[e]] \subseteq tx[e]
  BY DEF IInv, TypeOK, Held, Hold, Used, Row

\* Between the claim and the end, an execution changes only its own place, what it has
\* left, wants and found, and what is noted as missed of its row.
LEMMA MoveStep ==
  ASSUME IInv, NEW e \in Execution, pc[e] # "idle",
         UNCHANGED <<contract, rows, tokens, at, found, due, outlived, transfers>>,
         faults' \in 0..MaxFaults,
         pc' \in [Execution -> {"idle", "ask", "close", "fail", "hung"}], pc'[e] # "idle",
         left' \in [Execution -> SUBSET (1..MaxId)], left'[e] \subseteq ids[at[e]],
         want' \in [Execution -> minted \cup {NoToken}], want'[e] \in ids[at[e]] \cup {NoToken},
         tx' \in [Execution -> SUBSET minted], tx'[e] \subseteq ids[at[e]],
         \A f \in Execution \ {e} :
           pc'[f] = pc[f] /\ left'[f] = left[f] /\ want'[f] = want[f] /\ tx'[f] = tx[f],
         missed' \in [Row -> SUBSET minted],
         \A r \in Row : missed[r] \subseteq missed'[r] /\ missed'[r] \subseteq ids[r],
         \A r \in Row \ {at[e]} : missed'[r] = missed[r],
         at[e] \notin outlived =>
           /\ pc'[e] = "ask" =>
                due[at[e]] \ missed'[at[e]] \subseteq tx'[e] \cup left'[e] \cup {want'[e]}
           /\ pc'[e] \in {"close", "hung"} => due[at[e]] \ missed'[at[e]] \subseteq tx'[e]
  PROVE  IInv'
  <1> USE DEF IInv
  <1>1. /\ minted' = minted /\ saved' = saved /\ creator' = creator /\ status' = status /\ ids' = ids
        /\ age' = age /\ tokens' = tokens /\ at' = at /\ found' = found /\ due' = due
        /\ outlived' = outlived /\ transfers' = transfers
    OBVIOUS
  <1>2. at[e] \in Used /\ (at[e] \notin outlived => status[at[e]] \in {"created", "started"})
    BY AtWork
  <1>3. TypeOK'
    <2>1. \A r \in Row : due'[r] \cup missed'[r] \subseteq ids'[r]
      BY <1>1 DEF TypeOK
    <2>2. ASSUME NEW f \in Execution, pc'[f] # "idle" PROVE left'[f] \cup tx'[f] \subseteq ids'[at'[f]]
      <3>1. CASE f = e
        BY <3>1, <1>1
      <3>2. CASE f # e
        BY <2>2, <3>2, <1>1 DEF TypeOK
      <3> QED
        BY <3>1, <3>2
    <2>3. {due', missed'} \subseteq [Row -> SUBSET minted]
      BY <1>1 DEF TypeOK
    <2> QED
      BY <1>1, <2>1, <2>2, <2>3 DEF TypeOK
  <1>4. Used' = Used /\ Filled' /\ Shaped' /\ ChainUnbroken' /\ Completed' = Completed
    <2>1. \A r \in Row \ Used : missed'[r] = missed[r]
      BY <1>2
    <2> QED
      BY <1>1, <2>1, TableStays DEF Completed
  <1>5. Hold(e)'
    BY <1>1, <1>2, <1>4 DEF Hold
  <1>6. Held' /\ Alone'
    BY <1>1, <1>4, <1>5, OneExecution
  <1>7. BatchIndexed'
    <2>1. \A r \in Completed : r \in Row
      BY DEF Completed
    <2> QED
      BY <1>1, <1>4, <2>1, IndexStays
  <1>8. RowsAccounted'
    <2>1. Extended' = Extended /\ Creations' = Creations
      BY <1>1, <1>4 DEF Extended, Creations
    <2> QED
      BY <1>1, <1>4, <2>1, CountStays
  <1> QED
    BY <1>3, <1>4, <1>6, <1>7, <1>8

LEMMA AskStep ==
  ASSUME IInv, NEW e \in Execution, NEW t \in left[e], Ask(e, t)
  PROVE  IInv'
  <1>1. /\ pc[e] = "ask" /\ want[e] = NoToken /\ left' = [left EXCEPT ![e] = @ \ {t}]
        /\ want' = [want EXCEPT ![e] = IF t \in minted THEN t ELSE NoToken]
        /\ UNCHANGED <<contract, rows, tokens, at, pc, tx, history, transfers, faults>>
    BY DEF Ask
  <1>2. /\ at[e] \in Row /\ left[e] \subseteq ids[at[e]] /\ tx[e] \subseteq ids[at[e]]
        /\ at[e] \notin outlived =>
             due[at[e]] \ missed[at[e]] \subseteq tx[e] \cup left[e] \cup {NoToken}
    BY <1>1, AtWork
  <1>3. /\ left'[e] = left[e] \ {t} /\ want'[e] = IF t \in minted THEN t ELSE NoToken
        /\ left' \in [Execution -> SUBSET (1..MaxId)] /\ want' \in [Execution -> minted \cup {NoToken}]
        /\ \A f \in Execution \ {e} : left'[f] = left[f] /\ want'[f] = want[f]
    BY <1>1 DEF IInv, TypeOK
  <1>4. due[at[e]] \subseteq minted /\ NoToken \notin minted
    BY <1>2 DEF IInv, TypeOK, Token
  <1>5. at[e] \notin outlived =>
          due[at[e]] \ missed[at[e]] \subseteq tx[e] \cup left'[e] \cup {want'[e]}
    BY <1>2, <1>3, <1>4
  <1>6. \A r \in Row : missed[r] \subseteq ids[r]
    BY DEF IInv, TypeOK
  <1> QED
    BY <1>1, <1>2, <1>3, <1>5, <1>6, MoveStep DEF IInv, TypeOK

LEMMA AskFailsStep ==
  ASSUME IInv, NEW e \in Execution, NEW t \in left[e], AskFails(e, t)
  PROVE  IInv'
  <1>1. /\ pc[e] = "ask" /\ t \in minted /\ left' = [left EXCEPT ![e] = @ \ {t}]
        /\ missed' = [missed EXCEPT ![at[e]] = @ \cup {t}]
        /\ UNCHANGED <<contract, rows, tokens, at, pc, want, tx, found, due, outlived, transfers>>
    BY DEF AskFails
  <1>2. /\ at[e] \in Row /\ left[e] \subseteq ids[at[e]] /\ tx[e] \subseteq ids[at[e]]
        /\ want[e] \in ids[at[e]] \cup {NoToken}
        /\ at[e] \notin outlived =>
             due[at[e]] \ missed[at[e]] \subseteq tx[e] \cup left[e] \cup {want[e]}
    BY <1>1, AtWork
  <1>3. /\ left'[e] = left[e] \ {t} /\ left' \in [Execution -> SUBSET (1..MaxId)]
        /\ \A f \in Execution \ {e} : left'[f] = left[f]
    BY <1>1 DEF IInv, TypeOK
  <1>4. /\ missed' \in [Row -> SUBSET minted] /\ missed'[at[e]] = missed[at[e]] \cup {t}
        /\ \A r \in Row \ {at[e]} : missed'[r] = missed[r]
    BY <1>1, <1>2 DEF IInv, TypeOK
  <1>5. \A r \in Row : missed[r] \subseteq missed'[r] /\ missed'[r] \subseteq ids[r]
    <2> SUFFICES ASSUME NEW r \in Row PROVE missed[r] \subseteq missed'[r] /\ missed'[r] \subseteq ids[r]
      OBVIOUS
    <2>1. missed[r] \subseteq ids[r]
      BY DEF IInv, TypeOK
    <2>2. CASE r = at[e]
      BY <2>1, <2>2, <1>2, <1>4
    <2>3. CASE r # at[e]
      BY <2>1, <2>3, <1>4
    <2> QED
      BY <2>2, <2>3
  <1>6. at[e] \notin outlived =>
          due[at[e]] \ missed'[at[e]] \subseteq tx[e] \cup left'[e] \cup {want[e]}
    BY <1>2, <1>3, <1>4
  <1>7. faults' \in 0..MaxFaults
    BY FaultTyped DEF AskFails
  <1> QED
    BY <1>1, <1>2, <1>3, <1>4, <1>5, <1>6, <1>7, MoveStep DEF IInv, TypeOK

LEMMA UpsertStep == ASSUME IInv, NEW e \in Execution, Upsert(e) PROVE IInv'
  <1>1. /\ pc[e] = "ask" /\ want[e] # NoToken /\ want' = [want EXCEPT ![e] = NoToken]
        /\ \/ tx' = [tx EXCEPT ![e] = @ \cup {want[e]}] /\ pc' = pc
           \/ pc' = [pc EXCEPT ![e] = "fail"] /\ tx' = tx
        /\ UNCHANGED <<contract, rows, tokens, at, left, history, transfers, faults>>
    BY DEF Upsert
  <1>2. /\ at[e] \in Row /\ left[e] \subseteq ids[at[e]] /\ tx[e] \subseteq ids[at[e]]
        /\ want[e] \in ids[at[e]] \cap minted
        /\ at[e] \notin outlived =>
             due[at[e]] \ missed[at[e]] \subseteq tx[e] \cup left[e] \cup {want[e]}
    BY <1>1, AtWork
  <1>3. /\ want'[e] = NoToken /\ want' \in [Execution -> minted \cup {NoToken}]
        /\ \A f \in Execution \ {e} : want'[f] = want[f]
    BY <1>1 DEF IInv, TypeOK
  <1>4. /\ tx' \in [Execution -> SUBSET minted] /\ tx'[e] \subseteq ids[at[e]]
        /\ pc' \in [Execution -> {"idle", "ask", "close", "fail", "hung"}]
        /\ \A f \in Execution \ {e} : pc'[f] = pc[f] /\ tx'[f] = tx[f]
        /\ (pc'[e] = "ask" /\ tx'[e] = tx[e] \cup {want[e]}) \/ pc'[e] = "fail"
    BY <1>1, <1>2 DEF IInv, TypeOK
  <1>5. at[e] \notin outlived /\ pc'[e] = "ask" =>
          due[at[e]] \ missed[at[e]] \subseteq tx'[e] \cup left[e] \cup {want'[e]}
    BY <1>2, <1>4
  <1>6. \A r \in Row : missed[r] \subseteq ids[r]
    BY DEF IInv, TypeOK
  <1> QED
    BY <1>1, <1>2, <1>3, <1>4, <1>5, <1>6, MoveStep DEF IInv, TypeOK

\* An execution stops asking: it fails, or it has nothing left and closes, or hangs on
\* the row it has closed.
LEMMA StopStep ==
  ASSUME IInv, NEW e \in Execution, AbortDeadlock(e) \/ Throw(e) \/ Close(e) \/ HangOnOwnLock(e)
  PROVE  IInv'
  <1>1. pc[e] # "idle"
    <2>1. CASE AbortDeadlock(e)
      <3>1. want[e] # NoToken
        BY <2>1 DEF AbortDeadlock, Waits
      <3> QED
        BY <3>1 DEF IInv, Held, Hold
    <2>2. CASE ~AbortDeadlock(e)
      BY <2>2 DEF Throw, Close, HangOnOwnLock
    <2> QED
      BY <2>1, <2>2
  <1>2. /\ UNCHANGED <<contract, rows, tokens, at, left, tx, history, transfers>>
        /\ want' = [want EXCEPT ![e] = NoToken] \/ want' = want
        /\ \/ pc' = [pc EXCEPT ![e] = "fail"]
           \/ pc' = [pc EXCEPT ![e] = "close"] /\ pc[e] = "ask" /\ left[e] = {} /\ want[e] = NoToken
           \/ pc' = [pc EXCEPT ![e] = "hung"] /\ pc[e] = "close"
    BY DEF AbortDeadlock, Throw, Close, HangOnOwnLock
  <1>3. faults' \in 0..MaxFaults
    BY FaultTyped DEF AbortDeadlock, Throw, Close, HangOnOwnLock, IInv, TypeOK
  <1>4. /\ at[e] \in Row /\ left[e] \subseteq ids[at[e]] /\ tx[e] \subseteq ids[at[e]]
        /\ want[e] \in ids[at[e]] \cup {NoToken}
        /\ at[e] \notin outlived =>
             /\ pc[e] = "ask" =>
                  due[at[e]] \ missed[at[e]] \subseteq tx[e] \cup left[e] \cup {want[e]}
             /\ pc[e] \in {"close", "hung"} => due[at[e]] \ missed[at[e]] \subseteq tx[e]
    BY <1>1, AtWork
  <1>5. due[at[e]] \subseteq minted /\ NoToken \notin minted
    BY <1>4 DEF IInv, TypeOK, Token
  <1>6. /\ want' \in [Execution -> minted \cup {NoToken}] /\ want'[e] \in ids[at[e]] \cup {NoToken}
        /\ pc' \in [Execution -> {"idle", "ask", "close", "fail", "hung"}]
        /\ \A f \in Execution \ {e} : pc'[f] = pc[f] /\ want'[f] = want[f]
    BY <1>2, <1>4 DEF IInv, TypeOK
  <1>7. \/ pc'[e] = "fail"
        \/ pc'[e] = "close" /\ pc[e] = "ask" /\ left[e] = {} /\ want[e] = NoToken
        \/ pc'[e] = "hung" /\ pc[e] = "close"
    BY <1>2 DEF IInv, TypeOK
  <1>8. at[e] \notin outlived =>
          /\ pc'[e] # "ask"
          /\ pc'[e] \in {"close", "hung"} => due[at[e]] \ missed[at[e]] \subseteq tx[e]
    BY <1>4, <1>5, <1>7
  <1>9. \A r \in Row : missed[r] \subseteq ids[r]
    BY DEF IInv, TypeOK
  <1>10. pc'[e] # "idle"
    BY <1>7
  <1> QED
    BY <1>1, <1>2, <1>3, <1>4, <1>6, <1>7, <1>8, <1>9, <1>10, MoveStep DEF IInv, TypeOK

\* A claim makes the row the execution's own, or one that two executions work for.
LEMMA ClaimStep == ASSUME IInv, NEW e \in Execution, NEW r \in Row, Claim(e, r) PROVE IInv'
  <1> USE DEF IInv
  <1>1. /\ pc[e] = "idle" /\ status[r] = "created"
        /\ status' = [status EXCEPT ![r] = "started"] /\ at' = [at EXCEPT ![e] = r]
        /\ pc' = [pc EXCEPT ![e] = "ask"] /\ left' = [left EXCEPT ![e] = ids[r]]
        /\ due' = [due EXCEPT ![r] = ids[r] \cap minted] /\ missed' = [missed EXCEPT ![r] = {}]
        /\ UNCHANGED <<contract, ids, age, tokens, want, tx, found, transfers>>
    BY DEF Claim
  <1>2. \/ Running(r) = {} /\ outlived' = outlived /\ faults' = faults
        \/ Fault /\ outlived' = outlived \cup {r}
    BY DEF Claim
  <1>3. faults' \in 0..MaxFaults
    BY <1>2, FaultTyped DEF TypeOK
  <1>4. r \in Used /\ at[e] = NoRow /\ want[e] = NoToken /\ tx[e] = {}
    BY <1>1 DEF Used, Held, Hold
  <1>5. TypeOK'
    <2>1. /\ status' \in [Row -> {"absent", "created", "started", "completed", "failed"}]
          /\ at' \in [Execution -> Row \cup {NoRow}]
          /\ pc' \in [Execution -> {"idle", "ask", "close", "fail", "hung"}]
          /\ left' \in [Execution -> SUBSET (1..MaxId)]
          /\ {due', missed'} \subseteq [Row -> SUBSET minted] /\ outlived' \subseteq Row
      BY <1>1, <1>2 DEF TypeOK
    <2>2. \A s \in Row : due'[s] \cup missed'[s] \subseteq ids'[s]
      BY <1>1 DEF TypeOK
    <2>3. ASSUME NEW f \in Execution, pc'[f] # "idle" PROVE left'[f] \cup tx'[f] \subseteq ids'[at'[f]]
      <3>1. CASE f = e
        BY <3>1, <1>1, <1>4 DEF TypeOK
      <3>2. CASE f # e
        BY <2>3, <3>2, <1>1 DEF TypeOK
      <3> QED
        BY <3>1, <3>2
    <2> QED
      BY <1>1, <1>3, <2>1, <2>2, <2>3 DEF TypeOK
  <1>6. /\ \A s \in Row : status'[s] = "absent" <=> status[s] = "absent"
        /\ \A s \in Row : status'[s] = "completed" <=> status[s] = "completed"
        /\ \A s \in Row \ {r} : due'[s] = due[s] /\ missed'[s] = missed[s] /\ status'[s] = status[s]
        /\ status'[r] = "started" /\ due'[r] = ids[r] \cap minted
    BY <1>1 DEF TypeOK
  <1>7. Used' = Used /\ Filled' /\ Shaped' /\ ChainUnbroken' /\ Completed' = Completed
    <2>1. \A s \in Row \ Used : due'[s] = due[s] /\ missed'[s] = missed[s]
      BY <1>4, <1>6
    <2> QED
      BY <1>1, <1>6, <2>1, TableStays DEF Completed
  <1>8. /\ at'[e] = r /\ pc'[e] = "ask" /\ left'[e] = ids[r]
        /\ \A f \in Execution \ {e} :
             at'[f] = at[f] /\ pc'[f] = pc[f] /\ left'[f] = left[f]
    BY <1>1 DEF TypeOK
  <1>9. Hold(e)'
    BY <1>1, <1>4, <1>6, <1>7, <1>8 DEF Hold
  <1>10. r \in outlived' \/ \A f \in Execution \ {e} : at[f] # r
    BY <1>2 DEF Running
  <1>11. Held' /\ Alone'
    <2>1. \A s \in Row :
            \/ s = at[e] \/ s \in outlived'
            \/ \A f \in Execution \ {e} : at[f] # s
            \/ /\ due'[s] = due[s] /\ missed'[s] = missed[s]
               /\ status[s] \in {"created", "started"} => status'[s] \in {"created", "started"}
      BY <1>6, <1>10
    <2>2. outlived \subseteq outlived'
      BY <1>2
    <2> QED
      BY <1>1, <1>7, <1>8, <1>9, <1>10, <2>1, <2>2, OneExecution
  <1>12. r \notin Completed /\ Completed \subseteq Row
    BY <1>1 DEF Completed
  <1>13. BatchIndexed'
    BY <1>1, <1>2, <1>6, <1>7, <1>12, IndexStays
  <1>14. RowsAccounted'
    <2>1. Extended' = Extended /\ Creations' = Creations /\ outlived \subseteq outlived'
      BY <1>1, <1>2, <1>7 DEF Extended, Creations
    <2> QED
      BY <1>1, <1>7, <2>1, CountStays
  <1> QED
    BY <1>5, <1>7, <1>11, <1>13, <1>14

\* What giving the connections of E back leaves.
LEMMA Released ==
  ASSUME IInv, NEW E \in SUBSET Execution, Release(E)
  PROVE  /\ at' \in [Execution -> Row \cup {NoRow}] /\ left' \in [Execution -> SUBSET (1..MaxId)]
         /\ pc' \in [Execution -> {"idle", "ask", "close", "fail", "hung"}]
         /\ want' \in [Execution -> minted \cup {NoToken}] /\ tx' \in [Execution -> SUBSET minted]
         /\ \A f \in E : at'[f] = NoRow /\ pc'[f] = "idle" /\ want'[f] = NoToken /\ tx'[f] = {}
         /\ \A f \in Execution \ E :
              /\ at'[f] = at[f] /\ pc'[f] = pc[f] /\ left'[f] = left[f]
              /\ want'[f] = want[f] /\ tx'[f] = tx[f]
  BY DEF Release, IInv, TypeOK

LEMMA FailStep == ASSUME IInv, NEW e \in Execution, Fail(e) PROVE IInv'
  <1> USE DEF IInv
  <1>1. PICK r : r = at[e]
    OBVIOUS
  <1>2. /\ pc[e] = "fail" /\ status' = [status EXCEPT ![r] = "failed"] /\ Release({e})
        /\ UNCHANGED <<contract, ids, age, tokens, history, transfers, faults>>
    BY <1>1 DEF Fail
  <1>3. r \in Used /\ r \in Row /\ (r \notin outlived => status[r] \in {"created", "started"})
    BY <1>1, <1>2, AtWork
  <1>4. /\ at' \in [Execution -> Row \cup {NoRow}] /\ left' \in [Execution -> SUBSET (1..MaxId)]
        /\ pc' \in [Execution -> {"idle", "ask", "close", "fail", "hung"}]
        /\ want' \in [Execution -> minted \cup {NoToken}] /\ tx' \in [Execution -> SUBSET minted]
        /\ at'[e] = NoRow /\ pc'[e] = "idle" /\ want'[e] = NoToken /\ tx'[e] = {}
        /\ \A f \in Execution \ {e} :
              /\ at'[f] = at[f] /\ pc'[f] = pc[f] /\ left'[f] = left[f]
              /\ want'[f] = want[f] /\ tx'[f] = tx[f]
    BY <1>2, Released
  <1>5. status'[r] = "failed" /\ \A s \in Row \ {r} : status'[s] = status[s]
    BY <1>2, <1>3 DEF TypeOK
  <1>6. TypeOK'
    <2>1. status' \in [Row -> {"absent", "created", "started", "completed", "failed"}]
      BY <1>2 DEF TypeOK
    <2>2. \A f \in Execution : pc'[f] # "idle" => left'[f] \cup tx'[f] \subseteq ids'[at'[f]]
      BY <1>2, <1>4 DEF TypeOK
    <2> QED
      BY <1>2, <1>4, <2>1, <2>2 DEF TypeOK
  <1>7. Used' = Used /\ Filled' /\ Shaped' /\ Completed' \subseteq Completed /\ ChainUnbroken'
    <2>1. /\ \A s \in Row : status'[s] = "absent" <=> status[s] = "absent"
          /\ \A s \in Row : status'[s] = "completed" => status[s] = "completed"
      BY <1>3, <1>5 DEF Used
    <2> QED
      BY <1>2, <2>1, TableStays
  <1>8. Held' /\ Alone'
    <2>1. Hold(e)'
      BY <1>4 DEF Hold
    <2>2. \A s \in Row :
            \/ s = at[e] \/ s \in outlived'
            \/ \A f \in Execution \ {e} : at[f] # s
            \/ /\ due'[s] = due[s] /\ missed'[s] = missed[s]
               /\ status[s] \in {"created", "started"} => status'[s] \in {"created", "started"}
      BY <1>1, <1>2, <1>5
    <2> QED
      BY <1>2, <1>4, <1>7, <2>1, <2>2, OneExecution
  <1>9. BatchIndexed'
    BY <1>2, <1>7, IndexStays
  <1>10. RowsAccounted'
    <2> SUFFICES ASSUME outlived' = {}
                 PROVE  Cardinality(Used') = Cardinality(Creations') + transfers' + Cardinality(Extended')
      BY AccountedNext
    <2>1. outlived = {} /\ Creations' = Creations /\ transfers' = transfers
      BY <1>2 DEF Creations
    <2>2. Completed' = Completed
      BY <1>3, <1>5, <2>1 DEF Completed
    <2>3. Extended' = Extended
      BY <1>2, <2>2 DEF Extended
    <2> QED
      BY <1>7, <2>1, <2>3, Accounted
  <1> QED
    BY <1>6, <1>7, <1>8, <1>9, <1>10

LEMMA CrashStep == IInv /\ Crash => IInv'
  <1> SUFFICES ASSUME IInv, Crash PROVE IInv'
    OBVIOUS
  <1> USE DEF IInv
  <1>1. PICK E \in SUBSET Execution, C \in SUBSET Creator :
          /\ Release(E)
          /\ creator' = [c \in Creator |->
                           IF c \notin C THEN creator[c]
                           ELSE CASE creator[c] \in {"check", "job"} -> "none"
                                  [] creator[c] = "save" -> "orphan"
                                  [] OTHER -> creator[c]]
    BY DEF Crash
  <1>2. UNCHANGED <<minted, saved, rows, tokens, history, transfers>>
    BY DEF Crash
  <1>3. faults' \in 0..MaxFaults
    BY FaultTyped DEF Crash
  <1>4. /\ at' \in [Execution -> Row \cup {NoRow}] /\ left' \in [Execution -> SUBSET (1..MaxId)]
        /\ pc' \in [Execution -> {"idle", "ask", "close", "fail", "hung"}]
        /\ want' \in [Execution -> minted \cup {NoToken}] /\ tx' \in [Execution -> SUBSET minted]
        /\ \A f \in E : at'[f] = NoRow /\ pc'[f] = "idle" /\ want'[f] = NoToken /\ tx'[f] = {}
        /\ \A f \in Execution \ E :
              /\ at'[f] = at[f] /\ pc'[f] = pc[f] /\ left'[f] = left[f]
              /\ want'[f] = want[f] /\ tx'[f] = tx[f]
    BY <1>1, Released
  <1>5. creator' \in [Creator -> {"check", "job", "save", "none", "orphan", "saved"}]
    BY <1>1 DEF TypeOK
  <1>6. Creations' = Creations
    BY <1>1 DEF Creations, TypeOK
  <1>7. TypeOK'
    <2>1. \A f \in Execution : pc'[f] # "idle" => left'[f] \cup tx'[f] \subseteq ids'[at'[f]]
      BY <1>2, <1>4 DEF TypeOK
    <2> QED
      BY <1>2, <1>3, <1>4, <1>5, <2>1 DEF TypeOK
  <1>8. Used' = Used /\ Filled' /\ Shaped' /\ Completed' = Completed /\ ChainUnbroken'
    BY <1>2, TableStays DEF Completed
  <1>9. Held'
    <2> SUFFICES ASSUME NEW f \in Execution PROVE Hold(f)'
      BY DEF Held
    <2>1. CASE f \in E
      BY <1>4, <2>1 DEF Hold
    <2>2. CASE f \notin E
      <3>1. Hold(f)
        BY DEF Held
      <3> QED
        BY <1>2, <1>4, <1>8, <2>2, <3>1 DEF Hold
    <2> QED
      BY <2>1, <2>2
  <1>10. Alone'
    BY <1>2, <1>4 DEF Alone
  <1>11. BatchIndexed'
    BY <1>2, <1>8, IndexStays
  <1>12. RowsAccounted'
    <2>1. Extended' = Extended
      BY <1>2, <1>8 DEF Extended
    <2> QED
      BY <1>2, <1>6, <1>8, <2>1, CountStays
  <1> QED
    BY <1>7, <1>8, <1>9, <1>10, <1>11, <1>12

\* What a commit does to the table: the row is completed, and the row of the next ids is
\* there when tokens were found.
LEMMA CommitTable ==
  ASSUME IInv, NEW e \in Execution, Commit(e)
  PROVE  /\ \A s \in Used : ids'[s] = ids[s]
         /\ Used \subseteq Used' /\ Filled' /\ Shaped' /\ age' \in 0..MaxAge
         /\ status' \in [Row -> {"absent", "created", "started", "completed", "failed"}]
         /\ ids' \in [Row -> SUBSET (1..MaxId)]
         /\ Completed' = Completed \cup {at[e]}
         /\ \A s \in Used \ {at[e]} : status'[s] = status[s]
         /\ tx[e] # {} => \E n \in Used' : ids'[n] = NextSequential(ids[at[e]])
         /\ Cardinality(Used') = Cardinality(Used) + (IF tx[e] = {} THEN 0 ELSE 1)
  <1> USE DEF IInv
  <1>1. PICK r : r = at[e]
    OBVIOUS
  <1>2. PICK st : st = [status EXCEPT ![r] = "completed"]
    OBVIOUS
  <1>3. /\ pc[e] = "close" /\ UNCHANGED <<contract, due, missed, outlived, transfers, faults>>
        /\ IF tx[e] # {} THEN Insert(st, NextSequential(ids[r]))
                         ELSE status' = st /\ UNCHANGED <<ids, age>>
    BY <1>1, <1>2 DEF Commit
  <1>4. r \in Used /\ r \in Row /\ tx[e] \subseteq ids[r] \cap minted
    BY <1>1, <1>3, AtWork
  <1>5. /\ st \in [Row -> {"absent", "created", "started", "completed", "failed"}]
        /\ st[r] = "completed" /\ \A s \in Row \ {r} : st[s] = status[s]
        /\ \A s \in Row : st[s] = "absent" <=> status[s] = "absent"
    BY <1>2, <1>4 DEF TypeOK, Used
  <1>6. Cardinality(Used) \in Nat
    BY FiniteSets
  <1>7. CASE tx[e] = {}
    <2>1. status' = st /\ ids' = ids /\ age' = age /\ due' = due /\ missed' = missed
      BY <1>3, <1>7
    <2>2. Used' = Used
      BY <1>5, <2>1 DEF Used
    <2>3. Filled'
      BY <2>1, <2>2 DEF Filled
    <2>4. Shaped'
      <3> SUFFICES ASSUME NEW s \in Used PROVE Batch(ids'[s])
        BY <2>2 DEF Shaped
      <3> QED
        BY <2>1 DEF Shaped
    <2>5. Completed' = Completed \cup {r} /\ \A s \in Used \ {r} : status'[s] = status[s]
      BY <1>4, <1>5, <2>1 DEF Completed, Used
    <2>6. age' \in 0..MaxAge /\ ids' \in [Row -> SUBSET (1..MaxId)]
      BY <2>1 DEF TypeOK
    <2> QED
      BY <1>1, <1>5, <1>6, <1>7, <2>1, <2>2, <2>3, <2>4, <2>5, <2>6
  <1>8. CASE tx[e] # {}
    <2>1. Insert(st, NextSequential(ids[r])) /\ due' = due /\ missed' = missed
      BY <1>3, <1>8
    <2>2. Batch(NextSequential(ids[r]))
      <3>1. PICK t \in tx[e] : TRUE
        BY <1>8
      <3>2. t \in ids[r] /\ t <= MaxToken
        BY <1>4, Bounds DEF TypeOK, Token
      <3>3. Batch(ids[r])
        BY <1>4 DEF Shaped
      <3> QED
        BY <3>2, <3>3, NextBatch
    <2>3. /\ Cardinality(Used') = Cardinality(Used) + 1
          /\ status' \in [Row -> {"absent", "created", "started", "completed", "failed"}]
          /\ ids' \in [Row -> SUBSET (1..MaxId)] /\ age' \in 0..MaxAge
          /\ \A s \in Used : ids'[s] = ids[s]
          /\ Filled' /\ Shaped'
      BY <1>5, <2>1, <2>2, InsertStep
    <2>4. PICK n \in Row \ Used :
              /\ Used' = Used \cup {n} /\ status'[n] = "created" /\ ids'[n] = NextSequential(ids[r])
              /\ \A s \in Row \ {n} : status'[s] = st[s] /\ ids'[s] = ids[s]
      BY <1>5, <2>1, <2>2, InsertStep
    <2>5. Completed' = Completed \cup {r} /\ \A s \in Used \ {r} : status'[s] = status[s]
      BY <1>4, <1>5, <2>4 DEF Completed, Used
    <2> QED
      BY <1>1, <1>8, <2>3, <2>4, <2>5
  <1> QED
    BY <1>7, <1>8

LEMMA CommitStep == ASSUME IInv, NEW e \in Execution, Commit(e) PROVE IInv'
  <1> USE DEF IInv
  <1>1. PICK r : r = at[e]
    OBVIOUS
  <1>2. /\ pc[e] = "close" /\ Release({e}) /\ tokens' = tokens \cup tx[e]
        /\ found' = [found EXCEPT ![r] = Cardinality(tx[e])]
        /\ UNCHANGED <<contract, due, missed, outlived, transfers, faults>>
    BY <1>1 DEF Commit
  <1>3. /\ r \in Used /\ r \in Row /\ tx[e] \subseteq minted
        /\ r \notin outlived =>
             status[r] \in {"created", "started"} /\ due[r] \ missed[r] \subseteq tx[e]
    BY <1>1, <1>2, AtWork
  <1>4. /\ \A s \in Used : ids'[s] = ids[s]
        /\ Used \subseteq Used' /\ Filled' /\ Shaped' /\ age' \in 0..MaxAge
        /\ status' \in [Row -> {"absent", "created", "started", "completed", "failed"}]
        /\ ids' \in [Row -> SUBSET (1..MaxId)]
        /\ Completed' = Completed \cup {r}
        /\ \A s \in Used \ {r} : status'[s] = status[s]
        /\ tx[e] # {} => \E n \in Used' : ids'[n] = NextSequential(ids[r])
        /\ Cardinality(Used') = Cardinality(Used) + (IF tx[e] = {} THEN 0 ELSE 1)
    BY <1>1, CommitTable
  <1>5. /\ at' \in [Execution -> Row \cup {NoRow}] /\ left' \in [Execution -> SUBSET (1..MaxId)]
        /\ pc' \in [Execution -> {"idle", "ask", "close", "fail", "hung"}]
        /\ want' \in [Execution -> minted \cup {NoToken}] /\ tx' \in [Execution -> SUBSET minted]
        /\ at'[e] = NoRow /\ pc'[e] = "idle" /\ want'[e] = NoToken /\ tx'[e] = {}
        /\ \A f \in Execution \ {e} :
              /\ at'[f] = at[f] /\ pc'[f] = pc[f] /\ left'[f] = left[f]
              /\ want'[f] = want[f] /\ tx'[f] = tx[f]
    BY <1>2, Released
  <1>6. /\ Cardinality(tx[e]) \in 0..MaxToken /\ (Cardinality(tx[e]) > 0 <=> tx[e] # {})
    <2>1. tx[e] \subseteq Token /\ IsFiniteSet(Token)
      <3>1. tx[e] \subseteq Token
        BY <1>3 DEF TypeOK
      <3>2. IsFiniteSet(Token)
        BY Bounds, FS_Interval DEF Token
      <3> QED
        BY <3>1, <3>2
    <2>2. IsFiniteSet(tx[e]) /\ Cardinality(tx[e]) \in 0..MaxToken
      BY <2>1, FS_Subset, TokensCounted
    <2>3. Cardinality(tx[e]) = 0 <=> tx[e] = {}
      BY <2>2, FS_EmptySet
    <2> QED
      BY <2>2, <2>3, Bounds
  <1>7. /\ found' \in [Row -> 0..MaxToken] /\ found'[r] = Cardinality(tx[e])
        /\ \A s \in Row \ {r} : found'[s] = found[s]
    BY <1>2, <1>3, <1>6 DEF TypeOK
  <1>8. Completed \subseteq Used /\ Used \subseteq Row
    BY DEF Completed, Used
  <1>9. TypeOK'
    <2>1. \A s \in Row : due'[s] \cup missed'[s] \subseteq ids'[s]
      BY <1>2, <1>4 DEF TypeOK, Filled
    <2>2. ASSUME NEW f \in Execution, pc'[f] # "idle" PROVE left'[f] \cup tx'[f] \subseteq ids'[at'[f]]
      <3>1. f # e /\ pc[f] # "idle" /\ at'[f] = at[f] /\ left'[f] = left[f] /\ tx'[f] = tx[f]
        BY <1>5, <2>2
      <3>2. at[f] \in Used /\ left[f] \cup tx[f] \subseteq ids[at[f]]
        BY <3>1, AtWork
      <3> QED
        BY <3>1, <3>2, <1>4
    <2>3. tokens' \subseteq minted'
      BY <1>2, <1>3 DEF TypeOK
    <2> QED
      BY <1>2, <1>4, <1>5, <1>7, <2>1, <2>2, <2>3 DEF TypeOK
  <1>10. Held' /\ Alone'
    <2>1. Hold(e)'
      BY <1>5 DEF Hold
    <2>2. \A s \in Row :
            \/ s = at[e] \/ s \in outlived'
            \/ \A f \in Execution \ {e} : at[f] # s
            \/ /\ due'[s] = due[s] /\ missed'[s] = missed[s]
               /\ status[s] \in {"created", "started"} => status'[s] \in {"created", "started"}
      <3> SUFFICES ASSUME NEW s \in Row, s # r
                   PROVE  status[s] \in {"created", "started"} => status'[s] \in {"created", "started"}
        BY <1>1, <1>2
      <3>1. status[s] \in {"created", "started"} => s \in Used
        BY DEF Used
      <3> QED
        BY <3>1, <1>4
    <2> QED
      BY <1>2, <1>4, <1>5, <2>1, <2>2, OneExecution
  <1>11. ChainUnbroken'
    <2> SUFFICES ASSUME NEW s \in Completed', found'[s] > 0
                 PROVE  \E n \in Used' : ids'[n] = NextSequential(ids'[s])
      BY DEF ChainUnbroken, NextSequential
    <2>1. ids'[s] = ids[s]
      BY <1>3, <1>4, <1>8
    <2>2. CASE s = r
      BY <2>1, <2>2, <1>4, <1>6, <1>7
    <2>3. CASE s # r
      <3>1. s \in Completed /\ found[s] > 0
        BY <2>3, <1>4, <1>7, <1>8
      <3>2. PICK n \in Used : ids[n] = NextSequential(ids[s])
        BY <3>1 DEF ChainUnbroken
      <3> QED
        BY <2>1, <3>2, <1>4
    <2> QED
      BY <2>2, <2>3
  <1>12. BatchIndexed'
    <2> SUFFICES ASSUME NEW s \in Completed' \ outlived' PROVE due[s] \ missed[s] \subseteq tokens'
      BY <1>2 DEF BatchIndexed
    <2>1. CASE s = r
      BY <2>1, <1>2, <1>3
    <2>2. CASE s # r
      BY <2>2, <1>2, <1>4 DEF BatchIndexed
    <2> QED
      BY <2>1, <2>2
  <1>13. RowsAccounted'
    <2> SUFFICES ASSUME outlived' = {}
                 PROVE  Cardinality(Used') = Cardinality(Creations') + transfers' + Cardinality(Extended')
      BY AccountedNext
    <2>1. outlived = {} /\ Creations' = Creations /\ transfers' = transfers
      BY <1>2 DEF Creations
    <2>2. r \notin Completed
      BY <1>3, <2>1 DEF Completed
    <2>3. r \notin Extended /\ Extended' = Extended \cup (IF tx[e] = {} THEN {} ELSE {r})
      BY <1>4, <1>6, <1>7, <1>8, <2>2 DEF Extended
    <2>4. Cardinality(Extended') = Cardinality(Extended) + (IF tx[e] = {} THEN 0 ELSE 1)
      <3>1. CASE tx[e] = {}
        BY <3>1, <2>3, FiniteSets
      <3>2. CASE tx[e] # {}
        BY <3>2, <2>3, FiniteSets, FS_AddElement
      <3> QED
        BY <3>1, <3>2
    <2>5. Cardinality(Used) = Cardinality(Creations) + transfers + Cardinality(Extended)
      BY <2>1, Accounted
    <2>6. /\ Cardinality(Used) \in Nat /\ Cardinality(Creations) \in Nat
          /\ Cardinality(Extended) \in Nat /\ transfers \in Nat
      BY FiniteSets DEF TypeOK
    <2> QED
      BY <1>4, <2>1, <2>4, <2>5, <2>6
  <1> QED
    BY <1>4, <1>9, <1>10, <1>11, <1>12, <1>13

-----------------------------------------------------------------------------
(* The invariant.                                                          *)

LEMMA HandlerStep == ASSUME IInv, NEW e \in Execution, Handler(e) PROVE IInv'
  <1>1. CASE \E r \in Row : Claim(e, r)
    BY <1>1, ClaimStep
  <1>2. CASE \E t \in left[e] : Ask(e, t) \/ AskFails(e, t)
    BY <1>2, AskStep, AskFailsStep
  <1>3. CASE Upsert(e) \/ AbortDeadlock(e) \/ Throw(e) \/ Close(e) \/ HangOnOwnLock(e)
    BY <1>3, UpsertStep, StopStep
  <1>4. CASE Commit(e) \/ Fail(e)
    BY <1>4, CommitStep, FailStep
  <1> QED
    BY <1>1, <1>2, <1>3, <1>4 DEF Handler

LEMMA NextInv == IInv /\ [Next]_vars => IInv'
  <1> SUFFICES ASSUME IInv, [Next]_vars PROVE IInv'
    OBVIOUS
  <1>1. ASSUME NEW t \in Token, Mint(t) \/ TransferUnknown(t) PROVE IInv'
    BY <1>1, MintStep, TransferUnknownStep
  <1>2. ASSUME NEW c \in Creator, CheckContract(c) \/ CreateFirstJob(c) \/ SaveContract(c) PROVE IInv'
    BY <1>2, CheckContractStep, CreateFirstJobStep, SaveContractStep
  <1>3. CASE PassHour \/ ResyncVerifyMint \/ Crash
    BY <1>3, PassHourStep, ResyncStep, CrashStep
  <1>4. ASSUME NEW S \in SUBSET Started, CheckFrozen(S) PROVE IInv'
    BY <1>4, CheckFrozenStep
  <1>5. ASSUME NEW e \in Execution, Handler(e) PROVE IInv'
    BY <1>5, HandlerStep
  <1>6. CASE UNCHANGED vars
    <2>1. UNCHANGED <<contract, status, ids, age, tokens, handlers, history, transfers, faults>>
      BY <1>6 DEF vars
    <2>2. Creations' = Creations
      BY <2>1 DEF Creations
    <2> QED
      BY <2>1, <2>2, OutsideStep DEF IInv, TypeOK
  <1> QED
    BY <1>1, <1>2, <1>3, <1>4, <1>5, <1>6 DEF Next

LEMMA Invariance == Spec => []IInv
  BY InitInv, NextInv, PTL DEF Spec

-----------------------------------------------------------------------------
(* The rows implement JobLifecycle.                                        *)

\* What became of the rows, as JobLifecycle has it.
Lives == [r \in Row |-> Life(status[r])]

\* A step that opens no row, ends none and outlives none.
LEMMA SameLife ==
  ASSUME outlived' = outlived, \A r \in Row : Life(status'[r]) = Life(status[r])
  PROVE  UNCHANGED Lifecycle!vars
  BY DEF Lifecycle!vars

\* The execution that ends a row may still say what becomes of it.
LEMMA OwnRow ==
  ASSUME IInv, NEW e \in Execution, pc[e] # "idle"
  PROVE  at[e] \in Row /\ Lifecycle!MayTurn(at[e])
  <1>1. at[e] \in Row /\ status[at[e]] # "absent"
    BY AtWork DEF Used
  <1>2. at[e] \notin outlived => Life(status[at[e]]) = "open"
    BY AtWork DEF Life
  <1>3. Life(status[at[e]]) # "absent"
    BY <1>1 DEF Life
  <1> QED
    BY <1>1, <1>2, <1>3 DEF Lifecycle!MayTurn

\* An insertion creates the next row, when the statuses of the others stay.
LEMMA InsertCreates ==
  ASSUME IInv, NEW s, Insert(status, s), outlived' = outlived
  PROVE  Lifecycle!Next
  <1>1. PICK n \in Row : n = Cardinality(Used) + 1 /\ status' = [status EXCEPT ![n] = "created"]
    BY DEF Insert
  <1>2. n \notin Used
    BY <1>1, FiniteSets DEF IInv, Filled
  <1>3. status[n] = "absent" /\ Life("absent") = "absent" /\ Life("created") = "open"
    BY <1>2 DEF Used, Life
  <1>4. Lives[n] = "absent" /\ Lives' = [Lives EXCEPT ![n] = "open"]
    BY <1>1, <1>3 DEF Lives, IInv, TypeOK
  <1>5. Lifecycle!Create(n)
    BY <1>4 DEF Lifecycle!Create, Lives
  <1> QED
    BY <1>5 DEF Lifecycle!Next

\* A claim starts a created row: it stays open, and is outlived when it had an execution.
LEMMA ClaimLives ==
  ASSUME IInv, NEW e \in Execution, NEW r \in Row, Claim(e, r)
  PROVE  [Lifecycle!Next]_(Lifecycle!vars)
  <1>1. status[r] = "created" /\ status' = [status EXCEPT ![r] = "started"]
    BY DEF Claim
  <1>2. Lives' = Lives
    BY <1>1 DEF Lives, Life, IInv, TypeOK
  <1>3. CASE outlived' = outlived
    BY <1>2, <1>3 DEF Lifecycle!vars, Lives
  <1>4. CASE outlived' = outlived \cup {r}
    <2>1. Lifecycle!Outlive(r)
      BY <1>2, <1>4 DEF Lifecycle!Outlive, Lives
    <2> QED
      BY <2>1 DEF Lifecycle!Next
  <1> QED
    BY <1>3, <1>4 DEF Claim

\* A failure ends the row of the execution, unless another one took it over.
LEMMA FailLives ==
  ASSUME IInv, NEW e \in Execution, Fail(e)
  PROVE  Lifecycle!Next
  <1>1. /\ pc[e] = "fail" /\ status' = [status EXCEPT ![at[e]] = "failed"] /\ outlived' = outlived
    BY DEF Fail
  <1>2. at[e] \in Row /\ Lifecycle!MayTurn(at[e])
    BY <1>1, OwnRow
  <1>3. Lives' = [Lives EXCEPT ![at[e]] = "failed"]
    BY <1>1, <1>2 DEF Lives, Life, IInv, TypeOK
  <1>4. Lifecycle!Turn(at[e], "failed")
    BY <1>1, <1>2, <1>3 DEF Lifecycle!Turn, Lives
  <1> QED
    BY <1>2, <1>4 DEF Lifecycle!Next

\* A commit completes its row, and creates the row of the next ids in the same step.
LEMMA CommitLives ==
  ASSUME IInv, NEW e \in Execution, Commit(e)
  PROVE  Lifecycle!Next
  <1>1. PICK r : r = at[e]
    OBVIOUS
  <1>2. PICK st : st = [status EXCEPT ![r] = "completed"]
    OBVIOUS
  <1>3. /\ pc[e] = "close" /\ outlived' = outlived
        /\ status' = st \/ Insert(st, NextSequential(ids[r]))
    BY <1>1, <1>2 DEF Commit
  <1>4. r \in Row /\ r \in Used /\ Lifecycle!MayTurn(r)
    BY <1>1, <1>3, AtWork, OwnRow
  <1>5. CASE status' = st
    <2>1. Lives' = [Lives EXCEPT ![r] = "completed"]
      BY <1>2, <1>4, <1>5 DEF Lives, Life, IInv, TypeOK
    <2>2. Lifecycle!Turn(r, "completed")
      BY <1>3, <1>4, <2>1 DEF Lifecycle!Turn, Lives
    <2> QED
      BY <1>4, <2>2 DEF Lifecycle!Next
  <1>6. CASE Insert(st, NextSequential(ids[r]))
    <2>1. PICK n \in Row : n = Cardinality(Used) + 1 /\ status' = [st EXCEPT ![n] = "created"]
      BY <1>6 DEF Insert
    <2>2. n \notin Used
      BY <2>1, FiniteSets DEF IInv, Filled
    <2>3. status[n] = "absent" /\ n # r
      BY <1>4, <2>2 DEF Used
    <2>4. Lives[n] = "absent" /\ Lives' = [Lives EXCEPT ![r] = "completed", ![n] = "open"]
      BY <1>2, <1>4, <2>1, <2>3 DEF Lives, Life, IInv, TypeOK
    <2>5. Lifecycle!Succeed(r, n)
      BY <1>3, <1>4, <2>4 DEF Lifecycle!Succeed, Lives
    <2> QED
      BY <1>4, <2>5 DEF Lifecycle!Next
  <1> QED
    BY <1>3, <1>5, <1>6

LEMMA StepSimulation ==
  IInv /\ [Next]_vars => [Lifecycle!Next]_(Lifecycle!vars)
  <1> SUFFICES ASSUME IInv, [Next]_vars PROVE [Lifecycle!Next]_(Lifecycle!vars)
    OBVIOUS
  <1>1. ASSUME NEW t \in Token, Mint(t) PROVE UNCHANGED Lifecycle!vars
    BY <1>1, SameLife DEF Mint
  <1>2. ASSUME NEW t \in Token, TransferUnknown(t) PROVE Lifecycle!Next
    BY <1>2, InsertCreates DEF TransferUnknown
  <1>3. ASSUME NEW c \in Creator, CheckContract(c) \/ SaveContract(c) PROVE UNCHANGED Lifecycle!vars
    BY <1>3, SameLife DEF CheckContract, SaveContract
  <1>4. ASSUME NEW c \in Creator, CreateFirstJob(c) PROVE Lifecycle!Next
    BY <1>4, InsertCreates DEF CreateFirstJob
  <1>5. CASE PassHour \/ Crash \/ UNCHANGED vars
    BY <1>5, SameLife DEF PassHour, Crash, vars
  <1>6. CASE ResyncVerifyMint
    BY <1>6, InsertCreates, SameLife DEF ResyncVerifyMint
  <1>7. ASSUME NEW S \in SUBSET Started, CheckFrozen(S) PROVE UNCHANGED Lifecycle!vars
    <2>1. status' = [r \in Row |-> IF r \in S THEN "created" ELSE status[r]] /\ outlived' = outlived
      BY <1>7 DEF CheckFrozen
    <2>2. \A r \in S : status[r] = "started"
      BY DEF Started
    <2> QED
      BY <2>1, <2>2, SameLife DEF Life
  <1>8. ASSUME NEW e \in Execution, Handler(e) PROVE [Lifecycle!Next]_(Lifecycle!vars)
    <2>1. CASE \E r \in Row : Claim(e, r)
      BY <2>1, ClaimLives
    <2>2. CASE \E t \in left[e] : Ask(e, t) \/ AskFails(e, t)
      BY <2>2, SameLife DEF Ask, AskFails
    <2>3. CASE Upsert(e) \/ AbortDeadlock(e) \/ Throw(e) \/ Close(e) \/ HangOnOwnLock(e)
      BY <2>3, SameLife DEF Upsert, AbortDeadlock, Throw, Close, HangOnOwnLock
    <2>4. CASE Commit(e) \/ Fail(e)
      BY <2>4, CommitLives, FailLives
    <2> QED
      BY <1>8, <2>1, <2>2, <2>3, <2>4 DEF Handler
  <1> QED
    BY <1>1, <1>2, <1>3, <1>4, <1>5, <1>6, <1>7, <1>8 DEF Next

-----------------------------------------------------------------------------
(* The theorems.                                                           *)

\* Every variable of VerifyMint keeps its type: only minted ids become tokens, and no
\* job asks for an id far above the minted ones.
THEOREM TypeCorrect == Spec => []TypeOK
  BY Invariance, PTL DEF IInv

\* A completed row that found tokens has the row of the next ids, whatever crashed or
\* overlapped, for any batches and executions.
THEOREM ChainNeverBroken == Spec => []ChainUnbroken
  BY Invariance, PTL DEF IInv

\* A completed row indexed every id of its batch that was minted when it began, save
\* those an RPC error hid.
THEOREM BatchAlwaysIndexed == Spec => []BatchIndexed
  BY Invariance, PTL DEF IInv

\* As long as no handler outlives its job, every row has one origin: a creation, a
\* transfer, or one completed row before it.
THEOREM RowsAlwaysAccounted == Spec => []RowsAccounted
  BY Invariance, PTL DEF IInv

\* The chain's rows implement JobLifecycle: an open row ends completed or failed, the next
\* one opens in the commit that completes it, and only a handler that outlived its job
\* changes a row that has ended.
THEOREM Implements == Spec => ImplementsLifecycle
  <1>1. Init => Lifecycle!Init
    BY DEF Init, Lifecycle!Init, Life
  <1> QED
    BY <1>1, StepSimulation, Invariance, PTL DEF Spec, ImplementsLifecycle, Lifecycle!Spec
=============================================================================
