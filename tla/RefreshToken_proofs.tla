------------------------- MODULE RefreshToken_proofs -------------------------
(***************************************************************************)
(* Theorems of RefreshToken, for any tokens, requests and rows.            *)
(***************************************************************************)
EXTENDS RefreshToken, FiniteSetTheorems, SequenceTheorems, TLAPS

\* The handler of a row has asked the contract.
HasAnswer(row) == row.at \in HasAsked \/ row.status = "completed"

\* What a request was told, and what it waits for.
Asked(q) ==
  /\ req[q].since <= data[req[q].token]
  /\ req[q].at = "joined" =>
       LET row == rows[req[q].row]
       IN  /\ req[q].row \in DOMAIN rows /\ row.token = req[q].token
           /\ ~req[q].late /\ HasAnswer(row) /\ ~row.hidden => row.got.v >= req[q].since

Requests == \A q \in Request : req[q] # Idle => Asked(q)

\* No answer is newer than the chain, and one that nothing was hidden from has the base.
Rows ==
  \A i \in DOMAIN rows :
    /\ rows[i].got.v <= data[rows[i].token]
    /\ HasAnswer(rows[i]) /\ ~rows[i].hidden => rows[i].got.base = HasBase

\* A row of token t that is executed, when no other is.
Running(row, t) ==
  /\ row.at \in HasAsked /\ ~row.hidden => \A j \in Completed(t) : rows[j].got.v <= row.got.v
  /\ row.at = "fetch" /\ ~row.hidden /\ row.got # NoUri => uri[t] = row.got
  /\ row.at \in {"update", "complete"} /\ ~row.hidden => row.content >= row.got.v
  /\ row.at = "complete" => meta[t] >= row.got.v \/ t \in behind

\* A refresh that is through.
Through(row, t) ==
  /\ ~row.hidden => row.content >= row.got.v
  /\ meta[t] >= row.got.v \/ t \in behind

\* A token of which one row at a time asks and writes.
InTurn(t) ==
  /\ \A i, j \in Started(t) : i = j
  /\ Started(t) # {} => minting[t] = {}
  /\ \A i \in Started(t) : Running(rows[i], t)
  /\ \A i \in Completed(t) : Through(rows[i], t)

Latest == \A t \in Token \ crossed : InTurn(t)

IInv == TypeOK /\ Requests /\ Rows /\ OpenRowsBounded /\ Latest

USE DEF columns, others, causes

-----------------------------------------------------------------------------
(* IInv is inductive.                                                      *)

LEMMA NotIdle == \A a \in Asking : a # Idle /\ a.at # "idle"
  BY DEF Asking, Idle

LEMMA Bounds == MaxVersion \in Nat /\ MaxRows \in Nat /\ MaxMints \in Nat /\ MaxFaults \in Nat
  BY BoundAssumption

LEMMA OpenFinite ==
  ASSUME IInv, NEW t
  PROVE  /\ IsFiniteSet(OpenRows(t)) /\ Cardinality(OpenRows(t)) \in Nat
         /\ IsFiniteSet(Inserting(t)) /\ Cardinality(Inserting(t)) \in Nat
         /\ Cardinality(Inserting(t)) <= Cardinality(Request) /\ Cardinality(Request) \in Nat
  <1>1. DOMAIN rows = 1..Len(rows) /\ Len(rows) \in Nat
    BY DEF IInv, TypeOK
  <1>2. IsFiniteSet(1..Len(rows))
    BY <1>1, FS_Interval
  <1>3. OpenRows(t) \in SUBSET (1..Len(rows)) /\ Inserting(t) \in SUBSET Request
    BY <1>1 DEF OpenRows, Inserting
  <1>4. QED
    BY <1>2, <1>3, FS_Subset, FS_CardinalityType, RequestAssumption

LEMMA InitInv == Init => IInv
  <1> SUFFICES ASSUME Init PROVE IInv
    OBVIOUS
  <1>1. rows = <<>> /\ Len(rows) = 0 /\ DOMAIN rows = {}
    BY DEF Init
  <1>2. TypeOK
    <2>1. NoUri \in Uri /\ 0 \in Version
      BY Bounds DEF NoUri, Uri, Version
    <2>2. QED
      BY <1>1, <2>1, Bounds DEF Init, TypeOK
  <1>3. Requests /\ Rows
    BY <1>1 DEF Init, Requests, Rows
  <1>5. OpenRowsBounded
    <2>1. Cardinality({}) = 0 /\ Cardinality(Request) \in Nat
      BY FS_EmptySet, FS_CardinalityType, RequestAssumption
    <2>2. \A t \in Token : Inserting(t) = {} /\ OpenRows(t) = {}
      BY <1>1 DEF Init, Idle, Inserting, OpenRows
    <2>3. QED
      BY <2>1, <2>2 DEF OpenRowsBounded
  <1>6. Latest
    BY <1>1 DEF Latest, InTurn, Started, Completed
  <1>7. QED
    BY <1>2, <1>3, <1>5, <1>6 DEF IInv

LEMMA RowType ==
  ASSUME IInv, NEW i \in DOMAIN rows
  PROVE  /\ rows[i] \in RowSet /\ rows[i].token \in Token /\ rows[i].got \in Uri
         /\ rows[i].got.v \in Nat /\ rows[i].content \in Nat /\ data[rows[i].token] \in Nat
  <1>1. rows[i] \in RowSet
    BY DEF IInv, TypeOK
  <1>2. QED
    BY <1>1, Bounds DEF RowSet, Uri, Version, IInv, TypeOK

\* A step of an open row i: it keeps its token, and an answer it has given stays.
LEMMA RowMoves ==
  ASSUME IInv, NEW i \in DOMAIN rows, NEW s \in RowSet, rows' = [rows EXCEPT ![i] = s],
         UNCHANGED <<data, req, minting, mints>>,
         uri' \in [Token -> Uri], meta' \in [Token -> Version], fetches' \in [Token -> SUBSET Uri],
         crossed' \subseteq Token, behind' \subseteq Token, faults' \in 0..MaxFaults,
         rows[i].status \in {"created", "started"},
         s.token = rows[i].token, s.status = "started" <=> s.at # "wait",
         s.got.v <= data[s.token],
         HasAnswer(s) /\ ~s.hidden =>
           /\ s.got.base = HasBase
           /\ \/ s.got.v = data[s.token]
              \/ HasAnswer(rows[i]) /\ ~rows[i].hidden /\ s.got = rows[i].got,
         Latest'
  PROVE  IInv'
  <1>1. /\ rows' \in Seq(RowSet) /\ Len(rows') = Len(rows) /\ DOMAIN rows' = DOMAIN rows
        /\ rows'[i] = s /\ \A j \in DOMAIN rows \ {i} : rows'[j] = rows[j]
    BY ExceptSeq DEF IInv, TypeOK
  <1>2. TypeOK'
    BY <1>1 DEF IInv, TypeOK
  <1>3. Requests'
    <2>1. ASSUME NEW q \in Request, req[q] # Idle PROVE Asked(q)'
      <3>1. Asked(q) /\ req[q] \in Asking
        BY <2>1 DEF IInv, TypeOK, Requests
      <3>2. req[q].since \in Nat /\ s.got.v \in Nat /\ data[s.token] \in Nat
        BY <3>1, Bounds, RowType DEF Asking, Version, RowSet, Uri
      <3>3. CASE req[q].row = i
        BY <1>1, <3>1, <3>2, <3>3 DEF Asked
      <3>4. CASE req[q].row # i
        BY <1>1, <3>1, <3>4 DEF Asked
      <3>5. QED
        BY <3>3, <3>4
    <2>2. QED
      BY <2>1 DEF Requests
  <1>4. Rows'
    BY <1>1 DEF IInv, Rows
  <1>5. OpenRowsBounded'
    <2>1. ASSUME NEW t \in Token
          PROVE  (Cardinality(OpenRows(t)) + Cardinality(Inserting(t)) <= Cardinality(Request))'
      <3>1. OpenRows(t)' \in SUBSET OpenRows(t) /\ Inserting(t)' = Inserting(t)
        BY <1>1 DEF OpenRows, Inserting
      <3>2. Cardinality(OpenRows(t)') <= Cardinality(OpenRows(t)) /\ Cardinality(OpenRows(t)') \in Nat
        BY <3>1, OpenFinite, FS_Subset, FS_CardinalityType
      <3>3. QED
        BY <3>1, <3>2, OpenFinite DEF IInv, OpenRowsBounded
    <2>2. QED
      BY <2>1 DEF OpenRowsBounded
  <1>6. QED
    BY <1>2, <1>3, <1>4, <1>5 DEF IInv

\* A step of requests alone keeps what is about rows.
LEMMA RequestMoves ==
  ASSUME IInv, UNCHANGED <<data, rows, columns, others, causes, faults>>,
         req' \in [Request -> Asking \cup {Idle}],
         \A q \in Request : req'[q] # Idle /\ req'[q] # req[q] => Asked(q)',
         OpenRowsBounded'
  PROVE  IInv'
  <1>1. TypeOK' /\ Rows'
    BY DEF IInv, TypeOK, Rows
  <1>2. Requests'
    <2>1. ASSUME NEW q \in Request, req'[q] # Idle PROVE Asked(q)'
      BY <2>1 DEF IInv, Requests, Asked
    <2>2. QED
      BY <2>1 DEF Requests
  <1>3. Latest'
    BY DEF IInv, Latest, InTurn, Running, Through, Started, Completed
  <1>4. QED
    BY <1>1, <1>2, <1>3 DEF IInv

LEMMA FindRefreshInv ==
  ASSUME IInv, NEW q \in Request, NEW t \in Token, FindRefresh(q, t)
  PROVE  IInv'
  <1>1. /\ UNCHANGED <<data, rows, columns, others, causes, faults>> /\ req[q] = Idle
        /\ data[t] \in Version /\ data[t] \in Nat
    BY Bounds DEF FindRefresh, IInv, TypeOK, Version
  <1>2. \A u \in Token : q \notin Inserting(u)
    BY <1>1 DEF Idle, Inserting
  <1>3. CASE /\ Joinable(t) = {}
             /\ req' = [req EXCEPT ![q] = [at |-> "insert", token |-> t, since |-> data[t],
                                           row |-> 0, late |-> FALSE]]
    <2> DEFINE a == [at |-> "insert", token |-> t, since |-> data[t], row |-> 0, late |-> FALSE]
    <2>1. a \in Asking
      BY <1>1, Bounds DEF Asking
    <2>2. /\ req' \in [Request -> Asking \cup {Idle}] /\ req'[q] = a
          /\ \A p \in Request \ {q} : req'[p] = req[p]
      BY <1>3, <2>1 DEF IInv, TypeOK
    <2>3. \A p \in Request : req'[p] # Idle /\ req'[p] # req[p] => Asked(p)'
      BY <1>1, <2>2 DEF Asked
    <2>5. OpenRowsBounded'
      <3>1. ASSUME NEW u \in Token
            PROVE  (Cardinality(OpenRows(u)) + Cardinality(Inserting(u)) <= Cardinality(Request))'
        <4>1. OpenRows(u)' = OpenRows(u) /\ Inserting(u)' \in SUBSET Request
          BY <1>1 DEF OpenRows, Inserting
        <4>2. CASE u = t
          <5>1. Cardinality(OpenRows(u)') = 0
            BY <1>3, <4>1, <4>2, FS_EmptySet DEF Joinable
          <5>2. Cardinality(Inserting(u)') <= Cardinality(Request) /\ Cardinality(Inserting(u)') \in Nat
            BY <4>1, FS_Subset, FS_CardinalityType, RequestAssumption
          <5>3. QED
            BY <5>1, <5>2, OpenFinite
        <4>3. CASE u # t
          <5>1. Inserting(u)' = Inserting(u)
            BY <1>2, <2>2, <4>3 DEF Inserting
          <5>2. QED
            BY <4>1, <5>1 DEF IInv, OpenRowsBounded
        <4>4. QED
          BY <4>2, <4>3
      <3>2. QED
        BY <3>1 DEF OpenRowsBounded
    <2>6. QED
      BY <1>1, <2>2, <2>3, <2>5, RequestMoves
  <1>4. ASSUME NEW i \in Joinable(t),
               req' = [req EXCEPT ![q] = [at |-> "joined", token |-> t, since |-> data[t],
                                          row |-> i, late |-> rows[i].at \in HasAsked]]
        PROVE  IInv'
    <2> DEFINE a == [at |-> "joined", token |-> t, since |-> data[t], row |-> i, late |-> rows[i].at \in HasAsked]
    <2>1. i \in DOMAIN rows /\ rows[i].token = t /\ i \in 0..MaxRows /\ rows[i].status \in {"created", "started"}
      BY Bounds, RowType DEF Joinable, OpenRows, RowSet, IInv, TypeOK
    <2>2. a \in Asking
      BY <1>1, <2>1 DEF Asking
    <2>3. /\ req' \in [Request -> Asking \cup {Idle}] /\ req'[q] = a
          /\ \A p \in Request \ {q} : req'[p] = req[p]
      BY <1>4, <2>2 DEF IInv, TypeOK
    <2>4. \A p \in Request : req'[p] # Idle /\ req'[p] # req[p] => Asked(p)'
      <3>1. ~a.late => ~HasAnswer(rows[i])
        BY <2>1 DEF HasAnswer
      <3>2. a.since = data[a.token] /\ a.row = i /\ a.token = t /\ a.at = "joined"
        OBVIOUS
      <3>3. Asked(q)'
        BY <1>1, <2>1, <2>3, <3>1, <3>2 DEF Asked, HasAnswer
      <3>4. QED
        BY <2>3, <3>3
    <2>5. \A u \in Token : Inserting(u)' = Inserting(u) /\ OpenRows(u)' = OpenRows(u)
      BY <1>1, <1>2, <2>3 DEF Inserting, OpenRows
    <2>6. OpenRowsBounded'
      BY <1>1, <2>5 DEF IInv, OpenRowsBounded
    <2>7. QED
      BY <1>1, <2>3, <2>4, <2>6, RequestMoves
  <1>5. QED
    BY <1>3, <1>4 DEF FindRefresh

LEMMA LeaveInv ==
  ASSUME IInv, NEW q \in Request, Leave(q)
  PROVE  IInv'
  <1>1. /\ UNCHANGED <<data, rows, columns, others, causes, faults>> /\ req[q].at = "joined"
        /\ req' \in [Request -> Asking \cup {Idle}] /\ req'[q] = Idle
        /\ \A p \in Request \ {q} : req'[p] = req[p]
    BY DEF Leave, IInv, TypeOK
  <1>2. \A u \in Token : Inserting(u)' = Inserting(u) /\ OpenRows(u)' = OpenRows(u)
    BY <1>1 DEF Inserting, OpenRows, Idle
  <1>3. OpenRowsBounded'
    BY <1>1, <1>2 DEF IInv, OpenRowsBounded
  <1>4. \A p \in Request : req'[p] # Idle => req'[p] = req[p]
    BY <1>1
  <1>5. QED
    BY <1>1, <1>3, <1>4, RequestMoves

LEMMA InsertInv ==
  ASSUME IInv, NEW q \in Request, InsertRefresh(q)
  PROVE  IInv'
  <1> DEFINE t == req[q].token  n == Len(rows) + 1
             new == [token |-> t, status |-> "created", at |-> "wait", hidden |-> FALSE,
                     got |-> NoUri, content |-> 0]
  <1>1. /\ req[q] \in Asking /\ req[q] # Idle /\ Asked(q) /\ t \in Token /\ req[q].at = "insert"
        /\ UNCHANGED <<data, columns, others, causes, faults>>
    BY DEF InsertRefresh, Idle, IInv, TypeOK, Requests, Asking
  <1>2. new \in RowSet
    <2>1. NoUri \in Uri /\ 0 \in Version
      BY Bounds DEF Uri, Version, NoUri
    <2>2. t \in Token
      BY <1>1
    <2>3. QED
      BY <2>1, <2>2 DEF RowSet, Status
  <1>3. /\ rows' \in Seq(RowSet) /\ Len(rows') = n /\ rows'[n] = new /\ n \in Nat
        /\ DOMAIN rows' = DOMAIN rows \cup {n} /\ n \notin DOMAIN rows
        /\ \A i \in DOMAIN rows : rows'[i] = rows[i]
    <2>1. rows' = Append(rows, new) /\ rows \in Seq(RowSet) /\ Len(rows) \in Nat
      BY DEF InsertRefresh, IInv, TypeOK
    <2>2. QED
      BY <1>2, <2>1, AppendProperties
  <1>5. n <= MaxRows
    BY <1>3, Bounds DEF InsertRefresh, IInv, TypeOK
  <1>6. /\ req' \in [Request -> Asking \cup {Idle}] /\ req'[q].at = "joined" /\ req'[q].row = n
        /\ req'[q].token = t /\ req'[q].since = req[q].since /\ req'[q].late = req[q].late
        /\ \A p \in Request \ {q} : req'[p] = req[p]
    <2> DEFINE a == [req[q] EXCEPT !.at = "joined", !.row = n]
    <2>1. a \in Asking
      <3>1. n \in 0..MaxRows
        BY <1>3, <1>5, Bounds
      <3>2. QED
        BY <1>1, <3>1 DEF Asking
    <2>2. req' = [req EXCEPT ![q] = a]
      BY <1>1 DEF InsertRefresh, IInv, TypeOK
    <2>3. QED
      BY <1>1, <2>1, <2>2 DEF Asking, IInv, TypeOK
  <1>7. TypeOK'
    BY <1>1, <1>2, <1>3, <1>5, <1>6 DEF IInv, TypeOK
  <1>8. Requests'
    <2>1. ASSUME NEW p \in Request, req'[p] # Idle PROVE Asked(p)'
      <3>1. CASE p = q
        BY <1>1, <1>3, <1>6, <3>1 DEF Asked, HasAnswer, HasAsked
      <3>2. CASE p # q
        BY <1>1, <1>3, <1>6, <2>1, <3>2 DEF Asked, IInv, Requests
      <3>3. QED
        BY <3>1, <3>2
    <2>2. QED
      BY <2>1 DEF Requests
  <1>9. Rows'
    <2>1. data[t] \in Nat
      BY <1>1, Bounds DEF IInv, TypeOK, Version
    <2>2. QED
      BY <1>1, <1>3, <2>1 DEF IInv, Rows, NoUri, HasAnswer, HasAsked
  <1>11. OpenRowsBounded'
    <2>1. ASSUME NEW u \in Token
          PROVE  (Cardinality(OpenRows(u)) + Cardinality(Inserting(u)) <= Cardinality(Request))'
      <3>1. CASE u = t
        <4>1. OpenRows(u)' = OpenRows(u) \cup {n} /\ n \notin OpenRows(u)
          BY <1>3, <3>1 DEF OpenRows
        <4>2. Inserting(u)' = Inserting(u) \ {q} /\ q \in Inserting(u)
          BY <1>1, <1>6, <3>1 DEF Inserting
        <4>3. /\ Cardinality(OpenRows(u)') = Cardinality(OpenRows(u)) + 1
              /\ Cardinality(Inserting(u)') = Cardinality(Inserting(u)) - 1
          <5>1. IsFiniteSet(OpenRows(u)) /\ IsFiniteSet(Inserting(u))
            BY OpenFinite
          <5>2. Cardinality(OpenRows(u) \cup {n}) = Cardinality(OpenRows(u)) + 1
            BY <4>1, <5>1, FS_AddElement
          <5>3. Cardinality(Inserting(u) \ {q}) = Cardinality(Inserting(u)) - 1
            BY <4>2, <5>1, FS_RemoveElement
          <5>4. QED
            BY <4>1, <4>2, <5>2, <5>3
        <4>4. QED
          BY <4>3, OpenFinite DEF IInv, OpenRowsBounded
      <3>2. CASE u # t
        <4>1. OpenRows(u)' = OpenRows(u) /\ Inserting(u)' = Inserting(u)
          BY <1>1, <1>3, <1>6, <3>2 DEF OpenRows, Inserting
        <4>2. QED
          BY <4>1 DEF IInv, OpenRowsBounded
      <3>3. QED
        BY <3>1, <3>2
    <2>2. QED
      BY <2>1 DEF OpenRowsBounded
  <1>12. Latest'
    <2>1. \A u \in Token : Started(u)' = Started(u) /\ Completed(u)' = Completed(u)
      BY <1>3 DEF Started, Completed
    <2>2. \A u \in Token : \A i \in Started(u) \cup Completed(u) : rows'[i] = rows[i]
      BY <1>3 DEF Started, Completed
    <2>3. QED
      BY <1>1, <2>1, <2>2 DEF IInv, Latest, InTurn, Running, Through
  <1>13. QED
    BY <1>7, <1>8, <1>9, <1>11, <1>12 DEF IInv

LEMMA AdvanceInv ==
  ASSUME IInv, NEW t \in Token, Advance(t)
  PROVE  IInv'
  <1>1. /\ UNCHANGED <<rows, columns, others, req, causes, faults>>
        /\ data' \in [Token -> Version] /\ \A u \in Token : data[u] \in Nat /\ data'[u] \in Nat
        /\ \A u \in Token : data[u] <= data'[u]
    BY Bounds DEF Advance, IInv, TypeOK, Version
  <1>2. TypeOK'
    BY <1>1 DEF IInv, TypeOK
  <1>3. Requests'
    <2>1. ASSUME NEW q \in Request, req[q] # Idle PROVE Asked(q)'
      <3>1. Asked(q) /\ req[q].token \in Token /\ req[q].since \in Nat
        BY <2>1, Bounds DEF IInv, TypeOK, Requests, Asking, Version
      <3>2. QED
        BY <1>1, <3>1 DEF Asked
    <2>2. QED
      BY <1>1, <2>1 DEF Requests
  <1>4. Rows'
    <2>1. \A i \in DOMAIN rows : rows[i].got.v \in Nat /\ rows[i].token \in Token
      BY RowType
    <2>2. QED
      BY <1>1, <2>1 DEF IInv, Rows
  <1>5. OpenRowsBounded'
    BY <1>1 DEF IInv, OpenRowsBounded, OpenRows, Inserting
  <1>6. Latest'
    BY <1>1 DEF IInv, Latest, InTurn, Running, Through, Started, Completed
  <1>7. QED
    BY <1>2, <1>3, <1>4, <1>5, <1>6 DEF IInv

\* What a step of row i, the only one of its token that is executed, means for its token,
\* and for the others nothing.
LEMMA RowLatest ==
  ASSUME IInv, NEW i \in DOMAIN rows, NEW s, NEW t \in Token, t = rows[i].token, s.token = t,
         rows' = [rows EXCEPT ![i] = s], rows[i].status # "completed", UNCHANGED minting,
         \A u \in Token \ {t} : uri'[u] = uri[u] /\ meta'[u] = meta[u] /\ (u \in behind' <=> u \in behind),
         crossed \subseteq crossed',
         t \notin crossed' =>
           /\ Started(t) \subseteq {i}
           /\ s.status = "started" /\ s.at # "dead" => minting[t] = {} /\ Running(s, t)'
           /\ s.status = "completed" => Through(s, t)'
           /\ \A j \in Completed(t) : Through(rows[j], t)'
  PROVE  Latest'
  <1>1. rows'[i] = s /\ DOMAIN rows' = DOMAIN rows /\ \A j \in DOMAIN rows \ {i} : rows'[j] = rows[j]
    BY DEF IInv, TypeOK
  <1>2. ASSUME NEW u \in Token \ crossed', u # t PROVE InTurn(u)'
    <2>1. Started(u)' = Started(u) /\ Completed(u)' = Completed(u)
      BY <1>1, <1>2 DEF Started, Completed
    <2>2. \A j \in Started(u) \cup Completed(u) : rows'[j] = rows[j]
      BY <1>1, <1>2 DEF Started, Completed
    <2>3. /\ uri'[u] = uri[u] /\ meta'[u] = meta[u] /\ (u \in behind' <=> u \in behind)
          /\ minting'[u] = minting[u] /\ InTurn(u)
      BY <1>2 DEF IInv, Latest
    <2>4. \A j \in Started(u) : Running(rows[j], u)'
      BY <2>1, <2>2, <2>3 DEF InTurn, Running
    <2>5. \A j \in Completed(u) : Through(rows[j], u)'
      BY <2>2, <2>3 DEF InTurn, Through
    <2>6. QED
      BY <2>1, <2>3, <2>4, <2>5 DEF InTurn
  <1>3. ASSUME t \notin crossed' PROVE InTurn(t)'
    <2>1. Started(t)' = IF s.status = "started" /\ s.at # "dead" THEN {i} ELSE {}
      BY <1>1, <1>3 DEF Started
    <2>2. Completed(t)' \subseteq Completed(t) \cup {i}
      BY <1>1 DEF Completed
    <2>3. \A j \in Completed(t)' : Through(rows[j], t)'
      <3>1. ASSUME NEW j \in Completed(t)' PROVE Through(rows[j], t)'
        <4>1. CASE j = i
          BY <1>1, <1>3, <3>1, <4>1 DEF Completed
        <4>2. CASE j # i
          BY <1>3, <2>2, <3>1, <4>2
        <4>3. QED
          BY <4>1, <4>2
      <3>2. QED
        BY <3>1
    <2>4. QED
      BY <1>1, <1>3, <2>1, <2>3 DEF InTurn
  <1>4. QED
    BY <1>2, <1>3 DEF Latest

\* The row is no longer executed and not completed: it failed or died.
LEMMA RowStops ==
  ASSUME IInv, NEW i \in DOMAIN rows, NEW status, NEW at,
         (status = "failed" /\ at = "wait") \/ (status = "started" /\ at = "dead"),
         Drop(i, status, at), i \in Started(rows[i].token),
         UNCHANGED <<data, req, columns, others, causes>>, faults' \in 0..MaxFaults
  PROVE  IInv'
  <1> PICK t \in Token : t = rows[i].token
    BY RowType
  <1> PICK s : s = [rows[i] EXCEPT !.status = status, !.at = at, !.hidden = FALSE, !.got = NoUri, !.content = 0]
    OBVIOUS
  <1>1. /\ s \in RowSet /\ s.token = t /\ s.status = status /\ s.at = at /\ s.got.v = 0
        /\ rows' = [rows EXCEPT ![i] = s]
    <2>1. NoUri \in Uri /\ 0 \in Version /\ NoUri.v = 0
      BY Bounds DEF NoUri, Uri, Version
    <2>2. QED
      BY <2>1, RowType DEF RowSet, Status, Drop, IInv, TypeOK
  <1>2. rows[i].status = "started"
    BY DEF Started
  <1>3. Latest'
    <2>1. t \notin crossed' => Started(t) \subseteq {i} /\ InTurn(t)
      BY DEF IInv, Latest, InTurn
    <2>2. t \notin crossed' => \A j \in Completed(t) : Through(rows[j], t)'
      <3>1. \A j \in Completed(t) : rows'[j] = rows[j]
        BY <1>1, <1>2 DEF Completed, IInv, TypeOK
      <3>2. QED
        BY <2>1, <3>1 DEF InTurn, Through
    <2>3. QED
      BY <1>1, <1>2, <2>1, <2>2, RowLatest
  <1>4. s.got.v <= data[s.token] /\ ~HasAnswer(s)
    <2>1. data[t] \in Nat
      BY Bounds DEF IInv, TypeOK, Version
    <2>2. QED
      BY <1>1, <2>1 DEF HasAnswer, HasAsked
  <1>5. /\ uri' \in [Token -> Uri] /\ meta' \in [Token -> Version] /\ fetches' \in [Token -> SUBSET Uri]
        /\ crossed' \subseteq Token /\ behind' \subseteq Token
    BY DEF IInv, TypeOK
  <1>6. QED
    BY <1>1, <1>2, <1>3, <1>4, <1>5, RowMoves

LEMMA ExecuteInv ==
  ASSUME IInv, NEW i, Execute(i)
  PROVE  IInv'
  <1>1. i \in DOMAIN rows /\ rows[i].at = "wait" /\ rows[i].status = "created"
    BY DEF Execute, At
  <1> PICK t \in Token : t = rows[i].token
    BY <1>1, RowType
  <1> PICK s : s = [rows[i] EXCEPT !.status = "started", !.at = "verify"]
    OBVIOUS
  <1>2. /\ s \in RowSet /\ s.token = t /\ s.status = "started" /\ s.at = "verify"
        /\ s.got = rows[i].got
    BY <1>1, RowType DEF RowSet, Status
  <1>3. /\ rows' = [rows EXCEPT ![i] = s] /\ UNCHANGED <<data, columns, others, req, behind, faults>>
        /\ crossed' = IF Started(t) # {} \/ minting[t] # {} THEN crossed \cup {t} ELSE crossed
    BY <1>1, RowType DEF Execute, IInv, TypeOK
  <1>4. Latest'
    <2>1. t \notin crossed' => Started(t) = {} /\ minting[t] = {} /\ InTurn(t)
      BY <1>3 DEF IInv, Latest
    <2>2. Running(s, t)'
      BY <1>2 DEF Running, HasAsked
    <2>3. t \notin crossed' => \A j \in Completed(t) : Through(rows[j], t)'
      <3>1. \A j \in Completed(t) : rows'[j] = rows[j]
        BY <1>1, <1>3 DEF Completed, IInv, TypeOK
      <3>2. QED
        BY <1>3, <2>1, <3>1 DEF InTurn, Through
    <2>4. QED
      BY <1>1, <1>2, <1>3, <2>1, <2>2, <2>3, RowLatest
  <1>5. s.got.v <= data[s.token] /\ ~HasAnswer(s)
    BY <1>1, <1>2 DEF IInv, Rows, HasAnswer, HasAsked
  <1>6. /\ uri' \in [Token -> Uri] /\ meta' \in [Token -> Version] /\ fetches' \in [Token -> SUBSET Uri]
        /\ crossed' \subseteq Token /\ behind' \subseteq Token /\ faults' \in 0..MaxFaults
    BY <1>3 DEF IInv, TypeOK
  <1>7. QED
    BY <1>1, <1>2, <1>3, <1>4, <1>5, <1>6, RowMoves

\* A step of a row that goes on, after which only its token's columns can differ.
LEMMA RowGoes ==
  ASSUME IInv, NEW i \in DOMAIN rows, NEW s \in RowSet, NEW t \in Token, t = rows[i].token,
         i \in Started(t), rows' = [rows EXCEPT ![i] = s], s.token = t,
         s.status = "started" /\ s.at \in HasAsked,
         UNCHANGED <<data, req, minting, mints, crossed>>,
         uri' \in [Token -> Uri], meta' \in [Token -> Version], fetches' \in [Token -> SUBSET Uri],
         behind' \subseteq Token, faults' \in 0..MaxFaults,
         \A u \in Token \ {t} : uri'[u] = uri[u] /\ meta'[u] = meta[u] /\ (u \in behind' <=> u \in behind),
         \/ s.got = rows[i].got /\ s.hidden = rows[i].hidden /\ rows[i].at \in HasAsked
         \/ s.got.v <= data[t] /\ (~s.hidden => s.got.base = HasBase /\ s.got.v = data[t]),
         InTurn(t) /\ Started(t) = {i} => Running(s, t)' /\ \A j \in Completed(t) : Through(rows[j], t)'
  PROVE  IInv'
  <1>1. rows[i].status = "started" /\ s.at \notin {"wait", "dead"}
    BY DEF Started, HasAsked
  <1>2. t \notin crossed' => InTurn(t) /\ Started(t) = {i} /\ minting[t] = {}
    BY DEF IInv, Latest, InTurn
  <1>3. Latest'
    BY <1>1, <1>2, RowLatest
  <1>4. s.got.v <= data[s.token]
    BY DEF IInv, Rows
  <1>5. HasAnswer(s) /\ ~s.hidden =>
          /\ s.got.base = HasBase
          /\ \/ s.got.v = data[s.token]
             \/ HasAnswer(rows[i]) /\ ~rows[i].hidden /\ s.got = rows[i].got
    BY DEF IInv, Rows, HasAnswer
  <1>6. crossed' \subseteq Token
    BY DEF IInv, TypeOK
  <1>7. QED
    BY <1>1, <1>3, <1>4, <1>5, <1>6, RowMoves

\* The rows that are through stay as they are when a row of their token goes on.
LEMMA CompletedStay ==
  ASSUME IInv, NEW i \in DOMAIN rows, NEW s, NEW t \in Token, i \in Started(t),
         rows' = [rows EXCEPT ![i] = s], s.status # "completed"
  PROVE  Completed(t)' = Completed(t) /\ \A j \in Completed(t) : rows'[j] = rows[j]
  <1>1. rows'[i] = s /\ DOMAIN rows' = DOMAIN rows /\ \A j \in DOMAIN rows \ {i} : rows'[j] = rows[j]
    BY DEF IInv, TypeOK
  <1>2. rows[i].status = "started"
    BY DEF Started
  <1>3. QED
    BY <1>1, <1>2 DEF Completed

LEMMA AskInv ==
  ASSUME IInv, NEW i, AskContract(i)
  PROVE  IInv'
  <1>1. i \in DOMAIN rows /\ rows[i].at = "verify" /\ rows[i].status = "started"
        /\ UNCHANGED <<data, columns, others, req, causes>>
    BY DEF AskContract, At, IInv, TypeOK
  <1> PICK t \in Token : t = rows[i].token
    BY <1>1, RowType
  <1>2. PICK base \in BOOLEAN, found \in BOOLEAN :
          /\ Answers(t, base, found)
          /\ rows' = [rows EXCEPT ![i].at = "upsert",
                        ![i].hidden = Hides(t, base, found), ![i].got = Answer(t, base, found)]
    BY DEF AskContract
  <1> PICK s : s = [rows[i] EXCEPT !.at = "upsert", !.hidden = Hides(t, base, found),
                                   !.got = Answer(t, base, found)]
    OBVIOUS
  <1>3. data[t] \in Version /\ data[t] \in Nat /\ 0 \in Version
    BY Bounds DEF IInv, TypeOK, Version
  <1>4. /\ Answer(t, base, found) \in Uri /\ Answer(t, base, found).v <= data[t]
        /\ ~Hides(t, base, found) => Answer(t, base, found).base = HasBase /\ Answer(t, base, found).v = data[t]
        /\ Hides(t, base, found) \in BOOLEAN
    BY <1>2, <1>3, HasBaseAssumption DEF Answer, Answers, Hides, FormatTokenUri, Uri
  <1>5. /\ s \in RowSet /\ s.token = t /\ s.status = "started" /\ s.at = "upsert"
        /\ s.got = Answer(t, base, found) /\ s.hidden = Hides(t, base, found)
    BY <1>1, <1>4, RowType DEF RowSet
  <1>6. rows' = [rows EXCEPT ![i] = s]
    BY <1>1, <1>2, RowType DEF IInv, TypeOK
  <1>7. i \in Started(t)
    BY <1>1 DEF Started
  <1>8. InTurn(t) => Running(s, t)' /\ \A j \in Completed(t) : Through(rows[j], t)'
    <2> SUFFICES ASSUME InTurn(t) PROVE Running(s, t)' /\ \A j \in Completed(t) : Through(rows[j], t)'
      OBVIOUS
    <2>1. Completed(t)' = Completed(t) /\ \A j \in Completed(t) : rows'[j] = rows[j]
      BY <1>1, <1>5, <1>6, <1>7, CompletedStay
    <2>2. \A j \in Completed(t) : rows[j].got.v <= data[t]
      BY DEF Completed, IInv, Rows
    <2>3. Running(s, t)'
      BY <1>4, <1>5, <2>1, <2>2 DEF Running
    <2>4. QED
      BY <1>1, <2>1, <2>3 DEF InTurn, Through
  <1>9. /\ uri' \in [Token -> Uri] /\ meta' \in [Token -> Version] /\ fetches' \in [Token -> SUBSET Uri]
        /\ behind' \subseteq Token
    BY <1>1 DEF IInv, TypeOK
  <1>10. faults' \in 0..MaxFaults
    BY <1>2, Bounds DEF Answers, Fault, IInv, TypeOK
  <1>11. s.at \in HasAsked
    BY <1>5 DEF HasAsked
  <1>12. QED
    BY <1>1, <1>4, <1>5, <1>6, <1>7, <1>8, <1>9, <1>10, <1>11, RowGoes

LEMMA UpsertInv ==
  ASSUME IInv, NEW i, Upsert(i)
  PROVE  IInv'
  <1>1. i \in DOMAIN rows /\ rows[i].at = "upsert" /\ rows[i].status = "started"
        /\ UNCHANGED <<data, meta, minting, mints, req, causes, faults>>
    BY DEF Upsert, At, IInv, TypeOK
  <1> PICK t \in Token : t = rows[i].token
    BY <1>1, RowType
  <1> PICK got : got = rows[i].got
    OBVIOUS
  <1>2. i \in Started(t) /\ got \in Uri
    BY <1>1, RowType DEF Started
  <1>3. /\ uri' \in [Token -> Uri] /\ (IF got = NoUri THEN uri' = uri ELSE uri'[t] = got)
        /\ fetches' \in [Token -> SUBSET Uri] /\ (got = NoUri => fetches' = fetches)
        /\ \A u \in Token \ {t} : uri'[u] = uri[u]
    <2>1. uri \in [Token -> Uri] /\ fetches \in [Token -> SUBSET Uri]
      BY DEF IInv, TypeOK
    <2>2. IF got = NoUri THEN UNCHANGED <<uri, fetches>> ELSE UpsertToken(t, got)
      BY DEF Upsert
    <2>3. CASE got = NoUri
      BY <2>1, <2>2, <2>3
    <2>4. CASE got # NoUri
      BY <1>2, <2>1, <2>2, <2>4 DEF UpsertToken
    <2>5. QED
      BY <2>3, <2>4
  <1>4. CASE uri'[t] = NoUri
    <2>1. Drop(i, "failed", "wait") /\ UNCHANGED <<uri, fetches>>
      BY <1>3, <1>4 DEF Upsert, UpsertToken
    <2>2. faults' \in 0..MaxFaults
      BY <1>1 DEF IInv, TypeOK
    <2>3. QED
      BY <1>1, <1>2, <2>1, <2>2, RowStops
  <1>5. CASE uri'[t] # NoUri
    <2> PICK s : s = [rows[i] EXCEPT !.at = "fetch"]
      OBVIOUS
    <2>1. /\ s \in RowSet /\ s.token = t /\ s.status = "started" /\ s.at = "fetch"
          /\ s.got = got /\ s.hidden = rows[i].hidden
      BY <1>1, RowType DEF RowSet
    <2>2. rows' = [rows EXCEPT ![i] = s]
      BY <1>1, <1>5, RowType DEF Upsert, IInv, TypeOK
    <2>3. InTurn(t) => Running(s, t)' /\ \A j \in Completed(t) : Through(rows[j], t)'
      <3> SUFFICES ASSUME InTurn(t) PROVE Running(s, t)' /\ \A j \in Completed(t) : Through(rows[j], t)'
        OBVIOUS
      <3>1. Completed(t)' = Completed(t) /\ \A j \in Completed(t) : rows'[j] = rows[j]
        BY <1>1, <1>2, <2>1, <2>2, CompletedStay
      <3>2. Running(rows[i], t)
        BY <1>2 DEF InTurn
      <3>3. Running(s, t)'
        BY <1>1, <1>3, <2>1, <3>1, <3>2 DEF Running, HasAsked
      <3>4. QED
        BY <1>1, <3>1, <3>3 DEF InTurn, Through
    <2>4. meta' \in [Token -> Version] /\ behind' \subseteq Token /\ faults' \in 0..MaxFaults
      BY <1>1 DEF IInv, TypeOK
    <2>5. s.at \in HasAsked /\ rows[i].at \in HasAsked
      BY <1>1, <2>1 DEF HasAsked
    <2>6. QED
      BY <1>1, <1>2, <1>3, <2>1, <2>2, <2>3, <2>4, <2>5, RowGoes
  <1>6. QED
    BY <1>4, <1>5

LEMMA FetchInv ==
  ASSUME IInv, NEW i, Fetch(i)
  PROVE  IInv'
  <1>1. i \in DOMAIN rows /\ rows[i].at = "fetch" /\ rows[i].status = "started"
        /\ UNCHANGED <<data, columns, others, req, causes, faults>>
    BY DEF Fetch, At, IInv, TypeOK
  <1> PICK t \in Token : t = rows[i].token
    BY <1>1, RowType
  <1>2. /\ uri' \in [Token -> Uri] /\ meta' \in [Token -> Version] /\ fetches' \in [Token -> SUBSET Uri]
        /\ behind' \subseteq Token /\ faults' \in 0..MaxFaults /\ i \in Started(t)
    BY <1>1 DEF IInv, TypeOK, Started
  <1>3. CASE Drop(i, "failed", "wait")
    BY <1>1, <1>2, <1>3, RowStops
  <1>4. CASE rows' = [rows EXCEPT ![i].at = "update", ![i].content = Content(uri[t])]
    <2>0. PICK s : s = [rows[i] EXCEPT !.at = "update", !.content = Content(uri[t])]
      OBVIOUS
    <2>1. /\ uri[t].v \in Nat /\ Content(uri[t]) \in Version /\ Content(uri[t]) \in Nat
      BY Bounds DEF IInv, TypeOK, Uri, Version, Content
    <2>2. /\ s \in RowSet /\ s.token = t /\ s.status = "started" /\ s.at = "update"
          /\ s.got = rows[i].got /\ s.hidden = rows[i].hidden /\ s.content = Content(uri[t])
      BY <1>1, <2>0, <2>1, RowType DEF RowSet
    <2>3. rows' = [rows EXCEPT ![i] = s]
      BY <1>1, <1>4, <2>0, RowType DEF IInv, TypeOK
    <2>4. InTurn(t) => Running(s, t)' /\ \A j \in Completed(t) : Through(rows[j], t)'
      <3> SUFFICES ASSUME InTurn(t) PROVE Running(s, t)' /\ \A j \in Completed(t) : Through(rows[j], t)'
        OBVIOUS
      <3>1. Completed(t)' = Completed(t) /\ \A j \in Completed(t) : rows'[j] = rows[j]
        <4>1. DOMAIN rows' = DOMAIN rows /\ rows'[i] = s /\ \A j \in DOMAIN rows \ {i} : rows'[j] = rows[j]
          BY <1>1, <2>3 DEF IInv, TypeOK
        <4>2. QED
          BY <1>1, <2>2, <4>1 DEF Completed
      <3>2. Running(rows[i], t)
        BY <1>2 DEF InTurn
      <3>3. ~s.hidden => s.content >= s.got.v
        <4>1. CASE s.got.v = 0
          BY <2>1, <2>2, <4>1
        <4>2. CASE s.got.v # 0 /\ ~s.hidden
          <5>1. s.got # NoUri /\ s.got.base = HasBase
            BY <1>1, <2>2, <4>2 DEF NoUri, IInv, Rows, HasAnswer, HasAsked
          <5>2. uri[t] = s.got
            BY <1>1, <2>2, <3>2, <4>2, <5>1 DEF Running
          <5>3. QED
            BY <2>1, <2>2, <4>2, <5>1, <5>2 DEF Content, Right
        <4>3. QED
          BY <4>1, <4>2
      <3>4. Running(s, t)'
        BY <1>1, <2>2, <3>1, <3>2, <3>3 DEF Running, HasAsked
      <3>5. QED
        BY <1>1, <3>1, <3>4 DEF InTurn, Through
    <2>5. s.at \in HasAsked /\ rows[i].at \in HasAsked
      BY <1>1, <2>2 DEF HasAsked
    <2>6. QED
      BY <1>1, <1>2, <2>2, <2>3, <2>4, <2>5, RowGoes
  <1>5. QED
    BY <1>3, <1>4 DEF Fetch

\* The write, which leaves the token behind only if an answer was hidden from the row.
LEMMA UpdateInv ==
  ASSUME IInv, NEW i, UpdateMetadata(i)
  PROVE  IInv'
  <1>1. i \in DOMAIN rows /\ rows[i].at = "update" /\ rows[i].status = "started"
        /\ UNCHANGED <<data, uri, others, req, crossed, faults>>
    BY DEF UpdateMetadata, At, IInv, TypeOK
  <1> PICK t \in Token : t = rows[i].token
    BY <1>1, RowType
  <1> PICK c : c = rows[i].content
    OBVIOUS
  <1> PICK s : s = [rows[i] EXCEPT !.at = "complete"]
    OBVIOUS
  <1>2. /\ s \in RowSet /\ s.token = t /\ s.status = "started" /\ s.at = "complete"
        /\ s.got = rows[i].got /\ s.hidden = rows[i].hidden /\ s.content = c
    BY <1>1, RowType DEF RowSet
  <1>3. /\ rows' = [rows EXCEPT ![i] = s] /\ meta' = [meta EXCEPT ![t] = c]
        /\ behind' = IF rows[i].hidden /\ Older(c, Learned(t) \cup {i}) THEN behind \cup {t} ELSE behind \ {t}
    BY <1>1, RowType DEF UpdateMetadata, IInv, TypeOK
  <1>4. c \in Version /\ c \in Nat /\ i \in Started(t)
    BY <1>1, RowType DEF RowSet, Started
  <1>5. /\ uri' \in [Token -> Uri] /\ meta' \in [Token -> Version] /\ fetches' \in [Token -> SUBSET Uri]
        /\ behind' \subseteq Token /\ faults' \in 0..MaxFaults /\ meta'[t] = c
        /\ \A u \in Token \ {t} : meta'[u] = meta[u] /\ uri'[u] = uri[u] /\ (u \in behind' <=> u \in behind)
    BY <1>1, <1>3, <1>4 DEF IInv, TypeOK
  <1>6. InTurn(t) => Running(s, t)' /\ \A j \in Completed(t) : Through(rows[j], t)'
    <2> SUFFICES ASSUME InTurn(t) PROVE Running(s, t)' /\ \A j \in Completed(t) : Through(rows[j], t)'
      OBVIOUS
    <2>1. Completed(t)' = Completed(t) /\ \A j \in Completed(t) : rows'[j] = rows[j]
      BY <1>1, <1>2, <1>3, <1>4, CompletedStay
    <2>2. Running(rows[i], t)
      BY <1>4 DEF InTurn
    <2>3. \A j \in Completed(t) \cup {i} : rows[j].got.v \in Nat
      BY <1>1, RowType DEF Completed
    <2>4. t \notin behind' => \A j \in Completed(t) \cup {i} : c >= rows[j].got.v
      <3>1. CASE rows[i].hidden
        <4>1. Completed(t) \subseteq Learned(t)
          BY DEF Completed, Learned
        <4>2. QED
          BY <1>3, <1>4, <2>3, <3>1, <4>1 DEF Older
      <3>2. CASE ~rows[i].hidden
        <4>1. c >= rows[i].got.v /\ \A j \in Completed(t) : rows[j].got.v <= rows[i].got.v
          BY <1>1, <2>2, <3>2 DEF Running, HasAsked
        <4>2. QED
          BY <1>4, <2>3, <4>1
      <3>3. QED
        BY <3>1, <3>2
    <2>5. Running(s, t)'
      BY <1>1, <1>2, <1>5, <2>1, <2>2, <2>4 DEF Running, HasAsked
    <2>6. \A j \in Completed(t) : Through(rows[j], t)'
      BY <1>5, <2>1, <2>4 DEF InTurn, Through
    <2>7. QED
      BY <2>5, <2>6
  <1>7. s.at \in HasAsked /\ rows[i].at \in HasAsked
    BY <1>1, <1>2 DEF HasAsked
  <1>8. QED
    BY <1>1, <1>2, <1>3, <1>4, <1>5, <1>6, <1>7, RowGoes

LEMMA CompleteInv ==
  ASSUME IInv, NEW i, Complete(i)
  PROVE  IInv'
  <1>1. i \in DOMAIN rows /\ rows[i].at = "complete" /\ rows[i].status = "started"
        /\ UNCHANGED <<data, columns, others, req, causes, faults>>
    BY DEF Complete, At, IInv, TypeOK
  <1> PICK t \in Token : t = rows[i].token
    BY <1>1, RowType
  <1> PICK s : s = [rows[i] EXCEPT !.status = "completed", !.at = "wait"]
    OBVIOUS
  <1>2. /\ s \in RowSet /\ s.token = t /\ s.status = "completed" /\ s.at = "wait"
        /\ s.got = rows[i].got /\ s.hidden = rows[i].hidden /\ s.content = rows[i].content
    BY <1>1, RowType DEF RowSet, Status
  <1>3. rows' = [rows EXCEPT ![i] = s] /\ i \in Started(t)
    BY <1>1, RowType DEF Complete, Close, Started, IInv, TypeOK
  <1>4. t \notin crossed =>
          Started(t) \subseteq {i} /\ Through(s, t)' /\ \A j \in Completed(t) : Through(rows[j], t)'
    <2> SUFFICES ASSUME t \notin crossed
                 PROVE  Started(t) \subseteq {i} /\ Through(s, t)' /\ \A j \in Completed(t) : Through(rows[j], t)'
      OBVIOUS
    <2>1. InTurn(t) /\ Started(t) \subseteq {i} /\ Running(rows[i], t)
      BY <1>3 DEF IInv, Latest, InTurn
    <2>2. Through(s, t)'
      BY <1>1, <1>2, <2>1 DEF Running, Through
    <2>3. \A j \in Completed(t) : rows'[j] = rows[j]
      BY <1>1, <1>3 DEF Completed, IInv, TypeOK
    <2>4. QED
      BY <1>1, <2>1, <2>2, <2>3 DEF InTurn, Through
  <1>5. Latest'
    BY <1>1, <1>2, <1>3, <1>4, RowLatest
  <1>6. /\ s.got.v <= data[s.token]
        /\ HasAnswer(rows[i]) /\ (~s.hidden => s.got.base = HasBase)
    BY <1>1, <1>2 DEF IInv, Rows, HasAnswer, HasAsked
  <1>7. /\ uri' \in [Token -> Uri] /\ meta' \in [Token -> Version] /\ fetches' \in [Token -> SUBSET Uri]
        /\ crossed' \subseteq Token /\ behind' \subseteq Token /\ faults' \in 0..MaxFaults
    BY <1>1 DEF IInv, TypeOK
  <1>8. QED
    BY <1>1, <1>2, <1>3, <1>5, <1>6, <1>7, RowMoves

LEMMA FaultInv ==
  ASSUME IInv, NEW i, Fail(i) \/ Die(i)
  PROVE  IInv'
  <1>1. /\ i \in DOMAIN rows /\ i \in Started(rows[i].token)
        /\ UNCHANGED <<data, columns, others, req, causes>> /\ Fault
    BY DEF Fail, Die, Started
  <1>2. faults' \in 0..MaxFaults
    BY <1>1, Bounds DEF Fault, IInv, TypeOK
  <1>3. Drop(i, "failed", "wait") \/ Drop(i, "started", "dead")
    BY DEF Fail, Die
  <1>4. QED
    BY <1>1, <1>2, <1>3, RowStops

\* A step of another job of the token leaves rows and requests alone.
LEMMA OtherMoves ==
  ASSUME IInv, UNCHANGED <<data, rows, req>>,
         uri' \in [Token -> Uri], meta' \in [Token -> Version],
         minting' \in [Token -> SUBSET Uri], mints' \in [Token -> 0..MaxMints],
         fetches' \in [Token -> SUBSET Uri],
         crossed' \subseteq Token, behind' \subseteq Token, faults' \in 0..MaxFaults, Latest'
  PROVE  IInv'
  <1>1. TypeOK' /\ Rows'
    BY DEF IInv, TypeOK, Rows
  <1>2. Requests'
    BY DEF IInv, Requests, Asked
  <1>3. OpenRowsBounded'
    BY DEF IInv, OpenRowsBounded, OpenRows, Inserting
  <1>4. QED
    BY <1>1, <1>2, <1>3 DEF IInv

\* A verify_mint transaction, while no refresh of the token is executed.
LEMMA MintInv ==
  ASSUME IInv, NEW t \in Token, AskForMint(t) \/ \E u \in Uri : UpsertMint(t, u)
  PROVE  IInv'
  <1>1. CASE AskForMint(t)
    <2>1. PICK base \in BOOLEAN, found \in BOOLEAN :
            /\ Answers(t, base, found)
            /\ minting' = [minting EXCEPT ![t] = @ \cup {Answer(t, base, found)}]
      BY <1>1 DEF AskForMint
    <2>2. /\ UNCHANGED <<data, rows, columns, fetches, req, behind>>
          /\ mints[t] < MaxMints /\ mints' = [mints EXCEPT ![t] = @ + 1]
          /\ crossed' = IF Started(t) # {} THEN crossed \cup {t} ELSE crossed
      BY <1>1 DEF AskForMint
    <2>3. Answer(t, base, found) \in Uri
      <3>1. data[t] \in Version /\ 0 \in Version
        BY Bounds DEF IInv, TypeOK, Version
      <3>2. QED
        BY <3>1 DEF Answer, FormatTokenUri, Uri
    <2>4. minting' \in [Token -> SUBSET Uri] /\ mints' \in [Token -> 0..MaxMints] /\ faults' \in 0..MaxFaults
      BY <2>1, <2>2, <2>3, Bounds DEF Answers, Fault, IInv, TypeOK
    <2>5. Latest'
      <3>1. ASSUME NEW u \in Token \ crossed' PROVE InTurn(u)'
        <4>1. InTurn(u) /\ Started(u)' = Started(u) /\ Completed(u)' = Completed(u)
          BY <2>2, <3>1 DEF IInv, Latest, Started, Completed
        <4>2. minting'[u] = minting[u] \/ Started(u) = {}
          BY <2>1, <2>2, <3>1 DEF IInv, TypeOK
        <4>3. QED
          BY <2>2, <4>1, <4>2 DEF InTurn, Running, Through
      <3>2. QED
        BY <3>1 DEF Latest
    <2>6. /\ uri' \in [Token -> Uri] /\ meta' \in [Token -> Version] /\ fetches' \in [Token -> SUBSET Uri]
          /\ crossed' \subseteq Token /\ behind' \subseteq Token
      BY <2>2 DEF IInv, TypeOK
    <2>7. QED
      BY <2>2, <2>4, <2>5, <2>6, OtherMoves
  <1>2. ASSUME NEW u \in Uri, UpsertMint(t, u) PROVE IInv'
    <2>1. /\ UNCHANGED <<data, rows, meta, mints, req, causes>>
          /\ u \in minting[t] /\ minting' = [minting EXCEPT ![t] = @ \ {u}]
      BY <1>2 DEF UpsertMint
    <2>2. /\ uri' \in [Token -> Uri] /\ fetches' \in [Token -> SUBSET Uri]
          /\ \A v \in Token \ {t} : uri'[v] = uri[v]
      <3>1. uri \in [Token -> Uri] /\ fetches \in [Token -> SUBSET Uri]
        BY DEF IInv, TypeOK
      <3>2. CASE UpsertToken(t, u)
        BY <3>1, <3>2 DEF UpsertToken
      <3>3. CASE UNCHANGED <<uri, fetches>>
        BY <3>1, <3>3
      <3>4. QED
        BY <1>2, <3>2, <3>3 DEF UpsertMint
    <2>3. faults' \in 0..MaxFaults
      BY <1>2, Bounds DEF UpsertMint, Fault, IInv, TypeOK
    <2>4. minting' \in [Token -> SUBSET Uri]
      BY <2>1 DEF IInv, TypeOK
    <2>5. Latest'
      <3>1. ASSUME NEW v \in Token \ crossed PROVE InTurn(v)'
        <4>1. InTurn(v) /\ Started(v)' = Started(v) /\ Completed(v)' = Completed(v)
          BY <2>1, <3>1 DEF IInv, Latest, Started, Completed
        <4>2. CASE v = t
          <5>1. Started(v) = {}
            BY <2>1, <4>1, <4>2 DEF InTurn
          <5>2. QED
            BY <2>1, <4>1, <5>1 DEF InTurn, Through
        <4>3. CASE v # t
          <5>1. uri'[v] = uri[v] /\ minting'[v] = minting[v]
            BY <2>1, <2>2, <4>3 DEF IInv, TypeOK
          <5>2. QED
            BY <2>1, <4>1, <5>1 DEF InTurn, Running, Through
        <4>4. QED
          BY <4>2, <4>3
      <3>2. QED
        BY <2>1, <3>1 DEF Latest
    <2>6. /\ meta' \in [Token -> Version] /\ mints' \in [Token -> 0..MaxMints]
          /\ crossed' \subseteq Token /\ behind' \subseteq Token
      BY <2>1 DEF IInv, TypeOK
    <2>7. QED
      BY <2>1, <2>2, <2>3, <2>4, <2>5, <2>6, OtherMoves
  <1>3. QED
    BY <1>1, <1>2

\* A fetch_metadata row writes: older metadata leaves the token behind.
LEMMA FetchMetadataInv ==
  ASSUME IInv, NEW t \in Token, NEW u \in Uri, ExecuteFetchMetadata(t, u)
  PROVE  IInv'
  <1> PICK c : c = Content(u)
    OBVIOUS
  <1>1. /\ UNCHANGED <<data, rows, uri, others, req, crossed, faults>>
        /\ meta' = [meta EXCEPT ![t] = c]
        /\ behind' = IF Older(c, Learned(t)) THEN behind \cup {t} ELSE behind \ {t}
    BY DEF ExecuteFetchMetadata
  <1>2. c \in Version /\ c \in Nat
    BY Bounds DEF Content, Uri, Version
  <1>3. meta' \in [Token -> Version] /\ behind' \subseteq Token
    BY <1>1, <1>2 DEF IInv, TypeOK
  <1>4. Latest'
    <2>1. ASSUME NEW v \in Token \ crossed PROVE InTurn(v)'
      <3>1. InTurn(v) /\ Started(v)' = Started(v) /\ Completed(v)' = Completed(v)
        BY <1>1, <2>1 DEF IInv, Latest, Started, Completed
      <3>2. \A j \in Started(v) : rows[j].at = "complete" => (meta[v] >= rows[j].got.v \/ v \in behind)'
        <4>1. CASE v = t
          <5>1. \A j \in Started(t) : rows[j].at = "complete" => j \in Learned(t) /\ rows[j].got.v \in Nat
            BY RowType DEF Started, Learned
          <5>2. QED
            BY <1>1, <1>2, <4>1, <5>1 DEF Older, IInv, TypeOK
        <4>2. CASE v # t
          BY <1>1, <3>1, <4>2 DEF InTurn, Running, IInv, TypeOK
        <4>3. QED
          BY <4>1, <4>2
      <3>3. \A j \in Completed(v) : (meta[v] >= rows[j].got.v \/ v \in behind)'
        <4>1. CASE v = t
          <5>1. \A j \in Completed(t) : j \in Learned(t) /\ rows[j].got.v \in Nat
            BY RowType DEF Completed, Learned
          <5>2. QED
            BY <1>1, <1>2, <4>1, <5>1 DEF Older, IInv, TypeOK
        <4>2. CASE v # t
          BY <1>1, <3>1, <4>2 DEF InTurn, Through, IInv, TypeOK
        <4>3. QED
          BY <4>1, <4>2
      <3>4. \A j \in Started(v) : Running(rows[j], v)'
        BY <1>1, <3>1, <3>2 DEF InTurn, Running
      <3>5. \A j \in Completed(v) : Through(rows[j], v)'
        BY <1>1, <3>1, <3>3 DEF InTurn, Through
      <3>6. QED
        BY <1>1, <3>1, <3>4, <3>5 DEF InTurn
    <2>2. QED
      BY <1>1, <2>1 DEF Latest
  <1>5. /\ uri' \in [Token -> Uri] /\ minting' \in [Token -> SUBSET Uri] /\ mints' \in [Token -> 0..MaxMints]
        /\ fetches' \in [Token -> SUBSET Uri] /\ crossed' \subseteq Token /\ faults' \in 0..MaxFaults
    BY <1>1 DEF IInv, TypeOK
  <1>6. QED
    BY <1>1, <1>3, <1>4, <1>5, OtherMoves

LEMMA NextInv == IInv /\ [Next]_vars => IInv'
  <1> SUFFICES ASSUME IInv, [Next]_vars PROVE IInv'
    OBVIOUS
  <1>1. CASE Next
    BY <1>1, AdvanceInv, FindRefreshInv, InsertInv, LeaveInv, ExecuteInv, AskInv, UpsertInv,
       FetchInv, UpdateInv, CompleteInv, FaultInv, MintInv, FetchMetadataInv DEF Next, Work
  <1>2. CASE UNCHANGED vars
    <2>1. TypeOK' /\ Requests' /\ Rows'
      BY <1>2 DEF vars, IInv, TypeOK, Requests, Asked, Rows
    <2>2. OpenRowsBounded' /\ Latest'
      BY <1>2 DEF vars, IInv, OpenRowsBounded, OpenRows, Inserting, Latest, InTurn, Running, Through,
                  Started, Completed
    <2>3. QED
      BY <2>1, <2>2 DEF IInv
  <1>3. QED
    BY <1>1, <1>2

LEMMA Invariant == Spec => []IInv
  BY InitInv, NextInv, PTL DEF Spec

-----------------------------------------------------------------------------
(* The theorems.                                                           *)

\* Every variable keeps to its type.
THEOREM TypeCorrect == Spec => []TypeOK
  <1>1. IInv => TypeOK
    BY DEF IInv
  <1>2. QED
    BY Invariant, <1>1, PTL

\* A token never has more open rows than there can be requests at once.
THEOREM OpenRowsAlwaysBounded == Spec => []OpenRowsBounded
  <1>1. IInv => OpenRowsBounded
    BY DEF IInv
  <1>2. QED
    BY Invariant, <1>1, PTL

\* A completed refresh from which no failed call hid the answer asked after the request
\* that was content with it, and wrote metadata that is not older when no other row of the
\* token asked and wrote meanwhile.
THEOREM RequestAlwaysCovered == Spec => []RequestCovered
  <1>1. IInv => RequestCovered
    <2> SUFFICES ASSUME IInv, NEW q \in Request, req[q].at = "joined", ~req[q].late,
                        rows[req[q].row].status = "completed", ~rows[req[q].row].hidden
                 PROVE  /\ rows[req[q].row].got.v >= req[q].since
                        /\ rows[req[q].row].content >= req[q].since \/ rows[req[q].row].token \in crossed
      BY DEF RequestCovered
    <2> DEFINE i == req[q].row
    <2>1. Asked(q) /\ req[q] \in Asking
      BY DEF IInv, TypeOK, Requests, Idle
    <2>2. i \in DOMAIN rows /\ rows[i].got.v >= req[q].since
      BY <2>1 DEF Asked, HasAnswer
    <2>3. CASE rows[i].token \notin crossed
      <3>1. rows[i].content >= rows[i].got.v
        BY <2>2, <2>3, RowType DEF IInv, Latest, InTurn, Completed, Through
      <3>2. req[q].since \in Nat /\ rows[i].got.v \in Nat /\ rows[i].content \in Nat
        BY <2>1, <2>2, RowType, Bounds DEF Asking, Version
      <3>3. QED
        BY <2>2, <3>1, <3>2
    <2>4. QED
      BY <2>2, <2>3
  <1>2. QED
    BY Invariant, <1>1, PTL

\* While the rows of a token ask and write one at a time, the metadata shown is not older
\* than any completed refresh of it, unless it was last written by a fetch_metadata row of
\* an older URI, or by a refresh from which a failed call hid the answer.
THEOREM ShowsAlwaysLatest == Spec => []ShowsLatest
  <1>1. IInv => ShowsLatest
    BY DEF IInv, Latest, InTurn, Through, ShowsLatest
  <1>2. QED
    BY Invariant, <1>1, PTL
=============================================================================
