---------------------- MODULE ConfigurationStore_proofs ----------------------
(***************************************************************************)
(* Theorems of ConfigurationStore, for any table, bodies, pods and number  *)
(* of requests at once.                                                    *)
(***************************************************************************)
EXTENDS ConfigurationStore, TLAPS

\* What a request holds at each of its steps, when the table has had l states.
Holds(s, l) ==
  s \in Doing =>
    /\ s.kind = "boot" => s.at \in {"load", "apply"}
    /\ s.kind # "boot" => s.id \in Id /\ s.dto \in Dto
    /\ s.kind = "create" => s.dto.key \in Key
    /\ s.kind = "update" /\ s.at = "write" => s.schema \in Schema
    /\ s.kind = "create" /\ s.at = "write" /\ s.dto.schema # None
         => <<s.dto.value, s.dto.schema>> \in Fits
    /\ s.at = "apply" => s.snap \in 1..l

Requests == \A r \in Request : Holds(req[r], Len(tables))

\* A copy is of a table that was.
Snapshots == StoreIsSnapshot /\ \A p \in Pod : since[p] <= Len(tables)

\* A load that will find, or has found, the present table.
Loading(r, p) ==
  /\ req[r] # Idle /\ req[r].pod = p
  /\ req[r].at = "load" \/ (req[r].at = "apply" /\ req[r].snap = Len(tables))

\* A pod that nothing was noted against has the present table or is loading it.
Current ==
  \A p \in Pod : pod[p] # "down" /\ p \notin behind =>
    since[p] = Len(tables) \/ \E r \in Request : Loading(r, p)

\* A pod is starting while it has the one request that boots it.
Boots ==
  \A r \in Request : req[r].kind = "boot" =>
    /\ pod[req[r].pod] = "starting"
    /\ \A q \in Request \ {r} : req[q].kind = "boot" => req[q].pod # req[r].pod

IInv == TypeOK /\ Requests /\ RowsFit /\ Snapshots /\ CreatedMigrated /\ Current

-----------------------------------------------------------------------------
(* IInv is inductive.                                                      *)

LEMMA DoingIsNotIdle == \A s \in Doing : s # Idle /\ s.kind # "idle"
  BY DEF Doing, Idle

LEMMA InitInv == Init => IInv
  <1> SUFFICES ASSUME Init PROVE IInv
    OBVIOUS
  <1>1. tables = <<Seeded>> /\ Len(tables) = 1 /\ table = Seeded /\ Seeded \in Table
    BY SeededAssumption DEF Init, table, Table
  <1>2. TypeOK
    BY <1>1, BoundAssumption DEF Init, TypeOK, NoCopy
  <1>3. Requests
    BY DoingIsNotIdle DEF Init, Requests, Holds
  <1>4. RowsFit /\ CreatedMigrated
    BY <1>1, SeededAssumption DEF Init, RowsFit, CreatedMigrated, Valid
  <1>5. Snapshots /\ Current
    BY <1>1 DEF Init, Snapshots, StoreIsSnapshot, Current
  <1>6. QED
    BY <1>2, <1>3, <1>4, <1>5 DEF IInv

\* A request that is under way.
LEMMA UnderWay ==
  ASSUME IInv, NEW r \in Request, req[r].kind # "idle"
  PROVE  /\ req[r] \in Doing /\ req[r] # Idle /\ Holds(req[r], Len(tables))
         /\ req[r].pod \in Pod
  BY DEF IInv, TypeOK, Requests, Idle, Doing

LEMMA TableType ==
  ASSUME IInv
  PROVE  table \in Table /\ Len(tables) \in Nat /\ tables \in Seq(Table)
  BY DEF IInv, TypeOK, table

\* The table gets a new state, and the ones it had stay.
LEMMA PutTable ==
  ASSUME IInv, NEW i \in Id, NEW row \in Row \cup {None}, NEW told, Put(i, row, told)
  PROVE  /\ tables' \in Seq(Table) /\ Len(tables') = Len(tables) + 1
         /\ Len(tables') \in 1..(MaxWrites + 1)
         /\ table' = [table EXCEPT ![i] = row]
         /\ \A n \in 1..Len(tables) : tables'[n] = tables[n]
  <1> DEFINE new == [table EXCEPT ![i] = row]
  <1>1. new \in Table /\ tables' = Append(tables, new) /\ Len(tables) <= MaxWrites
    BY TableType DEF Put, Table
  <1>2. tables \in Seq(Table) /\ Len(tables) \in 1..(MaxWrites + 1)
    BY DEF IInv, TypeOK
  <1>3. Len(tables') = Len(tables) + 1 /\ tables' \in Seq(Table) /\ tables'[Len(tables) + 1] = new
    BY <1>1, <1>2
  <1>4. \A n \in 1..Len(tables) : tables'[n] = tables[n]
    BY <1>1, <1>2
  <1>5. QED
    BY <1>1, <1>2, <1>3, <1>4, BoundAssumption DEF table

\* A step that changes one request and neither the table nor a copy.
LEMMA RequestMoves ==
  ASSUME IInv, NEW r \in Request, NEW s \in Doing \cup {Idle}, req' = [req EXCEPT ![r] = s],
         UNCHANGED <<tables, bySql, store, since, behind, migrated, halfway, crashes>>,
         pod' \in [Pod -> {"down", "starting", "up"}],
         \A p \in Pod : pod'[p] = "up" => pod[p] = "up",
         \A p \in Pod : pod'[p] # "down" => pod[p] # "down" \/ Loading(r, p)',
         Holds(s, Len(tables)),
         \A p \in Pod : Loading(r, p) => Loading(r, p)',
         req[r].kind = "create" /\ req[r].at \in {"load", "apply"}
           => s.kind = "create" /\ s.at \in {"load", "apply"} /\ s.id = req[r].id
  PROVE  IInv'
  <1>1. TypeOK'
    BY DEF IInv, TypeOK
  <1>2. req'[r] = s /\ \A q \in Request \ {r} : req'[q] = req[q]
    BY DEF IInv, TypeOK
  <1>3. Requests'
    BY <1>2 DEF IInv, Requests, Holds
  <1>4. RowsFit' /\ Snapshots'
    BY DEF IInv, RowsFit, Snapshots, StoreIsSnapshot, table
  <1>5. CreatedMigrated'
    BY <1>2 DEF IInv, CreatedMigrated, table
  <1>6. Current'
    <2> SUFFICES ASSUME NEW p \in Pod, pod'[p] # "down", p \notin behind, since[p] # Len(tables)
                 PROVE  \E q \in Request : Loading(q, p)'
      BY DEF Current
    <2>1. CASE pod[p] # "down"
      <3>1. PICK q \in Request : Loading(q, p)
        BY <2>1 DEF IInv, Current
      <3>2. Loading(q, p)'
        BY <1>2, <3>1 DEF Loading
      <3>3. QED
        BY <3>2
    <2>2. CASE pod[p] = "down"
      BY <2>2
    <2>3. QED
      BY <2>1, <2>2
  <1>7. QED
    BY <1>1, <1>3, <1>4, <1>5, <1>6 DEF IInv

\* A request that is over before its load.
LEMMA RequestEnds ==
  ASSUME IInv, NEW r \in Request, End(r), req[r].at \notin {"load", "apply"},
         UNCHANGED <<tables, bySql, pod, store, since, behind, migrated, halfway, crashes>>
  PROVE  IInv'
  <1>1. Holds(Idle, Len(tables)) /\ \A p \in Pod : ~Loading(r, p)
    BY DoingIsNotIdle DEF Holds, Loading
  <1>2. QED
    BY <1>1, RequestMoves DEF End, IInv, TypeOK

\* A request that goes on to its load or, a creation, to its write.
LEMMA RequestGoes ==
  ASSUME IInv, NEW r \in Request, NEW at, Goto(r, at), req[r].kind # "idle",
         \/ at = "load" /\ req[r].at = "write"
         \/ /\ at = "write" /\ req[r].at = "find" /\ req[r].kind = "create"
            /\ req[r].dto.schema # None => <<req[r].dto.value, req[r].dto.schema>> \in Fits,
         UNCHANGED <<tables, bySql, pod, store, since, behind, migrated, halfway, crashes>>
  PROVE  IInv'
  <1> DEFINE s == [req[r] EXCEPT !.at = at]
  <1>1. req[r] \in Doing /\ req[r] # Idle /\ Holds(req[r], Len(tables)) /\ req[r].pod \in Pod
    BY UnderWay
  <1>2. s \in Doing /\ req' = [req EXCEPT ![r] = s]
    BY <1>1 DEF Doing, Goto, IInv, TypeOK
  <1>3. /\ s.kind = req[r].kind /\ s.pod = req[r].pod /\ s.id = req[r].id /\ s.dto = req[r].dto
        /\ s.schema = req[r].schema /\ s.snap = req[r].snap /\ s.at = at
    BY <1>1 DEF Doing
  <1>4. Holds(s, Len(tables))
    BY <1>1, <1>3 DEF Holds
  <1>5. \A p \in Pod : ~Loading(r, p)
    BY DEF Loading
  <1>6. QED
    BY <1>2, <1>4, <1>5, RequestMoves DEF IInv, TypeOK

LEMMA LoadFindInv ==
  ASSUME IInv, NEW r \in Request, LoadFind(r)
  PROVE  IInv'
  <1> DEFINE s == [req[r] EXCEPT !.at = "apply", !.snap = Len(tables)]
  <1>1. req[r] \in Doing /\ req[r] # Idle /\ Holds(req[r], Len(tables)) /\ req[r].pod \in Pod
    BY UnderWay DEF LoadFind
  <1>2. /\ req' = [req EXCEPT ![r].at = "apply", ![r].snap = Len(tables)] /\ req[r].at = "load"
        /\ UNCHANGED <<tables, bySql, pod, store, since, behind, migrated, halfway, crashes>>
    BY DEF LoadFind
  <1>3. Len(tables) \in 1..(MaxWrites + 1) /\ Len(tables) \in 0..(MaxWrites + 1)
    BY BoundAssumption DEF IInv, TypeOK
  <1>4. s \in Doing /\ req' = [req EXCEPT ![r] = s]
    BY <1>1, <1>2, <1>3 DEF Doing, IInv, TypeOK
  <1>5. /\ s.kind = req[r].kind /\ s.pod = req[r].pod /\ s.id = req[r].id /\ s.dto = req[r].dto
        /\ s.schema = req[r].schema /\ s.snap = Len(tables) /\ s.at = "apply"
    BY <1>1 DEF Doing
  <1>6. Holds(s, Len(tables))
    BY <1>1, <1>3, <1>5 DEF Holds
  <1>7. req'[r] = s /\ s # Idle
    BY <1>4, DoingIsNotIdle DEF IInv, TypeOK
  <1>8. \A p \in Pod : Loading(r, p) => Loading(r, p)'
    BY <1>2, <1>5, <1>7 DEF Loading
  <1>9. QED
    BY <1>2, <1>4, <1>5, <1>6, <1>8, RequestMoves DEF IInv, TypeOK

\* A request comes in, or a pod starts.
LEMMA ReceiveInv ==
  ASSUME IInv, NEW r \in Request, NEW p \in Pod,
         \/ Boot(r, p)
         \/ \E i \in Id, dto \in Dto :
              \/ Receive(r, p, "update", i, dto)
              \/ dto.key # None /\ Receive(r, p, "create", i, dto)
  PROVE  IInv'
  <1>1. req[r] = Idle /\ req[r].kind = "idle" /\ \A q \in Pod : Loading(r, q) => Loading(r, q)'
    BY DEF Boot, Receive, Loading, Idle
  <1>2. CASE Boot(r, p)
    <2> DEFINE s == [kind |-> "boot", pod |-> p, at |-> "load", id |-> None, dto |-> None,
                     schema |-> None, snap |-> 0]
    <2>1. s \in Doing /\ Holds(s, Len(tables))
      BY BoundAssumption DEF Doing, Holds
    <2>2. req'[r] = s /\ s # Idle
      BY <1>2, <2>1, DoingIsNotIdle DEF Boot, IInv, TypeOK
    <2>3. Loading(r, p)'
      BY <2>2 DEF Loading
    <2>4. /\ pod' \in [Pod -> {"down", "starting", "up"}]
          /\ \A q \in Pod : pod'[q] = "up" => pod[q] = "up"
          /\ \A q \in Pod : pod'[q] # "down" => pod[q] # "down" \/ Loading(r, q)'
      BY <1>2, <2>3 DEF Boot, IInv, TypeOK
    <2>5. /\ req' = [req EXCEPT ![r] = s]
          /\ UNCHANGED <<tables, bySql, store, since, behind, migrated, halfway, crashes>>
      BY <1>2 DEF Boot
    <2>6. QED
      BY <1>1, <2>1, <2>4, <2>5, RequestMoves
  <1>3. ASSUME NEW i \in Id, NEW dto \in Dto, NEW kind \in {"update", "create"},
               kind = "create" => dto.key # None, Receive(r, p, kind, i, dto)
        PROVE  IInv'
    <2> DEFINE s == [kind |-> kind, pod |-> p, at |-> "find", id |-> i, dto |-> dto,
                     schema |-> None, snap |-> 0]
    <2>1. s \in Doing
      BY <1>3, BoundAssumption DEF Doing
    <2>2. Holds(s, Len(tables))
      BY <1>3, DtoAssumption DEF Holds
    <2>3. /\ req' = [req EXCEPT ![r] = s]
          /\ UNCHANGED <<tables, bySql, pod, store, since, behind, migrated, halfway, crashes>>
      BY <1>3 DEF Receive
    <2>4. pod' \in [Pod -> {"down", "starting", "up"}]
      BY <2>3 DEF IInv, TypeOK
    <2>5. QED
      BY <1>1, <2>1, <2>2, <2>3, <2>4, RequestMoves
  <1>4. QED
    BY <1>2, <1>3

\* A change of row i: who is told loads, a row that is new is one of a creation, and
\* only SQL leaves a value its schema does not take.
LEMMA PutInv ==
  ASSUME IInv, NEW i \in Id, NEW row \in Row \cup {None}, NEW told, Put(i, row, told),
         UNCHANGED <<pod, store, since, migrated, halfway, crashes>>,
         req' \in [Request -> Doing \cup {Idle}],
         \A r \in Request : Holds(req'[r], Len(tables)),
         \A r \in Request : req[r].kind = "create" /\ req[r].at \in {"load", "apply"} => req'[r] = req[r],
         \A p \in told : \E r \in Request : req'[r] # Idle /\ req'[r].pod = p /\ req'[r].at = "load",
         row # None /\ table[i] = None =>
           \E r \in Request : req'[r].kind = "create" /\ req'[r].id = i /\ req'[r].at = "load",
         bySql' \subseteq Id, \A j \in Id \ {i} : j \in bySql => j \in bySql',
         row # None /\ i \notin bySql' => Valid(row)
  PROVE  IInv'
  <1>1. /\ tables' \in Seq(Table) /\ Len(tables') = Len(tables) + 1
        /\ Len(tables') \in 1..(MaxWrites + 1)
        /\ table' = [table EXCEPT ![i] = row]
        /\ \A n \in 1..Len(tables) : tables'[n] = tables[n]
    BY PutTable
  <1>2. table \in Table /\ Len(tables) \in 1..(MaxWrites + 1)
    BY TableType DEF IInv, TypeOK
  <1>3. TypeOK'
    BY <1>1 DEF IInv, TypeOK, Put
  <1>4. Requests'
    <2>1. ASSUME NEW r \in Request PROVE Holds(req'[r], Len(tables'))
      <3>1. Holds(req'[r], Len(tables))
        OBVIOUS
      <3>2. req'[r] \in Doing => req'[r].snap \in Nat
        BY BoundAssumption DEF Doing
      <3>3. QED
        BY <1>1, <1>2, <3>1, <3>2 DEF Holds
    <2>2. QED
      BY <2>1 DEF Requests
  <1>5. RowsFit'
    <2>1. ASSUME NEW j \in Id, table'[j] # None, j \notin bySql' PROVE Valid(table'[j])
      BY <1>1, <1>2, <2>1 DEF IInv, RowsFit, Table
    <2>2. QED
      BY <2>1 DEF RowsFit, Valid
  <1>6. Snapshots'
    <2>1. \A p \in Pod : since[p] \in Nat /\ since[p] <= Len(tables)
      BY BoundAssumption DEF IInv, TypeOK, Snapshots
    <2>2. \A p \in Pod : since[p] # 0 => tables'[since[p]] = tables[since[p]]
      BY <1>1, <1>2, <2>1
    <2>3. QED
      BY <1>1, <1>2, <2>1, <2>2 DEF IInv, Snapshots, StoreIsSnapshot
  <1>7. CreatedMigrated'
    <2>1. ASSUME NEW j \in Id, table'[j] # None, j \notin migrated \cup halfway
          PROVE  \E r \in Request : req'[r].kind = "create" /\ req'[r].id = j
                                    /\ req'[r].at \in {"load", "apply"}
      <3>1. CASE table[j] = None
        BY <1>1, <1>2, <2>1, <3>1 DEF Table
      <3>2. CASE table[j] # None
        <4>1. PICK r \in Request : /\ req[r].kind = "create" /\ req[r].id = j
                                   /\ req[r].at \in {"load", "apply"}
          BY <2>1, <3>2 DEF IInv, CreatedMigrated
        <4>2. QED
          BY <4>1
      <3>3. QED
        BY <3>1, <3>2
    <2>2. QED
      BY <2>1 DEF CreatedMigrated
  <1>8. Current'
    BY DEF Current, Put, Loading
  <1>9. QED
    BY <1>3, <1>4, <1>5, <1>6, <1>7, <1>8 DEF IInv

\* Changes of the table that no request makes.
LEMMA AloneInv ==
  ASSUME IInv, NEW i \in Id,
         (\E p \in Pod : Remove(p, i)) \/ (\E v \in Value : Sql(i, v))
  PROVE  IInv'
  <1>1. /\ req \in [Request -> Doing \cup {Idle}] /\ bySql \subseteq Id /\ table \in Table
        /\ \A r \in Request : Holds(req[r], Len(tables))
    BY TableType DEF IInv, TypeOK, Requests
  <1>2. CASE \E p \in Pod : Remove(p, i)
    <2>1. Put(i, None, {}) /\ bySql' = bySql \ {i}
          /\ UNCHANGED <<pod, store, since, req, migrated, halfway, crashes>>
      BY <1>2 DEF Remove
    <2>2. \A j \in Id \ {i} : j \in bySql => j \in bySql'
      BY <2>1
    <2>3. req' \in [Request -> Doing \cup {Idle}] /\ bySql' \subseteq Id
      BY <1>1, <2>1
    <2>4. \A r \in Request : Holds(req'[r], Len(tables))
      BY <1>1, <2>1
    <2>5. \A r \in Request : req[r].kind = "create" /\ req[r].at \in {"load", "apply"} => req'[r] = req[r]
      BY <2>1
    <2>6. QED
      BY <2>1, <2>2, <2>3, <2>4, <2>5, PutInv
  <1>3. ASSUME NEW v \in Value, Sql(i, v) PROVE IInv'
    <2> DEFINE row == [table[i] EXCEPT !.value = v]
    <2>1. row \in Row
      BY <1>1, <1>3 DEF Sql, Table, Row
    <2>2. Put(i, row, {}) /\ bySql' = bySql \cup {i}
          /\ UNCHANGED <<pod, store, since, req, migrated, halfway, crashes>> /\ table[i] # None
      BY <1>3 DEF Sql
    <2>3. QED
      BY <1>1, <2>1, <2>2, PutInv
  <1>4. QED
    BY <1>2, <1>3

\* A request that has written goes to its load.
LEMMA PutByRequest ==
  ASSUME IInv, NEW r \in Request, NEW row \in Row, req[r].kind # "idle",
         req[r].at = "write", Put(req[r].id, row, {req[r].pod}), Goto(r, "load"),
         UNCHANGED <<pod, store, since, migrated, halfway, crashes>>,
         table[req[r].id] = None => req[r].kind = "create",
         bySql' \in {bySql, bySql \ {req[r].id}}, Valid(row)
  PROVE  IInv'
  <1> DEFINE s == [req[r] EXCEPT !.at = "load"]
  <1>1. req[r] \in Doing /\ req[r] # Idle /\ Holds(req[r], Len(tables)) /\ req[r].pod \in Pod
    BY UnderWay
  <1>2. s \in Doing /\ req' = [req EXCEPT ![r] = s]
    BY <1>1 DEF Doing, Goto, IInv, TypeOK
  <1>3. /\ s.kind = req[r].kind /\ s.pod = req[r].pod /\ s.id = req[r].id /\ s.dto = req[r].dto
        /\ s.schema = req[r].schema /\ s.snap = req[r].snap /\ s.at = "load"
    BY <1>1 DEF Doing
  <1>4. Holds(s, Len(tables))
    BY <1>1, <1>3 DEF Holds
  <1>5. /\ req' \in [Request -> Doing \cup {Idle}] /\ req'[r] = s /\ s # Idle
        /\ \A q \in Request \ {r} : req'[q] = req[q]
    BY <1>2, DoingIsNotIdle DEF IInv, TypeOK
  <1>6. \A q \in Request : Holds(req'[q], Len(tables))
    BY <1>4, <1>5 DEF IInv, Requests
  <1>7. req[r].id \in Id
    BY <1>1 DEF Holds
  <1>8. \A q \in Request : req[q].kind = "create" /\ req[q].at \in {"load", "apply"} => req'[q] = req[q]
    BY <1>5
  <1>9. \A p \in {req[r].pod} : \E q \in Request : req'[q] # Idle /\ req'[q].pod = p /\ req'[q].at = "load"
    BY <1>3, <1>5
  <1>10. row # None /\ table[req[r].id] = None =>
           \E q \in Request : req'[q].kind = "create" /\ req'[q].id = req[r].id /\ req'[q].at = "load"
    BY <1>3, <1>5
  <1>11. bySql' \subseteq Id /\ \A j \in Id \ {req[r].id} : j \in bySql => j \in bySql'
    BY DEF IInv, TypeOK
  <1>12. QED
    BY <1>5, <1>6, <1>7, <1>8, <1>9, <1>10, <1>11, PutInv

LEMMA UpdateInv ==
  ASSUME IInv, NEW r \in Request, UpdateFind(r) \/ UpdateWrite(r)
  PROVE  IInv'
  <1> DEFINE i == req[r].id  dto == req[r].dto
  <1>1. /\ req[r] \in Doing /\ req[r] # Idle /\ Holds(req[r], Len(tables)) /\ req[r].kind = "update"
        /\ req[r].at \in {"find", "write"}
    BY UnderWay DEF UpdateFind, UpdateWrite, On
  <1>2. i \in Id /\ dto \in Dto /\ table \in Table /\ (table[i] # None => table[i] \in Row)
    BY <1>1, TableType DEF Holds, Table
  <1>3. CASE UpdateFind(r)
    <2>1. CASE table[i] = None
      BY <1>1, <1>3, <2>1, RequestEnds DEF UpdateFind
    <2>2. CASE table[i] # None
      <3> DEFINE s == [req[r] EXCEPT !.at = "write", !.schema = table[i].schema]
      <3>1. table[i].schema \in Schema
        BY <1>2, <2>2 DEF Row
      <3>2. /\ req' = [req EXCEPT ![r].at = "write", ![r].schema = table[i].schema]
            /\ UNCHANGED <<tables, bySql, pod, store, since, behind, migrated, halfway, crashes>>
            /\ req[r].at = "find"
        BY <1>3, <2>2 DEF UpdateFind, On
      <3>3. s \in Doing /\ req' = [req EXCEPT ![r] = s]
        BY <1>1, <3>1, <3>2 DEF Doing, IInv, TypeOK
      <3>4. /\ s.kind = "update" /\ s.id = i /\ s.dto = dto /\ s.schema \in Schema /\ s.at = "write"
        BY <1>1, <3>1 DEF Doing
      <3>5. Holds(s, Len(tables))
        BY <1>2, <3>4 DEF Holds
      <3>6. \A p \in Pod : ~Loading(r, p)
        BY <3>2 DEF Loading
      <3>7. pod' \in [Pod -> {"down", "starting", "up"}]
        BY <3>2 DEF IInv, TypeOK
      <3>8. QED
        BY <1>1, <3>2, <3>3, <3>5, <3>6, <3>7, RequestMoves
    <2>3. QED
      BY <2>1, <2>2
  <1>4. CASE UpdateWrite(r)
    <2> DEFINE checked == IF dto.schema = None THEN req[r].schema ELSE dto.schema
    <2>1. req[r].at = "write" /\ UNCHANGED <<pod, store, since, migrated, halfway, crashes>>
      BY <1>4 DEF UpdateWrite, On
    <2>2. CASE End(r) /\ UNCHANGED <<tables, bySql, behind>>
      BY <2>1, <2>2, RequestEnds
    <2>3. CASE Goto(r, "load") /\ UNCHANGED <<tables, bySql, behind>>
      BY <1>1, <2>1, <2>3, RequestGoes
    <2>4. CASE /\ <<dto.value, checked>> \in Fits /\ table[i] # None
               /\ Put(i, [key |-> IF dto.key = None THEN table[i].key ELSE dto.key, value |-> dto.value,
                          schema |-> UpdatedSchema(r, table[i]), active |-> dto.active], {req[r].pod})
               /\ bySql' = bySql \ {i} /\ Goto(r, "load")
      <3> DEFINE row == [key |-> IF dto.key = None THEN table[i].key ELSE dto.key, value |-> dto.value,
                         schema |-> UpdatedSchema(r, table[i]), active |-> dto.active]
      <3>1. UpdatedSchema(r, table[i]) = checked /\ checked \in Schema
        BY <1>1, <1>2, <2>1, DtoAssumption DEF UpdatedSchema, Holds
      <3>2. row \in Row /\ Valid(row)
        BY <1>2, <2>4, <3>1, DtoAssumption DEF Row, Valid
      <3>3. QED
        BY <1>1, <2>1, <2>4, <3>2, PutByRequest
    <2>5. QED
      BY <1>4, <2>2, <2>3, <2>4 DEF UpdateWrite
  <1>5. QED
    BY <1>3, <1>4

LEMMA CreateInv ==
  ASSUME IInv, NEW r \in Request, CreateFind(r) \/ CreateSave(r)
  PROVE  IInv'
  <1> DEFINE i == req[r].id  dto == req[r].dto
  <1>1. /\ req[r] \in Doing /\ req[r] # Idle /\ Holds(req[r], Len(tables)) /\ req[r].kind = "create"
        /\ req[r].at \in {"find", "write"}
    BY UnderWay DEF CreateFind, CreateSave, On
  <1>2. dto \in Dto /\ dto.key \in Key
    BY <1>1 DEF Holds
  <1>3. CASE CreateFind(r)
    <2>1. req[r].at = "find" /\ UNCHANGED <<tables, bySql, pod, store, since, behind, migrated, halfway, crashes>>
      BY <1>3 DEF CreateFind, On
    <2>2. CASE ~KeyFree(dto.key, None) \/ (dto.schema # None /\ <<dto.value, dto.schema>> \notin Fits)
      BY <1>3, <2>1, <2>2, RequestEnds DEF CreateFind
    <2>3. CASE ~(~KeyFree(dto.key, None) \/ (dto.schema # None /\ <<dto.value, dto.schema>> \notin Fits))
      <3>1. Goto(r, "write")
        BY <1>3, <2>3 DEF CreateFind
      <3>2. QED
        BY <1>1, <2>1, <2>3, <3>1, RequestGoes
    <2>4. QED
      BY <2>2, <2>3
  <1>4. CASE CreateSave(r)
    <2> DEFINE row == [key |-> dto.key, value |-> dto.value, active |-> dto.active,
                       schema |-> ResolveSchema(dto)]
    <2>1. req[r].at = "write" /\ UNCHANGED <<bySql, pod, store, since, migrated, halfway, crashes>>
      BY <1>4 DEF CreateSave, On
    <2>2. CASE End(r) /\ UNCHANGED <<tables, behind>>
      BY <2>1, <2>2, RequestEnds
    <2>3. CASE Put(i, row, {req[r].pod}) /\ Goto(r, "load")
      <3>1. row \in Row /\ Valid(row)
        BY <1>1, <1>2, <2>1, DtoAssumption, FitsAssumption DEF Row, Valid, ResolveSchema, Holds
      <3>2. QED
        BY <1>1, <2>1, <2>3, <3>1, PutByRequest
    <2>4. QED
      BY <1>4, <2>2, <2>3 DEF CreateSave
  <1>5. QED
    BY <1>3, <1>4

LEMMA ActivesType ==
  ASSUME NEW t \in Table
  PROVE  Actives(t) \in [Key -> Value \cup {None}]
  <1>1. ASSUME NEW k \in Key, \E row \in ActiveRows(t) : row.key = k
        PROVE  (CHOOSE row \in ActiveRows(t) : row.key = k).value \in Value
    <2>1. \A row \in ActiveRows(t) : row.value \in Value
      BY DEF ActiveRows, Table, Row
    <2>2. QED
      BY <1>1, <2>1
  <1>2. QED
    BY <1>1 DEF Actives

LEMMA LoadApplyInv ==
  ASSUME IInv, Boots, NEW r \in Request, LoadApply(r)
  PROVE  IInv'
  <1> PICK p \in Pod : p = req[r].pod
    BY UnderWay DEF LoadApply
  <1> PICK n \in 1..Len(tables) : n = req[r].snap
    BY UnderWay DEF LoadApply, Holds
  <1>1. /\ req[r] \in Doing /\ req[r] # Idle /\ Holds(req[r], Len(tables))
        /\ req[r].at = "apply" /\ Copied(p, n) /\ End(r) /\ \E written \in BOOLEAN : CreateMigration(r, written)
        /\ UNCHANGED <<tables, bySql, crashes>> /\ table' = table
    BY UnderWay DEF LoadApply, table
  <1>2. /\ req'[r] = Idle /\ \A q \in Request \ {r} : req'[q] = req[q]
        /\ req' \in [Request -> Doing \cup {Idle}]
    BY <1>1 DEF End, IInv, TypeOK
  <1>3. tables[n] \in Table /\ Len(tables) \in 1..(MaxWrites + 1) /\ n \in 0..(MaxWrites + 1)
    BY BoundAssumption DEF IInv, TypeOK
  <1>4. /\ store' \in [Pod -> [Key -> Value \cup {None}]] /\ since' \in [Pod -> 0..(MaxWrites + 1)]
        /\ behind' \subseteq Pod
    BY <1>1, <1>3, ActivesType DEF Copied, Assign, IInv, TypeOK
  <1>5. pod' \in [Pod -> {"down", "starting", "up"}]
    BY DEF LoadApply, IInv, TypeOK
  <1>6. migrated' \cup halfway' \subseteq Id
    BY <1>1 DEF LoadApply, CreateMigration, Holds, IInv, TypeOK
  <1>7. TypeOK'
    BY <1>1, <1>2, <1>4, <1>5, <1>6 DEF IInv, TypeOK
  <1>8. Requests'
    BY <1>1, <1>2, DoingIsNotIdle DEF IInv, Requests, Holds
  <1>9. RowsFit'
    BY <1>1 DEF IInv, RowsFit
  <1>10. Snapshots'
    <2>1. CASE LoadThrows(tables[n])
      <3>1. store' = store /\ since' = since /\ \A q \in Pod : pod'[q] = "up" => pod[q] = "up"
        BY <1>1, <2>1 DEF Copied, Assign, LoadApply, IInv, TypeOK
      <3>2. QED
        BY <1>1, <3>1 DEF IInv, Snapshots, StoreIsSnapshot
    <2>2. CASE ~LoadThrows(tables[n])
      <3>1. /\ store' = [store EXCEPT ![p] = Actives(tables[n])] /\ since' = [since EXCEPT ![p] = n]
            /\ \A q \in Pod : q # p => pod'[q] = pod[q]
        BY <1>1, <2>2 DEF Copied, Assign, LoadApply, IInv, TypeOK
      <3>2. ASSUME NEW q \in Pod PROVE /\ since'[q] <= Len(tables)
                                       /\ pod'[q] = "up" => /\ since'[q] # 0
                                                            /\ store'[q] = Actives(tables[since'[q]])
                                                            /\ ~LoadThrows(tables[since'[q]])
        <4>1. CASE q = p
          BY <2>2, <3>1, <4>1 DEF IInv, TypeOK
        <4>2. CASE q # p
          BY <3>1, <4>2 DEF IInv, TypeOK, Snapshots, StoreIsSnapshot
        <4>3. QED
          BY <4>1, <4>2
      <3>3. QED
        BY <1>1, <3>2 DEF Snapshots, StoreIsSnapshot
    <2>3. QED
      BY <2>1, <2>2
  <1>11. CreatedMigrated'
    <2>1. migrated \subseteq migrated' /\ halfway \subseteq halfway'
      BY DEF LoadApply, CreateMigration
    <2>2. req[r].kind = "create" => req[r].id \in migrated' \cup halfway'
      BY DEF LoadApply
    <2>3. QED
      BY <1>1, <1>2, <2>1, <2>2 DEF IInv, CreatedMigrated
  <1>12. Current'
    <2> SUFFICES ASSUME NEW q \in Pod, pod'[q] # "down", q \notin behind', since'[q] # Len(tables)
                 PROVE  \E x \in Request : Loading(x, q)'
      BY <1>1 DEF Current
    <2>1. q = p => ~LoadThrows(tables[n]) /\ n # Len(tables) /\ ~(n < since[p]) /\ q \notin behind
      BY <1>1, <1>3 DEF Copied, IInv, TypeOK
    <2>2. q # p => since'[q] = since[q] /\ q \notin behind /\ pod[q] # "down"
      BY <1>1 DEF Copied, LoadApply, IInv, TypeOK
    <2>3. pod[q] # "down"
      BY <2>2 DEF LoadApply, Boots, IInv, TypeOK
    <2>4. \E x \in Request : Loading(x, q) /\ x # r
      <3>1. CASE q = p
        <4>1. since[p] # Len(tables)
          BY <1>3, <2>1, <3>1
        <4>2. ~Loading(r, p)
          BY <1>1, <2>1, <3>1 DEF Loading
        <4>3. QED
          BY <2>1, <2>3, <3>1, <4>1, <4>2 DEF IInv, Current
      <3>2. CASE q # p
        <4>1. ~Loading(r, q)
          BY <3>2 DEF Loading
        <4>2. QED
          BY <2>2, <3>2, <4>1 DEF IInv, Current
      <3>3. QED
        BY <3>1, <3>2
    <2>5. QED
      BY <1>1, <1>2, <2>4 DEF Loading
  <1>13. QED
    BY <1>7, <1>8, <1>9, <1>10, <1>11, <1>12 DEF IInv

\* A pod dies, and all its requests with it.
LEMMA CrashInv ==
  ASSUME IInv, NEW p \in Pod, Crash(p)
  PROVE  IInv'
  <1> DEFINE mine == {r \in Request : req[r] # Idle /\ req[r].pod = p}
  <1>1. /\ UNCHANGED <<tables, bySql, behind, migrated>> /\ table' = table
        /\ pod' = [pod EXCEPT ![p] = "down"]
        /\ store' = [store EXCEPT ![p] = NoCopy] /\ since' = [since EXCEPT ![p] = 0]
        /\ req' = [r \in Request |-> IF r \in mine THEN Idle ELSE req[r]]
        /\ crashes < MaxCrash /\ crashes' = crashes + 1
        /\ halfway' = halfway \cup {req[r].id : r \in {r \in mine :
                                     req[r].kind = "create" /\ req[r].at \in {"load", "apply"}}}
    BY DEF Crash, table
  <1>2. halfway' \subseteq Id
    <2>1. \A r \in mine : req[r].kind = "create" => req[r].id \in Id
      BY UnderWay DEF Holds
    <2>2. QED
      BY <1>1, <2>1 DEF IInv, TypeOK
  <1>3. TypeOK'
    <2>1. NoCopy \in [Key -> Value \cup {None}]
      BY DEF NoCopy
    <2>2. /\ store' \in [Pod -> [Key -> Value \cup {None}]] /\ since' \in [Pod -> 0..(MaxWrites + 1)]
          /\ pod' \in [Pod -> {"down", "starting", "up"}] /\ crashes' \in 0..MaxCrash
      BY <1>1, <2>1, BoundAssumption DEF IInv, TypeOK
    <2>3. req' \in [Request -> Doing \cup {Idle}]
      BY <1>1 DEF IInv, TypeOK
    <2>4. QED
      BY <1>1, <1>2, <2>2, <2>3 DEF IInv, TypeOK
  <1>4. Requests'
    BY <1>1, DoingIsNotIdle DEF IInv, Requests, Holds
  <1>5. RowsFit'
    BY <1>1 DEF IInv, RowsFit
  <1>6. Snapshots'
    BY <1>1 DEF IInv, TypeOK, Snapshots, StoreIsSnapshot
  <1>7. CreatedMigrated'
    <2>1. ASSUME NEW i \in Id, table[i] # None, i \notin migrated' \cup halfway'
          PROVE  \E r \in Request : req'[r].kind = "create" /\ req'[r].id = i
                                    /\ req'[r].at \in {"load", "apply"}
      <3>1. PICK r \in Request : req[r].kind = "create" /\ req[r].id = i /\ req[r].at \in {"load", "apply"}
        BY <1>1, <2>1 DEF IInv, CreatedMigrated
      <3>2. r \notin mine
        BY <1>1, <2>1, <3>1
      <3>3. QED
        BY <1>1, <3>1, <3>2
    <2>2. QED
      BY <1>1, <2>1 DEF CreatedMigrated
  <1>8. Current'
    <2>1. ASSUME NEW q \in Pod, pod'[q] # "down", q \notin behind', since'[q] # Len(tables)
          PROVE  \E x \in Request : Loading(x, q)'
      <3>1. q # p /\ pod[q] # "down" /\ q \notin behind /\ since[q] # Len(tables)
        BY <1>1, <2>1 DEF IInv, TypeOK
      <3>2. PICK x \in Request : Loading(x, q)
        BY <3>1 DEF IInv, Current
      <3>3. QED
        BY <1>1, <3>1, <3>2 DEF Loading
    <2>2. QED
      BY <1>1, <2>1 DEF Current
  <1>9. QED
    BY <1>3, <1>4, <1>5, <1>6, <1>7, <1>8 DEF IInv

LEMMA BootsInv ==
  ASSUME IInv, Boots, [Next]_vars
  PROVE  Boots'
  <1>1. CASE /\ pod' = pod
             /\ \A q \in Request : req'[q].kind = "boot" => req[q].kind = "boot" /\ req'[q].pod = req[q].pod
    BY <1>1 DEF Boots
  <1>2. ASSUME NEW r \in Request, End(r) PROVE req' = [req EXCEPT ![r] = Idle] /\ Idle.kind = "idle"
    BY <1>2 DEF End, Idle
  <1>3. ASSUME NEW r \in Request, NEW at, Goto(r, at), req[r].kind # "idle"
        PROVE  \A q \in Request : req'[q].kind = req[q].kind /\ req'[q].pod = req[q].pod
    BY <1>3, UnderWay DEF Goto, Doing, IInv, TypeOK
  <1>4. ASSUME NEW r \in Request, LoadFind(r) \/ UpdateFind(r) \/ UpdateWrite(r) \/ CreateFind(r) \/ CreateSave(r)
        PROVE  Boots'
    <2>1. req[r].kind # "idle" /\ req[r] \in Doing /\ pod' = pod
      BY <1>4, UnderWay DEF LoadFind, UpdateFind, UpdateWrite, CreateFind, CreateSave, On
    <2>2. ASSUME LoadFind(r) PROVE Boots'
      BY <2>1, <2>2, <1>1 DEF LoadFind, Doing, IInv, TypeOK
    <2>3. ASSUME UpdateFind(r) PROVE Boots'
      <3>1. CASE End(r)
        BY <2>1, <3>1, <1>1, <1>2 DEF IInv, TypeOK
      <3>2. CASE ~End(r)
        <4>1. req' = [req EXCEPT ![r].at = "write", ![r].schema = table[req[r].id].schema]
          BY <2>3, <3>2 DEF UpdateFind
        <4>2. \A q \in Request : req'[q].kind = req[q].kind /\ req'[q].pod = req[q].pod
          BY <2>1, <4>1 DEF Doing, IInv, TypeOK
        <4>3. QED
          BY <2>1, <4>2, <1>1
      <3>3. QED
        BY <3>1, <3>2
    <2>4. (UpdateWrite(r) \/ CreateFind(r) \/ CreateSave(r)) => End(r) \/ Goto(r, "load") \/ Goto(r, "write")
      BY DEF UpdateWrite, CreateFind, CreateSave
    <2>5. End(r) => Boots'
      BY <2>1, <1>1, <1>2 DEF IInv, TypeOK
    <2>6. QED
      BY <1>1, <1>3, <1>4, <2>1, <2>2, <2>3, <2>4, <2>5
  <1>5. ASSUME NEW r \in Request, LoadApply(r) PROVE Boots'
    <2>1. /\ req'[r].kind = "idle" /\ \A q \in Request \ {r} : req'[q] = req[q]
      BY <1>2, <1>5 DEF LoadApply, IInv, TypeOK
    <2>2. req[r].pod \in Pod
      BY <1>5, UnderWay DEF LoadApply
    <2>3. \A x \in Pod : pod'[x] = pod[x] \/ (req[r].kind = "boot" /\ x = req[r].pod)
      BY <1>5, <2>2 DEF LoadApply, IInv, TypeOK
    <2>4. \A q \in Request : req[q].kind = "boot" => req[q].pod \in Pod
      BY UnderWay
    <2>5. QED
      BY <2>1, <2>2, <2>3, <2>4 DEF Boots
  <1>6. ASSUME NEW r \in Request, NEW p \in Pod, Boot(r, p) PROVE Boots'
    <2>1. /\ req'[r].kind = "boot" /\ req'[r].pod = p /\ pod[p] = "down" /\ pod'[p] = "starting"
          /\ \A q \in Request \ {r} : req'[q] = req[q]
          /\ \A x \in Pod \ {p} : pod'[x] = pod[x]
      BY <1>6 DEF Boot, IInv, TypeOK
    <2>2. \A q \in Request : req[q].kind = "boot" => req[q].pod \in Pod
      BY UnderWay
    <2>3. QED
      BY <2>1, <2>2 DEF Boots
  <1>7. ASSUME NEW r \in Request, NEW p \in Pod, NEW kind \in {"update", "create"}, NEW i, NEW dto,
               Receive(r, p, kind, i, dto)
        PROVE  Boots'
    BY <1>1, <1>7 DEF Receive, IInv, TypeOK
  <1>8. ASSUME NEW p \in Pod, Crash(p) PROVE Boots'
    <2>1. \A q \in Request : req'[q].kind = "boot" => req'[q] = req[q] /\ req[q].pod # p
      BY <1>8 DEF Crash, Idle
    <2>2. \A q \in Request : req[q].kind = "boot" => req[q].pod \in Pod
      BY UnderWay
    <2>3. \A x \in Pod \ {p} : pod'[x] = pod[x]
      BY <1>8 DEF Crash, IInv, TypeOK
    <2>4. QED
      BY <2>1, <2>2, <2>3 DEF Boots
  <1>9. CASE UNCHANGED <<req, pod>>
    BY <1>9 DEF Boots
  <1>10. QED
    BY <1>4, <1>5, <1>6, <1>7, <1>8, <1>9 DEF Next, Step, Remove, Sql, vars

LEMMA NextInv == IInv /\ Boots /\ [Next]_vars => IInv' /\ Boots'
  <1> SUFFICES ASSUME IInv, Boots, [Next]_vars PROVE IInv'
    BY BootsInv
  <1>1. CASE Next
    BY <1>1, LoadFindInv, LoadApplyInv, UpdateInv, CreateInv, ReceiveInv, AloneInv, CrashInv DEF Next, Step
  <1>2. CASE UNCHANGED vars
    <2>1. TypeOK' /\ Requests' /\ Current'
      BY <1>2 DEF vars, IInv, TypeOK, Requests, Current, Loading
    <2>2. RowsFit' /\ Snapshots' /\ CreatedMigrated'
      BY <1>2 DEF vars, IInv, RowsFit, Snapshots, StoreIsSnapshot, CreatedMigrated, table
    <2>3. QED
      BY <2>1, <2>2 DEF IInv
  <1>3. QED
    BY <1>1, <1>2

LEMMA Invariant == Spec => [](IInv /\ Boots)
  <1>1. Init => Boots
    BY DEF Init, Boots, Idle
  <1>2. QED
    BY InitInv, NextInv, <1>1, PTL DEF Spec

-----------------------------------------------------------------------------
(* The theorems.                                                           *)

\* Every variable keeps to its type.
THEOREM TypeCorrect == Spec => []TypeOK
  <1>1. IInv => TypeOK
    BY DEF IInv
  <1>2. QED
    BY Invariant, <1>1, PTL

\* Whatever updates and creations cross, only SQL leaves a row that does not fit.
THEOREM RowsAlwaysFit == Spec => []RowsFit
  <1>1. IInv => RowsFit
    BY DEF IInv
  <1>2. QED
    BY Invariant, <1>1, PTL

\* What a pod serves is one state of the table, checked.
THEOREM StoreAlwaysSnapshot == Spec => []StoreIsSnapshot
  <1>1. IInv => StoreIsSnapshot
    BY DEF IInv, Snapshots
  <1>2. QED
    BY Invariant, <1>1, PTL

\* A pod that is not current knows no better: another hand changed the table, an
\* invalid row is in the way, or its loads crossed.
THEOREM StoreAlwaysCurrent == Spec => []StoreCurrent
  <1>1. IInv => StoreCurrent
    <2> SUFFICES ASSUME IInv, NEW p \in Pod, pod[p] = "up", p \notin behind, ~Loads(p)
                 PROVE  store[p] = Actives(table)
      BY DEF StoreCurrent
    <2>1. \A r \in Request : ~Loading(r, p)
      BY UnderWay DEF Loading, Loads, IInv, TypeOK, Doing
    <2>2. since[p] = Len(tables)
      BY <2>1 DEF IInv, Current
    <2>3. QED
      BY <2>2 DEF IInv, Snapshots, StoreIsSnapshot, table
  <1>2. QED
    BY Invariant, <1>1, PTL

\* No two creations lose a migration.
THEOREM CreatedAlwaysMigrated == Spec => []CreatedMigrated
  <1>1. IInv => CreatedMigrated
    BY DEF IInv
  <1>2. QED
    BY Invariant, <1>1, PTL
=============================================================================
