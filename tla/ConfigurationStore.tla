-------------------------- MODULE ConfigurationStore --------------------------
(***************************************************************************)
(* The table `configurations` and the copy of its active rows that every   *)
(* pod keeps.  A pod loads the copy when it starts and when it has served  *)
(* an update or a creation; it is not told of what the other pods, or an   *)
(* operator's SQL, do to the table.  A load is all or nothing: one active  *)
(* row that does not fit its schema keeps every other change out too, and  *)
(* keeps a pod from starting.  A load is a query and, later, an assignment *)
(* of what the query found, and two loads of a pod can cross.              *)
(***************************************************************************)
EXTENDS Naturals, Sequences

CONSTANTS
  Id, Key, Value, Schema,
  Fits,       \* the values that a schema takes: a set of <<value, schema>>
  SchemaOf,   \* createSchema: the schema made from a value
  Dto,        \* the bodies of requests: a key, a schema or neither, a value, active
  Seeded,     \* the table as the migrations leave it
  Pod, Request,
  None,
  MaxWrites,  \* bound: changes of the table
  MaxCrash    \* bound: how often pods die

Row == [key : Key, value : Value, schema : Schema, active : BOOLEAN]

ASSUME FitsAssumption == SchemaOf \in [Value -> Schema] /\ \A v \in Value : <<v, SchemaOf[v]>> \in Fits
ASSUME DtoAssumption ==
  Dto \subseteq [key : Key \cup {None}, value : Value, schema : Schema \cup {None}, active : BOOLEAN]
ASSUME SeededAssumption ==
  /\ Seeded \in [Id -> Row \cup {None}]
  /\ \A i \in Id : Seeded[i] # None => <<Seeded[i].value, Seeded[i].schema>> \in Fits
ASSUME NoneAssumption == None \notin Row \cup Schema \cup Key \cup Value
ASSUME BoundAssumption == MaxWrites \in Nat /\ MaxCrash \in Nat

VARIABLES
  tables,   \* every state the table has had, the present one last
  bySql,    \* ids whose row was last written by SQL
  pod,      \* down, starting (onModuleInit has not returned) or up
  store,    \* the active values by key, None when there is no copy
  since,    \* which table the store is a copy of
  req,      \* what each request does
  behind,   \* pods whose table was changed by another hand, or whose loads crossed
  migrated, \* ids with a migration file
  halfway,  \* ids whose creation was left after the row was saved
  crashes

vars == <<tables, bySql, pod, store, since, req, behind, migrated, halfway, crashes>>

Table == [Id -> Row \cup {None}]
table == tables[Len(tables)]
Idle == [kind |-> "idle"]
Doing == [kind : {"boot", "update", "create"}, pod : Pod, at : {"find", "write", "load", "apply"},
          id : Id \cup {None}, dto : Dto \cup {None}, schema : Schema \cup {None}, snap : 0..(MaxWrites + 1)]

TypeOK ==
  /\ tables \in Seq(Table) /\ Len(tables) \in 1..(MaxWrites + 1)
  /\ bySql \cup migrated \cup halfway \subseteq Id
  /\ pod \in [Pod -> {"down", "starting", "up"}]
  /\ store \in [Pod -> [Key -> Value \cup {None}]]
  /\ since \in [Pod -> 0..(MaxWrites + 1)]
  /\ req \in [Request -> Doing \cup {Idle}]
  /\ behind \subseteq Pod
  /\ crashes \in 0..MaxCrash

NoCopy == [k \in Key |-> None]

Init ==
  /\ tables = <<Seeded>> /\ bySql = {} /\ halfway = {}
  /\ migrated = {i \in Id : Seeded[i] # None}
  /\ pod = [p \in Pod |-> "down"] /\ store = [p \in Pod |-> NoCopy] /\ since = [p \in Pod |-> 0]
  /\ req = [r \in Request |-> Idle] /\ behind = {} /\ crashes = 0

-----------------------------------------------------------------------------
(* The table.                                                              *)

Valid(row) == <<row.value, row.schema>> \in Fits
ActiveRows(t) == {t[i] : i \in {i \in Id : t[i] # None /\ t[i].active}}
Actives(t) ==
  [k \in Key |-> IF \E row \in ActiveRows(t) : row.key = k
                   THEN (CHOOSE row \in ActiveRows(t) : row.key = k).value ELSE None]
LoadThrows(t) == \E row \in ActiveRows(t) : ~Valid(row)
KeyFree(k, i) == k \notin {table[j].key : j \in {j \in Id \ {i} : table[j] # None}}

\* Row i becomes `row`; the pods in `told` will load it.
Put(i, row, told) ==
  /\ Len(tables) <= MaxWrites
  /\ tables' = Append(tables, [table EXCEPT ![i] = row])
  /\ behind' = behind \cup (Pod \ told)

-----------------------------------------------------------------------------
(* A load: the query and, when every active row is valid, the assignment.  *)

On(r, kind, at) == req[r].kind = kind /\ req[r].at = at
End(r) == req' = [req EXCEPT ![r] = Idle]
Goto(r, at) == req' = [req EXCEPT ![r].at = at]

\* Mutant: a pod that has a copy does not load again.
LoadFindOnce(r) ==
  /\ req[r].kind # "idle" /\ req[r].at = "load"
  /\ req' = IF since[req[r].pod] # 0 THEN [req EXCEPT ![r] = Idle]
            ELSE [req EXCEPT ![r].at = "apply", ![r].snap = Len(tables)]
  /\ UNCHANGED <<tables, bySql, pod, store, since, behind, migrated, halfway, crashes>>

LoadFind(r) ==
  /\ req[r].kind # "idle" /\ req[r].at = "load"
  /\ req' = [req EXCEPT ![r].at = "apply", ![r].snap = Len(tables)]
  /\ UNCHANGED <<tables, bySql, pod, store, since, behind, migrated, halfway, crashes>>

\* The store is a copy of table n if that is valid, or else what it was.
Assign(p, n) == store' = IF LoadThrows(tables[n]) THEN store ELSE [store EXCEPT ![p] = Actives(tables[n])]

\* The pod has a copy of a table again; it is behind when that is not the present one.
Copied(p, n) ==
  /\ Assign(p, n)
  /\ IF LoadThrows(tables[n])
       THEN behind' = behind \cup {p} /\ UNCHANGED since
       ELSE /\ since' = [since EXCEPT ![p] = n]
            /\ behind' = IF n = Len(tables) THEN behind \ {p}
                         ELSE IF n < since[p] THEN behind \cup {p} ELSE behind

\* generateTypes throws when the store it has just loaded is empty.
GenerateTypes(n) == ~LoadThrows(tables[n]) /\ Actives(tables[n]) # NoCopy

\* createMigration, of a row whose types were generated, if both could be written.
CreateMigration(r, written) ==
  migrated' = IF req[r].kind = "create" /\ GenerateTypes(req[r].snap) /\ written
                THEN migrated \cup {req[r].id} ELSE migrated

\* The end of a load: a pod that was starting is up or exits, an update is answered
\* either way, a creation fails or writes the types and the migration.
LoadApply(r) ==
  LET p == req[r].pod  n == req[r].snap  ok == ~LoadThrows(tables[n])
  IN  /\ req[r].kind # "idle" /\ req[r].at = "apply"
      /\ Copied(p, n)
      /\ pod' = IF req[r].kind # "boot" THEN pod ELSE [pod EXCEPT ![p] = IF ok THEN "up" ELSE "down"]
      /\ \E written \in BOOLEAN : CreateMigration(r, written)
      /\ halfway' = IF req[r].kind = "create" /\ req[r].id \notin migrated'
                      THEN halfway \cup {req[r].id} ELSE halfway
      /\ End(r)
      /\ UNCHANGED <<tables, bySql, crashes>>

-----------------------------------------------------------------------------
(* Requests.                                                               *)

Boot(r, p) ==
  /\ req[r] = Idle /\ pod[p] = "down"
  /\ pod' = [pod EXCEPT ![p] = "starting"]
  /\ req' = [req EXCEPT ![r] = [kind |-> "boot", pod |-> p, at |-> "load", id |-> None, dto |-> None,
                                schema |-> None, snap |-> 0]]
  /\ UNCHANGED <<tables, bySql, store, since, behind, migrated, halfway, crashes>>

Receive(r, p, kind, i, dto) ==
  /\ req[r] = Idle /\ pod[p] = "up"
  /\ req' = [req EXCEPT ![r] = [kind |-> kind, pod |-> p, at |-> "find", id |-> i, dto |-> dto,
                                schema |-> None, snap |-> 0]]
  /\ UNCHANGED <<tables, bySql, pod, store, since, behind, migrated, halfway, crashes>>

\* update: the row is looked up for its schema; an unknown id is refused.
UpdateFind(r) ==
  LET row == table[req[r].id]
  IN  /\ On(r, "update", "find")
      /\ IF row = None THEN End(r)
                       ELSE req' = [req EXCEPT ![r].at = "write", ![r].schema = row.schema]
      /\ UNCHANGED <<tables, bySql, pod, store, since, behind, migrated, halfway, crashes>>

\* Mutant: a schema is written only when the request has one.
UpdatedSchemaKept(r, row) == IF req[r].dto.schema = None THEN row.schema ELSE req[r].dto.schema

\* The schema an update writes: the request's, or the one its row had at the find.
UpdatedSchema(r, row) == IF req[r].dto.schema = None THEN req[r].schema ELSE req[r].dto.schema

\* The value is validated and written with its schema; the key only if it is given.
\* A row removed meanwhile is not written, a taken key is refused by its index.
UpdateWrite(r) ==
  LET i == req[r].id  dto == req[r].dto  row == table[i]
      checked == IF dto.schema = None THEN req[r].schema ELSE dto.schema
  IN  /\ On(r, "update", "write")
      /\ \/ /\ <<dto.value, checked>> \notin Fits \/ ~KeyFree(dto.key, i)
            /\ End(r) /\ UNCHANGED <<tables, bySql, behind>>
         \/ /\ <<dto.value, checked>> \in Fits /\ row = None
            /\ Goto(r, "load") /\ UNCHANGED <<tables, bySql, behind>>
         \/ /\ <<dto.value, checked>> \in Fits /\ row # None /\ KeyFree(dto.key, i)
            /\ Put(i, [key |-> IF dto.key = None THEN row.key ELSE dto.key, value |-> dto.value,
                       schema |-> UpdatedSchema(r, row), active |-> dto.active], {req[r].pod})
            /\ bySql' = bySql \ {i} /\ Goto(r, "load")
      /\ UNCHANGED <<pod, store, since, migrated, halfway, crashes>>

\* create: a known key is refused, and so is a value that does not fit.
CreateFind(r) ==
  LET dto == req[r].dto
  IN  /\ On(r, "create", "find")
      /\ IF ~KeyFree(dto.key, None) \/ (dto.schema # None /\ <<dto.value, dto.schema>> \notin Fits)
           THEN End(r) ELSE Goto(r, "write")
      /\ UNCHANGED <<tables, bySql, pod, store, since, behind, migrated, halfway, crashes>>

\* Mutant: the row is saved and the rest left out.
CreateSaveOnly(r) ==
  LET i == req[r].id  dto == req[r].dto
  IN  /\ On(r, "create", "write") /\ KeyFree(dto.key, None) /\ table[i] = None
      /\ Put(i, [key |-> dto.key, value |-> dto.value, active |-> dto.active,
                 schema |-> SchemaOf[dto.value]], {})
      /\ End(r)
      /\ UNCHANGED <<bySql, pod, store, since, migrated, halfway, crashes>>

\* resolveSchema: rules that are given, or the ones genson reads off the value.
ResolveSchema(dto) == IF dto.schema = None THEN SchemaOf[dto.value] ELSE dto.schema

\* save: the index on the key refuses what another creation has saved meanwhile.
CreateSave(r) ==
  LET i == req[r].id  dto == req[r].dto
  IN  /\ On(r, "create", "write")
      /\ IF KeyFree(dto.key, None) /\ table[i] = None
           THEN /\ Put(i, [key |-> dto.key, value |-> dto.value, active |-> dto.active,
                           schema |-> ResolveSchema(dto)],
                       {req[r].pod})
                /\ Goto(r, "load")
           ELSE End(r) /\ UNCHANGED <<tables, behind>>
      /\ UNCHANGED <<bySql, pod, store, since, migrated, halfway, crashes>>

\* remove: nothing is loaded, not even here.
Remove(p, i) ==
  /\ pod[p] = "up" /\ table[i] # None
  /\ Put(i, None, {}) /\ bySql' = bySql \ {i}
  /\ UNCHANGED <<pod, store, since, req, migrated, halfway, crashes>>

\* README.md: an operator updates the table by SQL.
Sql(i, v) ==
  /\ table[i] # None /\ table[i].value # v
  /\ Put(i, [table[i] EXCEPT !.value = v], {}) /\ bySql' = bySql \cup {i}
  /\ UNCHANGED <<pod, store, since, req, migrated, halfway, crashes>>

Crash(p) ==
  LET mine == {r \in Request : req[r] # Idle /\ req[r].pod = p}
  IN  /\ pod[p] # "down" /\ crashes < MaxCrash
      /\ crashes' = crashes + 1
      /\ pod' = [pod EXCEPT ![p] = "down"]
      /\ store' = [store EXCEPT ![p] = NoCopy] /\ since' = [since EXCEPT ![p] = 0]
      /\ halfway' = halfway \cup {req[r].id : r \in {r \in mine :
                                     req[r].kind = "create" /\ req[r].at \in {"load", "apply"}}}
      /\ req' = [r \in Request |-> IF r \in mine THEN Idle ELSE req[r]]
      /\ UNCHANGED <<tables, bySql, behind, migrated>>

Step(r) ==
  LoadFind(r) \/ LoadApply(r) \/ UpdateFind(r) \/ UpdateWrite(r) \/ CreateFind(r) \/ CreateSave(r)

Next ==
  \/ \E r \in Request : Step(r)
  \/ \E r \in Request, p \in Pod : Boot(r, p)
  \/ \E r \in Request, p \in Pod, i \in Id, dto \in Dto :
       \/ Receive(r, p, "update", i, dto)
       \/ dto.key # None /\ i \notin migrated \cup halfway /\ Receive(r, p, "create", i, dto)
  \/ \E p \in Pod, i \in Id : Remove(p, i)
  \/ \E i \in Id, v \in Value : Sql(i, v)
  \/ \E p \in Pod : Crash(p)

Spec == Init /\ [][Next]_vars

-----------------------------------------------------------------------------
(* Properties.                                                             *)

\* Of two updates of a row that cross, neither leaves a value beside the other's
\* schema: a row that does not fit was written by SQL.
RowsFit == \A i \in Id : table[i] # None /\ i \notin bySql => Valid(table[i])

\* What a pod serves is one state of the table, with every row of it checked, and
\* never a mixture of two.
StoreIsSnapshot ==
  \A p \in Pod : pod[p] = "up" =>
    since[p] # 0 /\ store[p] = Actives(tables[since[p]]) /\ ~LoadThrows(tables[since[p]])

Loads(p) == \E r \in Request : req[r].kind # "idle" /\ req[r].pod = p /\ req[r].at \in {"load", "apply"}

\* A pod serves the present configuration, or is about to load it, unless someone
\* else changed the table, an invalid row is in the way or two of its loads crossed.
StoreCurrent ==
  \A p \in Pod : pod[p] = "up" => store[p] = Actives(table) \/ p \in behind \/ Loads(p)

\* A row that was created has its migration, or its creation is under way or was
\* seen to fail after the save: no two creations lose one.
CreatedMigrated ==
  \A i \in Id : table[i] # None =>
    \/ i \in migrated \cup halfway
    \/ \E r \in Request : req[r].kind = "create" /\ req[r].id = i /\ req[r].at \in {"load", "apply"}
=============================================================================
