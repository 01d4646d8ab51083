---------------------------- MODULE BackupRestore ----------------------------
(***************************************************************************)
(* Backup and restore of the two databases as one file, while requests are *)
(* served and another restore may be running.                              *)
(*                                                                         *)
(* export_backup_bundle reads one table after the other; each SELECT sees  *)
(* what is committed when it runs.  restore_backup_bundle replaces the     *)
(* Billing DB in one transaction, sets its sequences in another, and then  *)
(* does the same to the Operations DB.                                     *)
(*                                                                         *)
(* Of the seventeen tables the model keeps two for each database, a parent *)
(* and its child: projects and project_cluster_link, clusters and          *)
(* virtual_machines.  A child refers to its parent by a foreign key, and   *)
(* to a parent of the other database by a plain integer (cluster_id of a   *)
(* link, project_id of a VM), which no constraint guards.                  *)
(***************************************************************************)
EXTENDS Integers, FiniteSets, FiniteSetsExt

CONSTANTS
  Handlers,       \* API worker threads
  MaxId,          \* bound: ids a sequence gives out
  MaxBorn,        \* bound: rows of the parent tables ever created
  Archive,        \* a file of an earlier deployment
  MaxExports, MaxRestores, MaxRequests, MaxCrashes   \* bounds

Billing    == "billing"
Operations == "operations"
Databases  == {Billing, Operations}
Other(d)   == IF d = Billing THEN Operations ELSE Billing

NoRow  == 0
Nobody == "nobody"
Ids    == 1 .. MaxId
Rows   == [Ids -> 0 .. MaxBorn]     \* which entity has the id; NoRow if none has
Child  == {c \in [of : Ids, to : Ids \cup {NoRow}, meant : 0 .. MaxBorn] : c.to = NoRow <=> c.meant = NoRow}
File   == [parents : [Databases -> Rows], children : [Databases -> SUBSET Child],
           meanwhile : SUBSET (Databases \X Ids)]

(* Foreign keys of a file that lead to no row of it.                         *)
Dangling(f, d) == {c \in f.children[d] : f.parents[d][c.of] = NoRow}

ASSUME BoundsAssumption ==
  /\ MaxId \in Nat \ {0} /\ MaxBorn \in Nat /\ MaxBorn >= 4
  /\ MaxExports \in Nat /\ MaxRestores \in Nat /\ MaxRequests \in Nat /\ MaxCrashes \in Nat
  /\ Nobody \notin Handlers

(* The file is one that an export has made.                                  *)
ASSUME ArchiveAssumption ==
  /\ Archive \in File
  /\ \A d \in Databases : \A c \in Dangling(Archive, d) : <<d, c.of>> \in Archive.meanwhile

VARIABLES
  parents, children, seq,               \* the two databases
  files,                                \* the files administrators have kept
  pc, db, drawn, draft, using, doomed, doomedChildren,   \* local to a handler
  holder,                               \* who has the rows of a database locked
  born, exports, restores, requests, crashes,            \* what the bounds count
  raced, broken                         \* history, read by no action

rows   == <<parents, children, seq>>
local  == <<db, drawn, draft, using, doomed, doomedChildren>>
counts == <<born, exports, restores, requests, crashes>>
vars   == <<rows, files, pc, local, holder, counts, raced, broken>>

Empty == [parents |-> [d \in Databases |-> [n \in Ids |-> NoRow]],
          children |-> [d \in Databases |-> {}], meanwhile |-> {}]

TypeOK ==
  /\ parents \in [Databases -> Rows] /\ children \in [Databases -> SUBSET Child]
  /\ seq \in [Databases -> 0 .. MaxId]
  /\ files \subseteq File
  /\ pc \in [Handlers -> {"idle", "parents", "children", "clear", "replace", "insert",
                          "sequences", "create"}]
  /\ db \in [Handlers -> Databases] /\ drawn \in [Handlers -> Ids \cup {NoRow}]
  /\ draft \in [Handlers -> File] /\ using \in [Handlers -> File]
  /\ doomed \in [Handlers -> SUBSET Ids] /\ doomedChildren \in [Handlers -> SUBSET Child]
  /\ holder \in [Databases -> Handlers \cup {Nobody}]
  /\ born \in 0 .. MaxBorn /\ exports \in 0 .. MaxExports /\ restores \in 0 .. MaxRestores
  /\ requests \in 0 .. MaxRequests /\ crashes \in 0 .. MaxCrashes
  /\ raced \subseteq Handlers /\ broken \in BOOLEAN

Present(rs) == {n \in Ids : rs[n] # NoRow}

(* A deployment whose tables have one parent each and any children. *)
Init ==
  /\ parents = [d \in Databases |-> [n \in Ids |-> IF n > 1 THEN NoRow ELSE IF d = Billing THEN 1 ELSE 2]]
  /\ children \in [Databases -> {{}, {[of |-> 1, to |-> NoRow, meant |-> 0]}}]
  /\ children[Billing] = {}
  /\ seq = [d \in Databases |-> 1]
  /\ files = {Archive}
  /\ pc = [h \in Handlers |-> "idle"] /\ db = [h \in Handlers |-> Billing]
  /\ drawn = [h \in Handlers |-> NoRow]
  /\ draft = [h \in Handlers |-> Empty] /\ using = [h \in Handlers |-> Empty]
  /\ doomed = [h \in Handlers |-> {}] /\ doomedChildren = [h \in Handlers |-> {}]
  /\ holder = [d \in Databases |-> Nobody]
  /\ born = 4 /\ exports = 0 /\ restores = 0 /\ requests = 0 /\ crashes = 0
  /\ raced = {} /\ broken = FALSE

Restoring == {h \in Handlers : pc[h] \in {"clear", "replace", "insert", "sequences"}}
Exporting == {h \in Handlers : pc[h] \in {"parents", "children"}}

Goto(h, loc) == pc' = [pc EXCEPT ![h] = loc]

(* For the history: h has committed, having created these rows of d. *)
Committed(h, d, created) ==
  /\ raced' = raced \cup (Restoring \ {h})
  /\ draft' = [e \in Handlers |->
                 IF e \in Exporting THEN [draft[e] EXCEPT !.meanwhile = @ \cup ({d} \X created)]
                 ELSE draft[e]]

-----------------------------------------------------------------------------
(* Requests and the collector                                               *)

Request(h) ==
  /\ pc[h] = "idle"
  /\ requests < MaxRequests /\ requests' = requests + 1

(* The INSERT of a project or a cluster: the sequence gives an id, for good, *)
DrawId(h) ==
  /\ Request(h)
  /\ \E d \in Databases :
       /\ seq[d] < MaxId
       /\ seq' = [seq EXCEPT ![d] = @ + 1]
       /\ db' = [db EXCEPT ![h] = d]
       /\ drawn' = [drawn EXCEPT ![h] = seq[d] + 1]
  /\ Goto(h, "create")
  /\ raced' = raced \cup Restoring
  /\ UNCHANGED <<parents, children, files, draft, using, doomed, doomedChildren, holder, born,
                 exports, restores, crashes, broken>>

(* and the row is committed, *)
CommitCreate(h) ==
  /\ pc[h] = "create" /\ born < MaxBorn
  /\ parents[db[h]][drawn[h]] = NoRow
  /\ parents' = [parents EXCEPT ![db[h]][drawn[h]] = born + 1]
  /\ born' = born + 1
  /\ Goto(h, "idle")
  /\ drawn' = [drawn EXCEPT ![h] = NoRow]
  /\ Committed(h, db[h], {drawn[h]})
  /\ UNCHANGED <<children, seq, files, db, using, doomed, doomedChildren, holder, exports, restores,
                 requests, crashes, broken>>

(* unless another row has the id.  A row that a restore is about to delete   *)
(* makes the INSERT wait.                                                    *)
CreateFails(h) ==
  /\ pc[h] = "create" /\ parents[db[h]][drawn[h]] # NoRow
  /\ holder[db[h]] = Nobody
  /\ Goto(h, "idle")
  /\ drawn' = [drawn EXCEPT ![h] = NoRow]
  /\ UNCHANGED <<rows, files, db, draft, using, doomed, doomedChildren, holder, counts, raced, broken>>

(* A criterion is added to a project, or a VM found in a cluster is assigned *)
(* to a project.                                                             *)
CreateChild(h) ==
  /\ Request(h)
  /\ \E d \in Databases : \E n \in Present(parents[d]), m \in Present(parents[Other(d)]) :
       LET new == [of |-> n, to |-> m, meant |-> parents[Other(d)][m]] IN
       /\ holder[d] = Nobody /\ new \notin children[d]
       /\ children' = [children EXCEPT ![d] = @ \cup {new}]
       /\ Committed(h, d, {})
  /\ UNCHANGED <<parents, seq, files, pc, db, drawn, using, doomed, doomedChildren, holder, born,
                 exports, restores, crashes, broken>>

(* A restore has deleted the child, and has not committed.                   *)
Locked(d, c) ==
  \E g \in Handlers : pc[g] \in {"replace", "insert"} /\ db[g] = d /\ c \in doomedChildren[g]

(* delete_tenant_project: the VMs of the project are released.  Its commits  *)
(* are one step here; ProjectAssignment has them apart.                      *)
DeleteProject(h) ==
  /\ Request(h)
  /\ holder = [d \in Databases |-> Nobody]
  /\ \E n \in Present(parents[Billing]) :
       /\ \A c \in children[Billing] : c.of = n => ~ Locked(Billing, c)
       /\ \A c \in children[Operations] : c.to = n => ~ Locked(Operations, c)
       /\ parents' = [parents EXCEPT ![Billing][n] = NoRow]
       /\ children' = [children EXCEPT
            ![Billing] = {c \in @ : c.of # n},
            ![Operations] = {IF c.to = n THEN [c EXCEPT !.to = NoRow, !.meant = 0] ELSE c : c \in @}]
  /\ Committed(h, Billing, {})
  /\ UNCHANGED <<seq, files, pc, db, drawn, using, doomed, doomedChildren, holder, born, exports,
                 restores, crashes, broken>>

(* delete_integration_account: the criteria that name its clusters stay.     *)
DeleteCluster(h) ==
  /\ Request(h)
  /\ holder[Operations] = Nobody
  /\ \E n \in Present(parents[Operations]) :
       /\ \A c \in children[Operations] : c.of = n => ~ Locked(Operations, c)
       /\ parents' = [parents EXCEPT ![Operations][n] = NoRow]
       /\ children' = [children EXCEPT ![Operations] = {c \in @ : c.of # n}]
  /\ Committed(h, Operations, {})
  /\ UNCHANGED <<seq, files, pc, db, drawn, using, doomed, doomedChildren, holder, born, exports,
                 restores, crashes, broken>>

-----------------------------------------------------------------------------
(* export_backup_bundle                                                     *)

(* Mutant: the tables are listed the other way round. *)
FirstTableReversed == "children"

(* BILLING_TABLES and OPERATIONS_TABLES name a parent before its children.   *)
FirstTable == "parents"

LastTable  == IF FirstTable = "parents" THEN "children" ELSE "parents"

StartExport(h) ==
  /\ pc[h] = "idle"
  /\ exports < MaxExports /\ exports' = exports + 1
  /\ Goto(h, FirstTable)
  /\ db' = [db EXCEPT ![h] = Billing]
  /\ draft' = [draft EXCEPT ![h] = Empty]
  /\ UNCHANGED <<rows, files, drawn, using, doomed, doomedChildren, holder, born, restores, requests,
                 crashes, raced, broken>>

(* _dump_table: one SELECT. *)
DumpTable(h) ==
  /\ pc[h] \in {"parents", "children"}
  /\ LET d    == db[h]
         read == IF pc[h] = "parents" THEN [draft[h] EXCEPT !.parents[d] = parents[d]]
                                      ELSE [draft[h] EXCEPT !.children[d] = children[d]]
     IN  CASE pc[h] = FirstTable ->
                /\ Goto(h, LastTable)
                /\ draft' = [draft EXCEPT ![h] = read] /\ UNCHANGED <<db, files>>
           [] pc[h] = LastTable /\ d = Billing ->
                /\ Goto(h, FirstTable) /\ db' = [db EXCEPT ![h] = Operations]
                /\ draft' = [draft EXCEPT ![h] = read] /\ UNCHANGED files
           [] OTHER ->
                /\ Goto(h, "idle") /\ files' = files \cup {read}
                /\ draft' = [draft EXCEPT ![h] = Empty] /\ db' = [db EXCEPT ![h] = Billing]
  /\ UNCHANGED <<rows, drawn, using, doomed, doomedChildren, holder, counts, raced, broken>>

-----------------------------------------------------------------------------
(* restore_backup_bundle and _restore_target                                *)

Closed(f) ==
  \A d \in Databases : \A c \in f.children[d] :
    c.to = NoRow \/ f.parents[Other(d)][c.to] = c.meant

(* The handler is done with the restore. *)
Finish(h) ==
  /\ Goto(h, "idle")
  /\ db' = [db EXCEPT ![h] = Billing]
  /\ using' = [using EXCEPT ![h] = Empty]
  /\ doomed' = [doomed EXCEPT ![h] = {}] /\ doomedChildren' = [doomedChildren EXCEPT ![h] = {}]
  /\ holder' = [d \in Databases |-> IF holder[d] = h THEN Nobody ELSE holder[d]]

(* A well-formed file, and confirm: anything else changes nothing. *)
StartRestore(h) ==
  /\ pc[h] = "idle"
  /\ restores < MaxRestores /\ restores' = restores + 1
  /\ \E f \in files :
       /\ using' = [using EXCEPT ![h] = f]
       /\ broken' = (broken \/ ~ Closed(f))
  /\ Goto(h, "clear")
  /\ db' = [db EXCEPT ![h] = Billing]
  /\ raced' = IF Restoring # {} \/ \E g \in Handlers : pc[g] = "create"
              THEN raced \cup Restoring \cup {h} ELSE raced
  /\ UNCHANGED <<rows, files, drawn, draft, doomed, doomedChildren, holder, born, exports, requests,
                 crashes>>

(* DELETE of the child table: the rows that are there when it begins. *)
ClearChildren(h) ==
  /\ pc[h] = "clear"
  /\ doomedChildren' = [doomedChildren EXCEPT ![h] = children[db[h]]]
  /\ Goto(h, "replace")
  /\ UNCHANGED <<rows, files, db, drawn, draft, using, doomed, holder, counts, raced, broken>>

(* A child that was stored since. *)
Survivors(h) == children[db[h]] \ doomedChildren[h]

(* Mutant: only the rows that the file replaces are deleted. *)
RowsOfFile(h) == Present(parents[db[h]]) \cap Present(using[h].parents[db[h]])

RowsOfTable(h) == Present(parents[db[h]])

(* DELETE of the parent table, once no other restore has the rows locked.    *)
ClearParents(h) ==
  /\ pc[h] = "replace" /\ holder[db[h]] = Nobody
  /\ \A c \in Survivors(h) : parents[db[h]][c.of] = NoRow
  /\ doomed' = [doomed EXCEPT ![h] = RowsOfTable(h)]
  /\ holder' = [holder EXCEPT ![db[h]] = h]
  /\ Goto(h, "insert")
  /\ UNCHANGED <<rows, files, db, drawn, draft, using, doomedChildren, counts, raced, broken>>

(* The ids of the file among those of the rows that stay. *)
Taken(h) == Present(using[h].parents[db[h]]) \cap (Present(parents[db[h]]) \ doomed[h])

(* Mutant: the rows are inserted without their ids. *)
RowsRenumbered(f, d) ==
  [n \in Ids |-> IF n > Cardinality(Present(f.parents[d])) THEN NoRow
                 ELSE f.parents[d][CHOOSE m \in Present(f.parents[d]) :
                        Cardinality(Present(f.parents[d]) \cap 1 .. m) = n]]

RowsWithTheirIds(f, d) == f.parents[d]

(* INSERT of both tables, and the commit.  A DELETE of another restore that  *)
(* has begun before does not see these rows.                                 *)
InsertRows(h) ==
  /\ pc[h] = "insert"
  /\ Dangling(using[h], db[h]) = {} /\ Taken(h) = {}
  /\ LET d == db[h] IN
     /\ parents' = [parents EXCEPT ![d] =
                     [n \in Ids |-> IF n \in Present(RowsWithTheirIds(using[h], d))
                                    THEN RowsWithTheirIds(using[h], d)[n]
                                    ELSE IF n \in doomed[h] THEN NoRow ELSE @[n]]]
     /\ children' = [children EXCEPT ![d] = Survivors(h) \cup using[h].children[d]]
     /\ Committed(h, d, Present(using[h].parents[d]))
     /\ doomedChildren' = [g \in Handlers |-> IF g # h /\ db[g] = d
                                               THEN doomedChildren[g] \ using[h].children[d]
                                               ELSE doomedChildren[g]]
     /\ holder' = [holder EXCEPT ![d] = Nobody]
  /\ Goto(h, "sequences")
  /\ UNCHANGED <<seq, files, db, drawn, using, doomed, counts, broken>>

(* An integrity error: rolled back, and the administrator is told (502). The *)
(* database that has been replaced before stays replaced.                    *)
RestoreFails(h) ==
  /\ \/ pc[h] = "replace" /\ holder[db[h]] = Nobody
        /\ \E c \in Survivors(h) : parents[db[h]][c.of] # NoRow
     \/ pc[h] = "insert" /\ (Dangling(using[h], db[h]) # {} \/ Taken(h) # {})
  /\ Finish(h)
  /\ broken' = (broken \/ db[h] = Operations)
  /\ raced' = raced \ {h}
  /\ UNCHANGED <<rows, files, drawn, draft, counts>>

(* Mutants: setval to the number of rows; setval to the next id. *)
NumberOfRows(d) == Cardinality(Present(parents[d]))
NextId(d)       == Max({0} \cup Present(parents[d])) + 1

(* _reset_pg_sequence: setval(MAX(id)), or 1, not yet called. *)
HighestId(d) == Max({0} \cup Present(parents[d]))

(* The sequences, in a transaction of their own; then the other database.    *)
ResetSequences(h) ==
  /\ pc[h] = "sequences"
  /\ seq' = [seq EXCEPT ![db[h]] = HighestId(db[h])]
  /\ IF db[h] = Billing
     THEN /\ Goto(h, "clear") /\ db' = [db EXCEPT ![h] = Operations]
          /\ doomed' = [doomed EXCEPT ![h] = {}]
          /\ doomedChildren' = [doomedChildren EXCEPT ![h] = {}]
          /\ UNCHANGED <<using, holder, raced, broken>>
     ELSE /\ Finish(h)
          /\ broken' = (broken \/ h \in raced)
          /\ raced' = raced \ {h}
  /\ UNCHANGED <<parents, children, files, drawn, draft, counts>>

(* The process dies; PostgreSQL rolls back what was not committed.           *)
Crash(h) ==
  /\ pc[h] # "idle"
  /\ crashes < MaxCrashes /\ crashes' = crashes + 1
  /\ Finish(h)
  /\ drawn' = [drawn EXCEPT ![h] = NoRow] /\ draft' = [draft EXCEPT ![h] = Empty]
  /\ broken' = (broken \/ (h \in Restoring /\ (db[h] = Operations \/ pc[h] = "sequences")))
  /\ raced' = raced \ {h}
  /\ UNCHANGED <<rows, files, born, exports, restores, requests>>

-----------------------------------------------------------------------------
Next ==
  \E h \in Handlers :
    \/ DrawId(h) \/ CommitCreate(h) \/ CreateFails(h) \/ CreateChild(h) \/ DeleteProject(h)
    \/ DeleteCluster(h) \/ StartExport(h) \/ DumpTable(h) \/ StartRestore(h) \/ ClearChildren(h)
    \/ ClearParents(h) \/ InsertRows(h) \/ RestoreFails(h) \/ ResetSequences(h) \/ Crash(h)

Spec == Init /\ [][Next]_vars

-----------------------------------------------------------------------------
(* Properties                                                               *)

(* A file whose own foreign keys are broken cannot be restored.  Deletions   *)
(* that overlap the export never make one: every broken key refers to a row  *)
(* that was created while the tables were read (export_backup_bundle).       *)
TornOnlyByCreation ==
  \A f \in files, d \in Databases : \A c \in Dangling(f, d) : <<d, c.of>> \in f.meanwhile

(* A restore that succeeds, and during which nobody else committed, leaves   *)
(* exactly what is in the file, in both databases (restore_backup_bundle).   *)
RestoreIsExact ==
  [][\A h \in Handlers :
       pc[h] = "sequences" /\ db[h] = Operations /\ h \notin raced /\ ResetSequences(h) =>
         parents' = using[h].parents /\ children' = using[h].children]_vars

(* An INSERT is refused for an id that is already taken only while a restore *)
(* is running or after one that was cut short or overlapped                  *)
(* (_reset_pg_sequence).                                                     *)
NewIdsAreFree ==
  [][\A h \in Handlers : CreateFails(h) => Restoring # {} \/ broken]_vars

(* backup_restore.py 29-31: the integers that link the two databases still   *)
(* mean the rows they meant.  True as long as only files were restored whose *)
(* links lead to rows in the file, and no restore was cut short between its  *)
(* commits or overlapped by other commits.                                   *)
LinksKeepTheirMeaning ==
  Restoring = {} /\ ~ broken =>
    \A d \in Databases : \A c \in children[d] :
      c.to = NoRow \/ parents[Other(d)][c.to] \in {NoRow, c.meant}
=============================================================================
