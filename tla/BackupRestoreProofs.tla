------------------------ MODULE BackupRestoreProofs ------------------------
(***************************************************************************)
(* What holds of BackupRestore for any handlers, ids and rows, any file of *)
(* an earlier deployment, any number of exports, restores, requests and    *)
(* crashes.                                                                *)
(***************************************************************************)
EXTENDS BackupRestore, WellFoundedInduction, TLAPS

-----------------------------------------------------------------------------
(* The highest id of a table                                                *)

Less == {ab \in Nat \X Nat : ab[1] < ab[2]}

LEMMA LeastExists ==
  ASSUME NEW P, P \subseteq Nat, P # {}
  PROVE  \E p \in P : \A q \in P : p <= q
<1>1. \A a, b \in Nat : <<a, b>> \in Less <=> a < b
  BY DEF Less
<1>2. OpToRel(<, Nat) = Less
  BY Zenon DEF OpToRel, Less
<1>3. IsWellFoundedOn(Less, Nat)
  BY <1>2, NatLessThanWellFounded, Zenon
<1>4. PICK p \in P : \A q \in P : ~ (<<q, p>> \in Less)
  BY <1>3, WFMin, Zenon
<1>5. ASSUME NEW q \in P PROVE p <= q
  <2>1. ~ (q < p)
    BY <1>1, <1>4
  <2> QED BY <2>1
<1> QED BY <1>4, <1>5

LEMMA MaxIsGreatest ==
  ASSUME NEW P \in SUBSET (0 .. MaxId), P # {}
  PROVE  Max(P) \in P /\ \A q \in P : q <= Max(P)
<1> DEFINE Above == {MaxId - p : p \in P}
<1>0. MaxId \in Nat
  BY BoundsAssumption
<1>1. Above \subseteq Nat /\ Above # {}
  <2>1. \A p \in P : MaxId - p \in Nat
    BY <1>0
  <2> QED BY <2>1
<1>2. PICK a \in Above : \A b \in Above : a <= b
  BY <1>1, LeastExists
<1>3. PICK p \in P : a = MaxId - p
  OBVIOUS
<1>4. \A q \in P : p >= q
  <2> SUFFICES ASSUME NEW q \in P PROVE p >= q
    OBVIOUS
  <2>1. MaxId - p <= MaxId - q
    BY <1>2, <1>3
  <2> QED BY <2>1, BoundsAssumption
<1>5. \E m \in P : \A q \in P : m >= q
  BY <1>4
<1>6. Max(P) \in P /\ \A q \in P : Max(P) >= q
  BY <1>5 DEF Max
<1> QED BY <1>6, BoundsAssumption


LEMMA HighestIsGreatest ==
  ASSUME NEW d
  PROVE  /\ HighestId(d) \in 0 .. MaxId
         /\ \A n \in Present(parents[d]) : n <= HighestId(d)
<1> DEFINE P == {0} \cup Present(parents[d])
<1>1. P \in SUBSET (0 .. MaxId) /\ P # {}
  BY BoundsAssumption DEF Present, Ids
<1>2. Max(P) \in P /\ \A q \in P : q <= Max(P)
  BY <1>1, MaxIsGreatest
<1> QED BY <1>1, <1>2 DEF HighestId

-----------------------------------------------------------------------------
(* Types                                                                    *)

RowsTyped ==
  /\ parents \in [Databases -> Rows] /\ children \in [Databases -> SUBSET Child]
  /\ seq \in [Databases -> 0 .. MaxId]

FilesTyped ==
  files \subseteq File /\ draft \in [Handlers -> File] /\ using \in [Handlers -> File]

Phases == {"idle", "parents", "children", "clear", "replace", "insert", "sequences", "create"}

LocalTyped ==
  /\ pc \in [Handlers -> Phases]
  /\ db \in [Handlers -> Databases] /\ drawn \in [Handlers -> Ids \cup {NoRow}]
  /\ doomed \in [Handlers -> SUBSET Ids] /\ doomedChildren \in [Handlers -> SUBSET Child]
  /\ holder \in [Databases -> Handlers \cup {Nobody}]

CountsTyped ==
  /\ born \in 0 .. MaxBorn /\ exports \in 0 .. MaxExports /\ restores \in 0 .. MaxRestores
  /\ requests \in 0 .. MaxRequests /\ crashes \in 0 .. MaxCrashes
  /\ raced \subseteq Handlers /\ broken \in BOOLEAN

(* A new row has an id.                                                      *)
Drawing == \A h \in Handlers : pc[h] = "create" => drawn[h] \in Ids

LEMMA Parts == TypeOK <=> RowsTyped /\ FilesTyped /\ LocalTyped /\ CountsTyped
BY DEF TypeOK, RowsTyped, FilesTyped, LocalTyped, CountsTyped, Phases

LEMMA PartsNext == TypeOK' <=> RowsTyped' /\ FilesTyped' /\ LocalTyped' /\ CountsTyped'
BY DEF TypeOK, RowsTyped, FilesTyped, LocalTyped, CountsTyped, Phases

LEMMA Constants ==
  /\ Databases = {Billing, Operations} /\ Billing # Operations
  /\ Other(Billing) = Operations /\ Other(Operations) = Billing
  /\ Ids \subseteq Nat /\ 1 \in Ids /\ NoRow \notin Ids /\ NoRow \in 0 .. MaxBorn
  /\ 1 \in 0 .. MaxBorn /\ 2 \in 0 .. MaxBorn /\ 4 \in 0 .. MaxBorn
  /\ 0 \in 0 .. MaxId /\ 1 \in 0 .. MaxId /\ 0 \in 0 .. MaxExports /\ 0 \in 0 .. MaxRestores
  /\ 0 \in 0 .. MaxRequests /\ 0 \in 0 .. MaxCrashes
BY BoundsAssumption DEF Databases, Billing, Operations, Other, Ids, NoRow

LEMMA ChildIs ==
  \A c \in Child : /\ c.of \in Ids /\ c.to \in Nat /\ (c.to = NoRow <=> c.meant = NoRow)
                   /\ c.to # NoRow => c.to \in Ids
<1> SUFFICES ASSUME NEW c \in Child
             PROVE  /\ c.of \in Ids /\ c.to \in Nat /\ (c.to = NoRow <=> c.meant = NoRow)
                    /\ c.to # NoRow => c.to \in Ids
  OBVIOUS
<1>1. c.of \in Ids /\ c.to \in Ids \cup {NoRow} /\ (c.to = NoRow <=> c.meant = NoRow)
  BY DEF Child
<1>2. \A n \in Ids \cup {NoRow} : n \in Nat /\ (n # NoRow => n \in Ids)
  BY Constants DEF NoRow
<1> QED BY <1>1, <1>2

LEMMA EmptyTyped == Empty \in File
BY Constants DEF Empty, File, Rows

(* What an export reads and what it is told stay a file.                     *)
LEMMA ReadTyped ==
  ASSUME NEW f \in File, NEW d \in Databases
  PROVE  /\ \A rs \in Rows : [f EXCEPT !.parents[d] = rs] \in File
         /\ \A cs \in SUBSET Child : [f EXCEPT !.children[d] = cs] \in File
<1>1. f.parents \in [Databases -> Rows] /\ f.children \in [Databases -> SUBSET Child]
  BY DEF File
<1> HIDE DEF Rows
<1>2. \A rs \in Rows : [f.parents EXCEPT ![d] = rs] \in [Databases -> Rows]
  BY <1>1
<1>3. \A cs \in SUBSET Child : [f.children EXCEPT ![d] = cs] \in [Databases -> SUBSET Child]
  BY <1>1
<1> QED BY <1>2, <1>3 DEF File

LEMMA ToldTyped ==
  ASSUME NEW f \in File, NEW more \in SUBSET (Databases \X Ids)
  PROVE  [f EXCEPT !.meanwhile = @ \cup more] \in File
<1>1. f.meanwhile \cup more \in SUBSET (Databases \X Ids)
  BY DEF File
<1> QED BY <1>1 DEF File

LEMMA PresentIs ==
  ASSUME NEW rs
  PROVE  Present(rs) \subseteq Ids /\ \A n \in Ids : n \in Present(rs) <=> rs[n] # NoRow
BY DEF Present

LEMMA InitTyped == Init => TypeOK /\ Drawing
<1> SUFFICES ASSUME Init PROVE TypeOK /\ Drawing
  OBVIOUS
<1>1. RowsTyped
  <2>1. parents = [d \in Databases |-> [n \in Ids |-> IF n > 1 THEN NoRow ELSE IF d = Billing THEN 1 ELSE 2]]
        /\ seq = [d \in Databases |-> 1]
    BY DEF Init
  <2>2. parents \in [Databases -> Rows]
    BY <2>1, Constants DEF Rows
  <2>3. [of |-> 1, to |-> NoRow, meant |-> 0] \in Child
    BY Constants DEF Child, NoRow
  <2>4. children \in [Databases -> SUBSET Child]
    BY <2>3 DEF Init
  <2> QED BY <2>1, <2>2, <2>4, Constants DEF RowsTyped
<1>2. FilesTyped
  BY EmptyTyped, ArchiveAssumption DEF Init, FilesTyped
<1>3. LocalTyped /\ Drawing
  BY Constants DEF Init, LocalTyped, Drawing, Phases
<1>4. CountsTyped
  BY Constants DEF Init, CountsTyped
<1> QED BY <1>1, <1>2, <1>3, <1>4, Parts

(* A commit marks the exports and the restores that are running.             *)
LEMMA CommittedTyped ==
  ASSUME TypeOK, NEW h \in Handlers, NEW d \in Databases, NEW created \in SUBSET Ids,
         Committed(h, d, created)
  PROVE  raced' \subseteq Handlers /\ draft' \in [Handlers -> File]
<1>1. FilesTyped /\ raced \subseteq Handlers
  BY Parts DEF CountsTyped
<1>2. {d} \X created \in SUBSET (Databases \X Ids)
  OBVIOUS
<1>3. \A e \in Handlers : [draft[e] EXCEPT !.meanwhile = @ \cup ({d} \X created)] \in File
  <2> SUFFICES ASSUME NEW e \in Handlers
               PROVE  [draft[e] EXCEPT !.meanwhile = @ \cup ({d} \X created)] \in File
    OBVIOUS
  <2>1. draft[e] \in File
    BY <1>1 DEF FilesTyped
  <2> QED BY <1>2, <2>1, ToldTyped
<1> QED BY <1>1, <1>3 DEF Committed, FilesTyped, Restoring

LEMMA PhaseTyped ==
  ASSUME LocalTyped, NEW h \in Handlers, NEW loc \in Phases, Goto(h, loc)
  PROVE  pc' \in [Handlers -> Phases] /\ pc' = [pc EXCEPT ![h] = loc] /\ pc'[h] = loc
         /\ \A g \in Handlers \ {h} : pc'[g] = pc[g]
BY DEF LocalTyped, Goto

LEMMA FinishTyped ==
  ASSUME TypeOK, NEW h \in Handlers, Finish(h)
  PROVE  /\ pc' \in [Handlers -> Phases] /\ db' \in [Handlers -> Databases]
         /\ using' \in [Handlers -> File]
         /\ doomed' \in [Handlers -> SUBSET Ids] /\ doomedChildren' \in [Handlers -> SUBSET Child]
         /\ holder' \in [Databases -> Handlers \cup {Nobody}]
         /\ pc'[h] = "idle" /\ \A g \in Handlers \ {h} : pc'[g] = pc[g]
<1>1. LocalTyped /\ using \in [Handlers -> File]
  BY Parts DEF FilesTyped
<1>2. pc' \in [Handlers -> Phases] /\ pc'[h] = "idle" /\ \A g \in Handlers \ {h} : pc'[g] = pc[g]
  BY <1>1, PhaseTyped DEF Finish, Phases
<1>3. using' \in [Handlers -> File]
  BY <1>1, EmptyTyped DEF Finish
<1>4. /\ db' \in [Handlers -> Databases]
      /\ doomed' \in [Handlers -> SUBSET Ids] /\ doomedChildren' \in [Handlers -> SUBSET Child]
      /\ holder' \in [Databases -> Handlers \cup {Nobody}]
  BY <1>1, Constants DEF Finish, LocalTyped
<1> QED BY <1>2, <1>3, <1>4

LEMMA CreateTyped ==
  ASSUME TypeOK, Drawing, NEW h \in Handlers, DrawId(h) \/ CommitCreate(h) \/ CreateFails(h)
  PROVE  TypeOK' /\ Drawing'
<1>0. RowsTyped /\ FilesTyped /\ LocalTyped /\ CountsTyped
  BY Parts
<1>1. ASSUME DrawId(h) PROVE TypeOK' /\ Drawing'
  <2>1. PICK d \in Databases :
          /\ seq[d] < MaxId /\ seq' = [seq EXCEPT ![d] = @ + 1]
          /\ db' = [db EXCEPT ![h] = d] /\ drawn' = [drawn EXCEPT ![h] = seq[d] + 1]
    BY <1>1 DEF DrawId
  <2>2. /\ Goto(h, "create") /\ raced' = raced \cup Restoring /\ requests < MaxRequests
        /\ requests' = requests + 1
        /\ UNCHANGED <<parents, children, files, draft, using, doomed, doomedChildren, holder, born,
                       exports, restores, crashes, broken>>
    BY <1>1 DEF DrawId, Request
  <2>3. seq[d] + 1 \in Ids /\ seq[d] + 1 \in 0 .. MaxId /\ requests' \in 0 .. MaxRequests
    BY <1>0, <2>1, <2>2, BoundsAssumption DEF RowsTyped, CountsTyped, Ids
  <2>4. RowsTyped' /\ FilesTyped' /\ CountsTyped'
    BY <1>0, <2>1, <2>2, <2>3 DEF RowsTyped, FilesTyped, CountsTyped, Restoring
  <2>5. pc' \in [Handlers -> Phases] /\ \A g \in Handlers \ {h} : pc'[g] = pc[g]
    BY <1>0, <2>2, PhaseTyped DEF Phases
  <2>6. LocalTyped' /\ Drawing'
    BY <1>0, <2>1, <2>2, <2>3, <2>5 DEF LocalTyped, Drawing
  <2> QED BY <2>4, <2>6, PartsNext
<1>2. ASSUME CommitCreate(h) PROVE TypeOK' /\ Drawing'
  <2>1. /\ pc[h] = "create" /\ born < MaxBorn
        /\ parents' = [parents EXCEPT ![db[h]][drawn[h]] = born + 1]
        /\ born' = born + 1 /\ Goto(h, "idle") /\ drawn' = [drawn EXCEPT ![h] = NoRow]
        /\ Committed(h, db[h], {drawn[h]})
        /\ UNCHANGED <<children, seq, files, db, using, doomed, doomedChildren, holder, exports, restores,
                       requests, crashes, broken>>
    BY <1>2 DEF CommitCreate
  <2>2. drawn[h] \in Ids /\ db[h] \in Databases /\ born + 1 \in 0 .. MaxBorn
    BY <1>0, <2>1, BoundsAssumption DEF Drawing, LocalTyped, CountsTyped
  <2>3. raced' \subseteq Handlers /\ draft' \in [Handlers -> File]
    BY <2>1, <2>2, CommittedTyped
  <2>4. parents' \in [Databases -> Rows]
    BY <1>0, <2>1, <2>2 DEF RowsTyped, Rows
  <2>5. pc' \in [Handlers -> Phases] /\ pc'[h] = "idle" /\ \A g \in Handlers \ {h} : pc'[g] = pc[g]
    BY <1>0, <2>1, PhaseTyped DEF Phases
  <2>6. LocalTyped' /\ Drawing'
    BY <1>0, <2>1, <2>5, Constants DEF LocalTyped, Drawing
  <2>7. RowsTyped' /\ FilesTyped' /\ CountsTyped'
    BY <1>0, <2>1, <2>2, <2>3, <2>4 DEF RowsTyped, FilesTyped, CountsTyped
  <2> QED BY <2>6, <2>7, PartsNext
<1>3. ASSUME CreateFails(h) PROVE TypeOK' /\ Drawing'
  <2>1. /\ Goto(h, "idle") /\ drawn' = [drawn EXCEPT ![h] = NoRow]
        /\ UNCHANGED <<rows, files, db, draft, using, doomed, doomedChildren, holder, counts, raced, broken>>
    BY <1>3 DEF CreateFails
  <2>2. pc' \in [Handlers -> Phases] /\ pc'[h] = "idle" /\ \A g \in Handlers \ {h} : pc'[g] = pc[g]
    BY <1>0, <2>1, PhaseTyped DEF Phases
  <2>3. LocalTyped' /\ Drawing'
    BY <1>0, <2>1, <2>2, Constants DEF LocalTyped, Drawing
  <2>4. RowsTyped' /\ FilesTyped' /\ CountsTyped'
    BY <1>0, <2>1 DEF RowsTyped, FilesTyped, CountsTyped, rows, counts
  <2> QED BY <2>3, <2>4, PartsNext
<1> QED BY <1>1, <1>2, <1>3

LEMMA RequestTyped ==
  ASSUME TypeOK, Drawing, NEW h \in Handlers, CreateChild(h) \/ DeleteProject(h) \/ DeleteCluster(h)
  PROVE  TypeOK' /\ Drawing'
<1>0. RowsTyped /\ FilesTyped /\ LocalTyped /\ CountsTyped
  BY Parts
<1>1. /\ \E d \in Databases : Committed(h, d, {})
      /\ requests < MaxRequests /\ requests' = requests + 1
      /\ UNCHANGED <<seq, files, pc, db, drawn, using, doomed, doomedChildren, holder, born,
                     exports, restores, crashes, broken>>
  BY Constants DEF CreateChild, DeleteProject, DeleteCluster, Request
<1>2. raced' \subseteq Handlers /\ draft' \in [Handlers -> File]
  BY <1>1, CommittedTyped
<1>3. requests' \in 0 .. MaxRequests
  BY <1>0, <1>1, BoundsAssumption DEF CountsTyped
<1>4. parents' \in [Databases -> Rows] /\ children' \in [Databases -> SUBSET Child]
  <2>1. CASE CreateChild(h)
    <3>1. PICK d \in Databases : \E n \in Present(parents[d]), m \in Present(parents[Other(d)]) :
            LET new == [of |-> n, to |-> m, meant |-> parents[Other(d)][m]] IN
            children' = [children EXCEPT ![d] = @ \cup {new}]
      BY <2>1 DEF CreateChild
    <3>2. PICK n \in Present(parents[d]), m \in Present(parents[Other(d)]) :
            children' = [children EXCEPT ![d] = @ \cup {[of |-> n, to |-> m, meant |-> parents[Other(d)][m]]}]
      BY <3>1
    <3>3. Other(d) \in Databases
      BY Constants
    <3>4. n \in Ids /\ m \in Ids /\ parents[Other(d)][m] \in 0 .. MaxBorn /\ parents[Other(d)][m] # NoRow
      BY <1>0, <3>3 DEF Present, RowsTyped, Rows
    <3>5. [of |-> n, to |-> m, meant |-> parents[Other(d)][m]] \in Child
      BY <3>4, Constants DEF Child
    <3> QED BY <1>0, <2>1, <3>2, <3>5 DEF CreateChild, RowsTyped
  <2>2. CASE DeleteProject(h)
    <3>1. PICK n \in Present(parents[Billing]) :
            /\ parents' = [parents EXCEPT ![Billing][n] = NoRow]
            /\ children' = [children EXCEPT
                 ![Billing] = {c \in @ : c.of # n},
                 ![Operations] = {IF c.to = n THEN [c EXCEPT !.to = NoRow, !.meant = 0] ELSE c : c \in @}]
      BY <2>2 DEF DeleteProject
    <3>2. parents' \in [Databases -> Rows]
      BY <1>0, <3>1, Constants DEF RowsTyped, Rows, Present
    <3>3. \A c \in Child : [c EXCEPT !.to = NoRow, !.meant = 0] \in Child
      BY Constants DEF Child, NoRow
    <3>4. children[Billing] \subseteq Child /\ children[Operations] \subseteq Child
      BY <1>0, Constants DEF RowsTyped
    <3>5. /\ {c \in children[Billing] : c.of # n} \subseteq Child
          /\ {IF c.to = n THEN [c EXCEPT !.to = NoRow, !.meant = 0] ELSE c : c \in children[Operations]} \subseteq Child
      BY <3>3, <3>4
    <3>6. children' \in [Databases -> SUBSET Child]
      BY <1>0, <3>1, <3>5, Constants DEF RowsTyped
    <3> QED BY <3>2, <3>6
  <2>3. CASE DeleteCluster(h)
    <3>1. PICK n \in Present(parents[Operations]) :
            /\ parents' = [parents EXCEPT ![Operations][n] = NoRow]
            /\ children' = [children EXCEPT ![Operations] = {c \in @ : c.of # n}]
      BY <2>3 DEF DeleteCluster
    <3>2. parents' \in [Databases -> Rows]
      BY <1>0, <3>1, Constants DEF RowsTyped, Rows, Present
    <3>3. children' \in [Databases -> SUBSET Child]
      BY <1>0, <3>1, Constants DEF RowsTyped
    <3> QED BY <3>2, <3>3
  <2> QED BY <2>1, <2>2, <2>3
<1>5. RowsTyped' /\ FilesTyped' /\ CountsTyped'
  BY <1>0, <1>1, <1>2, <1>3, <1>4 DEF RowsTyped, FilesTyped, CountsTyped
<1>6. LocalTyped' /\ Drawing'
  BY <1>0, <1>1 DEF LocalTyped, Drawing
<1> QED BY <1>5, <1>6, PartsNext

(* A handler that goes on to something else than creating a row.             *)
LEMMA OtherPhaseTyped ==
  ASSUME Drawing, NEW h \in Handlers, pc'[h] # "create", \A g \in Handlers \ {h} : pc'[g] = pc[g],
         \A g \in Handlers \ {h} : drawn'[g] = drawn[g]
  PROVE  Drawing'
BY DEF Drawing

LEMMA DumpIs ==
  ASSUME TypeOK, NEW h \in Handlers, DumpTable(h)
  PROVE  \E d \in Databases, read \in File :
           /\ d = db[h] /\ UNCHANGED <<rows, drawn, using, doomed, doomedChildren, holder, counts, raced, broken>>
           /\ pc[h] = "parents" => read = [draft[h] EXCEPT !.parents[d] = parents[d]]
           /\ pc[h] = "children" => read = [draft[h] EXCEPT !.children[d] = children[d]]
           /\ \/ pc[h] = "parents" /\ Goto(h, "children")
                 /\ draft' = [draft EXCEPT ![h] = read] /\ UNCHANGED <<db, files>>
              \/ pc[h] = "children" /\ d = Billing /\ Goto(h, "parents") /\ db' = [db EXCEPT ![h] = Operations]
                 /\ draft' = [draft EXCEPT ![h] = read] /\ UNCHANGED files
              \/ pc[h] = "children" /\ d = Operations /\ Goto(h, "idle") /\ files' = files \cup {read}
                 /\ draft' = [draft EXCEPT ![h] = Empty] /\ db' = [db EXCEPT ![h] = Billing]
<1> DEFINE d    == db[h]
           read == IF pc[h] = "parents" THEN [draft[h] EXCEPT !.parents[d] = parents[d]]
                                        ELSE [draft[h] EXCEPT !.children[d] = children[d]]
<1>1. d \in Databases /\ draft[h] \in File /\ parents[d] \in Rows /\ children[d] \in SUBSET Child
  BY Parts DEF LocalTyped, FilesTyped, RowsTyped
<1>2. read \in File
  BY <1>1, ReadTyped
<1>3. FirstTable = "parents" /\ LastTable = "children"
  BY DEF FirstTable, LastTable
<1>4. /\ pc[h] \in {"parents", "children"}
      /\ UNCHANGED <<rows, drawn, using, doomed, doomedChildren, holder, counts, raced, broken>>
  BY DEF DumpTable
<1>5. CASE pc[h] = "parents"
  <2>1. Goto(h, "children") /\ draft' = [draft EXCEPT ![h] = read] /\ UNCHANGED <<db, files>>
    BY <1>3, <1>5 DEF DumpTable
  <2> QED BY <1>1, <1>2, <1>4, <1>5, <2>1
<1>6. CASE pc[h] = "children" /\ d = Billing
  <2>1. /\ Goto(h, "parents") /\ db' = [db EXCEPT ![h] = Operations]
        /\ draft' = [draft EXCEPT ![h] = read] /\ UNCHANGED files
    BY <1>3, <1>6 DEF DumpTable
  <2> QED BY <1>1, <1>2, <1>4, <1>6, <2>1
<1>7. CASE pc[h] = "children" /\ d # Billing
  <2>1. /\ Goto(h, "idle") /\ files' = files \cup {read}
        /\ draft' = [draft EXCEPT ![h] = Empty] /\ db' = [db EXCEPT ![h] = Billing]
    BY <1>3, <1>7 DEF DumpTable
  <2>2. d = Operations
    BY <1>1, <1>7, Constants
  <2> QED BY <1>1, <1>2, <1>4, <1>7, <2>1, <2>2
<1> QED BY <1>4, <1>5, <1>6, <1>7

LEMMA ExportTyped ==
  ASSUME TypeOK, Drawing, NEW h \in Handlers, StartExport(h) \/ DumpTable(h)
  PROVE  TypeOK' /\ Drawing'
<1>0. RowsTyped /\ FilesTyped /\ LocalTyped /\ CountsTyped
  BY Parts
<1>1. ASSUME StartExport(h) PROVE TypeOK' /\ Drawing'
  <2>1. /\ exports < MaxExports /\ exports' = exports + 1 /\ Goto(h, "parents")
        /\ db' = [db EXCEPT ![h] = Billing] /\ draft' = [draft EXCEPT ![h] = Empty]
        /\ UNCHANGED <<rows, files, drawn, using, doomed, doomedChildren, holder, born, restores, requests,
                       crashes, raced, broken>>
    BY <1>1 DEF StartExport, FirstTable
  <2>2. pc' \in [Handlers -> Phases] /\ pc'[h] = "parents" /\ \A g \in Handlers \ {h} : pc'[g] = pc[g]
    BY <1>0, <2>1, PhaseTyped DEF Phases
  <2>3. exports' \in 0 .. MaxExports
    BY <1>0, <2>1, BoundsAssumption DEF CountsTyped
  <2>4. RowsTyped' /\ FilesTyped' /\ CountsTyped'
    BY <1>0, <2>1, <2>3, EmptyTyped DEF RowsTyped, FilesTyped, CountsTyped, rows
  <2>5. LocalTyped' /\ Drawing'
    BY <1>0, <2>1, <2>2, Constants, OtherPhaseTyped DEF LocalTyped
  <2> QED BY <2>4, <2>5, PartsNext
<1>2. ASSUME DumpTable(h) PROVE TypeOK' /\ Drawing'
  <2>1. PICK read \in File, loc \in {"parents", "children", "idle"} :
           /\ UNCHANGED <<rows, drawn, using, doomed, doomedChildren, holder, counts, raced, broken>>
           /\ Goto(h, loc) /\ (files' = files \/ files' = files \cup {read})
           /\ \/ draft' = [draft EXCEPT ![h] = read] \/ draft' = [draft EXCEPT ![h] = Empty]
           /\ \/ UNCHANGED db \/ db' = [db EXCEPT ![h] = Operations] \/ db' = [db EXCEPT ![h] = Billing]
    <3>1. PICK d \in Databases, read \in File :
           /\ d = db[h] /\ UNCHANGED <<rows, drawn, using, doomed, doomedChildren, holder, counts, raced, broken>>
           /\ \/ pc[h] = "parents" /\ Goto(h, "children")
                 /\ draft' = [draft EXCEPT ![h] = read] /\ UNCHANGED <<db, files>>
              \/ pc[h] = "children" /\ d = Billing /\ Goto(h, "parents") /\ db' = [db EXCEPT ![h] = Operations]
                 /\ draft' = [draft EXCEPT ![h] = read] /\ UNCHANGED files
              \/ pc[h] = "children" /\ d = Operations /\ Goto(h, "idle") /\ files' = files \cup {read}
                 /\ draft' = [draft EXCEPT ![h] = Empty] /\ db' = [db EXCEPT ![h] = Billing]
      BY <1>2, DumpIs
    <3> QED BY <3>1
  <2>2. pc' \in [Handlers -> Phases] /\ pc'[h] = loc /\ \A g \in Handlers \ {h} : pc'[g] = pc[g]
    BY <1>0, <2>1, PhaseTyped DEF Phases
  <2>3. RowsTyped' /\ FilesTyped' /\ CountsTyped'
    BY <1>0, <2>1, EmptyTyped DEF RowsTyped, FilesTyped, CountsTyped, rows, counts
  <2>4. LocalTyped' /\ Drawing'
    BY <1>0, <2>1, <2>2, Constants, OtherPhaseTyped DEF LocalTyped
  <2> QED BY <2>3, <2>4, PartsNext
<1> QED BY <1>1, <1>2

LEMMA ClearTyped ==
  ASSUME TypeOK, Drawing, NEW h \in Handlers, StartRestore(h) \/ ClearChildren(h) \/ ClearParents(h)
  PROVE  TypeOK' /\ Drawing'
<1>0. RowsTyped /\ FilesTyped /\ LocalTyped /\ CountsTyped /\ db[h] \in Databases
  BY Parts DEF LocalTyped
<1>1. ASSUME StartRestore(h) PROVE TypeOK' /\ Drawing'
  <2>1. PICK f \in files : using' = [using EXCEPT ![h] = f] /\ broken' = (broken \/ ~ Closed(f))
    BY <1>1 DEF StartRestore
  <2>2. /\ restores < MaxRestores /\ restores' = restores + 1 /\ Goto(h, "clear")
        /\ db' = [db EXCEPT ![h] = Billing]
        /\ raced' = raced \/ raced' = raced \cup Restoring \cup {h}
        /\ UNCHANGED <<rows, files, drawn, draft, doomed, doomedChildren, holder, born, exports, requests,
                       crashes>>
    BY <1>1 DEF StartRestore
  <2>3. pc' \in [Handlers -> Phases] /\ pc'[h] = "clear" /\ \A g \in Handlers \ {h} : pc'[g] = pc[g]
    BY <1>0, <2>2, PhaseTyped DEF Phases
  <2>4. restores' \in 0 .. MaxRestores /\ broken' \in BOOLEAN /\ raced' \subseteq Handlers
    <3>1. restores' \in 0 .. MaxRestores
      BY <1>0, <2>2, BoundsAssumption DEF CountsTyped
    <3>2. Restoring \subseteq Handlers
      BY DEF Restoring
    <3> QED BY <1>0, <2>1, <2>2, <3>1, <3>2 DEF CountsTyped
  <2>5. RowsTyped' /\ FilesTyped' /\ CountsTyped'
    BY <1>0, <2>1, <2>2, <2>4 DEF RowsTyped, FilesTyped, CountsTyped, rows
  <2>6. LocalTyped' /\ Drawing'
    BY <1>0, <2>2, <2>3, Constants, OtherPhaseTyped DEF LocalTyped
  <2> QED BY <2>5, <2>6, PartsNext
<1>2. ASSUME ClearChildren(h) PROVE TypeOK' /\ Drawing'
  <2>1. /\ doomedChildren' = [doomedChildren EXCEPT ![h] = children[db[h]]] /\ Goto(h, "replace")
        /\ UNCHANGED <<rows, files, db, drawn, draft, using, doomed, holder, counts, raced, broken>>
    BY <1>2 DEF ClearChildren
  <2>2. pc' \in [Handlers -> Phases] /\ pc'[h] = "replace" /\ \A g \in Handlers \ {h} : pc'[g] = pc[g]
    BY <1>0, <2>1, PhaseTyped DEF Phases
  <2>3. children[db[h]] \in SUBSET Child
    BY <1>0 DEF RowsTyped
  <2>4. LocalTyped' /\ Drawing'
    BY <1>0, <2>1, <2>2, <2>3, OtherPhaseTyped DEF LocalTyped
  <2>5. RowsTyped' /\ FilesTyped' /\ CountsTyped'
    BY <1>0, <2>1 DEF RowsTyped, FilesTyped, CountsTyped, rows, counts
  <2> QED BY <2>4, <2>5, PartsNext
<1>3. ASSUME ClearParents(h) PROVE TypeOK' /\ Drawing'
  <2>1. /\ doomed' = [doomed EXCEPT ![h] = RowsOfTable(h)] /\ holder' = [holder EXCEPT ![db[h]] = h]
        /\ Goto(h, "insert")
        /\ UNCHANGED <<rows, files, db, drawn, draft, using, doomedChildren, counts, raced, broken>>
    BY <1>3 DEF ClearParents
  <2>2. pc' \in [Handlers -> Phases] /\ pc'[h] = "insert" /\ \A g \in Handlers \ {h} : pc'[g] = pc[g]
    BY <1>0, <2>1, PhaseTyped DEF Phases
  <2>3. RowsOfTable(h) \in SUBSET Ids
    BY DEF RowsOfTable, Present
  <2>4. LocalTyped' /\ Drawing'
    BY <1>0, <2>1, <2>2, <2>3, OtherPhaseTyped DEF LocalTyped
  <2>5. RowsTyped' /\ FilesTyped' /\ CountsTyped'
    BY <1>0, <2>1 DEF RowsTyped, FilesTyped, CountsTyped, rows, counts
  <2> QED BY <2>4, <2>5, PartsNext
<1> QED BY <1>1, <1>2, <1>3

LEMMA ReplaceTyped ==
  ASSUME TypeOK, Drawing, NEW h \in Handlers, InsertRows(h) \/ RestoreFails(h) \/ ResetSequences(h) \/ Crash(h)
  PROVE  TypeOK' /\ Drawing'
<1>0. RowsTyped /\ FilesTyped /\ LocalTyped /\ CountsTyped /\ db[h] \in Databases /\ using[h] \in File
  BY Parts DEF LocalTyped, FilesTyped
<1>1. ASSUME InsertRows(h) PROVE TypeOK' /\ Drawing'
  <2> DEFINE d == db[h]
             new == [n \in Ids |-> IF n \in Present(RowsWithTheirIds(using[h], d))
                                    THEN RowsWithTheirIds(using[h], d)[n]
                                    ELSE IF n \in doomed[h] THEN NoRow ELSE parents[d][n]]
             kept == Survivors(h) \cup using[h].children[d]
  <2>1. /\ parents' = [parents EXCEPT ![d] = new] /\ children' = [children EXCEPT ![d] = kept]
        /\ Committed(h, d, Present(using[h].parents[d]))
        /\ doomedChildren' = [g \in Handlers |-> IF g # h /\ db[g] = d
                                               THEN doomedChildren[g] \ using[h].children[d]
                                               ELSE doomedChildren[g]]
        /\ holder' = [holder EXCEPT ![d] = Nobody] /\ Goto(h, "sequences")
        /\ UNCHANGED <<seq, files, db, drawn, using, doomed, counts, broken>>
    BY <1>1 DEF InsertRows
  <2>2. using[h].parents[d] \in Rows /\ using[h].children[d] \in SUBSET Child
    BY <1>0 DEF File
  <2>3. new \in Rows
    BY <1>0, <2>2, Constants DEF RowsTyped, Rows, RowsWithTheirIds, Present
  <2>4. kept \in SUBSET Child
    BY <1>0, <2>2 DEF RowsTyped, Survivors
  <2> HIDE DEF new, kept
  <2>5. RowsTyped'
    BY <1>0, <2>1, <2>3, <2>4 DEF RowsTyped
  <2>6. raced' \subseteq Handlers /\ draft' \in [Handlers -> File]
    BY <1>0, <2>1, CommittedTyped, PresentIs
  <2>7. pc' \in [Handlers -> Phases] /\ pc'[h] = "sequences" /\ \A g \in Handlers \ {h} : pc'[g] = pc[g]
    BY <1>0, <2>1, PhaseTyped DEF Phases
  <2>8. LocalTyped' /\ Drawing'
    BY <1>0, <2>1, <2>7, OtherPhaseTyped DEF LocalTyped
  <2>9. FilesTyped' /\ CountsTyped'
    BY <1>0, <2>1, <2>6 DEF FilesTyped, CountsTyped, counts
  <2> QED BY <2>5, <2>8, <2>9, PartsNext
<1>2. ASSUME RestoreFails(h) PROVE TypeOK' /\ Drawing'
  <2>1. /\ Finish(h) /\ broken' = (broken \/ db[h] = Operations) /\ raced' = raced \ {h}
        /\ UNCHANGED <<rows, files, drawn, draft, counts>>
    BY <1>2 DEF RestoreFails
  <2>2. LocalTyped' /\ Drawing' /\ FilesTyped'
    BY <1>0, <2>1, FinishTyped, OtherPhaseTyped DEF LocalTyped, FilesTyped
  <2>3. RowsTyped' /\ CountsTyped'
    BY <1>0, <2>1 DEF RowsTyped, CountsTyped, rows, counts
  <2> QED BY <2>2, <2>3, PartsNext
<1>3. ASSUME ResetSequences(h) PROVE TypeOK' /\ Drawing'
  <2>1. /\ seq' = [seq EXCEPT ![db[h]] = HighestId(db[h])]
        /\ UNCHANGED <<parents, children, files, drawn, draft, counts>>
    BY <1>3 DEF ResetSequences
  <2>2. RowsTyped'
    BY <1>0, <2>1, HighestIsGreatest DEF RowsTyped
  <2>3. CASE db[h] = Billing
    <3>1. /\ Goto(h, "clear") /\ db' = [db EXCEPT ![h] = Operations]
          /\ doomed' = [doomed EXCEPT ![h] = {}]
          /\ doomedChildren' = [doomedChildren EXCEPT ![h] = {}]
          /\ UNCHANGED <<using, holder, raced, broken>>
      BY <1>3, <2>3 DEF ResetSequences
    <3>2. pc' \in [Handlers -> Phases] /\ pc'[h] = "clear" /\ \A g \in Handlers \ {h} : pc'[g] = pc[g]
      BY <1>0, <3>1, PhaseTyped DEF Phases
    <3>3. LocalTyped' /\ Drawing'
      BY <1>0, <2>1, <3>1, <3>2, Constants, OtherPhaseTyped DEF LocalTyped
    <3>4. FilesTyped' /\ CountsTyped'
      BY <1>0, <2>1, <3>1 DEF FilesTyped, CountsTyped, counts
    <3> QED BY <2>2, <3>3, <3>4, PartsNext
  <2>4. CASE db[h] # Billing
    <3>1. Finish(h) /\ broken' = (broken \/ h \in raced) /\ raced' = raced \ {h}
      BY <1>3, <2>4 DEF ResetSequences
    <3>2. LocalTyped' /\ Drawing' /\ FilesTyped'
      BY <1>0, <2>1, <3>1, FinishTyped, OtherPhaseTyped DEF LocalTyped, FilesTyped
    <3>3. CountsTyped'
      BY <1>0, <2>1, <3>1 DEF CountsTyped, counts
    <3> QED BY <2>2, <3>2, <3>3, PartsNext
  <2> QED BY <2>3, <2>4
<1>4. ASSUME Crash(h) PROVE TypeOK' /\ Drawing'
  <2>1. /\ Finish(h) /\ crashes < MaxCrashes /\ crashes' = crashes + 1
        /\ drawn' = [drawn EXCEPT ![h] = NoRow] /\ draft' = [draft EXCEPT ![h] = Empty]
        /\ raced' = raced \ {h} /\ UNCHANGED <<rows, files, born, exports, restores, requests>>
    BY <1>4 DEF Crash
  <2>2. broken' \in BOOLEAN
    BY <1>0, <1>4 DEF Crash, CountsTyped
  <2>3. crashes' \in 0 .. MaxCrashes
    BY <1>0, <2>1, BoundsAssumption DEF CountsTyped
  <2>4. LocalTyped' /\ Drawing' /\ FilesTyped'
    BY <1>0, <2>1, FinishTyped, OtherPhaseTyped, EmptyTyped, Constants DEF LocalTyped, FilesTyped
  <2>5. RowsTyped' /\ CountsTyped'
    BY <1>0, <2>1, <2>2, <2>3 DEF RowsTyped, CountsTyped, rows
  <2> QED BY <2>4, <2>5, PartsNext
<1> QED BY <1>1, <1>2, <1>3, <1>4

LEMMA NextTyped ==
  ASSUME TypeOK, Drawing, [Next]_vars
  PROVE  TypeOK' /\ Drawing'
<1>1. CASE UNCHANGED vars
  <2>1. RowsTyped' /\ FilesTyped' /\ LocalTyped' /\ CountsTyped'
    BY <1>1, Parts DEF vars, rows, local, counts, RowsTyped, FilesTyped, LocalTyped, CountsTyped
  <2>2. Drawing'
    BY <1>1 DEF vars, local, Drawing
  <2> QED BY <2>1, <2>2, PartsNext
<1>2. CASE Next
  BY <1>2, CreateTyped, RequestTyped, ExportTyped, ClearTyped, ReplaceTyped DEF Next
<1> QED BY <1>1, <1>2

(* Types of the two databases, the files and the handlers, for any bounds;   *)
(* that a sequence is set to an id of its table rests on HighestIsGreatest.  *)
THEOREM TypeCorrect == Spec => [](TypeOK /\ Drawing)
BY InitTyped, NextTyped, PTL DEF Spec

-----------------------------------------------------------------------------
(* Foreign keys                                                             *)

(* They hold, and a restore that inserts has locked the rows and has deleted *)
(* all children: CreateChild waits for the lock, and the DELETE of the       *)
(* parents fails if a child was stored before it.                            *)
KeysHold == \A d \in Databases : \A c \in children[d] : parents[d][c.of] # NoRow

Inserting(h) == pc[h] = "insert" => holder[db[h]] = h /\ Survivors(h) = {}

Consistent == KeysHold /\ \A h \in Handlers : Inserting(h)

(* One handler moves on, and the others keep their place.                    *)
Alongside(h) ==
  \A g \in Handlers \ {h} : pc'[g] = pc[g] /\ db'[g] = db[g]

LEMMA OthersInsert ==
  ASSUME Consistent, NEW h \in Handlers, Alongside(h),
         \A g \in Handlers \ {h} : pc[g] = "insert" /\ holder[db[g]] = g =>
           holder'[db[g]] = g /\ children'[db[g]] \ doomedChildren'[g] \subseteq Survivors(g)
  PROVE  \A g \in Handlers \ {h} : Inserting(g)'
BY DEF Alongside, Consistent, Inserting, Survivors

LEMMA StepAlongside ==
  ASSUME TypeOK, NEW h \in Handlers,
         DrawId(h) \/ CommitCreate(h) \/ CreateFails(h) \/ CreateChild(h) \/ DeleteProject(h)
           \/ DeleteCluster(h) \/ StartExport(h) \/ DumpTable(h) \/ StartRestore(h) \/ ClearChildren(h)
           \/ ClearParents(h) \/ InsertRows(h) \/ RestoreFails(h) \/ ResetSequences(h) \/ Crash(h)
  PROVE  Alongside(h)
<1>1. pc \in [Handlers -> Phases] /\ db \in [Handlers -> Databases]
  BY Parts DEF LocalTyped
<1>2. \/ UNCHANGED pc
      \/ \E loc : Goto(h, loc)
  BY DEF DrawId, CommitCreate, CreateFails, CreateChild, DeleteProject, DeleteCluster, StartExport, DumpTable,
         StartRestore, ClearChildren, ClearParents, InsertRows, RestoreFails, ResetSequences, Crash, Finish
<1>3. UNCHANGED db \/ \E d : db' = [db EXCEPT ![h] = d]
  <2>1. CASE DumpTable(h)
    <3>1. UNCHANGED db \/ db' = [db EXCEPT ![h] = Operations] \/ db' = [db EXCEPT ![h] = Billing]
      BY <2>1, DumpIs
    <3> QED BY <3>1
  <2>2. CASE ~ DumpTable(h)
    BY <2>2 DEF DrawId, CommitCreate, CreateFails, CreateChild, DeleteProject, DeleteCluster, StartExport,
           StartRestore, ClearChildren, ClearParents, InsertRows, RestoreFails, ResetSequences, Crash, Finish
  <2> QED BY <2>1, <2>2
<1> QED BY <1>1, <1>2, <1>3 DEF Alongside, Goto

LEMMA InsertIs ==
  ASSUME TypeOK, NEW h \in Handlers, InsertRows(h)
  PROVE  LET d == db[h] IN
         /\ d \in Databases /\ using[h] \in File
         /\ pc[h] = "insert" /\ pc'[h] = "sequences" /\ Dangling(using[h], d) = {} /\ Taken(h) = {}
         /\ \A n \in Ids : parents'[d][n] = IF using[h].parents[d][n] # NoRow THEN using[h].parents[d][n]
                                            ELSE IF n \in doomed[h] THEN NoRow ELSE parents[d][n]
         /\ parents'[d] \in Rows /\ parents'[Other(d)] = parents[Other(d)]
         /\ children'[d] = Survivors(h) \cup using[h].children[d] /\ children'[Other(d)] = children[Other(d)]
         /\ using[h].parents[d] \in Rows /\ using[h].children[d] \subseteq Child
         /\ UNCHANGED <<seq, files, db, drawn, using, doomed, counts, broken>>
         /\ Committed(h, d, Present(using[h].parents[d]))
<1> DEFINE d == db[h]
           new == [n \in Ids |-> IF n \in Present(RowsWithTheirIds(using[h], d))
                                  THEN RowsWithTheirIds(using[h], d)[n]
                                  ELSE IF n \in doomed[h] THEN NoRow ELSE parents[d][n]]
           kept == Survivors(h) \cup using[h].children[d]
<1>1. /\ d \in Databases /\ using[h] \in File /\ RowsTyped /\ pc \in [Handlers -> Phases]
      /\ Other(d) \in Databases /\ Other(d) # d
  BY Parts, Constants DEF LocalTyped, FilesTyped
<1>2. using[h].parents[d] \in Rows /\ using[h].children[d] \subseteq Child
  BY <1>1 DEF File
<1>3. /\ parents' = [parents EXCEPT ![d] = new] /\ children' = [children EXCEPT ![d] = kept]
      /\ UNCHANGED <<seq, files, db, drawn, using, doomed, counts, broken>>
      /\ Committed(h, d, Present(using[h].parents[d])) /\ Goto(h, "sequences")
      /\ pc[h] = "insert" /\ Dangling(using[h], d) = {} /\ Taken(h) = {}
  BY DEF InsertRows
<1>4. new \in Rows
  BY <1>1, <1>2, Constants DEF RowsTyped, Rows, RowsWithTheirIds, Present
<1>5. \A n \in Ids : new[n] = IF using[h].parents[d][n] # NoRow THEN using[h].parents[d][n]
                              ELSE IF n \in doomed[h] THEN NoRow ELSE parents[d][n]
  BY DEF Present, RowsWithTheirIds
<1> HIDE DEF new, kept
<1>6. parents'[d] = new /\ parents'[Other(d)] = parents[Other(d)]
      /\ children'[d] = kept /\ children'[Other(d)] = children[Other(d)]
  BY <1>1, <1>3 DEF RowsTyped
<1>7. pc'[h] = "sequences"
  BY <1>1, <1>3 DEF Goto
<1>8. kept = Survivors(h) \cup using[h].children[d]
  BY DEF kept
<1> QED BY <1>1, <1>2, <1>3, <1>4, <1>5, <1>6, <1>7, <1>8

LEMMA NextConsistent ==
  ASSUME TypeOK, Drawing, Consistent, [Next]_vars
  PROVE  Consistent'
<1>0. RowsTyped /\ LocalTyped /\ KeysHold /\ Databases = {Billing, Operations} /\ Billing # Operations
      /\ \A d \in Databases : holder[d] = Nobody => \A g \in Handlers : holder[d] # g
  BY Parts, Constants, BoundsAssumption DEF Consistent
<1>1. CASE UNCHANGED vars
  BY <1>1 DEF vars, rows, local, Consistent, KeysHold, Inserting, Survivors
<1>2. ASSUME NEW h \in Handlers, UNCHANGED <<parents, children, holder>>, Alongside(h), pc'[h] # "insert",
             \A g \in Handlers \ {h} : doomedChildren'[g] = doomedChildren[g]
      PROVE  Consistent'
  <2>1. \A g \in Handlers \ {h} : Inserting(g)'
    BY <1>2, OthersInsert DEF Survivors
  <2> QED BY <1>0, <1>2, <2>1 DEF Consistent, KeysHold, Inserting
<1>3. ASSUME NEW h \in Handlers, DrawId(h) \/ CreateFails(h) \/ StartExport(h) \/ StartRestore(h) \/ DumpTable(h)
      PROVE  Consistent'
  <2>1. UNCHANGED <<parents, children, holder, doomedChildren>>
    BY <1>3 DEF DrawId, CreateFails, StartExport, StartRestore, DumpTable, rows
  <2>2. pc'[h] # "insert"
    <3>1. \E loc \in Phases \ {"insert"} : Goto(h, loc)
      BY <1>3 DEF DrawId, CreateFails, StartExport, StartRestore, DumpTable, FirstTable, LastTable, Phases
    <3> QED BY <1>0, <3>1 DEF Goto, LocalTyped
  <2> QED BY <1>2, <1>3, <2>1, <2>2, StepAlongside
<1>4. ASSUME NEW h \in Handlers, CommitCreate(h) PROVE Consistent'
  <2>1. /\ parents' = [parents EXCEPT ![db[h]][drawn[h]] = born + 1] /\ Goto(h, "idle")
        /\ UNCHANGED <<children, doomedChildren, holder, db>> /\ pc[h] = "create"
    BY <1>4 DEF CommitCreate
  <2>2. drawn[h] \in Ids /\ db[h] \in Databases /\ born + 1 # NoRow
    BY <1>0, <2>1, Parts DEF Drawing, LocalTyped, CountsTyped, NoRow
  <2>3. KeysHold'
    <3>1. ASSUME NEW d \in Databases, NEW c \in children[d] PROVE parents'[d][c.of] # NoRow
      <4>1. parents[d][c.of] # NoRow /\ c.of \in Ids
        BY <1>0, <3>1 DEF KeysHold, RowsTyped, Child
      <4> QED BY <1>0, <2>1, <2>2, <4>1 DEF RowsTyped, Rows
    <3> QED BY <2>1, <3>1 DEF KeysHold
  <2>4. \A g \in Handlers \ {h} : Inserting(g)'
    BY <1>4, <2>1, OthersInsert, StepAlongside DEF Survivors
  <2>5. Inserting(h)'
    BY <1>0, <2>1 DEF Goto, LocalTyped, Inserting
  <2> QED BY <2>3, <2>4, <2>5 DEF Consistent
<1>5. ASSUME NEW h \in Handlers, CreateChild(h) PROVE Consistent'
  <2>1. PICK d \in Databases : \E n \in Present(parents[d]), m \in Present(parents[Other(d)]) :
          /\ holder[d] = Nobody
          /\ children' = [children EXCEPT ![d] = @ \cup {[of |-> n, to |-> m, meant |-> parents[Other(d)][m]]}]
    BY <1>5 DEF CreateChild
  <2>2. PICK new :
          /\ holder[d] = Nobody /\ new.of \in Present(parents[d]) /\ children' = [children EXCEPT ![d] = @ \cup {new}]
    BY <2>1
  <2>3. UNCHANGED <<parents, pc, db, holder, doomedChildren>>
    BY <1>5 DEF CreateChild
  <2>4. KeysHold'
    BY <1>0, <2>2, <2>3, PresentIs DEF KeysHold, RowsTyped
  <2>5. \A e \in Databases : e # d => children'[e] = children[e]
    BY <1>0, <2>2 DEF RowsTyped
  <2>6. \A g \in Handlers : pc[g] = "insert" => db[g] # d /\ db[g] \in Databases
    BY <1>0, <2>2 DEF Consistent, Inserting, LocalTyped
  <2>7. \A g \in Handlers : Inserting(g)'
    BY <2>3, <2>5, <2>6 DEF Consistent, Inserting, Survivors
  <2> QED BY <2>4, <2>7 DEF Consistent
<1>6. ASSUME NEW h \in Handlers, DeleteProject(h) PROVE Consistent'
  <2>1. PICK n \in Present(parents[Billing]) :
            /\ parents' = [parents EXCEPT ![Billing][n] = NoRow]
            /\ children' = [children EXCEPT
                 ![Billing] = {c \in @ : c.of # n},
                 ![Operations] = {IF c.to = n THEN [c EXCEPT !.to = NoRow, !.meant = 0] ELSE c : c \in @}]
    BY <1>6 DEF DeleteProject
  <2>2. holder = [d \in Databases |-> Nobody] /\ UNCHANGED <<pc, holder, db>>
    BY <1>6 DEF DeleteProject
  <2>3. /\ children'[Billing] = {c \in children[Billing] : c.of # n}
        /\ children'[Operations] = {IF c.to = n THEN [c EXCEPT !.to = NoRow, !.meant = 0] ELSE c : c \in children[Operations]}
    BY <1>0, <2>1 DEF RowsTyped
  <2>4. \A c \in children'[Operations] : \E e \in children[Operations] : c.of = e.of
    <3>1. children[Operations] \subseteq Child
      BY <1>0 DEF RowsTyped
    <3> QED BY <2>3, <3>1 DEF Child
  <2>5. parents'[Operations] = parents[Operations]
        /\ \A i \in Ids : i # n => parents'[Billing][i] = parents[Billing][i]
    BY <1>0, <2>1 DEF RowsTyped, Rows
  <2>6. \A c \in children[Billing] : c.of \in Ids
    BY <1>0 DEF RowsTyped, Child
  <2>7. KeysHold'
    <3>1. \A c \in children'[Operations] : parents'[Operations][c.of] # NoRow
      BY <1>0, <2>4, <2>5 DEF KeysHold
    <3>2. \A c \in children'[Billing] : parents'[Billing][c.of] # NoRow
      BY <1>0, <2>3, <2>5, <2>6 DEF KeysHold
    <3> QED BY <1>0, <3>1, <3>2 DEF KeysHold
  <2>8. \A g \in Handlers : pc[g] # "insert"
    BY <1>0, <2>2, BoundsAssumption DEF Consistent, Inserting, LocalTyped
  <2> QED BY <2>2, <2>7, <2>8 DEF Consistent, Inserting
<1>7. ASSUME NEW h \in Handlers, DeleteCluster(h) PROVE Consistent'
  <2>1. PICK n \in Present(parents[Operations]) :
            /\ parents' = [parents EXCEPT ![Operations][n] = NoRow]
            /\ children' = [children EXCEPT ![Operations] = {c \in @ : c.of # n}]
    BY <1>7 DEF DeleteCluster
  <2>2. holder[Operations] = Nobody /\ UNCHANGED <<pc, holder, db, doomedChildren>>
    BY <1>7 DEF DeleteCluster
  <2>3. /\ children'[Operations] = {c \in children[Operations] : c.of # n}
        /\ children'[Billing] = children[Billing] /\ parents'[Billing] = parents[Billing]
        /\ \A i \in Ids : i # n => parents'[Operations][i] = parents[Operations][i]
    BY <1>0, <2>1 DEF RowsTyped, Rows
  <2>4. \A c \in children[Operations] : c.of \in Ids
    BY <1>0 DEF RowsTyped, Child
  <2>5. KeysHold'
    <3>1. \A c \in children'[Operations] : parents'[Operations][c.of] # NoRow
      BY <1>0, <2>3, <2>4 DEF KeysHold
    <3>2. \A c \in children'[Billing] : parents'[Billing][c.of] # NoRow
      BY <1>0, <2>3 DEF KeysHold
    <3> QED BY <1>0, <3>1, <3>2 DEF KeysHold
  <2>6. \A g \in Handlers : pc[g] = "insert" => db[g] = Billing
    BY <1>0, <2>2 DEF Consistent, Inserting, LocalTyped
  <2>7. \A g \in Handlers : Inserting(g)'
    BY <2>2, <2>3, <2>6 DEF Consistent, Inserting, Survivors
  <2> QED BY <2>5, <2>7 DEF Consistent
<1>8. ASSUME NEW h \in Handlers, ClearChildren(h) PROVE Consistent'
  <2>1. /\ UNCHANGED <<parents, children, holder>> /\ doomedChildren' = [doomedChildren EXCEPT ![h] = children[db[h]]]
        /\ Goto(h, "replace")
    BY <1>8 DEF ClearChildren, rows
  <2>2. pc'[h] = "replace" /\ \A g \in Handlers \ {h} : doomedChildren'[g] = doomedChildren[g]
    BY <1>0, <2>1 DEF Goto, LocalTyped
  <2> QED BY <1>2, <1>8, <2>1, <2>2, StepAlongside
<1>9. ASSUME NEW h \in Handlers, ClearParents(h) PROVE Consistent'
  <2>1. /\ holder[db[h]] = Nobody /\ \A c \in Survivors(h) : parents[db[h]][c.of] = NoRow
        /\ holder' = [holder EXCEPT ![db[h]] = h]
        /\ UNCHANGED <<parents, children, db, doomedChildren>> /\ db[h] \in Databases
    BY <1>0, <1>9 DEF ClearParents, rows, LocalTyped
  <2>2. Survivors(h) = {}
    BY <1>0, <2>1 DEF KeysHold, Survivors
  <2>3. holder'[db[h]] = h
    BY <1>0, <2>1 DEF LocalTyped
  <2>4. \A d \in Databases : d # db[h] => holder'[d] = holder[d]
    BY <1>0, <2>1 DEF LocalTyped
  <2>5. \A g \in Handlers \ {h} : Inserting(g)'
    <3>1. \A g \in Handlers \ {h} : holder[db[g]] = g => db[g] # db[h] /\ db[g] \in Databases
      BY <1>0, <2>1 DEF LocalTyped
    <3> QED BY <1>9, <2>1, <2>4, <3>1, OthersInsert, StepAlongside DEF Survivors
  <2>6. Inserting(h)'
    BY <2>1, <2>2, <2>3 DEF Inserting, Survivors
  <2> QED BY <1>0, <2>1, <2>5, <2>6 DEF Consistent, KeysHold
<1>10. ASSUME NEW h \in Handlers, InsertRows(h) PROVE Consistent'
  <2> DEFINE d == db[h]
  <2>1. /\ d \in Databases /\ pc[h] = "insert" /\ pc'[h] = "sequences" /\ Dangling(using[h], d) = {}
        /\ \A n \in Ids : using[h].parents[d][n] # NoRow => parents'[d][n] # NoRow
        /\ parents'[Other(d)] = parents[Other(d)]
        /\ children'[d] = Survivors(h) \cup using[h].children[d] /\ children'[Other(d)] = children[Other(d)]
        /\ using[h].children[d] \subseteq Child /\ UNCHANGED db
    BY <1>10, InsertIs
  <2>2. Survivors(h) = {} /\ holder[d] = h
    BY <2>1 DEF Consistent, Inserting
  <2>3. \A c \in children'[d] : parents'[d][c.of] # NoRow
    BY <2>1, <2>2 DEF Dangling, Child
  <2>4. KeysHold'
    BY <1>0, <2>1, <2>3, Constants DEF KeysHold
  <2>5. \A g \in Handlers \ {h} : holder[db[g]] = g => db[g] = Other(d) /\ db[g] # d
    BY <1>0, <2>1, <2>2, Constants DEF LocalTyped
  <2>6. \A g \in Handlers : doomedChildren'[g] = IF g # h /\ db[g] = d
                                               THEN doomedChildren[g] \ using[h].children[d]
                                               ELSE doomedChildren[g]
    BY <1>10 DEF InsertRows
  <2>7. \A e \in Databases : e # d => holder'[e] = holder[e]
    BY <1>0, <1>10 DEF InsertRows, LocalTyped
  <2>8. \A g \in Handlers \ {h} : Inserting(g)'
    BY <1>0, <1>10, <2>1, <2>5, <2>6, <2>7, Constants, OthersInsert, StepAlongside DEF Survivors
  <2> QED BY <2>1, <2>4, <2>8 DEF Consistent, Inserting
<1>11. ASSUME NEW h \in Handlers, Finish(h), UNCHANGED <<parents, children>> PROVE Consistent'
  <2>1. pc'[h] = "idle" /\ Alongside(h)
    BY <1>0, <1>11 DEF Finish, Goto, Alongside, LocalTyped
  <2>2. \A g \in Handlers \ {h} : doomedChildren'[g] = doomedChildren[g]
    BY <1>0, <1>11 DEF Finish, LocalTyped
  <2>3. \A g \in Handlers \ {h} : holder[db[g]] = g => holder'[db[g]] = g
    BY <1>0, <1>11 DEF Finish, LocalTyped
  <2>4. \A g \in Handlers \ {h} : Inserting(g)'
    BY <1>11, <2>1, <2>2, <2>3, OthersInsert DEF Survivors
  <2> QED BY <1>0, <1>11, <2>1, <2>4 DEF Consistent, KeysHold, Inserting
<1>12. ASSUME NEW h \in Handlers, RestoreFails(h) \/ Crash(h) PROVE Consistent'
  BY <1>11, <1>12 DEF RestoreFails, Crash, rows
<1>13. ASSUME NEW h \in Handlers, ResetSequences(h) PROVE Consistent'
  <2>1. CASE db[h] = Billing
    <3>1. /\ Goto(h, "clear") /\ doomedChildren' = [doomedChildren EXCEPT ![h] = {}]
          /\ UNCHANGED <<parents, children, holder>>
      BY <1>13, <2>1 DEF ResetSequences
    <3>2. pc'[h] = "clear" /\ \A g \in Handlers \ {h} : doomedChildren'[g] = doomedChildren[g]
      BY <1>0, <3>1 DEF Goto, LocalTyped
    <3> QED BY <1>2, <1>13, <3>1, <3>2, StepAlongside
  <2>2. CASE db[h] # Billing
    BY <1>11, <1>13, <2>2 DEF ResetSequences
  <2> QED BY <2>1, <2>2
<1> QED BY <1>1, <1>3, <1>4, <1>5, <1>6, <1>7, <1>8, <1>9, <1>10, <1>12, <1>13 DEF Next

LEMMA InitConsistent == Init => Consistent
<1> SUFFICES ASSUME Init PROVE Consistent
  OBVIOUS
<1>1. /\ parents = [d \in Databases |-> [n \in Ids |-> IF n > 1 THEN NoRow ELSE IF d = Billing THEN 1 ELSE 2]]
      /\ \A d \in Databases : \A c \in children[d] : c.of = 1
      /\ \A h \in Handlers : pc[h] = "idle"
  BY DEF Init
<1>2. \A d \in Databases : parents[d][1] # NoRow
  BY <1>1, Constants DEF NoRow
<1> QED BY <1>1, <1>2 DEF Consistent, KeysHold, Inserting

-----------------------------------------------------------------------------
(* What an export puts in its file                                          *)

(* A key of the file is broken, and not by a row created meanwhile.          *)
Torn(f) == \E d \in Databases : \E c \in Dangling(f, d) : <<d, c.of>> \notin f.meanwhile

(* The rows that are there now were read, or have been created since.        *)
Covered(h) ==
  \A n \in Present(parents[db[h]]) :
    draft[h].parents[db[h]][n] # NoRow \/ <<db[h], n>> \in draft[h].meanwhile

Drafted(h) ==
  h \in Exporting =>
    /\ ~ Torn(draft[h])
    /\ draft[h].children[db[h]] = {} /\ draft[h].children[Operations] = {}
    /\ pc[h] = "children" => Covered(h)

Whole == (\A f \in files : ~ Torn(f)) /\ \A h \in Handlers : Drafted(h)

LEMMA EmptyWhole ==
  /\ ~ Torn(Empty) /\ \A d \in Databases : Empty.children[d] = {}
BY DEF Torn, Dangling, Empty

LEMMA InitWhole == Init => Whole
<1> SUFFICES ASSUME Init PROVE Whole
  OBVIOUS
<1>1. files = {Archive} /\ \A h \in Handlers : pc[h] = "idle"
  BY DEF Init
<1>2. ~ Torn(Archive)
  BY ArchiveAssumption DEF Torn
<1> QED BY <1>1, <1>2 DEF Whole, Drafted, Exporting

(* A file that is told of more rows is torn no more than before.             *)
LEMMA ToldIsWhole ==
  ASSUME NEW f \in File, NEW more
  PROVE  LET g == [f EXCEPT !.meanwhile = @ \cup more] IN
         /\ g.parents = f.parents /\ g.children = f.children /\ g.meanwhile = f.meanwhile \cup more
         /\ ~ Torn(f) => ~ Torn(g)
<1> DEFINE g == [f EXCEPT !.meanwhile = @ \cup more]
<1>1. g.parents = f.parents /\ g.children = f.children /\ g.meanwhile = f.meanwhile \cup more
  BY DEF File
<1> HIDE DEF g
<1>2. ~ Torn(f) => ~ Torn(g)
  BY <1>1 DEF Torn, Dangling
<1> QED BY <1>1, <1>2 DEF g

LEMMA QuietWhole ==
  ASSUME Whole, NEW h \in Handlers, Alongside(h), UNCHANGED <<parents, files>>,
         \A g \in Handlers \ {h} : draft'[g] = draft[g], Drafted(h)'
  PROVE  Whole'
<1>1. \A g \in Handlers \ {h} : Drafted(g)'
  BY DEF Whole, Alongside, Drafted, Exporting, Covered
<1> QED BY <1>1 DEF Whole

(* A commit tells every export the rows it has created.                      *)
LEMMA CommittedWhole ==
  ASSUME TypeOK, Whole, NEW h \in Handlers, Alongside(h), UNCHANGED files,
         h \notin Exporting, h \notin Exporting',
         NEW d \in Databases, NEW created \in SUBSET Ids, Committed(h, d, created),
         \A e \in Databases : \A n \in Ids :
           parents'[e][n] # NoRow => parents[e][n] # NoRow \/ (e = d /\ n \in created)
  PROVE  Whole'
<1>1. ASSUME NEW g \in Handlers, g \in Exporting' PROVE Drafted(g)'
  <2>1. g # h /\ g \in Exporting /\ pc'[g] = pc[g] /\ db'[g] = db[g] /\ db[g] \in Databases /\ draft[g] \in File
    BY <1>1, Parts DEF Alongside, Exporting, LocalTyped, FilesTyped
  <2>2. draft'[g] = [draft[g] EXCEPT !.meanwhile = @ \cup ({d} \X created)]
    BY <2>1 DEF Committed
  <2>3. /\ draft'[g].parents = draft[g].parents /\ draft'[g].children = draft[g].children
        /\ draft'[g].meanwhile = draft[g].meanwhile \cup ({d} \X created)
        /\ ~ Torn(draft[g]) => ~ Torn(draft'[g])
    BY <2>1, <2>2, ToldIsWhole
  <2>4. Drafted(g)
    BY DEF Whole
  <2>5. Covered(g) => Covered(g)'
    BY <2>1, <2>3, PresentIs DEF Covered
  <2> QED BY <2>1, <2>3, <2>4, <2>5 DEF Drafted, Torn, Dangling
<1>2. \A g \in Handlers : Drafted(g)'
  BY <1>1 DEF Drafted
<1> QED BY <1>2 DEF Whole

LEMMA DumpWhole ==
  ASSUME TypeOK, Consistent, Whole, NEW h \in Handlers, DumpTable(h)
  PROVE  Whole'
<1> DEFINE f == draft[h]
<1>1. PICK d \in Databases, read \in File :
           /\ d = db[h] /\ UNCHANGED <<rows, drawn, using, doomed, doomedChildren, holder, counts, raced, broken>>
           /\ pc[h] = "parents" => read = [f EXCEPT !.parents[d] = parents[d]]
           /\ pc[h] = "children" => read = [f EXCEPT !.children[d] = children[d]]
           /\ \/ pc[h] = "parents" /\ Goto(h, "children")
                 /\ draft' = [draft EXCEPT ![h] = read] /\ UNCHANGED <<db, files>>
              \/ pc[h] = "children" /\ d = Billing /\ Goto(h, "parents") /\ db' = [db EXCEPT ![h] = Operations]
                 /\ draft' = [draft EXCEPT ![h] = read] /\ UNCHANGED files
              \/ pc[h] = "children" /\ d = Operations /\ Goto(h, "idle") /\ files' = files \cup {read}
                 /\ draft' = [draft EXCEPT ![h] = Empty] /\ db' = [db EXCEPT ![h] = Billing]
  BY DumpIs
<1>2. /\ f \in File /\ LocalTyped /\ RowsTyped /\ Drafted(h) /\ UNCHANGED parents /\ Alongside(h)
      /\ draft \in [Handlers -> File]
  BY <1>1, Parts, StepAlongside DEF FilesTyped, Whole, rows
<1>3. f.parents \in [Databases -> Rows] /\ f.children \in [Databases -> SUBSET Child]
  BY <1>2 DEF File
<1>4. /\ ~ Torn(f) /\ f.children[d] = {} /\ f.children[Operations] = {}
      /\ pc[h] = "children" => \A n \in Present(parents[d]) : f.parents[d][n] # NoRow \/ <<d, n>> \in f.meanwhile
  BY <1>1, <1>2 DEF Drafted, Covered, Exporting
<1>5. \A g \in Handlers \ {h} : draft'[g] = draft[g]
  BY <1>1, <1>2
<1>6. CASE pc[h] = "parents"
  <2>1. /\ pc'[h] = "children" /\ UNCHANGED <<db, files>> /\ draft'[h] = read
        /\ read = [f EXCEPT !.parents[d] = parents[d]]
    BY <1>1, <1>2, <1>6 DEF Goto, LocalTyped
  <2>2. /\ read.children = f.children /\ read.meanwhile = f.meanwhile /\ read.parents[d] = parents[d]
        /\ \A e \in Databases : e # d => read.parents[e] = f.parents[e]
    BY <1>2, <1>3, <2>1 DEF File
  <2>3. ~ Torn(read)
    BY <1>4, <2>2 DEF Torn, Dangling
  <2>4. Drafted(h)'
    BY <1>1, <1>2, <1>4, <2>1, <2>2, <2>3, PresentIs DEF Drafted, Covered
  <2> QED BY <1>2, <1>5, <2>1, <2>4, QuietWhole
<1>7. CASE pc[h] = "children"
  <2>1. read = [f EXCEPT !.children[d] = children[d]]
    BY <1>1, <1>7
  <2>2. /\ read.parents = f.parents /\ read.meanwhile = f.meanwhile /\ read.children[d] = children[d]
        /\ \A e \in Databases : e # d => read.children[e] = f.children[e]
    BY <1>2, <1>3, <2>1 DEF File
  <2>3. \A c \in children[d] : c.of \in Present(parents[d])
    BY <1>2, PresentIs DEF Consistent, KeysHold, RowsTyped, Child
  <2>4. ~ Torn(read)
    <3> SUFFICES ASSUME NEW e \in Databases, NEW c \in read.children[e], f.parents[e][c.of] = NoRow
                 PROVE  <<e, c.of>> \in f.meanwhile
      BY <2>2 DEF Torn, Dangling
    <3>1. CASE e = d
      BY <1>4, <1>7, <2>2, <2>3, <3>1
    <3>2. CASE e # d
      BY <1>4, <2>2, <3>2 DEF Torn, Dangling
    <3> QED BY <3>1, <3>2
  <2>5. CASE d = Billing
    <3>1. /\ pc'[h] = "parents" /\ db'[h] = Operations /\ draft'[h] = read /\ UNCHANGED files
      BY <1>1, <1>2, <1>7, <2>5, Constants DEF Goto, LocalTyped
    <3>2. Drafted(h)'
      BY <1>4, <2>2, <2>4, <2>5, <3>1, Constants DEF Drafted
    <3> QED BY <1>2, <1>5, <3>1, <3>2, QuietWhole
  <2>6. CASE d = Operations
    <3>1. /\ pc'[h] = "idle" /\ files' = files \cup {read} /\ draft'[h] = Empty
      BY <1>1, <1>2, <1>7, <2>6, Constants DEF Goto, LocalTyped
    <3>2. \A g \in Handlers \ {h} : Drafted(g)'
      BY <1>2, <1>5 DEF Whole, Alongside, Drafted, Exporting, Covered
    <3>3. Drafted(h)'
      BY <3>1 DEF Drafted, Exporting
    <3>4. \A g \in files' : ~ Torn(g)
      BY <2>4, <3>1 DEF Whole
    <3> QED BY <3>2, <3>3, <3>4 DEF Whole
  <2> QED BY <2>5, <2>6, Constants
<1> QED BY <1>1, <1>6, <1>7

(* What the commits of each action create.                                   *)
LEMMA CommitCreates ==
  ASSUME TypeOK, Drawing, NEW h \in Handlers,
         CommitCreate(h) \/ CreateChild(h) \/ DeleteProject(h) \/ DeleteCluster(h) \/ InsertRows(h)
  PROVE  \E d \in Databases, created \in SUBSET Ids :
           /\ Committed(h, d, created)
           /\ \A e \in Databases : \A n \in Ids :
                parents'[e][n] # NoRow => parents[e][n] # NoRow \/ (e = d /\ n \in created)
<1>0. RowsTyped /\ LocalTyped /\ db[h] \in Databases
  BY Parts DEF LocalTyped
<1>1. CASE CommitCreate(h)
  <2>1. /\ Committed(h, db[h], {drawn[h]}) /\ parents' = [parents EXCEPT ![db[h]][drawn[h]] = born + 1]
        /\ drawn[h] \in Ids
    BY <1>1 DEF CommitCreate, Drawing
  <2>2. \A e \in Databases : \A n \in Ids :
          parents'[e][n] # NoRow => parents[e][n] # NoRow \/ (e = db[h] /\ n \in {drawn[h]})
    BY <1>0, <2>1 DEF RowsTyped, Rows
  <2> QED BY <1>0, <2>1, <2>2
<1>2. CASE CreateChild(h)
  BY <1>2 DEF CreateChild
<1>3. CASE DeleteProject(h)
  <2>1. Committed(h, Billing, {}) /\ \E n \in Present(parents[Billing]) : parents' = [parents EXCEPT ![Billing][n] = NoRow]
    BY <1>3 DEF DeleteProject
  <2>2. \A e \in Databases : \A n \in Ids : parents'[e][n] # NoRow => parents[e][n] # NoRow
    BY <1>0, <2>1, PresentIs DEF RowsTyped, Rows
  <2> QED BY <2>1, <2>2, Constants
<1>4. CASE DeleteCluster(h)
  <2>1. Committed(h, Operations, {}) /\ \E n \in Present(parents[Operations]) : parents' = [parents EXCEPT ![Operations][n] = NoRow]
    BY <1>4 DEF DeleteCluster
  <2>2. \A e \in Databases : \A n \in Ids : parents'[e][n] # NoRow => parents[e][n] # NoRow
    BY <1>0, <2>1, PresentIs DEF RowsTyped, Rows
  <2> QED BY <2>1, <2>2, Constants
<1>5. CASE InsertRows(h)
  <2> DEFINE d == db[h]
  <2>1. /\ Committed(h, d, Present(using[h].parents[d]))
        /\ \A n \in Ids : parents'[d][n] = IF using[h].parents[d][n] # NoRow THEN using[h].parents[d][n]
                                            ELSE IF n \in doomed[h] THEN NoRow ELSE parents[d][n]
        /\ parents'[Other(d)] = parents[Other(d)]
    BY <1>5, InsertIs
  <2>2. \A n \in Ids : parents'[d][n] # NoRow => parents[d][n] # NoRow \/ n \in Present(using[h].parents[d])
    BY <2>1, PresentIs
  <2>3. \A e \in Databases : e = d \/ e = Other(d)
    BY <1>0, Constants
  <2>4. Present(using[h].parents[d]) \in SUBSET Ids
    BY PresentIs
  <2> QED BY <1>0, <2>1, <2>2, <2>3, <2>4
<1> QED BY <1>1, <1>2, <1>3, <1>4, <1>5

LEMMA NextWhole ==
  ASSUME TypeOK, Drawing, Consistent, Whole, [Next]_vars
  PROVE  Whole'
<1>0. LocalTyped /\ draft \in [Handlers -> File]
  BY Parts DEF FilesTyped
<1>1. CASE UNCHANGED vars
  BY <1>1 DEF vars, rows, local, Whole, Drafted, Exporting, Covered
<1>2. ASSUME NEW h \in Handlers, DumpTable(h) PROVE Whole'
  BY <1>2, DumpWhole
<1>3. ASSUME NEW h \in Handlers,
             CommitCreate(h) \/ CreateChild(h) \/ DeleteProject(h) \/ DeleteCluster(h) \/ InsertRows(h)
      PROVE  Whole'
  <2>1. UNCHANGED files /\ pc[h] \notin {"parents", "children"}
        /\ (UNCHANGED pc \/ \E loc \in {"idle", "sequences"} : Goto(h, loc))
    BY <1>3 DEF CommitCreate, CreateChild, DeleteProject, DeleteCluster, InsertRows, Request
  <2>2. h \notin Exporting /\ h \notin Exporting'
    BY <1>0, <2>1 DEF Goto, LocalTyped, Exporting
  <2>3. PICK d \in Databases, created \in SUBSET Ids :
           /\ Committed(h, d, created)
           /\ \A e \in Databases : \A n \in Ids :
                parents'[e][n] # NoRow => parents[e][n] # NoRow \/ (e = d /\ n \in created)
    BY <1>3, CommitCreates
  <2> QED BY <1>3, <2>1, <2>2, <2>3, CommittedWhole, StepAlongside
<1>4. ASSUME NEW h \in Handlers, StartExport(h) PROVE Whole'
  <2>1. /\ UNCHANGED <<parents, files>> /\ draft' = [draft EXCEPT ![h] = Empty] /\ Goto(h, "parents")
    BY <1>4 DEF StartExport, FirstTable, rows
  <2>2. draft'[h] = Empty /\ pc'[h] = "parents" /\ \A g \in Handlers \ {h} : draft'[g] = draft[g]
    BY <1>0, <2>1 DEF Goto, LocalTyped
  <2>3. db'[h] \in Databases
    BY <1>0, <1>4, Constants DEF StartExport, LocalTyped
  <2>4. Drafted(h)'
    BY <2>2, <2>3, EmptyWhole, Constants DEF Drafted
  <2> QED BY <1>4, <2>1, <2>2, <2>4, QuietWhole, StepAlongside
<1>5. ASSUME NEW h \in Handlers,
             DrawId(h) \/ CreateFails(h) \/ StartRestore(h) \/ ClearChildren(h) \/ ClearParents(h)
               \/ RestoreFails(h) \/ ResetSequences(h) \/ Crash(h)
      PROVE  Whole'
  <2>1. UNCHANGED <<parents, files>> /\ (UNCHANGED draft \/ draft' = [draft EXCEPT ![h] = Empty])
    BY <1>5 DEF DrawId, CreateFails, StartRestore, ClearChildren, ClearParents, RestoreFails, ResetSequences,
                Crash, rows
  <2>2. \E loc \in Phases \ {"parents", "children"} : Goto(h, loc)
    BY <1>5 DEF DrawId, CreateFails, StartRestore, ClearChildren, ClearParents, RestoreFails, ResetSequences,
                Crash, Finish, Phases
  <2>3. h \notin Exporting'
    BY <1>0, <2>2 DEF Goto, LocalTyped, Exporting
  <2>4. Drafted(h)' /\ \A g \in Handlers \ {h} : draft'[g] = draft[g]
    BY <1>0, <2>1, <2>3 DEF Drafted
  <2> QED BY <1>5, <2>1, <2>4, QuietWhole, StepAlongside
<1> QED BY <1>1, <1>2, <1>3, <1>4, <1>5 DEF Next

LEMMA WholeFilesOnly == Whole => TornOnlyByCreation
BY DEF Whole, Torn, TornOnlyByCreation

(* Every broken key of a file refers to a row that was created while the     *)
(* tables were read, for any interleaving of exports with deletions and      *)
(* restores (export_backup_bundle): a child that is read has its parent in   *)
(* the database, which was read before or has been created since.            *)
THEOREM FilesAreTornOnlyByCreation == Spec => []TornOnlyByCreation
<1> DEFINE Inv == TypeOK /\ Drawing /\ Consistent /\ Whole
<1>1. Init => Inv
  BY InitTyped, InitConsistent, InitWhole
<1>2. Inv /\ [Next]_vars => Inv'
  BY NextTyped, NextConsistent, NextWhole
<1>3. Inv => TornOnlyByCreation
  BY WholeFilesOnly
<1> QED BY <1>1, <1>2, <1>3, PTL DEF Spec

-----------------------------------------------------------------------------
(* What restores and the sequences make of the ids                          *)

(* A restore that has replaced rows whose sequences or whose other database  *)
(* have yet to follow.                                                       *)
Touched(h) == pc[h] = "sequences" \/ (h \in Restoring /\ db[h] = Operations)

(* An id that a child of d names has been given out, and not again.          *)
Linked(d) ==
  \A c \in children[d] :
    c.to # NoRow => parents[Other(d)][c.to] \in {NoRow, c.meant} /\ c.to <= seq[Other(d)]

Numbered(d) == \A n \in Present(parents[d]) : n <= seq[d]

(* The id drawn for a new row is nobody else's.                              *)
Fresh(h) ==
  pc[h] = "create" =>
    /\ drawn[h] \in Ids /\ drawn[h] <= seq[db[h]] /\ parents[db[h]][drawn[h]] = NoRow
    /\ \A c \in children[Other(db[h])] : c.to # drawn[h]
    /\ \A g \in Handlers \ {h} : pc[g] = "create" /\ db[g] = db[h] => drawn[g] # drawn[h]

Good ==
  /\ \A d \in Databases : Linked(d) /\ Numbered(d)
  /\ \A h \in Handlers : Fresh(h)

Kept == ~ broken /\ (\A h \in Handlers : ~ Touched(h)) => Good

Replaced(h, d) ==
  parents[d] = using[h].parents[d] /\ children[d] = using[h].children[d]

(* A restore during which nobody else has committed.                         *)
Alone(h) ==
  h \in Restoring /\ h \notin raced =>
    /\ Restoring = {h} /\ \A g \in Handlers : pc[g] # "create"
    /\ pc[h] = "insert" => doomed[h] = Present(parents[db[h]])
    /\ pc[h] = "sequences" => Replaced(h, db[h])
    /\ db[h] = Operations => Replaced(h, Billing) /\ Numbered(Billing)

Usable(h) == h \in Restoring /\ ~ broken => Closed(using[h])

Exact == \A h \in Handlers : Alone(h) /\ Usable(h)

LEMMA InitKept == Init => Kept /\ Exact
<1> SUFFICES ASSUME Init PROVE Kept /\ Exact
  OBVIOUS
<1>1. /\ parents = [d \in Databases |-> [n \in Ids |-> IF n > 1 THEN NoRow ELSE IF d = Billing THEN 1 ELSE 2]]
      /\ \A d \in Databases : \A c \in children[d] : c.to = NoRow
      /\ seq = [d \in Databases |-> 1]
      /\ \A h \in Handlers : pc[h] = "idle"
  BY DEF Init
<1>2. \A d \in Databases : \A n \in Present(parents[d]) : n <= 1
  BY <1>1, Constants DEF Present, NoRow
<1> QED BY <1>1, <1>2 DEF Kept, Good, Linked, Numbered, Fresh, Exact, Alone, Usable, Restoring

LEMMA DrawKept ==
  ASSUME TypeOK, Kept, NEW h \in Handlers, DrawId(h)
  PROVE  Kept'
<1>0. RowsTyped /\ LocalTyped
  BY Parts
<1>1. PICK d \in Databases :
          /\ seq[d] < MaxId /\ seq' = [seq EXCEPT ![d] = @ + 1]
          /\ db' = [db EXCEPT ![h] = d] /\ drawn' = [drawn EXCEPT ![h] = seq[d] + 1]
  BY DEF DrawId
<1>2. /\ Goto(h, "create") /\ pc[h] = "idle" /\ UNCHANGED <<parents, children, broken>> /\ Alongside(h)
  BY StepAlongside DEF DrawId, Request
<1>3. pc'[h] = "create" /\ db'[h] = d /\ drawn'[h] = seq[d] + 1 /\ \A g \in Handlers \ {h} : drawn'[g] = drawn[g]
  BY <1>0, <1>1, <1>2 DEF Goto, LocalTyped
<1>4. seq[d] \in Nat /\ seq[d] + 1 \in Ids /\ Other(d) \in Databases
  BY <1>0, <1>1, BoundsAssumption, Constants DEF RowsTyped, Ids
<1>5. \A e \in Databases : seq[e] \in Nat /\ seq'[e] \in Nat /\ seq[e] <= seq'[e]
  BY <1>0, <1>1 DEF RowsTyped
<1>6. seq'[d] = seq[d] + 1
  BY <1>0, <1>1 DEF RowsTyped
<1> SUFFICES ASSUME ~ broken, \A g \in Handlers : ~ Touched(g)' PROVE Good'
  BY <1>2 DEF Kept
<1>7. \A g \in Handlers : ~ Touched(g)
  BY <1>2 DEF Alongside, Touched, Restoring
<1>8. Good
  BY <1>7 DEF Kept
<1>9. ASSUME NEW e \in Databases PROVE Linked(e)' /\ Numbered(e)'
  <2>1. Linked(e) /\ Numbered(e) /\ Other(e) \in Databases /\ children[e] \subseteq Child
    BY <1>0, <1>8, Constants DEF Good, RowsTyped
  <2>2. \A c \in children[e] : c.to \in Nat
    BY <2>1, ChildIs
  <2>3. seq[Other(e)] \in Nat /\ seq'[Other(e)] \in Nat /\ seq[Other(e)] <= seq'[Other(e)]
    BY <1>5, <2>1
  <2>4. Linked(e)'
    BY <1>2, <2>1, <2>2, <2>3 DEF Linked
  <2>5. Present(parents[e]) \subseteq Nat
    BY PresentIs, Constants
  <2>6. Numbered(e)'
    BY <1>2, <1>5, <2>1, <2>5 DEF Numbered
  <2> QED BY <2>4, <2>6
<1>10. Fresh(h)'
  <2>1. parents[d][seq[d] + 1] = NoRow
    BY <1>4, <1>8, PresentIs DEF Good, Numbered
  <2>2. \A c \in children[Other(d)] : c.to # seq[d] + 1
    <3>1. Linked(Other(d)) /\ Other(Other(d)) = d
      BY <1>4, <1>8, Constants DEF Good
    <3> QED BY <1>4, <3>1, Constants DEF Linked
  <2>3. \A g \in Handlers \ {h} : pc'[g] = "create" /\ db'[g] = d => drawn'[g] # seq[d] + 1
    BY <1>2, <1>3, <1>4, <1>8, Constants DEF Good, Fresh, Alongside
  <2> QED BY <1>2, <1>3, <1>4, <1>6, <2>1, <2>2, <2>3 DEF Fresh
<1>11. ASSUME NEW g \in Handlers \ {h} PROVE Fresh(g)'
  <2>1. Fresh(g) /\ pc'[g] = pc[g] /\ db'[g] = db[g] /\ drawn'[g] = drawn[g] /\ db[g] \in Databases
    BY <1>0, <1>2, <1>3, <1>8 DEF Good, Alongside, LocalTyped
  <2>2. pc[g] = "create" => drawn[g] <= seq'[db[g]]
    <3>1. pc[g] = "create" => drawn[g] \in Nat /\ drawn[g] <= seq[db[g]]
      BY <2>1, Constants DEF Fresh
    <3>2. seq[db[g]] \in Nat /\ seq'[db[g]] \in Nat /\ seq[db[g]] <= seq'[db[g]]
      BY <1>5, <2>1
    <3> QED BY <3>1, <3>2
  <2>3. pc[g] = "create" /\ db[g] = d => drawn[g] # seq[d] + 1
    BY <1>4, <2>1, Constants DEF Fresh
  <2>4. \A k \in Handlers \ {g, h} : pc'[k] = pc[k] /\ db'[k] = db[k] /\ drawn'[k] = drawn[k]
    BY <1>2, <1>3 DEF Alongside
  <2>5. pc[g] = "create" => \A k \in Handlers \ {g} : pc'[k] = "create" /\ db'[k] = db[g] => drawn'[k] # drawn[g]
    BY <1>3, <2>1, <2>3, <2>4 DEF Fresh
  <2> QED BY <1>2, <2>1, <2>2, <2>5 DEF Fresh
<1> QED BY <1>9, <1>10, <1>11 DEF Good

(* A step that leaves the rows and the sequences, and hides no touched       *)
(* restore.                                                                  *)
LEMMA QuietKept ==
  ASSUME Kept, NEW h \in Handlers, Alongside(h), UNCHANGED <<parents, children, seq>>,
         \A g \in Handlers \ {h} : drawn'[g] = drawn[g], pc'[h] # "create",
         broken => broken', ~ broken' /\ ~ Touched(h)' => ~ Touched(h)
  PROVE  Kept'
<1> SUFFICES ASSUME ~ broken', \A g \in Handlers : ~ Touched(g)' PROVE Good'
  BY DEF Kept
<1>1. \A g \in Handlers \ {h} : ~ Touched(g)
  BY DEF Alongside, Touched, Restoring
<1>2. Good
  BY <1>1 DEF Kept
<1>3. \A g \in Handlers : Fresh(g)'
  BY <1>2 DEF Good, Fresh, Alongside
<1> QED BY <1>2, <1>3 DEF Good, Linked, Numbered

LEMMA CommitKept ==
  ASSUME TypeOK, Kept, NEW h \in Handlers, CommitCreate(h)
  PROVE  Kept'
<1>0. RowsTyped /\ LocalTyped /\ born + 1 # NoRow
  BY Parts DEF CountsTyped, NoRow
<1>1. /\ pc[h] = "create" /\ parents' = [parents EXCEPT ![db[h]][drawn[h]] = born + 1]
      /\ Goto(h, "idle") /\ drawn' = [drawn EXCEPT ![h] = NoRow]
      /\ UNCHANGED <<children, seq, db, broken>> /\ Alongside(h) /\ db[h] \in Databases
  BY <1>0, StepAlongside DEF CommitCreate, LocalTyped
<1> DEFINE d == db[h]
           n == drawn[h]
<1>2. pc'[h] = "idle" /\ \A g \in Handlers \ {h} : drawn'[g] = drawn[g]
  BY <1>0, <1>1 DEF Goto, LocalTyped
<1> SUFFICES ASSUME ~ broken, \A g \in Handlers : ~ Touched(g)' PROVE Good'
  BY <1>1 DEF Kept
<1>3. \A g \in Handlers : ~ Touched(g)
  BY <1>1 DEF Alongside, Touched, Restoring
<1>4. Good
  BY <1>3 DEF Kept
<1>5. /\ n \in Ids /\ n <= seq[d] /\ \A c \in children[Other(d)] : c.to # n
      /\ \A g \in Handlers \ {h} : pc[g] = "create" /\ db[g] = d => drawn[g] # n
  BY <1>1, <1>4 DEF Good, Fresh
<1>6. /\ \A e \in Databases : e # d => parents'[e] = parents[e]
      /\ \A i \in Ids : i # n => parents'[d][i] = parents[d][i]
  BY <1>0, <1>1, <1>5 DEF RowsTyped, Rows
<1>7. ASSUME NEW e \in Databases PROVE Linked(e)' /\ Numbered(e)'
  <2>1. Linked(e) /\ Numbered(e) /\ children[e] \subseteq Child
    BY <1>0, <1>4 DEF Good, RowsTyped
  <2>2. Linked(e)'
    <3> SUFFICES ASSUME NEW c \in children[e], c.to # NoRow
                 PROVE  parents'[Other(e)][c.to] \in {NoRow, c.meant} /\ c.to <= seq[Other(e)]
      BY <1>1 DEF Linked
    <3>1. parents[Other(e)][c.to] \in {NoRow, c.meant} /\ c.to <= seq[Other(e)] /\ c.to \in Ids
      BY <2>1, ChildIs DEF Linked
    <3>2. Other(e) = d => e = Other(d)
      BY <1>1, Constants
    <3>3. parents'[Other(e)][c.to] = parents[Other(e)][c.to]
      BY <1>5, <1>6, <3>1, <3>2, Constants
    <3> QED BY <3>1, <3>3
  <2>3. Numbered(e)'
    <3> SUFFICES ASSUME NEW i \in Ids, parents'[e][i] # NoRow PROVE i <= seq[e]
      BY <1>1, PresentIs DEF Numbered
    <3>1. parents[e][i] # NoRow => i <= seq[e]
      BY <2>1, PresentIs DEF Numbered
    <3>2. e # d \/ i # n => parents'[e][i] = parents[e][i]
      BY <1>6
    <3> QED BY <1>5, <3>1, <3>2
  <2> QED BY <2>2, <2>3
<1>8. ASSUME NEW g \in Handlers PROVE Fresh(g)'
  <2>1. CASE g = h
    BY <1>2, <2>1 DEF Fresh
  <2>2. CASE g # h
    <3>1. Fresh(g) /\ pc'[g] = pc[g] /\ db'[g] = db[g] /\ drawn'[g] = drawn[g] /\ db[g] \in Databases
      BY <1>0, <1>1, <1>2, <1>4, <2>2 DEF Good, Alongside, LocalTyped
    <3>2. pc[g] = "create" => parents'[db[g]][drawn[g]] = parents[db[g]][drawn[g]]
      BY <1>5, <1>6, <2>2, <3>1 DEF Fresh
    <3>3. \A k \in Handlers \ {g} : pc'[k] = "create" => pc[k] = "create" /\ db'[k] = db[k] /\ drawn'[k] = drawn[k]
      BY <1>1, <1>2 DEF Alongside
    <3> QED BY <1>1, <3>1, <3>2, <3>3 DEF Fresh
  <2> QED BY <2>1, <2>2
<1> QED BY <1>7, <1>8 DEF Good

(* Rows that go, and children whose number is of a row that is there, keep   *)
(* what the ids mean.                                                        *)
LEMMA RequestKept ==
  ASSUME TypeOK, Kept, NEW h \in Handlers,
         UNCHANGED <<seq, pc, db, drawn, broken>>,
         \A d \in Databases : \A n \in Ids : parents'[d][n] # NoRow => parents'[d][n] = parents[d][n],
         \A d \in Databases : \A c \in children'[d] :
           \/ c.to = NoRow \/ c \in children[d]
           \/ c.to \in Present(parents[Other(d)]) /\ parents[Other(d)][c.to] = c.meant
  PROVE  Kept'
<1>0. RowsTyped /\ LocalTyped
  BY Parts
<1> SUFFICES ASSUME ~ broken, \A g \in Handlers : ~ Touched(g)' PROVE Good'
  BY DEF Kept
<1>1. Good
  BY DEF Kept, Touched, Restoring
<1>2. ASSUME NEW d \in Databases PROVE Linked(d)' /\ Numbered(d)'
  <2>1. Linked(d) /\ Numbered(d) /\ Numbered(Other(d)) /\ Other(d) \in Databases /\ children[d] \subseteq Child
    BY <1>0, <1>1, Constants DEF Good, RowsTyped
  <2>2. Linked(d)'
    <3> SUFFICES ASSUME NEW c \in children'[d], c.to # NoRow
                 PROVE  parents'[Other(d)][c.to] \in {NoRow, c.meant} /\ c.to <= seq[Other(d)]
      BY DEF Linked
    <3>1. parents[Other(d)][c.to] \in {NoRow, c.meant} /\ c.to <= seq[Other(d)] /\ c.to \in Ids
      <4>1. CASE c \in children[d]
        BY <2>1, <4>1, ChildIs DEF Linked
      <4>2. CASE c.to \in Present(parents[Other(d)]) /\ parents[Other(d)][c.to] = c.meant
        BY <2>1, <4>2, PresentIs DEF Numbered
      <4> QED BY <4>1, <4>2
    <3> QED BY <2>1, <3>1
  <2>3. Numbered(d)'
    BY <2>1, PresentIs DEF Numbered
  <2> QED BY <2>2, <2>3
<1>3. ASSUME NEW g \in Handlers PROVE Fresh(g)'
  <2> SUFFICES ASSUME pc[g] = "create" PROVE Fresh(g)'
    BY DEF Fresh
  <2>1. /\ drawn[g] \in Ids /\ drawn[g] <= seq[db[g]] /\ parents[db[g]][drawn[g]] = NoRow
        /\ \A c \in children[Other(db[g])] : c.to # drawn[g]
        /\ \A k \in Handlers \ {g} : pc[k] = "create" /\ db[k] = db[g] => drawn[k] # drawn[g]
        /\ db[g] \in Databases /\ Other(db[g]) \in Databases /\ Other(Other(db[g])) = db[g]
    BY <1>0, <1>1, Constants DEF Good, Fresh, LocalTyped
  <2>2. \A c \in children'[Other(db[g])] : c.to # drawn[g]
    BY <2>1, PresentIs, Constants
  <2>3. parents'[db[g]][drawn[g]] = NoRow
    BY <2>1
  <2> QED BY <2>1, <2>2, <2>3 DEF Fresh
<1> QED BY <1>2, <1>3 DEF Good

LEMMA RequestIsKept ==
  ASSUME TypeOK, Kept, NEW h \in Handlers, CreateChild(h) \/ DeleteProject(h) \/ DeleteCluster(h)
  PROVE  Kept'
<1>0. RowsTyped /\ UNCHANGED <<seq, pc, db, drawn, broken>>
  BY Parts DEF CreateChild, DeleteProject, DeleteCluster
<1>1. CASE CreateChild(h)
  <2>1. PICK d \in Databases : \E n \in Present(parents[d]), m \in Present(parents[Other(d)]) :
          children' = [children EXCEPT ![d] = @ \cup {[of |-> n, to |-> m, meant |-> parents[Other(d)][m]]}]
    BY <1>1 DEF CreateChild
  <2>2. PICK new : /\ children' = [children EXCEPT ![d] = @ \cup {new}]
                   /\ new.to \in Present(parents[Other(d)]) /\ parents[Other(d)][new.to] = new.meant
    <3>1. PICK n \in Present(parents[d]), m \in Present(parents[Other(d)]) :
            children' = [children EXCEPT ![d] = @ \cup {[of |-> n, to |-> m, meant |-> parents[Other(d)][m]]}]
      BY <2>1
    <3> DEFINE new == [of |-> n, to |-> m, meant |-> parents[Other(d)][m]]
    <3>2. new.to = m /\ new.meant = parents[Other(d)][m]
      OBVIOUS
    <3>3. children' = [children EXCEPT ![d] = @ \cup {new}]
      BY <3>1
    <3> HIDE DEF new
    <3> QED BY <3>2, <3>3
  <2>3. UNCHANGED parents
    BY <1>1 DEF CreateChild
  <2>4. \A e \in Databases : \A c \in children'[e] : c \in children[e] \/ (e = d /\ c = new)
    BY <1>0, <2>2 DEF RowsTyped
  <2> QED BY <1>0, <2>2, <2>3, <2>4, RequestKept
<1>2. CASE DeleteProject(h)
  <2>1. PICK n \in Present(parents[Billing]) :
            /\ parents' = [parents EXCEPT ![Billing][n] = NoRow]
            /\ children' = [children EXCEPT
                 ![Billing] = {c \in @ : c.of # n},
                 ![Operations] = {IF c.to = n THEN [c EXCEPT !.to = NoRow, !.meant = 0] ELSE c : c \in @}]
    BY <1>2 DEF DeleteProject
  <2>2. \A d \in Databases : \A i \in Ids : parents'[d][i] # NoRow => parents'[d][i] = parents[d][i]
    BY <1>0, <2>1, PresentIs DEF RowsTyped, Rows
  <2>3. /\ children'[Billing] = {c \in children[Billing] : c.of # n}
        /\ children'[Operations] = {IF c.to = n THEN [c EXCEPT !.to = NoRow, !.meant = 0] ELSE c : c \in children[Operations]}
        /\ children[Operations] \subseteq Child
    BY <1>0, <2>1, Constants DEF RowsTyped
  <2>4. \A c \in Child : [c EXCEPT !.to = NoRow, !.meant = 0].to = NoRow
    BY DEF Child
  <2>5. \A c \in children'[Operations] : c.to = NoRow \/ c \in children[Operations]
    BY <2>3, <2>4
  <2>6. \A d \in Databases : \A c \in children'[d] : c.to = NoRow \/ c \in children[d]
    BY <2>3, <2>5, Constants
  <2> QED BY <1>0, <2>2, <2>6, RequestKept
<1>3. CASE DeleteCluster(h)
  <2>1. PICK n \in Present(parents[Operations]) :
            /\ parents' = [parents EXCEPT ![Operations][n] = NoRow]
            /\ children' = [children EXCEPT ![Operations] = {c \in @ : c.of # n}]
    BY <1>3 DEF DeleteCluster
  <2>2. \A d \in Databases : \A i \in Ids : parents'[d][i] # NoRow => parents'[d][i] = parents[d][i]
    BY <1>0, <2>1, PresentIs DEF RowsTyped, Rows
  <2>3. \A d \in Databases : \A c \in children'[d] : c \in children[d]
    BY <1>0, <2>1 DEF RowsTyped
  <2> QED BY <1>0, <2>2, <2>3, RequestKept
<1> QED BY <1>1, <1>2, <1>3

(* A restore of a closed file that nobody overlapped ends well.              *)
LEMMA ResetKept ==
  ASSUME TypeOK, Kept, Exact, NEW h \in Handlers, ResetSequences(h)
  PROVE  Kept'
<1>0. RowsTyped /\ LocalTyped /\ db[h] \in Databases /\ using[h] \in File
  BY Parts DEF LocalTyped, FilesTyped
<1>1. /\ pc[h] = "sequences" /\ seq' = [seq EXCEPT ![db[h]] = HighestId(db[h])]
      /\ UNCHANGED <<parents, children>> /\ Alongside(h)
  BY StepAlongside DEF ResetSequences
<1>2. CASE db[h] = Billing
  <2>1. pc'[h] = "clear" /\ db'[h] = Operations
    BY <1>0, <1>2 DEF ResetSequences, Goto, LocalTyped
  <2> QED BY <2>1 DEF Kept, Touched, Restoring
<1>3. CASE db[h] = Operations
  <2> SUFFICES ASSUME ~ broken' PROVE Good'
    BY DEF Kept
  <2>1. Finish(h) /\ broken' = (broken \/ h \in raced)
    BY <1>3, Constants DEF ResetSequences
  <2>2. ~ broken /\ h \in Restoring /\ h \notin raced
    BY <1>1, <2>1 DEF Restoring
  <2>3. /\ \A g \in Handlers : pc[g] # "create"
        /\ Replaced(h, Operations) /\ Replaced(h, Billing) /\ Numbered(Billing)
    BY <1>1, <1>3, <2>2 DEF Exact, Alone
  <2>4. Closed(using[h])
    BY <2>2 DEF Exact, Usable
  <2>5. \A d \in Databases : Replaced(h, d)
    BY <2>3, Constants
  <2>6. Numbered(Billing)' /\ Numbered(Operations)'
    <3>1. seq'[Operations] = HighestId(Operations) /\ seq'[Billing] = seq[Billing]
      BY <1>0, <1>1, <1>3, Constants DEF RowsTyped
    <3> QED BY <1>1, <2>3, <3>1, HighestIsGreatest DEF Numbered
  <2>7. ASSUME NEW d \in Databases PROVE Linked(d)'
    <3> SUFFICES ASSUME NEW c \in children[d], c.to # NoRow
                 PROVE  parents[Other(d)][c.to] \in {NoRow, c.meant} /\ c.to <= seq'[Other(d)]
      BY <1>1 DEF Linked
    <3>1. Other(d) \in Databases /\ c.to \in Ids /\ c.meant # NoRow
      BY <1>0, Constants, ChildIs DEF RowsTyped
    <3>2. parents[Other(d)][c.to] = c.meant
      BY <2>4, <2>5, <3>1 DEF Closed, Replaced
    <3>3. c.to \in Present(parents'[Other(d)])
      BY <1>1, <3>1, <3>2, PresentIs
    <3>4. Numbered(Other(d))'
      BY <2>6, <3>1, Constants
    <3> QED BY <3>2, <3>3, <3>4 DEF Numbered
  <2>8. \A g \in Handlers : pc'[g] # "create"
    BY <1>0, <1>1, <2>1, <2>3 DEF Alongside, Finish, Goto, LocalTyped
  <2> QED BY <2>6, <2>7, <2>8, Constants DEF Good, Fresh
<1> QED BY <1>0, <1>2, <1>3, Constants

LEMMA NextKept ==
  ASSUME TypeOK, Kept, Exact, [Next]_vars
  PROVE  Kept'
<1>0. LocalTyped /\ db \in [Handlers -> Databases]
  BY Parts DEF LocalTyped
<1>1. CASE UNCHANGED vars
  BY <1>1 DEF vars, rows, local, Kept, Touched, Restoring, Good, Linked, Numbered, Fresh
<1>2. ASSUME NEW h \in Handlers,
             DrawId(h) \/ CommitCreate(h) \/ CreateChild(h) \/ DeleteProject(h) \/ DeleteCluster(h)
               \/ ResetSequences(h)
      PROVE  Kept'
  BY <1>2, DrawKept, CommitKept, RequestIsKept, ResetKept
<1>3. ASSUME NEW h \in Handlers, InsertRows(h) PROVE Kept'
  <2>1. pc'[h] = "sequences"
    BY <1>3, InsertIs
  <2> QED BY <2>1 DEF Kept, Touched
<1>4. ASSUME NEW h \in Handlers,
             CreateFails(h) \/ StartExport(h) \/ DumpTable(h) \/ StartRestore(h) \/ ClearChildren(h)
               \/ ClearParents(h)
      PROVE  Kept'
  <2>1. UNCHANGED <<parents, children, seq>> /\ (broken => broken')
    <3>1. UNCHANGED rows
      BY <1>4 DEF CreateFails, StartExport, DumpTable, StartRestore, ClearChildren, ClearParents
    <3>2. broken => broken'
      <4>1. CASE StartRestore(h)
        <5>1. PICK f \in files : broken' = (broken \/ ~ Closed(f))
          BY <4>1 DEF StartRestore
        <5> QED BY <5>1
      <4>2. CASE ~ StartRestore(h)
        BY <1>4, <4>2 DEF CreateFails, StartExport, DumpTable, ClearChildren, ClearParents
      <4> QED BY <4>1, <4>2
    <3> QED BY <3>1, <3>2 DEF rows
  <2>2. \A g \in Handlers \ {h} : drawn'[g] = drawn[g]
    BY <1>0, <1>4 DEF CreateFails, StartExport, DumpTable, StartRestore, ClearChildren, ClearParents, LocalTyped
  <2>3. pc'[h] # "create"
    <3>1. CASE DumpTable(h)
      <4>1. \E loc \in {"idle", "parents", "children"} : Goto(h, loc)
        BY <3>1, DumpIs
      <4> QED BY <1>0, <4>1 DEF Goto, LocalTyped
    <3>2. CASE ~ DumpTable(h)
      BY <1>0, <1>4, <3>2 DEF CreateFails, StartExport, StartRestore, ClearChildren, ClearParents, FirstTable, Goto, LocalTyped
    <3> QED BY <3>1, <3>2
  <2>4. (pc[h] \in {"idle", "parents", "children", "create"})
        \/ (UNCHANGED db /\ pc[h] \in {"clear", "replace"} /\ pc'[h] \in {"replace", "insert"})
    BY <1>0, <1>4 DEF CreateFails, StartExport, DumpTable, StartRestore, ClearChildren, ClearParents, Goto, LocalTyped
  <2>5. Touched(h) => Touched(h)'
    BY <2>4 DEF Touched, Restoring
  <2> QED BY <1>4, <2>1, <2>2, <2>3, <2>5, QuietKept, StepAlongside
<1>5. ASSUME NEW h \in Handlers, RestoreFails(h) \/ Crash(h) PROVE Kept'
  <2>1. UNCHANGED <<parents, children, seq>> /\ (broken => broken')
        /\ (UNCHANGED drawn \/ drawn' = [drawn EXCEPT ![h] = NoRow]) /\ Goto(h, "idle")
        /\ (~ broken' => ~ Touched(h))
    BY <1>5 DEF RestoreFails, Crash, Finish, rows, Touched, Restoring
  <2>2. pc'[h] # "create" /\ \A g \in Handlers \ {h} : drawn'[g] = drawn[g]
    BY <1>0, <2>1 DEF Goto, LocalTyped
  <2> QED BY <1>5, <2>1, <2>2, QuietKept, StepAlongside
<1> QED BY <1>1, <1>2, <1>3, <1>4, <1>5 DEF Next

LEMMA UsingIs ==
  ASSUME TypeOK, NEW h \in Handlers,
         DrawId(h) \/ CommitCreate(h) \/ CreateFails(h) \/ CreateChild(h) \/ DeleteProject(h)
           \/ DeleteCluster(h) \/ StartExport(h) \/ DumpTable(h) \/ ClearChildren(h)
           \/ ClearParents(h) \/ InsertRows(h) \/ RestoreFails(h) \/ ResetSequences(h) \/ Crash(h)
  PROVE  /\ broken => broken'
         /\ \A g \in Handlers \ {h} : using'[g] = using[g]
         /\ h \in Restoring' => h \in Restoring /\ using'[h] = using[h]
<1>0. LocalTyped /\ using \in [Handlers -> File] /\ db[h] \in Databases
  BY Parts DEF FilesTyped, LocalTyped
<1>1. CASE DrawId(h) \/ CommitCreate(h) \/ CreateFails(h) \/ CreateChild(h) \/ DeleteProject(h)
           \/ DeleteCluster(h) \/ StartExport(h)
  <2>1. UNCHANGED <<using, broken>>
    BY <1>1 DEF DrawId, CommitCreate, CreateFails, CreateChild, DeleteProject, DeleteCluster, StartExport
  <2>2. pc[h] \in {"idle", "create"} /\ (UNCHANGED pc \/ \E loc \in {"create", "idle", "parents"} : Goto(h, loc))
    BY <1>1 DEF DrawId, CommitCreate, CreateFails, CreateChild, DeleteProject, DeleteCluster, StartExport, Request,
                FirstTable
  <2>3. h \notin Restoring'
    BY <1>0, <2>2 DEF Goto, LocalTyped, Restoring
  <2> QED BY <2>1, <2>3
<1>2. CASE DumpTable(h)
  <2>1. UNCHANGED <<using, broken>> /\ \E loc \in {"idle", "parents", "children"} : Goto(h, loc)
    BY <1>2, DumpIs
  <2>2. h \notin Restoring'
    BY <1>0, <2>1 DEF Goto, LocalTyped, Restoring
  <2> QED BY <2>1, <2>2
<1>3. CASE ClearChildren(h) \/ ClearParents(h) \/ InsertRows(h)
  <2>1. UNCHANGED <<using, broken>> /\ pc[h] \in {"clear", "replace", "insert"}
    BY <1>3 DEF ClearChildren, ClearParents, InsertRows
  <2> QED BY <2>1 DEF Restoring
<1>4. ASSUME Finish(h), broken => broken'
      PROVE  /\ broken => broken'
             /\ \A g \in Handlers \ {h} : using'[g] = using[g]
             /\ h \in Restoring' => h \in Restoring /\ using'[h] = using[h]
  <2>1. h \notin Restoring'
    BY <1>0, <1>4 DEF Finish, Goto, LocalTyped, Restoring
  <2>2. \A g \in Handlers \ {h} : using'[g] = using[g]
    BY <1>0, <1>4 DEF Finish
  <2> QED BY <1>4, <2>1, <2>2
<1>5. CASE RestoreFails(h) \/ Crash(h)
  BY <1>4, <1>5 DEF RestoreFails, Crash
<1>6. CASE ResetSequences(h)
  <2>1. CASE db[h] = Billing
    <3>1. UNCHANGED <<using, broken>> /\ pc[h] = "sequences"
      BY <1>6, <2>1 DEF ResetSequences
    <3> QED BY <3>1 DEF Restoring
  <2>2. CASE db[h] # Billing
    <3>1. Finish(h) /\ (broken => broken')
      BY <1>6, <2>2 DEF ResetSequences
    <3> QED BY <1>4, <3>1
  <2> QED BY <2>1, <2>2
<1> QED BY <1>1, <1>2, <1>3, <1>5, <1>6

LEMMA NextUsable ==
  ASSUME TypeOK, Exact, [Next]_vars
  PROVE  \A g \in Handlers : Usable(g)'
<1>0. using \in [Handlers -> File] /\ LocalTyped
  BY Parts DEF FilesTyped
<1>1. CASE UNCHANGED vars
  BY <1>1 DEF vars, local, Exact, Usable, Restoring, Closed
<1>2. ASSUME NEW h \in Handlers, NEW g \in Handlers, broken => broken',
             g \in Restoring' => g \in Restoring /\ using'[g] = using[g]
      PROVE  Usable(g)'
  BY <1>2 DEF Exact, Usable, Closed
<1>3. ASSUME NEW h \in Handlers, StartRestore(h) PROVE \A g \in Handlers : Usable(g)'
  <2>1. PICK f \in files : using' = [using EXCEPT ![h] = f] /\ broken' = (broken \/ ~ Closed(f))
    BY <1>3 DEF StartRestore
  <2>2. Usable(h)'
    <3>1. using'[h] = f
      BY <1>0, <2>1
    <3> QED BY <2>1, <3>1 DEF Usable, Closed
  <2>3. \A g \in Handlers \ {h} : g \in Restoring' => g \in Restoring /\ using'[g] = using[g]
    BY <1>0, <1>3, <2>1, StepAlongside DEF Alongside, Restoring
  <2> QED BY <1>2, <2>1, <2>2, <2>3
<1>4. ASSUME NEW h \in Handlers,
             DrawId(h) \/ CommitCreate(h) \/ CreateFails(h) \/ CreateChild(h) \/ DeleteProject(h)
           \/ DeleteCluster(h) \/ StartExport(h) \/ DumpTable(h) \/ ClearChildren(h)
           \/ ClearParents(h) \/ InsertRows(h) \/ RestoreFails(h) \/ ResetSequences(h) \/ Crash(h)
      PROVE  \A g \in Handlers : Usable(g)'
  <2>1. /\ broken => broken'
        /\ \A g \in Handlers \ {h} : using'[g] = using[g]
        /\ h \in Restoring' => h \in Restoring /\ using'[h] = using[h]
    BY <1>4, UsingIs
  <2>2. \A g \in Handlers \ {h} : g \in Restoring' => g \in Restoring
    BY <1>4, StepAlongside DEF Alongside, Restoring
  <2>3. ASSUME NEW g \in Handlers PROVE Usable(g)'
    <3>1. g \in Restoring' => g \in Restoring /\ using'[g] = using[g]
      BY <2>1, <2>2
    <3> QED BY <1>2, <2>1, <3>1
  <2> QED BY <2>3
<1> QED BY <1>1, <1>3, <1>4 DEF Next

(* A commit, a new row or a new restore overlaps the restores that run.      *)
LEMMA OthersRaced ==
  ASSUME NEW h \in Handlers, Alongside(h), Restoring \ {h} \subseteq raced'
  PROVE  \A g \in Handlers \ {h} : Alone(g)'
BY DEF Alongside, Alone, Restoring

(* A restore that goes on had company if another is to go on too.            *)
LEMMA OthersHadCompany ==
  ASSUME Exact, NEW h \in Restoring, Alongside(h), raced \ {h} \subseteq raced'
  PROVE  \A g \in Handlers \ {h} : Alone(g)'
BY DEF Alongside, Exact, Alone, Restoring

LEMMA AsideAlone ==
  ASSUME Exact, NEW h \in Handlers, Alongside(h), h \notin Restoring, h \notin Restoring', pc'[h] # "create",
         UNCHANGED <<rows, doomed>>, \A g \in Handlers \ {h} : using'[g] = using[g], raced \ {h} \subseteq raced'
  PROVE  \A g \in Handlers : Alone(g)'
<1>1. Restoring' = Restoring
  BY DEF Alongside, Restoring
<1>2. ASSUME NEW g \in Handlers \ {h} PROVE Alone(g)'
  <2>1. Alone(g) /\ pc'[g] = pc[g] /\ db'[g] = db[g] /\ using'[g] = using[g] /\ doomed'[g] = doomed[g]
    BY DEF Exact, Alongside
  <2>2. (\A k \in Handlers : pc[k] # "create") => \A k \in Handlers : pc'[k] # "create"
    BY DEF Alongside
  <2> QED BY <1>1, <2>1, <2>2 DEF Alone, Replaced, Numbered, rows
<1>3. Alone(h)'
  BY DEF Alone
<1> QED BY <1>2, <1>3

(* The restore itself goes on.                                               *)
LEMMA ClearAlone ==
  ASSUME TypeOK, Exact, NEW h \in Handlers, ClearChildren(h) \/ ClearParents(h)
  PROVE  \A g \in Handlers : Alone(g)'
<1>0. LocalTyped
  BY Parts
<1>1. /\ h \in Restoring /\ Alongside(h) /\ UNCHANGED <<rows, db, using, raced>>
      /\ \/ pc'[h] = "replace"
         \/ pc'[h] = "insert" /\ doomed'[h] = Present(parents[db[h]])
  <2>1. CASE ClearChildren(h)
    BY <1>0, <2>1, StepAlongside DEF ClearChildren, Restoring, Goto, LocalTyped
  <2>2. CASE ClearParents(h)
    BY <1>0, <2>2, StepAlongside DEF ClearParents, Restoring, Goto, LocalTyped, RowsOfTable
  <2> QED BY <2>1, <2>2
<1>2. Restoring' = Restoring
  BY <1>1 DEF Alongside, Restoring
<1>3. Alone(h)'
  <2>1. Alone(h)
    BY DEF Exact
  <2>2. (\A k \in Handlers : pc[k] # "create") => \A k \in Handlers : pc'[k] # "create"
    BY <1>1 DEF Alongside
  <2> QED BY <1>1, <1>2, <2>1, <2>2 DEF Alone, Replaced, Numbered, rows
<1> QED BY <1>1, <1>3, OthersHadCompany

LEMMA InsertAlone ==
  ASSUME TypeOK, Consistent, Exact, NEW h \in Handlers, InsertRows(h)
  PROVE  \A g \in Handlers : Alone(g)'
<1> DEFINE d == db[h]
<1>0. RowsTyped
  BY Parts
<1>1. /\ d \in Databases
      /\ pc[h] = "insert" /\ pc'[h] = "sequences"
      /\ \A n \in Ids : parents'[d][n] = IF using[h].parents[d][n] # NoRow THEN using[h].parents[d][n]
                                            ELSE IF n \in doomed[h] THEN NoRow ELSE parents[d][n]
      /\ parents'[d] \in Rows /\ parents'[Other(d)] = parents[Other(d)]
      /\ children'[d] = Survivors(h) \cup using[h].children[d] /\ children'[Other(d)] = children[Other(d)]
      /\ using[h].parents[d] \in Rows
      /\ UNCHANGED <<seq, db, using, doomed>>
      /\ Committed(h, d, Present(using[h].parents[d])) /\ Alongside(h)
  BY InsertIs, StepAlongside
<1>2. raced' = raced \cup (Restoring \ {h}) /\ h \in Restoring
  BY <1>1 DEF Committed, Restoring
<1>3. Restoring' = Restoring
  BY <1>1 DEF Alongside, Restoring
<1>4. ASSUME h \notin raced' PROVE Alone(h)'
  <2>1. /\ Restoring = {h} /\ \A g \in Handlers : pc[g] # "create"
        /\ doomed[h] = Present(parents[d])
        /\ d = Operations => Replaced(h, Billing) /\ Numbered(Billing)
    BY <1>1, <1>2, <1>4 DEF Exact, Alone
  <2>2. \A n \in Ids : parents'[d][n] = using[h].parents[d][n]
    BY <1>1, <2>1, PresentIs
  <2>3. parents'[d] = using[h].parents[d]
    BY <1>1, <2>2 DEF Rows
  <2>4. children'[d] = using[h].children[d]
    BY <1>1 DEF Consistent, Inserting
  <2>5. \A g \in Handlers : pc'[g] # "create"
    BY <1>1, <2>1 DEF Alongside
  <2>6. Replaced(h, d)'
    BY <1>1, <2>3, <2>4 DEF Replaced
  <2>7. d = Operations => (Replaced(h, Billing) /\ Numbered(Billing))'
    BY <1>1, <2>1, Constants DEF Replaced, Numbered
  <2> QED BY <1>1, <1>3, <2>1, <2>5, <2>6, <2>7 DEF Alone
<1>5. Alone(h)'
  BY <1>4 DEF Alone
<1> QED BY <1>1, <1>2, <1>5, OthersRaced

LEMMA ResetAlone ==
  ASSUME TypeOK, Exact, NEW h \in Handlers, ResetSequences(h)
  PROVE  \A g \in Handlers : Alone(g)'
<1>0. LocalTyped /\ RowsTyped /\ db[h] \in Databases
  BY Parts DEF LocalTyped
<1>1. /\ pc[h] = "sequences" /\ h \in Restoring /\ Alongside(h) /\ UNCHANGED <<parents, children>>
      /\ seq' = [seq EXCEPT ![db[h]] = HighestId(db[h])]
  BY StepAlongside DEF ResetSequences, Restoring
<1>2. CASE db[h] = Billing
  <2>1. UNCHANGED <<using, raced>> /\ pc'[h] = "clear" /\ db'[h] = Operations
    BY <1>0, <1>2 DEF ResetSequences, Goto, LocalTyped
  <2>2. Restoring' = Restoring
    BY <1>1, <2>1 DEF Alongside, Restoring
  <2>3. Alone(h)'
    <3> SUFFICES ASSUME h \notin raced PROVE Alone(h)'
      BY <2>1 DEF Alone
    <3>1. Restoring = {h} /\ (\A g \in Handlers : pc[g] # "create") /\ Replaced(h, Billing)
      BY <1>1, <1>2 DEF Exact, Alone
    <3>2. \A g \in Handlers : pc'[g] # "create"
      BY <1>1, <2>1, <3>1 DEF Alongside
    <3>3. seq'[Billing] = HighestId(Billing)
      BY <1>0, <1>1, <1>2 DEF RowsTyped
    <3>4. Replaced(h, Billing)' /\ Numbered(Billing)'
      BY <1>1, <2>1, <3>1, <3>3, HighestIsGreatest DEF Replaced, Numbered
    <3> QED BY <2>1, <2>2, <3>1, <3>2, <3>4 DEF Alone
  <2> QED BY <1>1, <2>1, <2>3, OthersHadCompany
<1>3. CASE db[h] # Billing
  <2>1. Finish(h) /\ raced' = raced \ {h}
    BY <1>3 DEF ResetSequences
  <2>2. h \notin Restoring'
    BY <1>0, <2>1 DEF Finish, Goto, LocalTyped, Restoring
  <2> QED BY <1>1, <2>1, <2>2, OthersHadCompany DEF Alone
<1> QED BY <1>2, <1>3

LEMMA StartAlone ==
  ASSUME TypeOK, Exact, NEW h \in Handlers, StartRestore(h)
  PROVE  \A g \in Handlers : Alone(g)'
<1>0. LocalTyped
  BY Parts
<1>1. /\ pc'[h] = "clear" /\ db'[h] = Billing /\ pc[h] = "idle" /\ Alongside(h)
      /\ raced' = IF Restoring # {} \/ \E g \in Handlers : pc[g] = "create"
                  THEN raced \cup Restoring \cup {h} ELSE raced
  BY <1>0, StepAlongside DEF StartRestore, Goto, LocalTyped
<1>2. CASE Restoring # {} \/ \E g \in Handlers : pc[g] = "create"
  <2>1. raced' = raced \cup Restoring \cup {h}
    BY <1>1, <1>2
  <2> QED BY <1>1, <2>1, OthersRaced DEF Alone
<1>3. CASE Restoring = {} /\ \A g \in Handlers : pc[g] # "create"
  <2>1. Restoring' = {h}
    BY <1>1, <1>3 DEF Alongside, Restoring
  <2>2. \A g \in Handlers : pc'[g] # "create"
    BY <1>1, <1>3 DEF Alongside
  <2>3. Alone(h)'
    BY <1>1, <2>1, <2>2, Constants DEF Alone
  <2> QED BY <2>1, <2>3 DEF Alone
<1> QED BY <1>2, <1>3

LEMMA NextExact ==
  ASSUME TypeOK, Consistent, Exact, [Next]_vars
  PROVE  Exact'
<1>0. LocalTyped /\ using \in [Handlers -> File]
  BY Parts DEF FilesTyped
<1>1. CASE UNCHANGED vars
  BY <1>1, NextUsable DEF vars, rows, local, Exact, Alone, Restoring, Replaced, Numbered
<1>2. ASSUME NEW h \in Handlers, ClearChildren(h) \/ ClearParents(h) \/ InsertRows(h) \/ ResetSequences(h) \/ StartRestore(h)
      PROVE  \A g \in Handlers : Alone(g)'
  BY <1>2, ClearAlone, InsertAlone, ResetAlone, StartAlone
<1>3. ASSUME NEW h \in Handlers,
             DrawId(h) \/ CommitCreate(h) \/ CreateChild(h) \/ DeleteProject(h) \/ DeleteCluster(h)
      PROVE  \A g \in Handlers : Alone(g)'
  <2>1. Restoring \ {h} \subseteq raced'
    BY <1>3 DEF DrawId, CommitCreate, CreateChild, DeleteProject, DeleteCluster, Committed
  <2>2. pc[h] \in {"idle", "create"} /\ (UNCHANGED pc \/ \E loc \in {"create", "idle"} : Goto(h, loc))
    BY <1>3 DEF DrawId, CommitCreate, CreateChild, DeleteProject, DeleteCluster, Request
  <2>3. h \notin Restoring'
    BY <1>0, <2>2 DEF Goto, LocalTyped, Restoring
  <2> QED BY <1>3, <2>1, <2>3, OthersRaced, StepAlongside DEF Alone
<1>4. ASSUME NEW h \in Handlers, CreateFails(h) \/ StartExport(h) \/ DumpTable(h)
      PROVE  \A g \in Handlers : Alone(g)'
  <2>1. UNCHANGED <<rows, using, doomed, raced>>
    BY <1>4 DEF CreateFails, StartExport, DumpTable
  <2>2. pc[h] \in {"idle", "create", "parents", "children"}
    BY <1>4 DEF CreateFails, StartExport, DumpTable
  <2>3. \E loc \in {"idle", "parents", "children"} : Goto(h, loc)
    BY <1>4, DumpIs DEF CreateFails, StartExport, FirstTable
  <2>4. h \notin Restoring /\ h \notin Restoring' /\ pc'[h] # "create"
    BY <1>0, <2>2, <2>3 DEF Goto, LocalTyped, Restoring
  <2> QED BY <1>4, <2>1, <2>4, AsideAlone, StepAlongside
<1>5. ASSUME NEW h \in Handlers, RestoreFails(h) \/ Crash(h) PROVE \A g \in Handlers : Alone(g)'
  <2>1. Finish(h) /\ raced' = raced \ {h} /\ UNCHANGED rows
    BY <1>5 DEF RestoreFails, Crash
  <2>2. pc'[h] = "idle" /\ \A g \in Handlers \ {h} : using'[g] = using[g]
    BY <1>0, <2>1 DEF Finish, Goto, LocalTyped
  <2>3. h \notin Restoring' /\ Alongside(h)
    BY <1>5, <2>2, StepAlongside DEF Restoring
  <2>4. CASE h \in Restoring
    BY <2>1, <2>3, <2>4, OthersHadCompany DEF Alone
  <2>5. CASE h \notin Restoring
    <3>1. ASSUME NEW g \in Handlers \ {h} PROVE Alone(g)'
      <4>1. Restoring' = Restoring
        BY <2>3, <2>5 DEF Alongside, Restoring
      <4>2. Alone(g) /\ pc'[g] = pc[g] /\ db'[g] = db[g] /\ using'[g] = using[g] /\ doomed'[g] = doomed[g]
        BY <1>0, <2>1, <2>2, <2>3 DEF Exact, Alongside, Finish, LocalTyped
      <4>3. (\A k \in Handlers : pc[k] # "create") => \A k \in Handlers : pc'[k] # "create"
        BY <2>2, <2>3 DEF Alongside
      <4> QED BY <2>1, <4>1, <4>2, <4>3 DEF Alone, Replaced, Numbered, rows
    <3> QED BY <2>3, <3>1 DEF Alone
  <2> QED BY <2>4, <2>5
<1>6. CASE Next
  <2>1. \A g \in Handlers : Alone(g)'
    BY <1>2, <1>3, <1>4, <1>5, <1>6 DEF Next
  <2> QED BY <1>6, <2>1, NextUsable DEF Exact
<1> QED BY <1>1, <1>6

Safe == TypeOK /\ Drawing /\ Consistent /\ Kept /\ Exact

LEMMA SafeHolds == Spec => []Safe
<1>1. Init => Safe
  BY InitTyped, InitConsistent, InitKept DEF Safe
<1>2. Safe /\ [Next]_vars => Safe'
  BY NextTyped, NextConsistent, NextKept, NextExact DEF Safe
<1> QED BY <1>1, <1>2, PTL DEF Spec

(* The integers that link the two databases keep their meaning               *)
(* (backup_restore.py 29-31), for any number of overlapping requests,        *)
(* exports, restores and crashes, as long as only closed files were restored *)
(* and no restore was cut short between its commits or overlapped: while no  *)
(* restore has touched the rows, every id a child names has been drawn and   *)
(* belongs to nobody else; after one that nobody overlapped, the rows are    *)
(* those of the closed file and the sequences are at their highest ids.      *)
THEOREM LinksKeep == Spec => []LinksKeepTheirMeaning
<1>1. ASSUME Safe PROVE LinksKeepTheirMeaning
  <2>1. Restoring = {} => \A h \in Handlers : ~ Touched(h)
    BY DEF Touched, Restoring
  <2>2. Restoring = {} /\ ~ broken => Good
    BY <1>1, <2>1 DEF Safe, Kept
  <2> QED BY <2>2 DEF LinksKeepTheirMeaning, Good, Linked
<1> QED BY <1>1, SafeHolds, PTL

(* The INSERT of a project or a cluster is refused for an id that is taken   *)
(* only while a restore is running or after one that went wrong: until then  *)
(* the id that each handler has drawn is free (Fresh).                       *)
THEOREM DrawnIdsAreFree == Spec => NewIdsAreFree
<1>1. ASSUME Safe, [Next]_vars
      PROVE  [\A h \in Handlers : CreateFails(h) => Restoring # {} \/ broken]_vars
  <2>1. ASSUME NEW h \in Handlers, CreateFails(h), Restoring = {}, ~ broken PROVE FALSE
    <3>1. \A g \in Handlers : ~ Touched(g)
      BY <2>1 DEF Touched, Restoring
    <3>2. Fresh(h)
      BY <1>1, <2>1, <3>1 DEF Safe, Kept, Good
    <3> QED BY <2>1, <3>2 DEF Fresh, CreateFails
  <2> QED BY <2>1
<1> QED BY <1>1, SafeHolds, PTL DEF Spec, NewIdsAreFree

(* A restore that succeeds and that nobody overlapped leaves exactly what is *)
(* in the file, in both databases: nothing survives the DELETEs, and the     *)
(* Billing DB stays as it was restored while the Operations DB is.           *)
THEOREM RestoresAreExact == Spec => RestoreIsExact
<1>1. ASSUME Safe, [Next]_vars
      PROVE  [\A h \in Handlers :
                pc[h] = "sequences" /\ db[h] = Operations /\ h \notin raced /\ ResetSequences(h) =>
                  parents' = using[h].parents /\ children' = using[h].children]_vars
  <2>1. ASSUME NEW h \in Handlers,
               pc[h] = "sequences", db[h] = Operations, h \notin raced, ResetSequences(h)
        PROVE  parents' = using[h].parents /\ children' = using[h].children
    <3>1. UNCHANGED <<parents, children>> /\ h \in Restoring
      BY <2>1 DEF ResetSequences, Restoring
    <3>2. Replaced(h, Operations) /\ Replaced(h, Billing)
      BY <1>1, <2>1, <3>1 DEF Safe, Exact, Alone
    <3>3. RowsTyped /\ using[h] \in File
      BY <1>1, Parts DEF Safe, FilesTyped
    <3>4. /\ parents \in [Databases -> Rows] /\ using[h].parents \in [Databases -> Rows]
          /\ children \in [Databases -> SUBSET Child] /\ using[h].children \in [Databases -> SUBSET Child]
      BY <3>3 DEF RowsTyped, File
    <3>5. \A d \in Databases : parents[d] = using[h].parents[d] /\ children[d] = using[h].children[d]
      BY <3>2, Constants DEF Replaced
    <3> HIDE DEF Rows, Child
    <3> QED BY <3>1, <3>4, <3>5
  <2> QED BY <2>1
<1> QED BY <1>1, SafeHolds, PTL DEF Spec, RestoreIsExact
=============================================================================
