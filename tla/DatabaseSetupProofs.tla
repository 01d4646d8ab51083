------------------------ MODULE DatabaseSetupProofs ------------------------
(***************************************************************************)
(* What holds of DatabaseSetup for any handlers, e-mails and tenants, any  *)
(* number of requests, crashes and restarts.                               *)
(***************************************************************************)
EXTENDS DatabaseSetup, WellFoundedInduction, TLAPS

-----------------------------------------------------------------------------
(* The greatest id of a table                                               *)

Less == {ab \in Nat \X Nat : ab[1] < ab[2]}

LEMMA LeastExists ==
  ASSUME NEW P, P \subseteq Nat, P # {}
  PROVE  \E p \in P : \A q \in P : p <= q
<1>1. \A a, b \in Nat : <<a, b>> \in Less <=> a < b
  BY DEF Less
<1>2. OpToRel(<, Nat) = Less
  BY Zenon DEF OpToRel, Less
<1>3. IsWellFoundedOn(Less, Nat)
  BY <1>2, NatLessThanWellFounded, Zenon
<1>4. PICK p \in P : \A q \in P : ~ (<<q, p>> \in Less)
  BY <1>3, WFMin, Zenon
<1>5. ASSUME NEW q \in P PROVE p <= q
  <2>1. ~ (q < p)
    BY <1>1, <1>4
  <2> QED BY <2>1
<1> QED BY <1>4, <1>5

LEMMA MaxIsGreatest ==
  ASSUME NEW P \in SUBSET (0 .. MaxId), P # {}
  PROVE  Max(P) \in P /\ \A q \in P : q <= Max(P)
<1> DEFINE Above == {MaxId - p : p \in P}
<1>1. Above \subseteq Nat /\ Above # {}
  BY BoundsAssumption
<1>2. PICK a \in Above : \A b \in Above : a <= b
  BY <1>1, LeastExists
<1>3. PICK p \in P : a = MaxId - p
  OBVIOUS
<1>4. \A q \in P : p >= q
  <2> SUFFICES ASSUME NEW q \in P PROVE p >= q
    OBVIOUS
  <2>1. MaxId - p <= MaxId - q
    BY <1>2, <1>3
  <2> QED BY <2>1, BoundsAssumption
<1>5. \E m \in P : \A q \in P : m >= q
  BY <1>4
<1>6. Max(P) \in P /\ \A q \in P : Max(P) >= q
  BY <1>5 DEF Max
<1> QED BY <1>6, BoundsAssumption

(* setval leaves the sequence at an id the table has, and none is greater. *)
LEMMA LastIdIsGreatest ==
  ASSUME NEW rows, \A r \in rows : r.id \in Ids
  PROVE  /\ LastId(rows) \in 0 .. MaxId
         /\ \A r \in rows : r.id <= LastId(rows)
<1> DEFINE P == {0} \cup {r.id : r \in rows}
<1>1. P \in SUBSET (0 .. MaxId) /\ P # {}
  BY BoundsAssumption DEF Ids
<1>2. Max(P) \in P /\ \A q \in P : q <= Max(P)
  BY <1>1, MaxIsGreatest
<1> QED BY <1>1, <1>2 DEF LastId

-----------------------------------------------------------------------------
(* Types                                                                    *)

StoreTyped ==
  /\ db \in [Databases -> Content] /\ conn \in Databases /\ migrated \in BOOLEAN
  /\ owner \in [id : 0 .. MaxId, born : 0 .. MaxBorn]

LocalTyped ==
  /\ pc \in [Actors -> Phases]
  /\ who \in [Handlers -> 0 .. MaxId]
  /\ email \in [Handlers -> Logins \cup {DEFAULT_ADMIN_EMAIL, None}]
  /\ role \in [Handlers -> {"admin", "user"}]
  /\ tenant \in [Handlers -> Tenants \cup {None}]
  /\ doomed \in [Handlers -> SUBSET Ids] /\ copy \in [Handlers -> Rows]

BoundsTyped ==
  /\ born \in 0 .. MaxBorn /\ requests \in 0 .. MaxRequests /\ crashes \in 0 .. MaxCrashes
  /\ excuse \in BOOLEAN /\ owed \in BOOLEAN

WatchTyped == stayed \in [Handlers -> Rows] /\ met \in [Handlers -> Rows]

(* What a request holds that it is going to write. *)
WritesOf(h) ==
  /\ pc[h] = "create user" =>
       /\ email[h] \in Logins \cup {DEFAULT_ADMIN_EMAIL}
       /\ role[h] = "admin" => tenant[h] = None
       /\ role[h] # "admin" => tenant[h] # None
  /\ pc[h] = "create tenant" => tenant[h] \in Tenants

Writes == \A h \in Handlers : WritesOf(h)

LEMMA HandlersAct == Handlers \subseteq Actors
BY DEF Actors

LEMMA Parts == TypeOK <=> StoreTyped /\ LocalTyped /\ BoundsTyped /\ WatchTyped
BY DEF TypeOK, StoreTyped, LocalTyped, BoundsTyped, WatchTyped

LEMMA PartsNext == TypeOK' <=> StoreTyped' /\ LocalTyped' /\ BoundsTyped' /\ WatchTyped'
BY DEF TypeOK, StoreTyped, LocalTyped, BoundsTyped, WatchTyped

LEMMA Numbers ==
  /\ 0 \in 0 .. MaxId /\ 1 \in 0 .. MaxId /\ 0 \in 0 .. MaxBorn /\ 1 \in 0 .. MaxBorn
  /\ 0 \in 0 .. MaxRequests /\ 0 \in 0 .. MaxCrashes
  /\ 1 \in Ids /\ Ids \subseteq 0 .. MaxId
BY BoundsAssumption DEF Ids

LEMMA NoRowsTyped == NoRows \in Rows
BY DEF NoRows, Rows

LEMMA BlankTyped == Blank \in Content
BY NoRowsTyped, BoundsAssumption DEF Blank, Content

LEMMA RowsTyped ==
  ASSUME StoreTyped
  PROVE  /\ db[conn] \in Content /\ db[conn].rows \in Rows
         /\ Users \subseteq Account /\ Projects \subseteq Project /\ Open \subseteq Tenants
         /\ db[External] \in Content /\ db[External].rows \in Rows
BY DEF StoreTyped, Content, Rows, Users, Projects, Open, Databases

LEMMA DefaultAdminTyped ==
  ASSUME NEW n \in Ids
  PROVE  DefaultAdmin(n) \in Account
BY DEF DefaultAdmin, Account

LEMMA InitTyped == Init => TypeOK /\ Writes
<1> SUFFICES ASSUME Init PROVE TypeOK /\ Writes
  OBVIOUS
<1>1. 1 \in Ids
  BY BoundsAssumption DEF Ids
<1>2. StoreTyped
  <2>1. PICK ts \in SUBSET Tenants, more \in {{}} \cup {{u} : u \in Account} :
          /\ \A u \in more : u.id = 2
          /\ db = [d \in Databases |-> IF d = External THEN Blank ELSE
                    [schema |-> TRUE, lastUser |-> IF more = {} THEN 1 ELSE 2, lastProject |-> 1,
                     rows |-> [tenants |-> ts, projects |-> {[id |-> 1, born |-> 1]},
                               users |-> {DefaultAdmin(1)} \cup more]]]
    BY DEF Init
  <2>2. more # {} => 2 \in 0 .. MaxId
    BY <2>1, BoundsAssumption DEF Account, Ids
  <2>3. more \subseteq Account
    OBVIOUS
  <2>4. [tenants |-> ts, projects |-> {[id |-> 1, born |-> 1]}, users |-> {DefaultAdmin(1)} \cup more]
          \in Rows
    BY <1>1, <2>3, DefaultAdminTyped, BoundsAssumption DEF Rows, Project
  <2>5. db \in [Databases -> Content]
    BY <2>1, <2>2, <2>4, BlankTyped, BoundsAssumption DEF Content
  <2>6. conn = Local /\ migrated = FALSE /\ owner = [id |-> 1, born |-> 1]
    BY DEF Init
  <2> QED BY <2>5, <2>6, Numbers DEF StoreTyped, Databases
<1>3. LocalTyped /\ Writes
  BY NoRowsTyped, BoundsAssumption DEF Init, LocalTyped, Writes, WritesOf, Actors, Processes, Api, Collector, Phases
<1>4. BoundsTyped /\ WatchTyped
  <2>1. /\ born = 1 /\ requests = 0 /\ crashes = 0 /\ excuse = FALSE /\ owed = FALSE
        /\ stayed = [h \in Handlers |-> NoRows] /\ met = [h \in Handlers |-> NoRows]
    BY DEF Init
  <2> QED BY <2>1, NoRowsTyped, Numbers DEF BoundsTyped, WatchTyped
<1> QED BY <1>2, <1>3, <1>4, Parts

LEMMA GotoTyped ==
  ASSUME LocalTyped, NEW x \in Actors, NEW phase \in Phases, Goto(x, phase)
  PROVE  pc' \in [Actors -> Phases] /\ pc' = [pc EXCEPT ![x] = phase]
BY DEF LocalTyped, Goto

LEMMA OthersWrite ==
  ASSUME LocalTyped, Writes, NEW h \in Handlers, NEW phase, pc' = [pc EXCEPT ![h] = phase],
         \A g \in Handlers \ {h} : email'[g] = email[g] /\ role'[g] = role[g] /\ tenant'[g] = tenant[g],
         WritesOf(h)'
  PROVE  Writes'
<1>1. ASSUME NEW g \in Handlers \ {h} PROVE WritesOf(g)'
  <2>1. pc'[g] = pc[g] /\ email'[g] = email[g] /\ role'[g] = role[g] /\ tenant'[g] = tenant[g]
    BY HandlersAct DEF LocalTyped
  <2> QED BY <2>1 DEF Writes, WritesOf
<1> QED BY <1>1 DEF Writes

(* A handler that forgets what it read owes nothing. *)
LEMMA ForgetTyped ==
  ASSUME LocalTyped, Writes, NEW h \in Handlers, NEW phase \in {"idle", "recompute"},
         Goto(h, phase), Forget(h)
  PROVE  LocalTyped' /\ Writes'
<1>1. pc' \in [Actors -> Phases] /\ h \in Actors
  BY GotoTyped DEF Actors, Phases
<1>2. LocalTyped'
  BY <1>1, NoRowsTyped, Numbers DEF LocalTyped, Forget
<1>3. Writes'
  BY <1>1, HandlersAct, OthersWrite DEF WritesOf, Forget, Goto, LocalTyped
<1> QED BY <1>2, <1>3

LEMMA StillTyped ==
  ASSUME LocalTyped, Writes, NEW x \in Actors,
         NEW phase \in Phases \ {"create user", "create tenant"}, Goto(x, phase),
         UNCHANGED <<who, email, role, tenant, doomed, copy>>
  PROVE  LocalTyped' /\ Writes'
<1>1. pc' \in [Actors -> Phases] /\ pc' = [pc EXCEPT ![x] = phase]
  BY GotoTyped
<1>2. LocalTyped'
  BY <1>1 DEF LocalTyped
<1>3. Writes'
  BY <1>1, HandlersAct DEF LocalTyped, Writes, WritesOf
<1> QED BY <1>2, <1>3

LEMMA ForgetAllTyped ==
  ASSUME LocalTyped, ForgetAll, pc' \in [Actors -> Phases], \A h \in Handlers : pc'[h] = "idle"
  PROVE  LocalTyped' /\ Writes' /\ WatchTyped'
BY NoRowsTyped, Numbers DEF ForgetAll, LocalTyped, Writes, WritesOf, WatchTyped

LEMMA WatchingTyped ==
  ASSUME conn \in Databases, db' \in [Databases -> Content], WatchTyped, Watch
  PROVE  WatchTyped'
<1>1. db'[conn].rows \in Rows
  BY DEF Content
<1>2. \A r \in Rows : /\ [t \in Tables |-> r[t] \cap db'[conn].rows[t]] \in Rows
                      /\ [t \in Tables |-> r[t] \cup db'[conn].rows[t]] \in Rows
  BY <1>1 DEF Rows, Tables
<1> QED BY <1>2, NoRowsTyped DEF WatchTyped, Watch

LEMMA AuthoriseTyped ==
  ASSUME TypeOK, NEW h \in Handlers, NEW a \in Users, NEW phase \in Phases, Authorise(h, a, phase)
  PROVE  /\ h \in Actors /\ pc' \in [Actors -> Phases] /\ pc' = [pc EXCEPT ![h] = phase] /\ pc'[h] = phase
         /\ who' \in [Handlers -> 0 .. MaxId] /\ BoundsTyped' /\ WatchTyped'
         /\ UNCHANGED <<conn, migrated, owner, copy, stayed, met>>
<1>1. LocalTyped /\ BoundsTyped /\ WatchTyped /\ a.id \in 0 .. MaxId /\ h \in Actors
  BY Parts, RowsTyped, Numbers DEF Account, Actors
<1>2. Goto(h, phase) /\ UNCHANGED <<conn, migrated, owner, copy, born, crashes, history, watch>>
      /\ requests < MaxRequests /\ requests' = requests + 1 /\ who' = [who EXCEPT ![h] = a.id]
  BY DEF Authorise
<1>3. requests' \in 0 .. MaxRequests
  BY <1>1, <1>2, BoundsAssumption DEF BoundsTyped
<1> QED BY <1>1, <1>2, <1>3, GotoTyped DEF LocalTyped, BoundsTyped, WatchTyped, history, watch

(* The phases in which a request has something to write. *)
LEMMA RequestTyped ==
  ASSUME TypeOK, Writes, NEW h \in Handlers,
         CreateUser(h) \/ UpdateUser(h) \/ DeleteUser(h) \/ CreateTenant(h) \/ DeleteTenant(h)
           \/ CreateProject(h) \/ Wipe(h) \/ Migrate(h)
  PROVE  TypeOK' /\ Writes'
<1>0. StoreTyped /\ LocalTyped /\ BoundsTyped /\ WatchTyped
  BY Parts
<1> DEFINE Done == TypeOK' /\ Writes'
<1>1. ASSUME CreateUser(h) PROVE Done
  <2>1. PICK a \in Users, e \in Logins \cup {DEFAULT_ADMIN_EMAIL}, r \in {"admin", "user"},
             t \in Open \cup {None} :
          /\ r = "admin" <=> t = None
          /\ email' = [email EXCEPT ![h] = e] /\ role' = [role EXCEPT ![h] = r]
          /\ tenant' = [tenant EXCEPT ![h] = t]
          /\ Authorise(h, a, "create user") /\ UNCHANGED <<db, doomed>>
    BY <1>1 DEF CreateUser
  <2>2. "create user" \in Phases
    BY DEF Phases, Deciding
  <2>3. t \in Tenants \cup {None}
    BY <1>0, RowsTyped
  <2>4. LocalTyped'
    BY <1>0, <2>1, <2>2, <2>3, AuthoriseTyped DEF LocalTyped
  <2>7. pc'[h] = "create user"
    BY <2>1, <2>2, AuthoriseTyped
  <2>6. WritesOf(h)'
    BY <1>0, <2>1, <2>7, RowsTyped, BoundsAssumption DEF LocalTyped, WritesOf
  <2>5. Writes'
    BY <1>0, <2>1, <2>2, <2>3, AuthoriseTyped, OthersWrite, <2>6 DEF LocalTyped
  <2> QED BY <1>0, <2>1, <2>2, <2>4, <2>5, AuthoriseTyped, PartsNext DEF StoreTyped
<1>2. ASSUME UpdateUser(h) \/ DeleteTenant(h) PROVE Done
  <2>1. PICK a \in Users, t \in Open, ids \in SUBSET Ids, phase \in {"update user", "delete tenant"} :
          /\ tenant' = [tenant EXCEPT ![h] = t] /\ doomed' = [doomed EXCEPT ![h] = ids]
          /\ Authorise(h, a, phase) /\ UNCHANGED <<db, email, role>>
    <3>1. \A u \in Users : u.id \in Ids
      BY <1>0, RowsTyped DEF Account
    <3>2. CASE UpdateUser(h)
      BY <3>1, <3>2 DEF UpdateUser
    <3>3. CASE DeleteTenant(h)
      <4>1. \A t : {u.id : u \in {v \in Users : v.of = t}} \in SUBSET Ids
        BY <3>1
      <4> QED BY ZenonT(40), <4>1, <3>3 DEF DeleteTenant
    <3> QED BY <1>2, <3>2, <3>3
  <2>2. phase \in Phases
    BY DEF Phases, Deciding
  <2>3. t \in Tenants \cup {None}
    BY <1>0, RowsTyped
  <2>4. LocalTyped'
    BY <1>0, <2>1, <2>2, <2>3, AuthoriseTyped DEF LocalTyped
  <2>7. pc'[h] = phase
    BY <2>1, <2>2, AuthoriseTyped
  <2>6. WritesOf(h)'
    BY <2>1, <2>7 DEF WritesOf
  <2>5. Writes'
    BY <1>0, <2>1, <2>2, <2>3, AuthoriseTyped, OthersWrite, <2>6 DEF LocalTyped
  <2> QED BY <1>0, <2>1, <2>2, <2>4, <2>5, AuthoriseTyped, PartsNext DEF StoreTyped
<1>3. ASSUME DeleteUser(h) PROVE Done
  <2>1. PICK a \in Users, ids \in SUBSET Ids :
          /\ doomed' = [doomed EXCEPT ![h] = ids]
          /\ Authorise(h, a, "delete user") /\ UNCHANGED <<db, email, role, tenant>>
    <3>1. \A u \in Users : u.id \in Ids
      BY <1>0, RowsTyped DEF Account
    <3>2. PICK a \in Users : \E u \in Deletable(a) :
            /\ doomed' = [doomed EXCEPT ![h] = {u.id}]
            /\ Authorise(h, a, "delete user") /\ UNCHANGED <<db, email, role, tenant>>
      BY <1>3 DEF DeleteUser
    <3>3. PICK u \in Users : /\ doomed' = [doomed EXCEPT ![h] = {u.id}]
                              /\ Authorise(h, a, "delete user") /\ UNCHANGED <<db, email, role, tenant>>
      BY <3>2 DEF Deletable
    <3>4. {u.id} \in SUBSET Ids
      BY <3>1
    <3> QED BY <3>3, <3>4
  <2>2. "delete user" \in Phases
    BY DEF Phases, Deciding
  <2>4. LocalTyped'
    BY <1>0, <2>1, <2>2, AuthoriseTyped DEF LocalTyped
  <2>7. pc'[h] = "delete user"
    BY <2>1, <2>2, AuthoriseTyped
  <2>6. WritesOf(h)'
    BY <2>1, <2>7 DEF WritesOf
  <2>5. Writes'
    BY <1>0, <2>1, <2>2, AuthoriseTyped, OthersWrite, <2>6 DEF LocalTyped
  <2> QED BY <1>0, <2>1, <2>2, <2>4, <2>5, AuthoriseTyped, PartsNext DEF StoreTyped
<1>4. ASSUME CreateTenant(h) PROVE Done
  <2>1. PICK a \in Users, t \in Tenants :
          /\ tenant' = [tenant EXCEPT ![h] = t]
          /\ Authorise(h, a, "create tenant") /\ UNCHANGED <<db, email, role, doomed>>
    BY <1>4 DEF CreateTenant
  <2>2. "create tenant" \in Phases
    BY DEF Phases, Deciding
  <2>4. LocalTyped'
    BY <1>0, <2>1, <2>2, AuthoriseTyped DEF LocalTyped
  <2>7. pc'[h] = "create tenant"
    BY <2>1, <2>2, AuthoriseTyped
  <2>6. WritesOf(h)'
    BY <1>0, <2>1, <2>7 DEF LocalTyped, WritesOf
  <2>5. Writes'
    BY <1>0, <2>1, <2>2, AuthoriseTyped, OthersWrite, <2>6 DEF LocalTyped
  <2> QED BY <1>0, <2>1, <2>2, <2>4, <2>5, AuthoriseTyped, PartsNext DEF StoreTyped
<1>5. ASSUME CreateProject(h) \/ Wipe(h) \/ Migrate(h) PROVE Done
  <2>1. PICK a \in Users, phase \in {"create project", "drop", "check"} :
          /\ Authorise(h, a, phase) /\ UNCHANGED <<email, role, tenant, doomed>>
          /\ UNCHANGED db \/ db' = [db EXCEPT ![External].schema = TRUE]
    BY <1>5 DEF CreateProject, Wipe, Migrate
  <2>2. phase \in Phases
    BY DEF Phases, Deciding
  <2>3. db' \in [Databases -> Content]
    BY ZenonT(40), <1>0, <2>1 DEF StoreTyped, Content
  <2>4. LocalTyped'
    BY <1>0, <2>1, <2>2, AuthoriseTyped DEF LocalTyped
  <2>7. pc'[h] = phase
    BY <2>1, <2>2, AuthoriseTyped
  <2>6. WritesOf(h)'
    BY <2>1, <2>7 DEF WritesOf
  <2>5. Writes'
    BY <1>0, <2>1, <2>2, AuthoriseTyped, OthersWrite, <2>6 DEF LocalTyped
  <2> QED BY <1>0, <2>1, <2>2, <2>3, <2>4, <2>5, AuthoriseTyped, PartsNext DEF StoreTyped
<1> QED BY <1>1, <1>2, <1>3, <1>4, <1>5

(* A step that ends a request, or hands it on to the recompute. *)
LEMMA AnswerTyped ==
  ASSUME TypeOK, Writes, NEW h \in Handlers, Answer(h) \/ ThenRecompute(h), UNCHANGED conn,
         db' \in [Databases -> Content], migrated' \in BOOLEAN,
         owner' \in [id : 0 .. MaxId, born : 0 .. MaxBorn], BoundsTyped'
  PROVE  TypeOK' /\ Writes'
<1>1. StoreTyped /\ LocalTyped /\ WatchTyped
  BY Parts
<1>2. StoreTyped'
  BY <1>1 DEF StoreTyped
<1>3. PICK phase \in {"idle", "recompute"} : Goto(h, phase) /\ Forget(h) /\ Watch
  BY DEF Answer, ThenRecompute
<1>4. LocalTyped' /\ Writes'
  BY <1>1, <1>3, ForgetTyped
<1>5. WatchTyped'
  BY <1>1, <1>3, WatchingTyped DEF StoreTyped
<1> QED BY <1>2, <1>4, <1>5, PartsNext

LEMMA UsersTyped ==
  ASSUME StoreTyped, NEW us \in SUBSET Account
  PROVE  [db EXCEPT ![conn].rows["users"] = us] \in [Databases -> Content]
BY RowsTyped DEF StoreTyped, Content, Rows

LEMMA CommitTyped ==
  ASSUME TypeOK, Writes, NEW h \in Handlers,
         CommitCreateUser(h) \/ CommitUpdateUser(h) \/ CommitDeleteUser(h) \/ CommitCreateTenant(h)
           \/ CommitDeleteTenant(h) \/ RequestFails(h) \/ CommitCreateProject(h)
  PROVE  TypeOK' /\ Writes'
<1>0. StoreTyped /\ LocalTyped /\ BoundsTyped /\ WatchTyped /\ migrated \in BOOLEAN
      /\ owner \in [id : 0 .. MaxId, born : 0 .. MaxBorn]
  BY Parts DEF StoreTyped
<1> DEFINE Typed == db' \in [Databases -> Content]
<1>1. ASSUME CommitCreateUser(h) PROVE TypeOK' /\ Writes'
  <2>1. pc[h] = "create user" /\ UNCHANGED <<conn, migrated, owner, bounds, history>> /\ Answer(h)
    BY <1>1 DEF CommitCreateUser
  <2> DEFINE n == db[conn].lastUser + 1
             new == [id |-> n, email |-> email[h], role |-> role[h], of |-> tenant[h]]
  <2>2. n \in Ids /\ db' = [db EXCEPT ![conn].lastUser = n, ![conn].rows.users = @ \cup {new}]
    BY <1>1 DEF CommitCreateUser
  <2>3. new \in Account
    BY <1>0, <2>1, <2>2 DEF Writes, WritesOf, LocalTyped, Account
  <2>4. Typed
    BY <1>0, <2>2, <2>3, RowsTyped, Numbers DEF StoreTyped, Content, Rows
  <2> QED BY <1>0, <2>1, <2>4, AnswerTyped DEF BoundsTyped, bounds, history
<1>2. ASSUME CommitUpdateUser(h) PROVE TypeOK' /\ Writes'
  <2>1. UNCHANGED <<conn, migrated, owner, bounds, history>> /\ Answer(h) /\ tenant[h] \in Tenants
    BY <1>0, <1>2, RowsTyped DEF CommitUpdateUser
  <2>2. {IF u \in Loaded(h) THEN [u EXCEPT !.of = tenant[h]] ELSE u : u \in Users} \in SUBSET Account
    BY <1>0, <2>1, RowsTyped DEF Account
  <2>3. Typed
    BY <1>2, <1>0, <2>2, UsersTyped DEF CommitUpdateUser, Commit
  <2> QED BY <1>0, <2>1, <2>3, AnswerTyped DEF BoundsTyped, bounds, history
<1>3. ASSUME CommitDeleteUser(h) PROVE TypeOK' /\ Writes'
  <2>1. UNCHANGED <<conn, migrated, owner, bounds, owed>> /\ Answer(h) /\ excuse' \in BOOLEAN
    BY <1>0, <1>3 DEF CommitDeleteUser, BoundsTyped
  <2>2. Users \ Loaded(h) \in SUBSET Account
    BY <1>0, RowsTyped
  <2>3. Typed
    BY <1>3, <1>0, <2>2, UsersTyped DEF CommitDeleteUser, Commit
  <2> QED BY <1>0, <2>1, <2>3, AnswerTyped DEF BoundsTyped, bounds
<1>4. ASSUME CommitCreateTenant(h) PROVE TypeOK' /\ Writes'
  <2>1. UNCHANGED <<conn, migrated, owner, bounds, history>> /\ Answer(h) /\ pc[h] = "create tenant"
    BY <1>4 DEF CommitCreateTenant
  <2>2. Open \cup {tenant[h]} \in SUBSET Tenants
    BY <1>0, <2>1, RowsTyped DEF Writes, WritesOf
  <2>3. Typed
    BY <1>4, <1>0, <2>2, RowsTyped DEF CommitCreateTenant, Commit, StoreTyped, Content, Rows
  <2> QED BY <1>0, <2>1, <2>3, AnswerTyped DEF BoundsTyped, bounds, history
<1>5. ASSUME CommitDeleteTenant(h) PROVE TypeOK' /\ Writes'
  <2>1. UNCHANGED <<conn, migrated, owner, bounds, owed>> /\ Answer(h)
    BY <1>5 DEF CommitDeleteTenant
  <2>2. excuse' \in BOOLEAN
    BY <1>5 DEF CommitDeleteTenant, BoundsTyped
  <2>3. db' = [db EXCEPT ![conn].rows.users = @ \ Loaded(h), ![conn].rows.tenants = @ \ {tenant[h]}]
    BY <1>5 DEF CommitDeleteTenant
  <2>4. Typed
    BY <1>0, <2>3, RowsTyped DEF StoreTyped, Content, Rows
  <2> QED BY <1>0, <2>1, <2>2, <2>4, AnswerTyped DEF BoundsTyped, bounds
<1>6. ASSUME RequestFails(h) PROVE TypeOK' /\ Writes'
  BY <1>0, <1>6, AnswerTyped DEF RequestFails, StoreTyped, BoundsTyped, bounds, history
<1>7. ASSUME CommitCreateProject(h) PROVE TypeOK' /\ Writes'
  <2>1. UNCHANGED <<conn, migrated, owner, requests, crashes, history>> /\ ThenRecompute(h)
        /\ born < MaxBorn /\ born' = born + 1
    BY <1>7 DEF CommitCreateProject
  <2> DEFINE n == db[conn].lastProject + 1
             new == [id |-> n, born |-> born + 1]
  <2>2. n \in Ids /\ db' = [db EXCEPT ![conn].lastProject = n, ![conn].rows.projects = @ \cup {new}]
    BY <1>7 DEF CommitCreateProject
  <2>3. born + 1 \in 1 .. MaxBorn /\ born + 1 \in 0 .. MaxBorn
    BY <1>0, <2>1, BoundsAssumption DEF BoundsTyped
  <2>4. new \in Project
    BY <2>2, <2>3 DEF Project
  <2>5. Typed
    BY <1>0, <2>2, <2>4, RowsTyped, Numbers DEF StoreTyped, Content, Rows
  <2> QED BY <1>0, <2>1, <2>3, <2>5, AnswerTyped DEF BoundsTyped, history
<1> QED BY <1>1, <1>2, <1>3, <1>4, <1>5, <1>6, <1>7

LEMMA AssignTyped ==
  ASSUME StoreTyped, Assign
  PROVE  owner' \in [id : 0 .. MaxId, born : 0 .. MaxBorn]
<1>1. Projects \subseteq Project
  BY RowsTyped
<1>2. \A p \in Project : p \in [id : 0 .. MaxId, born : 0 .. MaxBorn]
  <2>1. Ids \subseteq 0 .. MaxId /\ 1 .. MaxBorn \subseteq 0 .. MaxBorn
    BY BoundsAssumption DEF Ids
  <2> QED BY <2>1 DEF Project
<1> QED BY <1>1, <1>2, Numbers DEF Assign

LEMMA RecomputeTyped ==
  ASSUME TypeOK, Writes, (\E h \in Handlers : Recompute(h) \/ RecomputeFails(h)) \/ CollectorCycle
  PROVE  TypeOK' /\ Writes'
<1>0. StoreTyped /\ LocalTyped /\ BoundsTyped /\ WatchTyped /\ db \in [Databases -> Content]
      /\ migrated \in BOOLEAN /\ owner \in [id : 0 .. MaxId, born : 0 .. MaxBorn]
  BY Parts DEF StoreTyped
<1>1. ASSUME NEW h \in Handlers, Recompute(h) PROVE TypeOK' /\ Writes'
  <2>1. UNCHANGED <<db, conn, migrated, bounds, excuse>> /\ owed' = FALSE /\ Answer(h) /\ Assign
    BY <1>1 DEF Recompute, Assign
  <2> QED BY <1>0, <2>1, AssignTyped, AnswerTyped DEF BoundsTyped, bounds
<1>2. ASSUME NEW h \in Handlers, RecomputeFails(h) PROVE TypeOK' /\ Writes'
  <2>1. UNCHANGED <<db, conn, migrated, owner, bounds, excuse>> /\ owed' = TRUE /\ Answer(h)
    BY <1>2 DEF RecomputeFails
  <2> QED BY <1>0, <2>1, AnswerTyped DEF BoundsTyped, bounds
<1>3. ASSUME CollectorCycle PROVE TypeOK' /\ Writes'
  <2>1. UNCHANGED <<db, conn, migrated, local, bounds, excuse, watch>> /\ owed' = FALSE /\ Assign
    BY <1>3 DEF CollectorCycle, Assign
  <2>2. StoreTyped' /\ BoundsTyped' /\ WatchTyped'
    BY <1>0, <2>1, AssignTyped DEF StoreTyped, BoundsTyped, WatchTyped, bounds, watch
  <2>3. LocalTyped' /\ Writes'
    BY <1>0, <2>1 DEF LocalTyped, Writes, WritesOf, local
  <2> QED BY <2>2, <2>3, PartsNext
<1> QED BY <1>1, <1>2, <1>3

LEMMA BootstrapTyped ==
  ASSUME TypeOK, Writes, NEW x \in Actors,
         (x \in Handlers /\ DropAll(x)) \/ CreateAll(x) \/ EnsureDefaultAdmin(x)
           \/ InsertDefaultAdmin(x) \/ SetupFails(x) \/ (x \in Processes /\ Restart(x))
  PROVE  TypeOK' /\ Writes'
<1>0. StoreTyped /\ LocalTyped /\ BoundsTyped /\ WatchTyped /\ db \in [Databases -> Content]
      /\ migrated \in BOOLEAN /\ owner \in [id : 0 .. MaxId, born : 0 .. MaxBorn]
      /\ conn \in Databases
  BY Parts DEF StoreTyped
<1>1. ASSUME DropAll(x) \/ CreateAll(x) \/ Restart(x) PROVE TypeOK' /\ Writes'
  <2>1. PICK phase \in {"create", "look"} :
          /\ Goto(x, phase) /\ UNCHANGED <<who, email, role, tenant, doomed, copy>>
          /\ UNCHANGED <<conn, migrated, owner, bounds, owed, watch>>
          /\ excuse' \in {excuse, TRUE}
          /\ \/ UNCHANGED db \/ db' = [db EXCEPT ![conn] = Blank]
             \/ db' = [db EXCEPT ![conn].schema = TRUE]
    BY <1>1 DEF DropAll, CreateAll, Restart, history
  <2>2. LocalTyped' /\ Writes'
    BY <1>0, <2>1, StillTyped DEF Phases
  <2>3. db' \in [Databases -> Content]
    BY ZenonT(40), <1>0, <2>1, BlankTyped DEF Content
  <2>4. StoreTyped' /\ BoundsTyped' /\ WatchTyped'
    BY <1>0, <2>1, <2>3 DEF StoreTyped, BoundsTyped, WatchTyped, bounds, watch
  <2> QED BY <2>2, <2>4, PartsNext
<1>2. ASSUME UNCHANGED <<conn, migrated, owner, bounds, owed>>, Ready(x), db' \in [Databases -> Content]
      PROVE  TypeOK' /\ Writes'
  <2>1. excuse' = FALSE
    BY <1>2 DEF Ready
  <2>2. BoundsTyped'
    BY <1>0, <1>2, <2>1 DEF BoundsTyped, bounds
  <2>3. CASE x \in Handlers
    BY <1>0, <1>2, <2>2, <2>3, AnswerTyped DEF Ready
  <2>4. CASE x \notin Handlers
    <3>1. Goto(x, "up") /\ UNCHANGED <<who, email, role, tenant, doomed, copy>> /\ Watch
      BY <1>2, <2>4 DEF Ready
    <3>2. LocalTyped' /\ Writes'
      BY <1>0, <3>1, StillTyped DEF Phases
    <3>3. StoreTyped' /\ WatchTyped'
      BY <1>0, <1>2, <3>1, WatchingTyped DEF StoreTyped
    <3> QED BY <2>2, <3>2, <3>3, PartsNext
  <2> QED BY <2>3, <2>4
<1>3. ASSUME EnsureDefaultAdmin(x) PROVE TypeOK' /\ Writes'
  <2>1. UNCHANGED <<db, conn, migrated, owner, bounds, owed>>
    BY <1>3 DEF EnsureDefaultAdmin
  <2>2. CASE DefaultAdminExists
    BY <1>0, <1>2, <1>3, <2>1, <2>2 DEF EnsureDefaultAdmin
  <2>3. CASE ~ DefaultAdminExists
    <3>1. Goto(x, "insert") /\ UNCHANGED <<who, email, role, tenant, doomed, copy, excuse, watch>>
      BY <1>3, <2>3 DEF EnsureDefaultAdmin
    <3>2. LocalTyped' /\ Writes'
      BY <1>0, <3>1, StillTyped DEF Phases
    <3>3. StoreTyped' /\ BoundsTyped' /\ WatchTyped'
      BY <1>0, <2>1, <3>1 DEF StoreTyped, BoundsTyped, WatchTyped, bounds, watch
    <3> QED BY <3>2, <3>3, PartsNext
  <2> QED BY <2>2, <2>3
<1>4. ASSUME InsertDefaultAdmin(x) PROVE TypeOK' /\ Writes'
  <2> DEFINE n == db[conn].lastUser + 1
  <2>1. /\ UNCHANGED <<conn, migrated, owner, bounds, owed>> /\ Ready(x) /\ n \in Ids
        /\ db' = [db EXCEPT ![conn].lastUser = n, ![conn].rows.users = @ \cup {DefaultAdmin(n)}]
    BY <1>4 DEF InsertDefaultAdmin
  <2>2. DefaultAdmin(n) \in Account
    BY <2>1, DefaultAdminTyped
  <2>3. db' \in [Databases -> Content]
    BY <1>0, <2>1, <2>2, RowsTyped, Numbers DEF Content, Rows
  <2> QED BY <1>2, <2>1, <2>3
<1>5. ASSUME SetupFails(x) PROVE TypeOK' /\ Writes'
  <2>1. UNCHANGED <<db, conn, migrated, owner, bounds, history>>
    BY <1>5 DEF SetupFails
  <2>2. BoundsTyped'
    BY <1>0, <2>1 DEF BoundsTyped, bounds, history
  <2>3. CASE x \in Handlers
    BY <1>0, <1>5, <2>1, <2>2, <2>3, AnswerTyped DEF SetupFails
  <2>4. CASE x \notin Handlers
    <3>1. Goto(x, "down") /\ UNCHANGED <<who, email, role, tenant, doomed, copy, watch>>
      BY <1>5, <2>4 DEF SetupFails
    <3>2. LocalTyped' /\ Writes'
      BY <1>0, <3>1, StillTyped DEF Phases
    <3>3. StoreTyped' /\ WatchTyped'
      BY <1>0, <2>1, <3>1 DEF StoreTyped, WatchTyped, watch
    <3> QED BY <2>2, <3>2, <3>3, PartsNext
  <2> QED BY <2>3, <2>4
<1> QED BY <1>1, <1>3, <1>4, <1>5

LEMMA StopTyped ==
  ASSUME TypeOK, Writes, (\E p \in Processes : Crash(p)) \/ Recreate
  PROVE  TypeOK' /\ Writes'
<1>0. StoreTyped /\ LocalTyped /\ BoundsTyped /\ WatchTyped
  BY Parts
<1>1. ASSUME Crash(Api) PROVE TypeOK' /\ Writes'
  <2>1. /\ pc' = [x \in Actors |-> IF x \in Handlers THEN "idle" ELSE IF x = Api THEN "down" ELSE pc[x]]
        /\ ForgetAll /\ UNCHANGED <<db, conn, migrated, owner, born, requests, excuse>>
        /\ crashes < MaxCrashes /\ crashes' = crashes + 1
    BY <1>1 DEF Crash
  <2>2. owed' \in BOOLEAN
    BY <1>0, <1>1 DEF Crash, BoundsTyped
  <2>3. crashes' \in 0 .. MaxCrashes
    BY <1>0, <2>1, BoundsAssumption DEF BoundsTyped
  <2>4. StoreTyped' /\ BoundsTyped'
    BY <1>0, <2>1, <2>2, <2>3 DEF StoreTyped, BoundsTyped
  <2>5. pc' \in [Actors -> Phases] /\ \A h \in Handlers : pc'[h] = "idle"
    BY <1>0, <2>1, HandlersAct DEF LocalTyped, Phases
  <2> QED BY <1>0, <2>1, <2>4, <2>5, ForgetAllTyped, PartsNext
<1>2. ASSUME NEW p \in Processes, p # Api, Crash(p) PROVE TypeOK' /\ Writes'
  <2>1. /\ Goto(p, "down") /\ UNCHANGED <<who, email, role, tenant, doomed, copy, owed, watch>>
        /\ UNCHANGED <<db, conn, migrated, owner, born, requests, excuse>>
        /\ crashes < MaxCrashes /\ crashes' = crashes + 1
    BY <1>2 DEF Crash
  <2>2. crashes' \in 0 .. MaxCrashes
    BY <1>0, <2>1, BoundsAssumption DEF BoundsTyped
  <2>3. LocalTyped' /\ Writes'
    BY <1>0, <1>2, <2>1, StillTyped DEF Phases, Actors
  <2>4. StoreTyped' /\ BoundsTyped' /\ WatchTyped'
    BY <1>0, <2>1, <2>2 DEF StoreTyped, BoundsTyped, WatchTyped, watch
  <2> QED BY <2>3, <2>4, PartsNext
<1>3. ASSUME Recreate PROVE TypeOK' /\ Writes'
  <2>1. /\ pc' = [x \in Actors |-> IF x \in Handlers THEN "idle" ELSE "create"]
        /\ ForgetAll /\ UNCHANGED <<db, migrated, owner, bounds>>
        /\ conn' = External /\ excuse' = TRUE /\ owed' = TRUE
    BY <1>3 DEF Recreate
  <2>2. StoreTyped' /\ BoundsTyped'
    BY <1>0, <2>1 DEF StoreTyped, BoundsTyped, bounds, Databases
  <2>3. pc' \in [Actors -> Phases] /\ \A h \in Handlers : pc'[h] = "idle"
    BY <2>1, HandlersAct DEF Phases
  <2> QED BY <1>0, <2>1, <2>2, <2>3, ForgetAllTyped, PartsNext
<1> QED BY <1>1, <1>2, <1>3

LEMMA MigrationTyped ==
  ASSUME TypeOK, Writes, NEW h \in Handlers,
         CheckEmpty(h) \/ CopyTable(h) \/ CommitMigration(h) \/ MigrationFails(h)
  PROVE  TypeOK' /\ Writes'
<1>0. StoreTyped /\ LocalTyped /\ BoundsTyped /\ WatchTyped /\ db \in [Databases -> Content]
      /\ migrated \in BOOLEAN /\ owner \in [id : 0 .. MaxId, born : 0 .. MaxBorn]
      /\ copy[h] \in Rows /\ h \in Actors
  BY Parts, HandlersAct DEF StoreTyped, LocalTyped
<1>1. ASSUME CheckEmpty(h) PROVE TypeOK' /\ Writes'
  <2>1. UNCHANGED <<db, conn, migrated, owner, bounds, history>>
    BY <1>1 DEF CheckEmpty
  <2>2. StoreTyped' /\ BoundsTyped'
    BY <1>0, <2>1 DEF StoreTyped, BoundsTyped, bounds, history
  <2>3. CASE Answer(h)
    BY <1>0, <2>1, <2>2, <2>3, AnswerTyped
  <2>4. CASE /\ Goto(h, "tenants") /\ stayed' = [stayed EXCEPT ![h] = db[conn].rows]
             /\ met' = [met EXCEPT ![h] = db[conn].rows]
             /\ UNCHANGED <<who, email, role, tenant, doomed, copy>>
    <3>1. LocalTyped' /\ Writes'
      BY <1>0, <2>4, StillTyped DEF Phases, Copying
    <3>2. WatchTyped'
      BY <1>0, <2>4, RowsTyped DEF WatchTyped
    <3> QED BY <2>2, <3>1, <3>2, PartsNext
  <2> QED BY <1>1, <2>3, <2>4 DEF CheckEmpty
<1>2. ASSUME CopyTable(h) PROVE TypeOK' /\ Writes'
  <2>1. /\ copy' = [copy EXCEPT ![h][pc[h]] = db[conn].rows[pc[h]]]
        /\ UNCHANGED <<db, conn, migrated, owner, who, email, role, tenant, doomed, bounds, history, watch>>
        /\ pc[h] \in Copying /\ Goto(h, AfterTable(pc[h]))
    BY <1>2 DEF CopyTable
  <2>2. AfterTable(pc[h]) \in {"projects", "users", "commit"}
    BY <2>1 DEF AfterTable, NextTable, Copying
  <2>3. AfterTable(pc[h]) \in Phases
    BY <2>2 DEF Phases, Copying
  <2>4. pc' \in [Actors -> Phases] /\ pc' = [pc EXCEPT ![h] = AfterTable(pc[h])]
    BY <1>0, <2>1, <2>3, GotoTyped
  <2>5. [copy[h] EXCEPT ![pc[h]] = db[conn].rows[pc[h]]] \in Rows
    BY <1>0, <2>1, RowsTyped DEF Rows, Copying
  <2>6. copy' \in [Handlers -> Rows]
    BY <1>0, <2>1, <2>5 DEF LocalTyped
  <2>7. LocalTyped'
    BY <1>0, <2>1, <2>4, <2>6 DEF LocalTyped
  <2>8. WritesOf(h)'
    BY <1>0, <2>2, <2>4 DEF LocalTyped, WritesOf
  <2>9. Writes'
    BY <1>0, <2>1, <2>4, <2>8, OthersWrite
  <2> QED BY <1>0, <2>1, <2>7, <2>9, PartsNext DEF StoreTyped, BoundsTyped, WatchTyped, bounds, history, watch
<1>3. ASSUME CommitMigration(h) PROVE TypeOK' /\ Writes'
  <2> DEFINE all == [t \in Tables |-> db[External].rows[t] \cup copy[h][t]]
  <2>1. /\ db' = [db EXCEPT ![External].rows = all, ![External].lastUser = LastId(all.users),
                            ![External].lastProject = LastId(all.projects)]
        /\ migrated' = TRUE /\ UNCHANGED <<conn, owner, bounds, history>> /\ Answer(h)
    BY <1>3 DEF CommitMigration
  <2>2. all \in Rows
    BY <1>0, RowsTyped DEF Rows, Tables
  <2>3. LastId(all.users) \in 0 .. MaxId /\ LastId(all.projects) \in 0 .. MaxId
    <3>1. \A r \in all.users \cup all.projects : r.id \in Ids
      BY <2>2 DEF Rows, Account, Project
    <3> HIDE DEF all
    <3> QED BY <3>1, LastIdIsGreatest
  <2>4. db' \in [Databases -> Content]
    <3> HIDE DEF all
    <3> QED BY <1>0, <2>1, <2>2, <2>3, RowsTyped DEF Content
  <2> QED BY <1>0, <2>1, <2>4, AnswerTyped DEF BoundsTyped, bounds, history
<1>4. ASSUME MigrationFails(h) PROVE TypeOK' /\ Writes'
  BY <1>0, <1>4, AnswerTyped DEF MigrationFails, BoundsTyped, bounds, history
<1> QED BY <1>1, <1>2, <1>3, <1>4

LEMMA NextTyped ==
  ASSUME TypeOK, Writes, [Next]_vars
  PROVE  TypeOK' /\ Writes'
<1>1. CASE UNCHANGED vars
  <2>1. UNCHANGED <<db, conn, migrated, owner, pc, who, email, role, tenant, doomed, copy,
                    born, requests, crashes, excuse, owed, stayed, met>>
    BY <1>1 DEF vars, local, bounds, history, watch
  <2>2. StoreTyped' /\ LocalTyped' /\ BoundsTyped' /\ WatchTyped'
    BY <2>1, Parts DEF StoreTyped, LocalTyped, BoundsTyped, WatchTyped
  <2>3. Writes'
    BY <2>1 DEF Writes, WritesOf
  <2> QED BY <2>2, <2>3, PartsNext
<1>2. CASE Next
  BY <1>2, RequestTyped, CommitTyped, RecomputeTyped, BootstrapTyped, StopTyped, MigrationTyped, HandlersAct
     DEF Next, Actors
<1> QED BY <1>1, <1>2

(* The types of the accounts, the databases and the requests, for any bounds; *)
(* that the sequence of a migrated table stays within its ids rests on        *)
(* LastIdIsGreatest.                                                          *)
THEOREM TypeCorrect == Spec => [](TypeOK /\ Writes)
BY InitTyped, NextTyped, PTL DEF Spec

-----------------------------------------------------------------------------
(* What the tables keep: ids and e-mails are unique, an administrator is a   *)
(* user without a tenant, and no id is greater than its sequence.            *)

SoundUsers(U) ==
  /\ \A u, v \in U : u.id = v.id \/ u.email = v.email => u = v
  /\ \A u \in U : u.role = "admin" <=> u.of = None

SoundProjects(P) == \A p, q \in P : p.id = q.id => p = q

Sound(d) ==
  /\ SoundUsers(db[d].rows.users) /\ \A u \in db[d].rows.users : u.id <= db[d].lastUser
  /\ SoundProjects(db[d].rows.projects) /\ \A p \in db[d].rows.projects : p.id <= db[d].lastProject

(* The tables a migration has read are as sound as those they were read from,*)
(* and while it reads them the local database is connected.                  *)
Migrating == {"check", "commit"} \cup Copying

SoundMigration(h) ==
  /\ SoundUsers(copy[h].users) /\ SoundProjects(copy[h].projects)
  /\ pc[h] \in Migrating => conn = Local

(* The user to be moved is an ordinary one, and so will no later account with *)
(* its id be another; whoever deletes is not among those it deletes, and is   *)
(* still an administrator if it is still there.                               *)
Pending(h) ==
  /\ pc[h] = "update user" =>
       /\ \A u \in Users : u.id \in doomed[h] => u.role = "user"
       /\ \A n \in doomed[h] : n <= db[conn].lastUser
  /\ pc[h] \in {"delete user", "delete tenant"} =>
       /\ who[h] \notin doomed[h] /\ who[h] <= db[conn].lastUser
       /\ \A u \in Users : u.id = who[h] => u.role = "admin"

AllSound == (\A d \in Databases : Sound(d)) /\ \A h \in Handlers : SoundMigration(h)

Unwritten(d) == db'[d].rows = db[d].rows /\ db'[d].lastUser = db[d].lastUser /\ db'[d].lastProject = db[d].lastProject

LEMMA UnwrittenSound ==
  ASSUME NEW d, Sound(d), Unwritten(d)
  PROVE  Sound(d)'
BY DEF Sound, Unwritten

LEMMA NoRowsSound == SoundUsers(NoRows.users) /\ SoundProjects(NoRows.projects)
BY DEF NoRows, SoundUsers, SoundProjects

LEMMA SoundSubset ==
  ASSUME NEW U, NEW V \in SUBSET U, SoundUsers(U)
  PROVE  SoundUsers(V)
BY DEF SoundUsers

LEMMA InitSound == Init => AllSound
<1> SUFFICES ASSUME Init PROVE AllSound
  OBVIOUS
<1>1. PICK ts \in SUBSET Tenants, more \in {{}} \cup {{u} : u \in Account} :
        /\ \A u \in more : u.id = 2 /\ u.email \in Logins
                           /\ (IF u.role = "admin" THEN u.of = None ELSE u.of \in ts)
        /\ db = [d \in Databases |-> IF d = External THEN Blank ELSE
                  [schema |-> TRUE, lastUser |-> IF more = {} THEN 1 ELSE 2, lastProject |-> 1,
                   rows |-> [tenants |-> ts, projects |-> {[id |-> 1, born |-> 1]},
                             users |-> {DefaultAdmin(1)} \cup more]]]
  BY DEF Init
<1>2. Sound(External)
  BY <1>1, NoRowsSound DEF Sound, Blank, NoRows, Databases
<1>3. Sound(Local)
  <2>1. /\ db[Local].rows.users = {DefaultAdmin(1)} \cup more
        /\ db[Local].rows.projects = {[id |-> 1, born |-> 1]}
        /\ db[Local].lastUser = (IF more = {} THEN 1 ELSE 2) /\ db[Local].lastProject = 1
    BY <1>1 DEF Databases, Local, External
  <2>2. \A u, v \in more : u = v
    BY <1>1
  <2>3. DefaultAdmin(1).id = 1 /\ DefaultAdmin(1).email \notin Logins
        /\ DefaultAdmin(1).role = "admin" /\ DefaultAdmin(1).of = None
    BY BoundsAssumption DEF DefaultAdmin
  <2>4. \A u \in more : u.role = "admin" <=> u.of = None
    BY <1>1, BoundsAssumption
  <2>5. SoundUsers({DefaultAdmin(1)} \cup more)
    BY <1>1, <2>2, <2>3, <2>4 DEF SoundUsers
  <2>6. \A u \in {DefaultAdmin(1)} \cup more : u.id <= (IF more = {} THEN 1 ELSE 2)
    BY <1>1, <2>3
  <2>7. SoundProjects({[id |-> 1, born |-> 1]}) /\ \A p \in {[id |-> 1, born |-> 1]} : p.id <= 1
    BY DEF SoundProjects
  <2> QED BY <2>1, <2>5, <2>6, <2>7 DEF Sound
<1>4. ASSUME NEW h \in Handlers PROVE SoundMigration(h)
  <2>1. copy[h] = NoRows /\ conn = Local
    BY DEF Init
  <2> QED BY <2>1, NoRowsSound DEF SoundMigration
<1> QED BY <1>2, <1>3, <1>4 DEF AllSound, Databases

(* A new account has a new id, and an e-mail nobody has.                     *)
LEMMA NewUserSound ==
  ASSUME NEW d, Sound(d), db[d].rows.users \subseteq Account, NEW u \in Account, db[d].lastUser \in Nat,
         u.id = db[d].lastUser + 1, \A v \in db[d].rows.users : v.email # u.email,
         u.role = "admin" <=> u.of = None,
         db'[d].rows.users = db[d].rows.users \cup {u}, db'[d].lastUser = u.id,
         db'[d].rows.projects = db[d].rows.projects, db'[d].lastProject = db[d].lastProject
  PROVE  Sound(d)'
<1> DEFINE U == db[d].rows.users
<1>1. \A v \in U : v.id \in Nat /\ v.id <= db[d].lastUser
  BY BoundsAssumption DEF Sound, Account, Ids
<1>2. \A v \in U : v.id # u.id /\ v.id <= u.id
  BY <1>1
<1>3. u.id <= u.id
  BY BoundsAssumption DEF Account, Ids
<1>4. SoundUsers(U \cup {u})
  BY <1>2 DEF Sound, SoundUsers
<1> QED BY <1>2, <1>3, <1>4 DEF Sound

LEMMA NewProjectSound ==
  ASSUME NEW d, Sound(d), db[d].rows.projects \subseteq Project, NEW p \in Project, db[d].lastProject \in Nat,
         p.id = db[d].lastProject + 1,
         db'[d].rows.projects = db[d].rows.projects \cup {p}, db'[d].lastProject = p.id,
         db'[d].rows.users = db[d].rows.users, db'[d].lastUser = db[d].lastUser
  PROVE  Sound(d)'
<1> DEFINE P == db[d].rows.projects
<1>1. \A q \in P : q.id \in Nat /\ q.id <= db[d].lastProject
  BY BoundsAssumption DEF Sound, Project, Ids
<1>2. \A q \in P : q.id # p.id /\ q.id <= p.id
  BY <1>1
<1>3. p.id <= p.id
  BY BoundsAssumption DEF Project, Ids
<1>4. SoundProjects(P \cup {p})
  BY <1>2 DEF Sound, SoundProjects
<1> QED BY <1>2, <1>3, <1>4 DEF Sound

LEMMA CommitSound ==
  ASSUME TypeOK, Writes, AllSound, NEW h \in Handlers, Pending(h),
         CommitCreateUser(h) \/ CommitUpdateUser(h) \/ CommitDeleteUser(h) \/ CommitCreateTenant(h)
           \/ CommitDeleteTenant(h) \/ CommitCreateProject(h)
  PROVE  \A d \in Databases : Sound(d)'
<1>0. /\ db \in [Databases -> Content] /\ conn \in Databases
      /\ Users \subseteq Account /\ Projects \subseteq Project /\ Open \subseteq Tenants
      /\ db[conn] \in Content /\ db[conn].rows \in Rows
      /\ Sound(conn) /\ SoundUsers(Users) /\ \A u \in Users : u.id <= db[conn].lastUser
  BY Parts, RowsTyped DEF StoreTyped, AllSound, Sound, Users
<1>1. SUFFICES ASSUME NEW d \in Databases PROVE Sound(d)'
  OBVIOUS
<1>2. Sound(d)
  BY DEF AllSound
<1>3. CASE d # conn
  <2>1. db'[d] = db[d]
    BY <1>0, <1>3 DEF CommitCreateUser, CommitUpdateUser, CommitDeleteUser, CommitCreateTenant,
                      CommitDeleteTenant, CommitCreateProject, Commit
  <2> QED BY <1>2, <2>1, UnwrittenSound DEF Unwritten
<1>4. ASSUME d = conn, CommitCreateUser(h) PROVE Sound(d)'
  <2> DEFINE n == db[conn].lastUser + 1
             new == [id |-> n, email |-> email[h], role |-> role[h], of |-> tenant[h]]
  <2>1. /\ pc[h] = "create user" /\ ~ Taken(email[h]) /\ n \in Ids
        /\ db' = [db EXCEPT ![conn].lastUser = n, ![conn].rows.users = @ \cup {new}]
    BY <1>4 DEF CommitCreateUser
  <2>2. new \in Account /\ (new.role = "admin" <=> new.of = None)
    <3>1. tenant[h] \in Tenants \cup {None} /\ role[h] \in {"admin", "user"}
      BY Parts DEF LocalTyped
    <3> QED BY <2>1, <3>1 DEF Writes, WritesOf, Account
  <2>3. /\ db'[conn].rows.users = Users \cup {new} /\ db'[conn].lastUser = n
        /\ db'[conn].rows.projects = Projects /\ db'[conn].lastProject = db[conn].lastProject
    BY <1>0, <2>1 DEF Content, Rows, Users, Projects
  <2>4. \A v \in Users : v.email # new.email
    BY <2>1 DEF Taken
  <2>5. db[conn].lastUser \in Nat /\ new.id = n
    BY <1>0, BoundsAssumption DEF Content
  <2> HIDE DEF new
  <2> QED BY <1>0, <1>4, <2>2, <2>3, <2>4, <2>5, NewUserSound DEF Users, Projects
<1>5. ASSUME d = conn, CommitUpdateUser(h) PROVE Sound(d)'
  <2> DEFINE Moved == {IF u \in Loaded(h) THEN [u EXCEPT !.of = tenant[h]] ELSE u : u \in Users}
  <2>1. db' = [db EXCEPT ![conn].rows["users"] = Moved] /\ tenant[h] \in Tenants
    BY <1>0, <1>5 DEF CommitUpdateUser, Commit
  <2>2. \A u \in Loaded(h) : u.role = "user"
    BY <1>5 DEF CommitUpdateUser, Loaded, Pending
  <2>3. db'[conn].rows.users = Moved /\ db'[conn].lastUser = db[conn].lastUser
        /\ db'[conn].rows.projects = Projects /\ db'[conn].lastProject = db[conn].lastProject
    BY <1>0, <2>1 DEF Content, Rows, Users, Projects
  <2>4. \A u \in Moved : \E v \in Users :
          u.id = v.id /\ u.email = v.email /\ u.role = v.role
            /\ IF v \in Loaded(h) THEN u = [v EXCEPT !.of = tenant[h]] /\ u.of = tenant[h] ELSE u = v
    BY <1>0 DEF Account
  <2> HIDE DEF Moved
  <2>5. SoundUsers(Moved)
    <3>1. ASSUME NEW u \in Moved, NEW w \in Moved, u.id = w.id \/ u.email = w.email PROVE u = w
      <4>1. PICK v \in Users :
              /\ u.id = v.id /\ u.email = v.email
              /\ IF v \in Loaded(h) THEN u = [v EXCEPT !.of = tenant[h]] ELSE u = v
        BY <2>4
      <4>2. PICK x \in Users :
              /\ w.id = x.id /\ w.email = x.email
              /\ IF x \in Loaded(h) THEN w = [x EXCEPT !.of = tenant[h]] ELSE w = x
        BY <2>4
      <4>3. v = x
        BY <1>0, <3>1, <4>1, <4>2 DEF SoundUsers
      <4> QED BY <4>1, <4>2, <4>3
    <3>2. ASSUME NEW u \in Moved PROVE u.role = "admin" <=> u.of = None
      <4>1. PICK v \in Users :
              /\ u.role = v.role
              /\ IF v \in Loaded(h) THEN u.of = tenant[h] ELSE u = v
        BY <2>4
      <4>2. tenant[h] # None
        BY <2>1, BoundsAssumption
      <4> QED BY <1>0, <2>2, <4>1, <4>2 DEF SoundUsers
    <3> QED BY <3>1, <3>2 DEF SoundUsers
  <2>6. \A u \in Moved : u.id <= db[conn].lastUser
    BY <1>0, <2>4
  <2> QED BY <1>0, <1>5, <2>3, <2>5, <2>6 DEF Sound, Projects
<1>6. ASSUME d = conn, CommitDeleteUser(h) \/ CommitDeleteTenant(h) \/ CommitCreateTenant(h) PROVE Sound(d)'
  <2>1. /\ db'[conn].rows.users \subseteq Users /\ db'[conn].lastUser = db[conn].lastUser
        /\ db'[conn].rows.projects = Projects /\ db'[conn].lastProject = db[conn].lastProject
    <3>1. CASE CommitDeleteUser(h)
      BY <1>0, <3>1 DEF CommitDeleteUser, Commit, Content, Rows, Users, Projects
    <3>2. CASE CommitDeleteTenant(h)
      <4>1. db' = [db EXCEPT ![conn].rows.users = @ \ Loaded(h), ![conn].rows.tenants = @ \ {tenant[h]}]
        BY <3>2 DEF CommitDeleteTenant
      <4> QED BY <1>0, <4>1 DEF Content, Rows, Users, Projects
    <3>3. CASE CommitCreateTenant(h)
      BY <1>0, <3>3 DEF CommitCreateTenant, Commit, Content, Rows, Users, Projects
    <3> QED BY <1>6, <3>1, <3>2, <3>3
  <2>2. SoundUsers(db'[conn].rows.users)
    BY <1>0, <2>1, SoundSubset
  <2> QED BY <1>0, <1>6, <2>1, <2>2 DEF Sound, Projects
<1>7. ASSUME d = conn, CommitCreateProject(h) PROVE Sound(d)'
  <2> DEFINE n == db[conn].lastProject + 1
             new == [id |-> n, born |-> born + 1]
  <2>1. /\ n \in Ids /\ born < MaxBorn
        /\ db' = [db EXCEPT ![conn].lastProject = n, ![conn].rows.projects = @ \cup {new}]
    BY <1>7 DEF CommitCreateProject
  <2>2. new \in Project
    <3>1. born + 1 \in 1 .. MaxBorn
      BY <2>1, Parts, BoundsAssumption DEF BoundsTyped
    <3> QED BY <2>1, <3>1 DEF Project
  <2>3. /\ db'[conn].rows.projects = Projects \cup {new} /\ db'[conn].lastProject = n
        /\ db'[conn].rows.users = Users /\ db'[conn].lastUser = db[conn].lastUser
    BY <1>0, <2>1 DEF Content, Rows, Users, Projects
  <2>5. db[conn].lastProject \in Nat /\ new.id = n
    BY <1>0, BoundsAssumption DEF Content
  <2> HIDE DEF new
  <2> QED BY <1>0, <1>7, <2>2, <2>3, <2>5, NewProjectSound DEF Users, Projects
<1> QED BY <1>3, <1>4, <1>5, <1>6, <1>7

(* The step of one actor: what the other handlers hold stays.                *)
Aside(x) ==
  \A g \in Handlers \ {x} :
    /\ pc'[g] = pc[g] /\ who'[g] = who[g] /\ doomed'[g] = doomed[g] /\ copy'[g] = copy[g]

Deciders == {"update user", "delete user", "delete tenant"}

(* A request that has been answered holds nothing.                           *)
Free(h) == pc'[h] \notin Deciders \cup Migrating /\ copy'[h] \in {copy[h], NoRows}

LEMMA GotoAside ==
  ASSUME LocalTyped, NEW x \in Actors, NEW phase, Goto(x, phase),
         UNCHANGED <<who, doomed, copy>> \/ (x \in Handlers /\ Forget(x))
  PROVE  /\ Aside(x) /\ pc'[x] = phase
         /\ x \in Handlers => copy'[x] \in {copy[x], NoRows}
BY HandlersAct DEF Goto, Forget, Aside, LocalTyped

(* Every step but those of the containers is of one of these kinds.          *)
Requesting(h) == CreateUser(h) \/ UpdateUser(h) \/ DeleteUser(h) \/ CreateTenant(h) \/ DeleteTenant(h)
                   \/ CreateProject(h) \/ Wipe(h) \/ Migrate(h)

Committing(h) == CommitCreateUser(h) \/ CommitUpdateUser(h) \/ CommitDeleteUser(h) \/ CommitCreateTenant(h)
                   \/ CommitDeleteTenant(h) \/ CommitCreateProject(h)

Finishing(h) == RequestFails(h) \/ Recompute(h) \/ RecomputeFails(h) \/ MigrationFails(h)

Bootstrapping(x) == CreateAll(x) \/ EnsureDefaultAdmin(x) \/ InsertDefaultAdmin(x) \/ SetupFails(x)

LEMMA CommittingAside ==
  ASSUME TypeOK, NEW h \in Handlers, Committing(h) \/ Finishing(h) \/ CommitMigration(h)
  PROVE  Aside(h) /\ Free(h) /\ UNCHANGED conn
<1>1. LocalTyped /\ h \in Actors
  BY Parts, HandlersAct
<1>2. PICK phase \in {"idle", "recompute"} : Goto(h, phase) /\ Forget(h)
  BY DEF Committing, Finishing, CommitCreateUser, CommitUpdateUser, CommitDeleteUser, CommitCreateTenant,
         CommitDeleteTenant, CommitCreateProject, RequestFails, Recompute, RecomputeFails,
         CommitMigration, MigrationFails, Answer, ThenRecompute
<1>3. UNCHANGED conn
  BY DEF Committing, Finishing, CommitCreateUser, CommitUpdateUser, CommitDeleteUser, CommitCreateTenant,
         CommitDeleteTenant, CommitCreateProject, RequestFails, Recompute, RecomputeFails,
         CommitMigration, MigrationFails
<1> QED BY <1>1, <1>2, <1>3, GotoAside DEF Free, Deciders, Migrating, Copying

LEMMA BootstrapAside ==
  ASSUME TypeOK, NEW x \in Actors, Bootstrapping(x) \/ (x \in Handlers /\ DropAll(x))
           \/ (x \in Processes /\ (Restart(x) \/ (x # Api /\ Crash(x))))
  PROVE  Aside(x) /\ UNCHANGED conn /\ (x \in Handlers => Free(x))
<1>1. LocalTyped
  BY Parts
<1>2. \E phase \in {"idle", "up", "down", "create", "look", "insert"} :
        Goto(x, phase) /\ (UNCHANGED <<who, doomed, copy>> \/ (x \in Handlers /\ Forget(x)))
  BY DEF Bootstrapping, CreateAll, EnsureDefaultAdmin, InsertDefaultAdmin, SetupFails, DropAll, Restart,
         Crash, Ready, Answer
<1>3. PICK phase \in {"idle", "up", "down", "create", "look", "insert"} :
        Goto(x, phase) /\ (UNCHANGED <<who, doomed, copy>> \/ (x \in Handlers /\ Forget(x)))
  BY <1>2
<1>4. UNCHANGED conn
  BY DEF Bootstrapping, CreateAll, EnsureDefaultAdmin, InsertDefaultAdmin, SetupFails, DropAll, Restart, Crash
<1> QED BY <1>1, <1>3, <1>4, GotoAside DEF Free, Deciders, Migrating, Copying

AllUnwritten == \A d \in Databases : Unwritten(d)

(* Whom a request is going to delete or to move was looked up with the       *)
(* account that asks for it.                                                 *)
LEMMA RequestPending ==
  ASSUME TypeOK, AllSound, NEW h \in Handlers, Requesting(h)
  PROVE  /\ Aside(h) /\ UNCHANGED <<conn, copy>> /\ AllUnwritten
         /\ Pending(h)' /\ SoundMigration(h)'
<1>0. /\ LocalTyped /\ h \in Actors /\ db \in [Databases -> Content] /\ conn \in Databases
      /\ Users \subseteq Account /\ SoundUsers(Users) /\ \A u \in Users : u.id <= db[conn].lastUser
      /\ SoundMigration(h)
  BY Parts, HandlersAct, RowsTyped DEF StoreTyped, AllSound, Sound, Users
<1>1. PICK a \in Users, phase \in Deciding \cup {"drop", "check"} :
        Authorise(h, a, phase)
  BY DEF Requesting, CreateUser, UpdateUser, DeleteUser, CreateTenant, DeleteTenant, CreateProject,
         Wipe, Migrate, Deciding
<1>2. /\ pc[h] = "idle" /\ a.role = "admin" /\ who' = [who EXCEPT ![h] = a.id]
      /\ Goto(h, phase) /\ UNCHANGED <<conn, copy>>
  BY <1>1 DEF Authorise
<1>3. pc' = [pc EXCEPT ![h] = phase] /\ pc'[h] = phase /\ who'[h] = a.id
  BY <1>0, <1>2 DEF Goto, LocalTyped
<1>4. \A g \in Handlers \ {h} : doomed'[g] = doomed[g]
  BY <1>0 DEF LocalTyped, Requesting, CreateUser, UpdateUser, DeleteUser, CreateTenant, DeleteTenant,
     CreateProject, Wipe, Migrate
<1>5. Aside(h)
  BY <1>0, <1>2, <1>3, <1>4, HandlersAct DEF Aside, LocalTyped
<1>6. UNCHANGED db \/ (db' = [db EXCEPT ![External].schema = TRUE] /\ Migrate(h))
  BY DEF Requesting, CreateUser, UpdateUser, DeleteUser, CreateTenant, DeleteTenant, CreateProject,
         Wipe, Migrate
<1>7. AllUnwritten
  BY <1>0, <1>6 DEF AllUnwritten, Unwritten, Content
<1>8. db'[conn'].rows = db[conn].rows /\ db'[conn'].lastUser = db[conn].lastUser
  BY <1>0, <1>2, <1>7 DEF AllUnwritten, Unwritten
<1>9. Users' = Users
  BY <1>8 DEF Users
<1>10. phase = "check" => Migrate(h)
  BY <1>1, <1>3, <1>0 DEF Requesting, CreateUser, UpdateUser, DeleteUser, CreateTenant, DeleteTenant,
     CreateProject, Wipe, Migrate, Authorise, Goto, LocalTyped
<1>11. SoundMigration(h)'
  <2>1. pc'[h] \in Migrating => conn' = Local
    BY <1>2, <1>3, <1>10 DEF Migrating, Copying, Deciding, Migrate
  <2> QED BY <1>0, <1>2, <2>1 DEF SoundMigration
<1>12. ASSUME UpdateUser(h) PROVE Pending(h)'
  <2>1. PICK u \in Users : u.role = "user" /\ doomed' = [doomed EXCEPT ![h] = {u.id}]
          /\ \E b \in Users : Authorise(h, b, "update user")
    BY <1>12 DEF UpdateUser
  <2>2. doomed'[h] = {u.id} /\ pc'[h] = "update user"
    BY <1>0, <2>1 DEF LocalTyped, Authorise, Goto
  <2> QED BY <1>0, <1>8, <1>9, <2>1, <2>2 DEF Pending, SoundUsers
<1>13. ASSUME DeleteUser(h) PROVE Pending(h)'
  <2>1. PICK b \in Users : \E u \in Deletable(b) :
          doomed' = [doomed EXCEPT ![h] = {u.id}] /\ Authorise(h, b, "delete user")
    BY <1>13 DEF DeleteUser
  <2>2. PICK u \in Deletable(b) :
          doomed' = [doomed EXCEPT ![h] = {u.id}] /\ Authorise(h, b, "delete user")
    BY <2>1
  <2>3. doomed'[h] = {u.id} /\ pc'[h] = "delete user" /\ who'[h] = b.id /\ b.role = "admin" /\ u.id # b.id
    BY <1>0, <2>2 DEF LocalTyped, Authorise, Goto, Deletable
  <2> QED BY <1>0, <1>8, <1>9, <2>3 DEF Pending, SoundUsers
<1>14. ASSUME DeleteTenant(h) PROVE Pending(h)'
  <2>1. PICK b \in Users, t \in Open :
          doomed' = [doomed EXCEPT ![h] = {u.id : u \in {v \in Users : v.of = t}}]
            /\ Authorise(h, b, "delete tenant")
    BY <1>14 DEF DeleteTenant
  <2>2. doomed'[h] = {u.id : u \in {v \in Users : v.of = t}} /\ pc'[h] = "delete tenant"
        /\ who'[h] = b.id /\ b.role = "admin"
    BY <1>0, <2>1 DEF LocalTyped, Authorise, Goto
  <2>3. t \in Tenants /\ b.of = None
    BY <1>0, <2>2, RowsTyped, Parts DEF SoundUsers
  <2>4. b.id \notin doomed'[h]
    BY <1>0, <2>2, <2>3, BoundsAssumption DEF SoundUsers
  <2> QED BY <1>0, <1>8, <1>9, <2>2, <2>4 DEF Pending, SoundUsers
<1>15. ASSUME CreateUser(h) \/ CreateTenant(h) \/ CreateProject(h) \/ Wipe(h) \/ Migrate(h) PROVE Pending(h)'
  <2>1. pc'[h] \in {"create user", "create tenant", "create project", "drop", "check"}
    BY <1>0, <1>15 DEF CreateUser, CreateTenant, CreateProject, Wipe, Migrate, Authorise, Goto, LocalTyped
  <2> QED BY <2>1 DEF Pending
<1> QED BY <1>2, <1>5, <1>7, <1>11, <1>12, <1>13, <1>14, <1>15 DEF Requesting

LEMMA CopyAside ==
  ASSUME TypeOK, AllSound, NEW h \in Handlers, CheckEmpty(h) \/ CopyTable(h)
  PROVE  Aside(h) /\ UNCHANGED <<db, conn>> /\ Pending(h)' /\ SoundMigration(h)'
<1>0. /\ LocalTyped /\ h \in Actors /\ SoundMigration(h) /\ Sound(conn) /\ copy[h] \in Rows
  BY Parts, HandlersAct DEF StoreTyped, LocalTyped, AllSound
<1>1. CASE CheckEmpty(h)
  <2>1. PICK phase \in {"idle", "tenants"} :
          Goto(h, phase) /\ (UNCHANGED <<who, doomed, copy>> \/ Forget(h))
    BY <1>1 DEF CheckEmpty, Answer
  <2>2. Aside(h) /\ pc'[h] = phase /\ copy'[h] \in {copy[h], NoRows} /\ pc[h] = "check"
    BY <1>0, <1>1, <2>1, GotoAside DEF CheckEmpty
  <2>3. UNCHANGED <<db, conn>>
    BY <1>1 DEF CheckEmpty
  <2>4. SoundMigration(h)'
    BY <1>0, <2>2, <2>3, NoRowsSound DEF SoundMigration, Migrating
  <2> QED BY <2>2, <2>3, <2>4 DEF Pending
<1>2. CASE CopyTable(h)
  <2>1. /\ copy' = [copy EXCEPT ![h][pc[h]] = db[conn].rows[pc[h]]]
        /\ UNCHANGED <<db, conn, who, doomed>>
        /\ pc[h] \in Copying /\ Goto(h, AfterTable(pc[h]))
    BY <1>2 DEF CopyTable
  <2>2. AfterTable(pc[h]) \in {"projects", "users", "commit"}
    BY <2>1 DEF AfterTable, NextTable, Copying
  <2>3. pc' = [pc EXCEPT ![h] = AfterTable(pc[h])] /\ pc'[h] \in {"projects", "users", "commit"}
    BY <1>0, <2>1, <2>2 DEF Goto, LocalTyped
  <2>4. Aside(h)
    BY <1>0, <2>1, <2>3, HandlersAct DEF Aside, LocalTyped
  <2>5. /\ copy'[h] = [copy[h] EXCEPT ![pc[h]] = db[conn].rows[pc[h]]]
    BY <1>0, <2>1 DEF LocalTyped
  <2>6. /\ copy'[h].users \in {copy[h].users, db[conn].rows.users}
        /\ copy'[h].projects \in {copy[h].projects, db[conn].rows.projects}
    BY <1>0, <2>1, <2>5 DEF Rows, Copying
  <2>7. conn = Local
    BY <1>0, <2>1 DEF SoundMigration, Migrating
  <2>8. SoundMigration(h)'
    BY <1>0, <2>1, <2>6, <2>7 DEF SoundMigration, Sound
  <2> QED BY <2>1, <2>3, <2>4, <2>8 DEF Pending
<1> QED BY <1>1, <1>2

(* No id that has been given out comes to mean an account of another role.   *)
Mild ==
  /\ db'[conn].lastUser \in Nat /\ db[conn].lastUser \in Nat /\ db[conn].lastUser <= db'[conn].lastUser
  /\ \A u \in db'[conn].rows.users :
       u.id <= db[conn].lastUser => \E v \in Users : v.id = u.id /\ v.role = u.role

LEMMA OthersKeep ==
  ASSUME AllSound, \A h \in Handlers : Pending(h), NEW x, Aside(x), UNCHANGED conn, Mild,
         NEW g \in Handlers \ {x}, doomed[g] \subseteq Nat, who[g] \in Nat
  PROVE  Pending(g)' /\ SoundMigration(g)'
<1>1. pc'[g] = pc[g] /\ who'[g] = who[g] /\ doomed'[g] = doomed[g] /\ copy'[g] = copy[g] /\ Pending(g)
      /\ SoundMigration(g)
  BY DEF Aside, AllSound
<1>2. SoundMigration(g)'
  BY <1>1 DEF SoundMigration
<1>3. Users' = db'[conn].rows.users /\ db'[conn'].lastUser = db'[conn].lastUser
  BY DEF Users
<1>4. \A n \in Nat : n <= db[conn].lastUser => n <= db'[conn].lastUser
  BY DEF Mild
<1>5. ASSUME NEW u \in Users', u.id <= db[conn].lastUser
      PROVE  \E v \in Users : v.id = u.id /\ v.role = u.role
  BY <1>3, <1>5 DEF Mild
<1>6. ASSUME pc[g] = "update user"
      PROVE  /\ \A u \in Users' : u.id \in doomed[g] => u.role = "user"
             /\ \A n \in doomed[g] : n <= db'[conn].lastUser
  BY <1>1, <1>4, <1>5, <1>6 DEF Pending
<1>7. ASSUME pc[g] \in {"delete user", "delete tenant"}
      PROVE  /\ who[g] \notin doomed[g] /\ who[g] <= db'[conn].lastUser
             /\ \A u \in Users' : u.id = who[g] => u.role = "admin"
  BY ZenonT(40), <1>1, <1>4, <1>5, <1>7 DEF Pending
<1>8. Pending(g)'
  BY <1>1, <1>3, <1>6, <1>7 DEF Pending
<1> QED BY <1>2, <1>8

LEMMA UnwrittenMild ==
  ASSUME TypeOK, AllSound, UNCHANGED db \/ AllUnwritten
  PROVE  Mild /\ \A d \in Databases : Sound(d)'
<1>1. AllUnwritten /\ conn \in Databases /\ db \in [Databases -> Content]
  BY Parts DEF AllUnwritten, Unwritten, StoreTyped
<1>2. db'[conn].rows = db[conn].rows /\ db'[conn].lastUser = db[conn].lastUser
  BY <1>1 DEF AllUnwritten, Unwritten
<1>3. db[conn].lastUser \in Nat
  BY <1>1, BoundsAssumption DEF Content
<1>4. Mild
  BY <1>2, <1>3 DEF Mild, Users
<1> QED BY <1>1, <1>4, UnwrittenSound DEF AllSound, AllUnwritten

LEMMA CommitMild ==
  ASSUME TypeOK, AllSound, NEW h \in Handlers, Committing(h)
  PROVE  Mild
<1>0. /\ db \in [Databases -> Content] /\ conn \in Databases /\ Users \subseteq Account
      /\ db[conn] \in Content /\ db[conn].rows \in Rows
      /\ db[conn].lastUser \in Nat /\ \A u \in Users : u.id <= db[conn].lastUser
  BY Parts, RowsTyped, BoundsAssumption DEF StoreTyped, AllSound, Sound, Users, Content
<1>1. CASE CommitCreateUser(h)
  <2> DEFINE n == db[conn].lastUser + 1
             new == [id |-> n, email |-> email[h], role |-> role[h], of |-> tenant[h]]
  <2>1. db' = [db EXCEPT ![conn].lastUser = n, ![conn].rows.users = @ \cup {new}]
    BY <1>1 DEF CommitCreateUser
  <2>2. /\ db'[conn].rows.users = Users \cup {new} /\ db'[conn].lastUser = n
    BY <1>0, <2>1 DEF Content, Rows, Users
  <2>3. new.id = n /\ ~ (n <= db[conn].lastUser) /\ n \in Nat /\ db[conn].lastUser <= n
    BY <1>0
  <2> HIDE DEF new
  <2> QED BY <1>0, <2>2, <2>3 DEF Mild
<1>2. CASE CommitUpdateUser(h)
  <2> DEFINE Moved == {IF u \in Loaded(h) THEN [u EXCEPT !.of = tenant[h]] ELSE u : u \in Users}
  <2>1. db' = [db EXCEPT ![conn].rows["users"] = Moved]
    BY <1>2 DEF CommitUpdateUser, Commit
  <2>2. db'[conn].rows.users = Moved /\ db'[conn].lastUser = db[conn].lastUser
    BY <1>0, <2>1 DEF Content, Rows
  <2>3. \A u \in Moved : \E v \in Users : v.id = u.id /\ v.role = u.role
    BY <1>0 DEF Account
  <2> QED BY <1>0, <2>2, <2>3 DEF Mild
<1>3. CASE CommitDeleteUser(h) \/ CommitCreateTenant(h)
  <2>1. db'[conn].rows.users \subseteq Users /\ db'[conn].lastUser = db[conn].lastUser
    <3>1. CASE CommitDeleteUser(h)
      BY <1>0, <3>1 DEF CommitDeleteUser, Commit, Content, Rows, Users
    <3>2. CASE CommitCreateTenant(h)
      BY <1>0, <3>2 DEF CommitCreateTenant, Commit, Content, Rows, Users
    <3> QED BY <1>3, <3>1, <3>2
  <2> QED BY <1>0, <2>1 DEF Mild
<1>4. CASE CommitDeleteTenant(h)
  <2>1. db' = [db EXCEPT ![conn].rows.users = @ \ Loaded(h), ![conn].rows.tenants = @ \ {tenant[h]}]
    BY <1>4 DEF CommitDeleteTenant
  <2>2. db'[conn].rows.users \subseteq Users /\ db'[conn].lastUser = db[conn].lastUser
    BY <1>0, <2>1 DEF Content, Rows, Users
  <2> QED BY <1>0, <2>2 DEF Mild
<1>5. CASE CommitCreateProject(h)
  <2> DEFINE n == db[conn].lastProject + 1
             new == [id |-> n, born |-> born + 1]
  <2>1. db' = [db EXCEPT ![conn].lastProject = n, ![conn].rows.projects = @ \cup {new}]
    BY <1>5 DEF CommitCreateProject
  <2>2. db'[conn].rows.users = Users /\ db'[conn].lastUser = db[conn].lastUser
    BY <1>0, <2>1 DEF Content, Rows, Users
  <2> QED BY <1>0, <2>2 DEF Mild
<1> QED BY <1>1, <1>2, <1>3, <1>4, <1>5 DEF Committing

LEMMA BootstrapSound ==
  ASSUME TypeOK, AllSound, NEW x \in Actors, Bootstrapping(x)
  PROVE  Mild /\ \A d \in Databases : Sound(d)'
<1>0. /\ db \in [Databases -> Content] /\ conn \in Databases /\ Users \subseteq Account
      /\ db[conn] \in Content /\ db[conn].rows \in Rows
      /\ db[conn].lastUser \in Nat /\ \A u \in Users : u.id <= db[conn].lastUser
  BY Parts, RowsTyped, BoundsAssumption DEF StoreTyped, AllSound, Sound, Users, Content
<1>1. CASE EnsureDefaultAdmin(x) \/ SetupFails(x)
  BY <1>1, UnwrittenMild DEF EnsureDefaultAdmin, SetupFails
<1>2. CASE CreateAll(x)
  <2>1. db' = [db EXCEPT ![conn].schema = TRUE]
    BY <1>2 DEF CreateAll
  <2>2. AllUnwritten
    BY <1>0, <2>1 DEF AllUnwritten, Unwritten, Content
  <2> QED BY <2>2, UnwrittenMild
<1>3. CASE InsertDefaultAdmin(x)
  <2> DEFINE n == db[conn].lastUser + 1
             new == DefaultAdmin(n)
  <2>1. /\ n \in Ids /\ ~ Taken(DEFAULT_ADMIN_EMAIL)
        /\ db' = [db EXCEPT ![conn].lastUser = n, ![conn].rows.users = @ \cup {new}]
    BY <1>3 DEF InsertDefaultAdmin
  <2>2. /\ db'[conn].rows.users = Users \cup {new} /\ db'[conn].lastUser = n
        /\ db'[conn].rows.projects = Projects /\ db'[conn].lastProject = db[conn].lastProject
    BY <1>0, <2>1 DEF Content, Rows, Users, Projects
  <2>3. new.id = n /\ ~ (n <= db[conn].lastUser) /\ n \in Nat /\ db[conn].lastUser <= n
        /\ (new.role = "admin" <=> new.of = None) /\ new \in Account
        /\ \A v \in Users : v.email # new.email
    BY <1>0, <2>1, DefaultAdminTyped DEF DefaultAdmin, Taken
  <2> HIDE DEF new
  <2>4. Mild
    BY <1>0, <2>2, <2>3 DEF Mild
  <2>6. ASSUME NEW d \in Databases PROVE Sound(d)'
    <3>1. CASE d = conn
      <4>1. Sound(d) /\ d = conn
        BY <3>1 DEF AllSound
      <4> QED BY <1>0, <2>2, <2>3, <4>1, NewUserSound DEF Users, Projects
    <3>2. CASE d # conn
      BY <1>0, <2>1, <3>2, UnwrittenSound DEF AllSound, Unwritten
    <3> QED BY <3>1, <3>2
  <2> QED BY <2>4, <2>6
<1> QED BY <1>1, <1>2, <1>3 DEF Bootstrapping

LEMMA DropSound ==
  ASSUME TypeOK, AllSound, NEW h \in Handlers, DropAll(h)
  PROVE  \A d \in Databases : Sound(d)'
<1>0. db \in [Databases -> Content] /\ conn \in Databases /\ db' = [db EXCEPT ![conn] = Blank]
  BY Parts DEF StoreTyped, DropAll
<1>1. ASSUME NEW d \in Databases PROVE Sound(d)'
  <2>1. CASE d # conn
    BY <1>0, <2>1, UnwrittenSound DEF AllSound, Unwritten
  <2>2. CASE d = conn
    BY <1>0, <2>2, NoRowsSound DEF Sound, Blank, NoRows
  <2> QED BY <2>1, <2>2
<1> QED BY <1>1

(* Rows that meet no row of the others by id or by e-mail go well together.  *)
LEMMA UnionSound ==
  ASSUME NEW U, NEW V, SoundUsers(U), SoundUsers(V),
         \A v \in V : \A u \in U : v.id # u.id /\ v.email # u.email
  PROVE  SoundUsers(U \cup V)
BY DEF SoundUsers

LEMMA ProjectUnionSound ==
  ASSUME NEW P, NEW Q, SoundProjects(P), SoundProjects(Q),
         \A q \in Q : \A p \in P : q.id # p.id
  PROVE  SoundProjects(P \cup Q)
BY DEF SoundProjects

(* The rows of a migration meet no row of another: Clash.                    *)
LEMMA MigrationSound ==
  ASSUME TypeOK, AllSound, NEW h \in Handlers, CommitMigration(h)
  PROVE  Mild /\ \A d \in Databases : Sound(d)'
<1>0. /\ db \in [Databases -> Content] /\ conn \in Databases /\ db[conn] \in Content
      /\ db[External] \in Content /\ db[External].rows \in Rows /\ copy[h] \in Rows
      /\ conn = Local /\ Sound(External) /\ Sound(Local)
      /\ SoundUsers(copy[h].users) /\ SoundProjects(copy[h].projects)
  <2>1. /\ db \in [Databases -> Content] /\ conn \in Databases /\ db[conn] \in Content
        /\ db[External] \in Content /\ db[External].rows \in Rows /\ copy[h] \in Rows
    BY Parts, RowsTyped DEF StoreTyped, LocalTyped
  <2> QED BY <2>1 DEF AllSound, SoundMigration, CommitMigration, Migrating, Databases
<1> DEFINE all == [t \in Tables |-> db[External].rows[t] \cup copy[h][t]]
<1>1. /\ ~ Clash(copy[h], db[External].rows)
      /\ db' = [db EXCEPT ![External].rows = all, ![External].lastUser = LastId(all.users),
                          ![External].lastProject = LastId(all.projects)]
  BY DEF CommitMigration
<1>2. /\ all.users = db[External].rows.users \cup copy[h].users
      /\ all.projects = db[External].rows.projects \cup copy[h].projects
  BY DEF Tables
<1>3. (\A r \in all.users : r.id \in Ids) /\ (\A r \in all.projects : r.id \in Ids)
  BY <1>0, <1>2 DEF Rows, Account, Project
<1>4. SoundUsers(all.users) /\ SoundProjects(all.projects)
  <2>1. SoundUsers(db[External].rows.users) /\ SoundProjects(db[External].rows.projects)
    BY <1>0 DEF Sound
  <2>2. \A v \in copy[h].users : \A u \in db[External].rows.users : v.id # u.id /\ v.email # u.email
    BY <1>1 DEF Clash
  <2>3. \A q \in copy[h].projects : \A p \in db[External].rows.projects : q.id # p.id
    BY <1>1 DEF Clash
  <2>4. SoundUsers(all.users)
    BY <1>0, <1>2, <2>1, <2>2, UnionSound
  <2>5. SoundProjects(all.projects)
    BY <1>0, <1>2, <2>1, <2>3, ProjectUnionSound
  <2> QED BY <2>4, <2>5
<1> HIDE DEF all
<1>5. /\ \A r \in all.users : r.id <= LastId(all.users)
      /\ \A r \in all.projects : r.id <= LastId(all.projects)
  BY <1>3, LastIdIsGreatest
<1>6. /\ db'[External].rows = all /\ db'[External].lastUser = LastId(all.users)
      /\ db'[External].lastProject = LastId(all.projects) /\ db'[Local] = db[Local]
  BY <1>0, <1>1 DEF Content, Databases, Local, External
<1>7. Sound(External)'
  BY <1>4, <1>5, <1>6 DEF Sound
<1>8. Sound(Local)'
  BY <1>0, <1>6, UnwrittenSound DEF Unwritten
<1>9. Mild
  BY <1>0, <1>6, BoundsAssumption DEF Mild, Users, Content
<1> QED BY <1>7, <1>8, <1>9 DEF Databases

Guarded == AllSound /\ \A h \in Handlers : Pending(h)

LEMMA NextGuarded ==
  ASSUME TypeOK, Writes, Guarded, [Next]_vars
  PROVE  Guarded'
<1>0. /\ AllSound /\ LocalTyped /\ \A h \in Handlers : h \in Actors /\ Pending(h) /\ SoundMigration(h)
      /\ \A h \in Handlers : doomed[h] \subseteq Nat /\ who[h] \in Nat
  <2>1. AllSound /\ LocalTyped /\ \A h \in Handlers : h \in Actors /\ Pending(h) /\ SoundMigration(h)
    BY Parts, HandlersAct DEF Guarded, AllSound
  <2>2. Ids \subseteq Nat /\ 0 .. MaxId \subseteq Nat
    BY BoundsAssumption DEF Ids
  <2> QED BY <2>1, <2>2 DEF LocalTyped
<1>1. ASSUME NEW x, Aside(x), UNCHANGED conn, Mild, \A d \in Databases : Sound(d)',
             x \in Handlers => Pending(x)' /\ SoundMigration(x)'
      PROVE  Guarded'
  BY <1>0, <1>1, OthersKeep DEF Guarded, AllSound
<1>2. ASSUME NEW h \in Handlers, Free(h), UNCHANGED conn PROVE Pending(h)' /\ SoundMigration(h)'
  <2>1. pc'[h] \notin {"update user", "delete user", "delete tenant"} \cup Migrating
    BY <1>2 DEF Free, Deciders
  <2>2. copy'[h] = copy[h] \/ copy'[h] = NoRows
    BY <1>2 DEF Free
  <2> QED BY <1>0, <2>1, <2>2, NoRowsSound DEF Pending, SoundMigration
<1>3. CASE UNCHANGED vars
  <2>1. UNCHANGED <<db, conn, pc, who, doomed, copy>>
    BY <1>3 DEF vars, local
  <2>2. AllSound'
    BY <1>0, <2>1 DEF AllSound, Sound, SoundMigration
  <2>3. \A h \in Handlers : Pending(h)'
    BY <1>0, <2>1 DEF Pending, Users
  <2> QED BY <2>2, <2>3 DEF Guarded
<1>4. ASSUME NEW h \in Handlers, Requesting(h) PROVE Guarded'
  BY <1>0, <1>1, <1>4, RequestPending, UnwrittenMild
<1>5. ASSUME NEW h \in Handlers, Committing(h) PROVE Guarded'
  BY <1>0, <1>1, <1>2, <1>5, CommittingAside, CommitMild, CommitSound DEF Committing
<1>6. ASSUME NEW h \in Handlers, Finishing(h) PROVE Guarded'
  <2>1. UNCHANGED db
    BY <1>6 DEF Finishing, RequestFails, Recompute, RecomputeFails, MigrationFails
  <2> QED BY <1>0, <1>1, <1>2, <1>6, <2>1, CommittingAside, UnwrittenMild
<1>7. ASSUME NEW h \in Handlers, CheckEmpty(h) \/ CopyTable(h) PROVE Guarded'
  BY <1>0, <1>1, <1>7, CopyAside, UnwrittenMild
<1>8. ASSUME NEW h \in Handlers, CommitMigration(h) PROVE Guarded'
  BY <1>0, <1>1, <1>2, <1>8, CommittingAside, MigrationSound
<1>9. ASSUME NEW x \in Actors, Bootstrapping(x) PROVE Guarded'
  BY <1>0, <1>1, <1>2, <1>9, BootstrapAside, BootstrapSound
<1>10. ASSUME NEW p \in Processes, Restart(p) \/ (p # Api /\ Crash(p)) PROVE Guarded'
  <2>1. UNCHANGED db /\ p \notin Handlers /\ p \in Actors
    BY <1>10, BoundsAssumption DEF Restart, Crash, Actors
  <2> QED BY <1>0, <1>1, <1>10, <2>1, BootstrapAside, UnwrittenMild
<1>11. ASSUME NEW h \in Handlers, DropAll(h) PROVE Guarded'
  <2>1. Aside(h) /\ UNCHANGED conn /\ Free(h)
    BY <1>0, <1>11, BootstrapAside
  <2>2. \A d \in Databases : Sound(d)'
    BY <1>0, <1>11, DropSound
  <2>3. ASSUME NEW g \in Handlers \ {h} PROVE Pending(g)' /\ SoundMigration(g)'
    <3>1. pc[g] \notin {"update user", "delete user", "delete tenant"}
      BY <1>0, <1>11 DEF DropAll, Reading, Deciding
    <3>2. pc'[g] = pc[g] /\ copy'[g] = copy[g]
      BY <2>1 DEF Aside
    <3> QED BY <1>0, <2>1, <3>1, <3>2 DEF Pending, SoundMigration
  <2> QED BY <1>2, <2>1, <2>2, <2>3 DEF Guarded, AllSound
<1>12. CASE Crash(Api) \/ Recreate
  <2>1. UNCHANGED db /\ ForgetAll /\ \A h \in Handlers : pc'[h] = "idle"
    BY <1>0, <1>12 DEF Crash, Recreate
  <2>2. \A h \in Handlers : copy'[h] = NoRows
    BY <2>1 DEF ForgetAll
  <2>3. \A h \in Handlers : Pending(h)' /\ SoundMigration(h)'
    BY <2>1, <2>2, NoRowsSound DEF Pending, SoundMigration, Migrating, Copying
  <2>4. \A d \in Databases : Sound(d)'
    BY <1>0, <2>1, UnwrittenMild
  <2> QED BY <2>3, <2>4 DEF Guarded, AllSound
<1>13. CASE CollectorCycle
  <2>1. UNCHANGED <<db, conn, pc, who, doomed, copy>>
    BY <1>13 DEF CollectorCycle, local
  <2>2. AllSound'
    BY <1>0, <2>1 DEF AllSound, Sound, SoundMigration
  <2>3. \A h \in Handlers : Pending(h)'
    BY <1>0, <2>1 DEF Pending, Users
  <2> QED BY <2>2, <2>3 DEF Guarded
<1>14. CASE \E h \in Handlers : Requesting(h) \/ Committing(h) \/ Finishing(h) \/ DropAll(h)
              \/ CheckEmpty(h) \/ CopyTable(h) \/ CommitMigration(h)
  BY <1>4, <1>5, <1>6, <1>7, <1>8, <1>11, <1>14
<1>15. CASE \E p \in Processes : Crash(p) \/ Restart(p)
  BY <1>10, <1>12, <1>15
<1>16. Next => \/ \E h \in Handlers : Requesting(h) \/ Committing(h) \/ Finishing(h) \/ DropAll(h)
                    \/ CheckEmpty(h) \/ CopyTable(h) \/ CommitMigration(h)
               \/ \E x \in Actors : Bootstrapping(x)
               \/ \E p \in Processes : Crash(p) \/ Restart(p)
               \/ CollectorCycle \/ Recreate
  BY DEF Next, Requesting, Committing, Finishing, Bootstrapping
<1> QED BY <1>3, <1>9, <1>12, <1>13, <1>14, <1>15, <1>16

-----------------------------------------------------------------------------
(* Someone administers the portal                                           *)

(* An account with the default e-mail is an administrator, or in the way of one. *)
DefaultTaken == \E u \in Users : u.email = DEFAULT_ADMIN_EMAIL /\ u.role = "user"

LEMMA StillAdministered ==
  ASSUME AdministratorRemains, Users \subseteq Users', excuse' = excuse \/ excuse' = TRUE
  PROVE  AdministratorRemains'
BY DEF AdministratorRemains, Administrators

LEMMA DeletedAdministered ==
  ASSUME TypeOK, Guarded, AdministratorRemains, NEW h \in Handlers,
         CommitDeleteUser(h) \/ CommitDeleteTenant(h)
  PROVE  AdministratorRemains'
<1>1. /\ Users' = Users \ Loaded(h) /\ excuse' = (excuse \/ Overtaken(h))
      /\ pc[h] \in {"delete user", "delete tenant"}
  <2>1. db \in [Databases -> Content] /\ conn \in Databases
    BY Parts DEF StoreTyped
  <2>2. CASE CommitDeleteUser(h)
    BY <2>1, <2>2 DEF CommitDeleteUser, Commit, Content, Rows, Users
  <2>3. CASE CommitDeleteTenant(h)
    <3>1. db' = [db EXCEPT ![conn].rows.users = @ \ Loaded(h), ![conn].rows.tenants = @ \ {tenant[h]}]
      BY <2>3 DEF CommitDeleteTenant
    <3>2. db'[conn].rows.users = Users \ Loaded(h)
      BY <2>1, <3>1 DEF Content, Rows, Users
    <3> QED BY <2>3, <3>2 DEF CommitDeleteTenant, Users
  <2> QED BY <2>2, <2>3
<1>2. CASE Overtaken(h)
  BY <1>1, <1>2 DEF AdministratorRemains
<1>3. CASE ~ Overtaken(h)
  <2>1. PICK u \in Users : u.id = who[h]
    BY <1>3 DEF Overtaken
  <2>2. u.role = "admin" /\ u.id \notin doomed[h]
    BY <1>1, <2>1 DEF Guarded, Pending
  <2>3. u \in Administrators'
    BY <1>1, <2>1, <2>2 DEF Administrators, Loaded
  <2> QED BY <2>3 DEF AdministratorRemains
<1> QED BY <1>2, <1>3

LEMMA UpdatedAdministered ==
  ASSUME TypeOK, AdministratorRemains, NEW h \in Handlers, CommitUpdateUser(h)
  PROVE  AdministratorRemains'
<1> DEFINE moved(u) == IF u \in Loaded(h) THEN [u EXCEPT !.of = tenant[h]] ELSE u
<1>0. db \in [Databases -> Content] /\ conn \in Databases /\ Users \subseteq Account
  BY Parts, RowsTyped DEF StoreTyped
<1>1. db' = [db EXCEPT ![conn].rows["users"] = {moved(u) : u \in Users}] /\ UNCHANGED <<conn, excuse>>
  BY DEF CommitUpdateUser, Commit, history
<1>2. Users' = {moved(u) : u \in Users}
  BY <1>0, <1>1 DEF Content, Rows, Users
<1>3. \A u \in Users : moved(u) \in Users' /\ moved(u).role = u.role /\ moved(u).email = u.email
  BY <1>0, <1>2 DEF Account
<1> HIDE DEF moved
<1>4. Administrators' = {} => Administrators = {}
  BY <1>3 DEF Administrators
<1> QED BY <1>1, <1>3, <1>4 DEF AdministratorRemains

(* A wipe, a start or a switch is over when the default account is there.    *)
LEMMA ReadyAdministered ==
  ASSUME DefaultAdminExists' , \A u \in Users' : u.role \in {"admin", "user"}
  PROVE  AdministratorRemains'
BY DEF AdministratorRemains, Administrators, DefaultAdminExists, Taken

LEMMA NextAdministered ==
  ASSUME TypeOK, TypeOK', Guarded, AdministratorRemains, [Next]_vars
  PROVE  AdministratorRemains'
<1>0. /\ db \in [Databases -> Content] /\ conn \in Databases /\ db[conn] \in Content
      /\ Users \subseteq Account /\ \A u \in Users' : u.role \in {"admin", "user"}
  <2>1. db \in [Databases -> Content] /\ conn \in Databases /\ Users \subseteq Account
    BY Parts, RowsTyped DEF StoreTyped
  <2>2. Users' \subseteq Account
    BY PartsNext DEF StoreTyped, Content, Rows, Users
  <2> QED BY <2>1, <2>2 DEF Account
<1>1. ASSUME db'[conn] = db[conn] \/ AllUnwritten, UNCHANGED conn, excuse' = excuse \/ excuse' = TRUE
      PROVE  AdministratorRemains'
  <2>1. Users' = Users
    BY <1>0, <1>1 DEF AllUnwritten, Unwritten, Users
  <2> QED BY <1>1, <2>1, StillAdministered
<1>2. CASE UNCHANGED vars
  BY <1>1, <1>2 DEF vars, history
<1>3. ASSUME NEW h \in Handlers, Requesting(h) PROVE AdministratorRemains'
  <2>1. UNCHANGED excuse
    BY <1>3 DEF Requesting, CreateUser, UpdateUser, DeleteUser, CreateTenant, DeleteTenant, CreateProject,
       Wipe, Migrate, Authorise, history
  <2> QED BY <1>1, <1>3, <2>1, RequestPending DEF Guarded
<1>4. ASSUME NEW h \in Handlers, Finishing(h) \/ CheckEmpty(h) \/ CopyTable(h) PROVE AdministratorRemains'
  <2>1. UNCHANGED <<db, conn, excuse>>
    BY <1>4 DEF Finishing, RequestFails, Recompute, RecomputeFails, MigrationFails, CheckEmpty, CopyTable, history
  <2> QED BY <1>1, <2>1
<1>5. ASSUME NEW h \in Handlers, CommitCreateUser(h) \/ CommitCreateTenant(h) \/ CommitCreateProject(h)
      PROVE  AdministratorRemains'
  <2>1. UNCHANGED <<conn, excuse>>
    BY <1>5 DEF CommitCreateUser, CommitCreateTenant, CommitCreateProject, history
  <2>2. CASE CommitCreateUser(h)
    <3> DEFINE n == db[conn].lastUser + 1
               new == [id |-> n, email |-> email[h], role |-> role[h], of |-> tenant[h]]
    <3>1. db' = [db EXCEPT ![conn].lastUser = n, ![conn].rows.users = @ \cup {new}]
      BY <2>2 DEF CommitCreateUser
    <3> HIDE DEF new
    <3>2. db'[conn].rows.users = Users \cup {new}
      BY <1>0, <3>1 DEF Content, Rows, Users
    <3> QED BY <2>1, <3>2, StillAdministered DEF Users
  <2>3. CASE CommitCreateTenant(h)
    <3>1. db'[conn].rows.users = Users
      BY <1>0, <2>3 DEF CommitCreateTenant, Commit, Content, Rows, Users
    <3> QED BY <2>1, <3>1, StillAdministered DEF Users
  <2>4. CASE CommitCreateProject(h)
    <3> DEFINE n == db[conn].lastProject + 1
               new == [id |-> n, born |-> born + 1]
    <3>1. db' = [db EXCEPT ![conn].lastProject = n, ![conn].rows.projects = @ \cup {new}]
      BY <2>4 DEF CommitCreateProject
    <3> HIDE DEF new
    <3>2. db'[conn].rows.users = Users
      BY <1>0, <3>1 DEF Content, Rows, Users
    <3> QED BY <2>1, <3>2, StillAdministered DEF Users
  <2> QED BY <1>5, <2>2, <2>3, <2>4
<1>6. ASSUME NEW h \in Handlers, CommitUpdateUser(h) \/ CommitDeleteUser(h) \/ CommitDeleteTenant(h)
      PROVE  AdministratorRemains'
  BY <1>6, UpdatedAdministered, DeletedAdministered
<1>7. ASSUME NEW h \in Handlers, CommitMigration(h) PROVE AdministratorRemains'
  <2>1. conn = Local /\ UNCHANGED <<conn, excuse>>
    BY <1>7 DEF CommitMigration, Guarded, AllSound, SoundMigration, Migrating, history
  <2>2. db'[conn] = db[conn]
    BY <1>0, <1>7, <2>1 DEF CommitMigration, Databases, Local, External
  <2> QED BY <1>1, <2>1, <2>2
<1>8. ASSUME NEW h \in Handlers, DropAll(h) PROVE AdministratorRemains'
  BY <1>8 DEF DropAll, AdministratorRemains
<1>9. ASSUME NEW x \in Actors, Bootstrapping(x) PROVE AdministratorRemains'
  <2>1. CASE CreateAll(x) \/ SetupFails(x)
    <3>1. UNCHANGED <<conn, excuse>> /\ (UNCHANGED db \/ db' = [db EXCEPT ![conn].schema = TRUE])
      BY <2>1 DEF CreateAll, SetupFails, history
    <3>2. AllUnwritten
      BY <1>0, <3>1 DEF AllUnwritten, Unwritten, Content
    <3> QED BY <1>1, <3>1, <3>2
  <2>2. CASE EnsureDefaultAdmin(x)
    <3>1. UNCHANGED <<db, conn>>
      BY <2>2 DEF EnsureDefaultAdmin
    <3>2. CASE DefaultAdminExists
      BY <1>0, <3>1, <3>2, ReadyAdministered DEF DefaultAdminExists, Taken, Users
    <3>3. CASE ~ DefaultAdminExists
      BY <1>1, <2>2, <3>1, <3>3 DEF EnsureDefaultAdmin
    <3> QED BY <3>2, <3>3
  <2>3. CASE InsertDefaultAdmin(x)
    <3> DEFINE n == db[conn].lastUser + 1
    <3>1. UNCHANGED conn /\ db' = [db EXCEPT ![conn].lastUser = n, ![conn].rows.users = @ \cup {DefaultAdmin(n)}]
      BY <2>3 DEF InsertDefaultAdmin
    <3>2. Users' = Users \cup {DefaultAdmin(n)}
      BY <1>0, <3>1 DEF Content, Rows, Users
    <3>3. DefaultAdminExists'
      <4>1. DefaultAdmin(n).email = DEFAULT_ADMIN_EMAIL
        BY DEF DefaultAdmin
      <4>2. DefaultAdmin(n) \in Users'
        BY <3>2
      <4> QED BY <4>1, <4>2 DEF DefaultAdminExists, Taken
    <3> QED BY <1>0, <3>3, ReadyAdministered
  <2> QED BY <1>9, <2>1, <2>2, <2>3 DEF Bootstrapping
<1>10. ASSUME NEW p \in Processes, Restart(p) \/ Crash(p) PROVE AdministratorRemains'
  BY <1>1, <1>10 DEF Restart, Crash, history
<1>11. CASE Recreate
  BY <1>11 DEF Recreate, AdministratorRemains
<1>12. CASE CollectorCycle
  BY <1>1, <1>12 DEF CollectorCycle
<1> QED BY <1>2, <1>3, <1>4, <1>5, <1>6, <1>7, <1>8, <1>9, <1>10, <1>11, <1>12
        DEF Next, Requesting, Finishing, Bootstrapping

LEMMA InitAdministered == Init => AdministratorRemains
<1> SUFFICES ASSUME Init PROVE AdministratorRemains
  OBVIOUS
<1>1. DefaultAdmin(1) \in Users
  BY DEF Init, Users, Databases, Local, External
<1> QED BY <1>1 DEF AdministratorRemains, Administrators, DefaultAdmin

(* Whatever requests, starts, wipes and migrations overlap, the portal has an *)
(* administrator, but for the cases the property names.  The induction needs  *)
(* what AllSound and Pending say of the accounts behind the ids that a        *)
(* request has read (delete_user, delete_tenant, ensure_default_admin).       *)
THEOREM SomeoneAdministers == Spec => []AdministratorRemains
<1>1. Init => Guarded
  <2>1. Init => \A h \in Handlers : pc[h] = "idle"
    BY DEF Init, Actors
  <2> QED BY <2>1, InitSound DEF Guarded, Pending
<1> QED BY <1>1, InitTyped, InitAdministered, NextTyped, NextGuarded, NextAdministered, PTL DEF Spec

-----------------------------------------------------------------------------
(* The project a VM was meant for                                           *)

LEMMA StillMeant ==
  ASSUME OwnerIsMeant, UNCHANGED owner, Projects' \subseteq Projects, owed => owed',
         NEW x, Aside(x), pc[x] # "recompute"
  PROVE  OwnerIsMeant'
BY DEF OwnerIsMeant, Aside

(* What the recompute hands out is a project there is, and ids are unique.   *)
LEMMA AssignMeant ==
  ASSUME StoreTyped, Guarded, Assign, UNCHANGED <<db, conn>>
  PROVE  OwnerIsMeant'
<1>1. Projects' = Projects /\ SoundProjects(Projects) /\ Projects \subseteq Project
  BY RowsTyped DEF StoreTyped, Guarded, AllSound, Sound, Projects
<1>2. \A p \in Projects : p.id # 0
  BY <1>1, BoundsAssumption DEF Project, Ids
<1>3. owner' \in Projects \/ owner'.id = 0
  BY DEF Assign
<1> QED BY <1>1, <1>2, <1>3 DEF OwnerIsMeant, SoundProjects

LEMMA NextMeant ==
  ASSUME TypeOK, Guarded, OwnerIsMeant, [Next]_vars
  PROVE  OwnerIsMeant'
<1>0. /\ StoreTyped /\ LocalTyped /\ db \in [Databases -> Content] /\ conn \in Databases /\ db[conn] \in Content
      /\ \A h \in Handlers : h \in Actors
  BY Parts, RowsTyped, HandlersAct DEF StoreTyped
<1>1. ASSUME db'[conn].rows.projects = Projects, UNCHANGED <<conn, owner>>, owed => owed',
             NEW x, Aside(x), pc[x] # "recompute"
      PROVE  OwnerIsMeant'
  BY <1>1, StillMeant DEF Projects
<1>2. ASSUME AllUnwritten \/ UNCHANGED db PROVE db'[conn].rows.projects = Projects
  BY <1>0, <1>2 DEF AllUnwritten, Unwritten, Projects
<1>3. CASE UNCHANGED vars
  <2>1. UNCHANGED <<db, conn, owner, pc, owed>>
    BY <1>3 DEF vars, local, history
  <2> QED BY <2>1 DEF OwnerIsMeant, Projects
<1>4. ASSUME NEW h \in Handlers, Requesting(h) PROVE OwnerIsMeant'
  <2>1. UNCHANGED <<owner, owed>> /\ pc[h] = "idle"
    BY <1>4 DEF Requesting, CreateUser, UpdateUser, DeleteUser, CreateTenant, DeleteTenant, CreateProject,
       Wipe, Migrate, Authorise, history
  <2> QED BY <1>0, <1>1, <1>2, <1>4, <2>1, RequestPending DEF Guarded
<1>5. ASSUME NEW h \in Handlers, RequestFails(h) \/ MigrationFails(h) \/ CheckEmpty(h) \/ CopyTable(h)
      PROVE  OwnerIsMeant'
  <2>1. UNCHANGED <<db, conn, owner, owed>> /\ pc[h] # "recompute"
    BY <1>5 DEF RequestFails, MigrationFails, CheckEmpty, CopyTable, Copying, history
  <2>2. Aside(h)
    BY <1>5, CommittingAside, CopyAside DEF Finishing, Guarded
  <2> QED BY <1>1, <1>2, <2>1, <2>2
<1>6. ASSUME NEW h \in Handlers,
             CommitCreateUser(h) \/ CommitUpdateUser(h) \/ CommitDeleteUser(h) \/ CommitCreateTenant(h)
               \/ CommitDeleteTenant(h)
      PROVE  OwnerIsMeant'
  <2>1. UNCHANGED <<conn, owner, owed>> /\ pc[h] # "recompute"
    BY <1>6 DEF CommitCreateUser, CommitUpdateUser, CommitDeleteUser, CommitCreateTenant, CommitDeleteTenant,
       history
  <2>2. Aside(h)
    BY <1>6, CommittingAside DEF Committing
  <2>3. db'[conn].rows.projects = Projects
    <3>1. CASE CommitCreateUser(h)
      <4> DEFINE n == db[conn].lastUser + 1
                 new == [id |-> n, email |-> email[h], role |-> role[h], of |-> tenant[h]]
      <4>1. db' = [db EXCEPT ![conn].lastUser = n, ![conn].rows.users = @ \cup {new}]
        BY <3>1 DEF CommitCreateUser
      <4> HIDE DEF new
      <4> QED BY <1>0, <4>1 DEF Content, Rows, Projects
    <3>2. CASE CommitUpdateUser(h) \/ CommitDeleteUser(h) \/ CommitCreateTenant(h)
      <4>1. \E t \in {"users", "tenants"} : \E set : db' = [db EXCEPT ![conn].rows[t] = set]
        BY <3>2 DEF CommitUpdateUser, CommitDeleteUser, CommitCreateTenant, Commit
      <4> QED BY <1>0, <4>1 DEF Content, Rows, Projects
    <3>3. CASE CommitDeleteTenant(h)
      <4>1. db' = [db EXCEPT ![conn].rows.users = @ \ Loaded(h), ![conn].rows.tenants = @ \ {tenant[h]}]
        BY <3>3 DEF CommitDeleteTenant
      <4> QED BY <1>0, <4>1 DEF Content, Rows, Projects
    <3> QED BY <1>6, <3>1, <3>2, <3>3
  <2> QED BY <1>1, <2>1, <2>2, <2>3
<1>7. ASSUME NEW h \in Handlers, CommitCreateProject(h) PROVE OwnerIsMeant'
  <2>1. Goto(h, "recompute")
    BY <1>7 DEF CommitCreateProject, ThenRecompute
  <2>2. pc'[h] = "recompute"
    BY <1>0, <2>1 DEF Goto, LocalTyped
  <2> QED BY <2>2 DEF OwnerIsMeant
<1>8. ASSUME NEW h \in Handlers, Recompute(h) PROVE OwnerIsMeant'
  BY <1>0, <1>8, AssignMeant DEF Recompute
<1>9. ASSUME NEW h \in Handlers, RecomputeFails(h) PROVE OwnerIsMeant'
  BY <1>9 DEF RecomputeFails, OwnerIsMeant
<1>10. CASE CollectorCycle
  BY <1>0, <1>10, AssignMeant DEF CollectorCycle
<1>11. ASSUME NEW h \in Handlers, CommitMigration(h) PROVE OwnerIsMeant'
  <2>1. conn = Local /\ UNCHANGED <<conn, owner, owed>> /\ pc[h] # "recompute"
    BY <1>11 DEF CommitMigration, Guarded, AllSound, SoundMigration, Migrating, history
  <2>2. db'[conn] = db[conn]
    BY <1>0, <1>11, <2>1 DEF CommitMigration, Databases, Local, External
  <2> QED BY <1>1, <1>11, <2>1, <2>2, CommittingAside DEF Projects
<1>12. ASSUME NEW h \in Handlers, DropAll(h) PROVE OwnerIsMeant'
  <2>1. db'[conn].rows.projects = {} /\ UNCHANGED conn
    BY <1>0, <1>12 DEF DropAll, Blank, NoRows
  <2> QED BY <2>1 DEF OwnerIsMeant, Projects
<1>13. ASSUME NEW x \in Actors, Bootstrapping(x) PROVE OwnerIsMeant'
  <2>1. UNCHANGED <<owner, owed>> /\ Aside(x) /\ UNCHANGED conn
    BY <1>13, BootstrapAside
       DEF Bootstrapping, CreateAll, EnsureDefaultAdmin, InsertDefaultAdmin, SetupFails, history
  <2>2. pc[x] # "recompute"
    BY <1>13 DEF Bootstrapping, CreateAll, EnsureDefaultAdmin, InsertDefaultAdmin, SetupFails
  <2>3. db'[conn].rows.projects = Projects
    <3>1. CASE CreateAll(x)
      BY <1>0, <3>1 DEF CreateAll, Content, Projects
    <3>2. CASE InsertDefaultAdmin(x)
      <4> DEFINE n == db[conn].lastUser + 1
      <4>1. db' = [db EXCEPT ![conn].lastUser = n, ![conn].rows.users = @ \cup {DefaultAdmin(n)}]
        BY <3>2 DEF InsertDefaultAdmin
      <4> QED BY <1>0, <4>1 DEF Content, Rows, Projects
    <3>3. CASE EnsureDefaultAdmin(x) \/ SetupFails(x)
      BY <3>3 DEF EnsureDefaultAdmin, SetupFails, Projects
    <3> QED BY <1>13, <3>1, <3>2, <3>3 DEF Bootstrapping
  <2> QED BY <1>1, <2>1, <2>2, <2>3
<1>14. ASSUME NEW p \in Processes, Restart(p) \/ (p # Api /\ Crash(p)) PROVE OwnerIsMeant'
  <2>1. UNCHANGED <<db, conn, owner, owed>> /\ p \in Actors /\ p \notin Handlers
    BY <1>14, BoundsAssumption DEF Restart, Crash, Actors, history
  <2>2. Aside(p)
    BY <1>14, <2>1, BootstrapAside
  <2> QED BY <2>1, <2>2 DEF OwnerIsMeant, Aside, Projects
<1>15. CASE Crash(Api)
  <2>1. UNCHANGED <<db, conn, owner>> /\ owed' = (owed \/ \E h \in Handlers : pc[h] = "recompute")
    BY <1>15 DEF Crash
  <2> QED BY <2>1 DEF OwnerIsMeant, Projects
<1>16. CASE Recreate
  BY <1>16 DEF Recreate, OwnerIsMeant
<1> QED BY <1>3, <1>4, <1>5, <1>6, <1>7, <1>8, <1>9, <1>10, <1>11, <1>12, <1>13, <1>14, <1>15, <1>16
        DEF Next, Requesting, Bootstrapping

LEMMA InitGuarded == Init => Guarded
<1>1. Init => \A h \in Handlers : pc[h] = "idle"
  BY DEF Init, Actors
<1> QED BY <1>1, InitSound DEF Guarded, Pending

(* A project_id that outlived its project is wrong only while a recompute is *)
(* owed: ids given out again by a wiped or a migrated database are never     *)
(* mistaken for long (recompute_project_assignments, CommitCreateProject).   *)
THEOREM OwnersAreMeant == Spec => []OwnerIsMeant
<1>1. Init => OwnerIsMeant
  <2> SUFFICES ASSUME Init PROVE OwnerIsMeant
    OBVIOUS
  <2>1. Projects = {[id |-> 1, born |-> 1]} /\ owner = [id |-> 1, born |-> 1]
    BY DEF Init, Projects, Databases, Local, External
  <2> QED BY <2>1 DEF OwnerIsMeant
<1> QED BY <1>1, InitTyped, InitGuarded, NextTyped, NextGuarded, NextMeant, PTL DEF Spec

-----------------------------------------------------------------------------
(* What a migration copies                                                   *)

Copied(phase) ==
  {t \in Tables : \/ t = "tenants" /\ phase \in {"projects", "users", "commit"}
                  \/ t = "projects" /\ phase \in {"users", "commit"}
                  \/ t = "users" /\ phase = "commit"}

(* What stayed all the while is in the source and in every copy made of it,  *)
(* and what is in the source or in a copy was met.                           *)
Witnessed(h) ==
  pc[h] \in Copying \cup {"commit"} =>
    \A t \in Tables :
      /\ stayed[h][t] \subseteq db[conn].rows[t] /\ db[conn].rows[t] \subseteq met[h][t]
      /\ t \in Copied(pc[h]) => stayed[h][t] \subseteq copy[h][t] /\ copy[h][t] \subseteq met[h][t]

AllWitnessed == \A h \in Handlers : Witnessed(h)

(* A commit is watched by the migrations that copy meanwhile.                *)
LEMMA WatchWitnesses ==
  ASSUME UNCHANGED conn, Watch, NEW g \in Handlers, Witnessed(g), pc'[g] = pc[g], copy'[g] = copy[g]
  PROVE  Witnessed(g)'
<1> SUFFICES ASSUME pc[g] \in Copying \cup {"commit"}, NEW t \in Tables
             PROVE  /\ stayed'[g][t] \subseteq db'[conn].rows[t] /\ db'[conn].rows[t] \subseteq met'[g][t]
                    /\ t \in Copied(pc[g]) => stayed'[g][t] \subseteq copy[g][t] /\ copy[g][t] \subseteq met'[g][t]
  BY DEF Witnessed
<1>1. /\ stayed'[g][t] = stayed[g][t] \cap db'[conn].rows[t]
      /\ met'[g][t] = met[g][t] \cup db'[conn].rows[t]
  BY DEF Watch
<1> QED BY <1>1 DEF Witnessed

LEMMA StillWitnesses ==
  ASSUME NEW g \in Handlers, Witnessed(g), db'[conn'].rows = db[conn].rows, UNCHANGED watch,
         pc'[g] = pc[g], copy'[g] = copy[g]
  PROVE  Witnessed(g)'
BY DEF Witnessed, watch

LEMMA CopyWitnesses ==
  ASSUME TypeOK, Guarded, NEW h \in Handlers, Witnessed(h), CopyTable(h)
  PROVE  Witnessed(h)'
<1>0. /\ LocalTyped /\ h \in Actors /\ copy[h] \in Rows
  BY Parts, HandlersAct DEF LocalTyped
<1>1. /\ copy' = [copy EXCEPT ![h][pc[h]] = db[conn].rows[pc[h]]]
      /\ UNCHANGED <<db, conn, stayed, met>>
      /\ pc[h] \in Copying /\ Goto(h, AfterTable(pc[h]))
  BY DEF CopyTable, watch
<1>2. pc'[h] = AfterTable(pc[h])
  BY <1>0, <1>1 DEF Goto, LocalTyped
<1>3. \A t \in Copied(pc'[h]) : t = pc[h] \/ t \in Copied(pc[h])
  BY <1>1, <1>2 DEF Copied, AfterTable, NextTable, Copying, Tables
<1>4. \A t \in Tables : copy'[h][t] = IF t = pc[h] THEN db[conn].rows[t] ELSE copy[h][t]
  BY <1>0, <1>1 DEF Rows, Copying, Tables, LocalTyped
<1> SUFFICES ASSUME NEW t \in Tables
             PROVE  /\ stayed[h][t] \subseteq db[conn].rows[t] /\ db[conn].rows[t] \subseteq met[h][t]
                    /\ t \in Copied(pc'[h]) => stayed[h][t] \subseteq copy'[h][t] /\ copy'[h][t] \subseteq met[h][t]
  BY <1>1 DEF Witnessed
<1> QED BY <1>1, <1>3, <1>4 DEF Witnessed

LEMMA NextWitnessed ==
  ASSUME TypeOK, Guarded, AllWitnessed, [Next]_vars
  PROVE  AllWitnessed'
<1>0. /\ LocalTyped /\ db \in [Databases -> Content] /\ conn \in Databases
      /\ \A h \in Handlers : h \in Actors /\ Witnessed(h)
  BY Parts, HandlersAct DEF StoreTyped, AllWitnessed
<1>1. ASSUME NEW x, Aside(x), Watch, UNCHANGED conn, x \in Handlers => Witnessed(x)'
      PROVE  AllWitnessed'
  BY <1>0, <1>1, WatchWitnesses DEF AllWitnessed, Aside
<1>2. ASSUME NEW x, Aside(x), UNCHANGED watch, db'[conn'].rows = db[conn].rows, x \in Handlers => Witnessed(x)'
      PROVE  AllWitnessed'
  BY <1>0, <1>2, StillWitnesses DEF AllWitnessed, Aside
<1>3. ASSUME NEW h \in Handlers, Free(h) PROVE Witnessed(h)'
  BY <1>3 DEF Free, Migrating, Witnessed
<1>4. CASE UNCHANGED vars
  <2>1. UNCHANGED <<db, conn, pc, copy, watch>>
    BY <1>4 DEF vars, local
  <2> QED BY <1>0, <2>1, StillWitnesses DEF AllWitnessed
<1>5. ASSUME NEW h \in Handlers, Requesting(h) PROVE AllWitnessed'
  <2>1. UNCHANGED watch /\ pc'[h] \in Deciding \cup {"drop", "check"}
    <3>1. PICK phase \in Deciding \cup {"drop", "check"} : Goto(h, phase) /\ UNCHANGED watch
      BY <1>5 DEF Requesting, CreateUser, UpdateUser, DeleteUser, CreateTenant, DeleteTenant, CreateProject,
         Wipe, Migrate, Authorise, Deciding
    <3> QED BY <1>0, <3>1 DEF Goto, LocalTyped
  <2>2. Aside(h) /\ UNCHANGED conn /\ AllUnwritten
    BY <1>5, RequestPending DEF Guarded
  <2>3. db'[conn'].rows = db[conn].rows
    BY <1>0, <2>2 DEF AllUnwritten, Unwritten
  <2>4. Witnessed(h)'
    BY <2>1 DEF Witnessed, Deciding, Copying
  <2> QED BY <1>2, <2>1, <2>2, <2>3, <2>4
<1>6. ASSUME NEW h \in Handlers, Committing(h) \/ Finishing(h) \/ CommitMigration(h) PROVE AllWitnessed'
  <2>1. Watch
    BY <1>6 DEF Committing, Finishing, CommitCreateUser, CommitUpdateUser, CommitDeleteUser, CommitCreateTenant,
           CommitDeleteTenant, CommitCreateProject, RequestFails, Recompute, RecomputeFails,
           CommitMigration, MigrationFails, Answer, ThenRecompute
  <2> QED BY <1>1, <1>3, <1>6, <2>1, CommittingAside
<1>7. ASSUME NEW h \in Handlers, CheckEmpty(h) PROVE AllWitnessed'
  <2>1. Aside(h) /\ UNCHANGED <<db, conn>>
    BY <1>7, CopyAside DEF Guarded
  <2>2. CASE Answer(h)
    <3>1. Watch /\ pc'[h] = "idle"
      BY <1>0, <2>2 DEF Answer, Goto, LocalTyped
    <3>2. Witnessed(h)'
      BY <3>1 DEF Witnessed, Copying
    <3> QED BY <1>1, <2>1, <3>1, <3>2
  <2>3. CASE /\ Goto(h, "tenants") /\ stayed' = [stayed EXCEPT ![h] = db[conn].rows]
             /\ met' = [met EXCEPT ![h] = db[conn].rows]
    <3>1. pc'[h] = "tenants" /\ stayed'[h] = db[conn].rows /\ met'[h] = db[conn].rows
      BY <1>0, <2>3, Parts DEF Goto, LocalTyped, WatchTyped
    <3>2. Witnessed(h)'
      BY <2>1, <3>1 DEF Witnessed, Copied
    <3>3. \A g \in Handlers \ {h} : stayed'[g] = stayed[g] /\ met'[g] = met[g]
      BY <2>3, Parts DEF WatchTyped
    <3>4. \A g \in Handlers \ {h} : Witnessed(g)'
      BY <1>0, <2>1, <3>3 DEF Witnessed, Aside
    <3> QED BY <3>2, <3>4 DEF AllWitnessed
  <2> QED BY <1>7, <2>2, <2>3 DEF CheckEmpty
<1>8. ASSUME NEW h \in Handlers, CopyTable(h) PROVE AllWitnessed'
  <2>1. Aside(h) /\ UNCHANGED <<db, conn, watch>>
    BY <1>8, CopyAside DEF Guarded, CopyTable
  <2> QED BY <1>0, <1>2, <1>8, <2>1, CopyWitnesses
<1>9. ASSUME NEW h \in Handlers, DropAll(h) PROVE AllWitnessed'
  <2>1. Aside(h) /\ Free(h)
    BY <1>0, <1>9, BootstrapAside
  <2>2. \A g \in Handlers : pc[g] \notin Copying \cup {"commit"}
    BY <1>0, <1>9 DEF DropAll, Reading
  <2>3. ASSUME NEW g \in Handlers \ {h} PROVE Witnessed(g)'
    BY <2>1, <2>2 DEF Aside, Witnessed
  <2> QED BY <1>3, <2>1, <2>3 DEF AllWitnessed
<1>10. ASSUME NEW x \in Actors, Bootstrapping(x) PROVE AllWitnessed'
  <2>1. Aside(x) /\ UNCHANGED conn /\ (x \in Handlers => Witnessed(x)')
    BY <1>3, <1>10, BootstrapAside
  <2>2. Watch \/ (UNCHANGED watch /\ db'[conn].rows = db[conn].rows)
    <3>1. CASE CreateAll(x)
      BY <1>0, <3>1 DEF CreateAll, Content
    <3>2. CASE EnsureDefaultAdmin(x) \/ SetupFails(x)
      BY <3>2 DEF EnsureDefaultAdmin, SetupFails, Ready, Answer
    <3>3. CASE InsertDefaultAdmin(x)
      BY <3>3 DEF InsertDefaultAdmin, Ready, Answer
    <3> QED BY <1>10, <3>1, <3>2, <3>3 DEF Bootstrapping
  <2> QED BY <1>1, <1>2, <2>1, <2>2
<1>11. ASSUME NEW p \in Processes, Restart(p) \/ (p # Api /\ Crash(p)) PROVE AllWitnessed'
  <2>1. UNCHANGED <<db, conn, watch>> /\ p \notin Handlers /\ p \in Actors
    BY <1>11, BoundsAssumption DEF Restart, Crash, Actors
  <2>2. Aside(p)
    BY <1>11, <2>1, BootstrapAside
  <2> QED BY <1>2, <2>1, <2>2
<1>12. CASE Crash(Api) \/ Recreate
  <2>1. \A h \in Handlers : pc'[h] = "idle"
    BY <1>0, <1>12 DEF Crash, Recreate
  <2> QED BY <2>1 DEF AllWitnessed, Witnessed, Copying
<1>13. CASE CollectorCycle
  <2>1. UNCHANGED <<db, conn, pc, copy, watch>>
    BY <1>13 DEF CollectorCycle, local
  <2> QED BY <1>0, <2>1, StillWitnesses DEF AllWitnessed
<1> QED BY <1>4, <1>5, <1>6, <1>7, <1>8, <1>9, <1>10, <1>11, <1>12, <1>13
        DEF Next, Requesting, Committing, Finishing, Bootstrapping

(* A migration that commits has copied every row that was there all the time *)
(* and none that was not there at some time, whatever was committed between  *)
(* its reads of one table and the next (migrate_to_external_postgres).       *)
THEOREM MigrationsAreFaithful == Spec => MigrationIsFaithful
<1>1. Init => AllWitnessed
  <2>1. Init => \A h \in Handlers : pc[h] = "idle"
    BY DEF Init, Actors
  <2> QED BY <2>1 DEF AllWitnessed, Witnessed, Copying
<1>2. ASSUME TypeOK, AllWitnessed, NEW h \in Handlers, CommitMigration(h), NEW t \in Tables
      PROVE  /\ stayed[h][t] \subseteq db'[External].rows[t]
             /\ db'[External].rows[t] \subseteq db[External].rows[t] \cup met[h][t]
  <2> DEFINE all == [s \in Tables |-> db[External].rows[s] \cup copy[h][s]]
  <2>1. /\ db' = [db EXCEPT ![External].rows = all, ![External].lastUser = LastId(all.users),
                            ![External].lastProject = LastId(all.projects)]
        /\ pc[h] = "commit"
    BY <1>2 DEF CommitMigration
  <2>2. db \in [Databases -> Content]
    BY <1>2, Parts DEF StoreTyped
  <2>3. all[t] = db[External].rows[t] \cup copy[h][t]
    OBVIOUS
  <2>4. stayed[h][t] \subseteq copy[h][t] /\ copy[h][t] \subseteq met[h][t]
    BY <1>2, <2>1 DEF AllWitnessed, Witnessed, Copied, Tables
  <2> HIDE DEF all
  <2>5. db'[External].rows = all
    BY <2>1, <2>2 DEF Content, Databases
  <2> QED BY <2>3, <2>4, <2>5
<1>3. TypeOK /\ AllWitnessed /\ [Next]_vars =>
        [\A h \in Handlers : CommitMigration(h) =>
           \A t \in Tables :
             /\ stayed[h][t] \subseteq db'[External].rows[t]
             /\ db'[External].rows[t] \subseteq db[External].rows[t] \cup met[h][t]]_vars
  BY <1>2
<1> QED BY <1>1, <1>3, InitTyped, InitGuarded, NextTyped, NextGuarded, NextWitnessed, PTL
        DEF Spec, MigrationIsFaithful
=============================================================================
