---------------------------- MODULE DatabaseSetup ----------------------------
(***************************************************************************)
(* The accounts of the portal, and the administration of the Billing DB    *)
(* that holds them: the bootstrap every process runs when it starts, the   *)
(* wipe of the setup wizard, and the migration to an external PostgreSQL,  *)
(* which takes effect when the containers are recreated with another       *)
(* DATABASE_URL.                                                           *)
(*                                                                         *)
(* An administrator is authorised when a request begins (require_admin);   *)
(* what the request reads and what it commits are two steps, between which *)
(* other requests commit.  Of the Operations DB one VM is kept, with the   *)
(* project_id that outlives the projects of a wiped Billing DB.            *)
(***************************************************************************)
EXTENDS Integers, FiniteSets, FiniteSetsExt

CONSTANTS
  Handlers,       \* API worker threads
  Logins,         \* e-mails, besides that of the default administrator
  Tenants,
  None,
  MaxId,          \* bound: ids of a table
  MaxBorn,        \* bound: projects ever created
  MaxRequests, MaxCrashes   \* bounds

Local     == "local"
External  == "external"
Databases == {Local, External}

DEFAULT_ADMIN_EMAIL == "admin"
Api       == "api"
Collector == "collector"
Processes == {Api, Collector}
Actors    == Handlers \cup Processes

ASSUME BoundsAssumption ==
  /\ MaxId \in Nat \ {0} /\ MaxBorn \in Nat \ {0} /\ MaxRequests \in Nat /\ MaxCrashes \in Nat
  /\ DEFAULT_ADMIN_EMAIL \notin Logins /\ None \notin Tenants
  /\ Handlers \cap Processes = {}

Ids     == 1 .. MaxId
Account == [id : Ids, email : Logins \cup {DEFAULT_ADMIN_EMAIL}, role : {"admin", "user"},
            of : Tenants \cup {None}]
Project == [id : Ids, born : 1 .. MaxBorn]
Tables  == {"tenants", "projects", "users"}
Rows    == [tenants : SUBSET Tenants, projects : SUBSET Project, users : SUBSET Account]
Content == [schema : BOOLEAN, rows : Rows, lastUser : 0 .. MaxId, lastProject : 0 .. MaxId]

NoRows  == [tenants |-> {}, projects |-> {}, users |-> {}]
Blank   == [schema |-> FALSE, rows |-> NoRows, lastUser |-> 0, lastProject |-> 0]

VARIABLES
  db,                    \* the two databases that may be the Billing DB
  conn, migrated,        \* DATABASE_URL; whether the external one may be put there
  owner,                 \* project_id of a VM, and the project it was meant for
  pc, who, email, role, tenant, doomed, copy,    \* local to an actor
  born, requests, crashes,                       \* what the bounds count
  excuse, owed, stayed, met                      \* history, read by no action

local   == <<pc, who, email, role, tenant, doomed, copy>>
bounds  == <<born, requests, crashes>>
watch   == <<stayed, met>>
history == <<excuse, owed>>
vars    == <<db, conn, migrated, owner, local, bounds, history, watch>>

Copying  == {"tenants", "projects", "users"}
Deciding == {"create user", "update user", "delete user", "create tenant", "delete tenant",
             "create project"}
Phases   == {"idle", "up", "down", "recompute", "drop", "create", "look", "insert",
             "check", "commit"} \cup Copying \cup Deciding

TypeOK ==
  /\ db \in [Databases -> Content] /\ conn \in Databases /\ migrated \in BOOLEAN
  /\ owner \in [id : 0 .. MaxId, born : 0 .. MaxBorn]
  /\ pc \in [Actors -> Phases]
  /\ who \in [Handlers -> 0 .. MaxId]
  /\ email \in [Handlers -> Logins \cup {DEFAULT_ADMIN_EMAIL, None}]
  /\ role \in [Handlers -> {"admin", "user"}]
  /\ tenant \in [Handlers -> Tenants \cup {None}]
  /\ doomed \in [Handlers -> SUBSET Ids] /\ copy \in [Handlers -> Rows]
  /\ born \in 0 .. MaxBorn /\ requests \in 0 .. MaxRequests /\ crashes \in 0 .. MaxCrashes
  /\ excuse \in BOOLEAN /\ owed \in BOOLEAN
  /\ stayed \in [Handlers -> Rows] /\ met \in [Handlers -> Rows]

Users    == db[conn].rows.users
Projects == db[conn].rows.projects
Open     == db[conn].rows.tenants       \* the tenants there are
Taken(e) == \E u \in Users : u.email = e

(* After the first bootstrap, with or without accounts made since. *)
DefaultAdmin(n) ==
  [id |-> n, email |-> DEFAULT_ADMIN_EMAIL, role |-> "admin", of |-> None]

Init ==
  /\ \E ts \in SUBSET Tenants, more \in {{}} \cup {{u} : u \in Account} :
       /\ \A u \in more : u.id = 2 /\ u.email \in Logins
                          /\ (IF u.role = "admin" THEN u.of = None ELSE u.of \in ts)
       /\ db = [d \in Databases |-> IF d = External THEN Blank ELSE
                 [schema |-> TRUE, lastUser |-> IF more = {} THEN 1 ELSE 2, lastProject |-> 1,
                  rows |-> [tenants |-> ts, projects |-> {[id |-> 1, born |-> 1]},
                            users |-> {DefaultAdmin(1)} \cup more]]]
  /\ conn = Local /\ migrated = FALSE
  /\ owner = [id |-> 1, born |-> 1]
  /\ pc = [x \in Actors |-> IF x \in Handlers THEN "idle" ELSE "up"]
  /\ who = [h \in Handlers |-> 0] /\ email = [h \in Handlers |-> None]
  /\ role = [h \in Handlers |-> "user"] /\ tenant = [h \in Handlers |-> None]
  /\ doomed = [h \in Handlers |-> {}] /\ copy = [h \in Handlers |-> NoRows]
  /\ born = 1 /\ requests = 0 /\ crashes = 0
  /\ excuse = FALSE /\ owed = FALSE
  /\ stayed = [h \in Handlers |-> NoRows] /\ met = [h \in Handlers |-> NoRows]

Goto(x, phase) == pc' = [pc EXCEPT ![x] = phase]

(* The handler forgets what it read. *)
Forget(h) ==
  /\ who' = [who EXCEPT ![h] = 0] /\ email' = [email EXCEPT ![h] = None]
  /\ role' = [role EXCEPT ![h] = "user"] /\ tenant' = [tenant EXCEPT ![h] = None]
  /\ doomed' = [doomed EXCEPT ![h] = {}] /\ copy' = [copy EXCEPT ![h] = NoRows]

(* For the history: the rows that have been in the source all the time since *)
(* a migration began to copy, and those that have been there at some time.   *)
Watch ==
  /\ stayed' = [h \in Handlers |-> IF pc'[h] \notin Copying \cup {"commit"} THEN NoRows ELSE
                  [t \in Tables |-> stayed[h][t] \cap db'[conn].rows[t]]]
  /\ met' = [h \in Handlers |-> IF pc'[h] \notin Copying \cup {"commit"} THEN NoRows ELSE
                  [t \in Tables |-> met[h][t] \cup db'[conn].rows[t]]]

Answer(h) == Goto(h, "idle") /\ Forget(h) /\ Watch

(* Committed to the table of the Billing DB that is connected. *)
Commit(table, set) == db' = [db EXCEPT ![conn].rows[table] = set]

-----------------------------------------------------------------------------
(* Requests for users and tenants                                           *)

(* get_current_user and require_admin: the account of this e-mail, now. *)
Authorise(h, a, phase) ==
  /\ pc[h] = "idle" /\ pc[Api] = "up" /\ db[conn].schema
  /\ requests < MaxRequests /\ requests' = requests + 1
  /\ a.role = "admin"
  /\ who' = [who EXCEPT ![h] = a.id]
  /\ Goto(h, phase)
  /\ UNCHANGED <<conn, migrated, owner, copy, born, crashes, history, watch>>

(* create_tenant_user and create_user *)
CreateUser(h) ==
  \E a \in Users, e \in Logins \cup {DEFAULT_ADMIN_EMAIL}, r \in {"admin", "user"},
     t \in Open \cup {None} :
    /\ ~ Taken(e)
    /\ r = "admin" <=> t = None
    /\ email' = [email EXCEPT ![h] = e] /\ role' = [role EXCEPT ![h] = r]
    /\ tenant' = [tenant EXCEPT ![h] = t]
    /\ Authorise(h, a, "create user")
    /\ UNCHANGED <<db, doomed>>

CommitCreateUser(h) ==
  /\ pc[h] = "create user"
  /\ ~ Taken(email[h]) /\ tenant[h] \in Open \cup {None}
  /\ LET n == db[conn].lastUser + 1 IN
     /\ n \in Ids
     /\ db' = [db EXCEPT ![conn].lastUser = n,
                         ![conn].rows.users = @ \cup {[id |-> n, email |-> email[h],
                                                       role |-> role[h], of |-> tenant[h]]}]
  /\ UNCHANGED <<conn, migrated, owner, bounds, history>>
  /\ Answer(h)

(* update_user: only an ordinary user changes its tenant. *)
UpdateUser(h) ==
  \E a \in Users, u \in Users, t \in Open :
    /\ u.role = "user"
    /\ tenant' = [tenant EXCEPT ![h] = t] /\ doomed' = [doomed EXCEPT ![h] = {u.id}]
    /\ Authorise(h, a, "update user")
    /\ UNCHANGED <<db, email, role>>

(* The user that update_user has loaded, if it is still there. *)
Loaded(h) == {u \in Users : u.id \in doomed[h]}

CommitUpdateUser(h) ==
  /\ pc[h] = "update user"
  /\ Loaded(h) # {} /\ tenant[h] \in Open
  /\ Commit("users", {IF u \in Loaded(h) THEN [u EXCEPT !.of = tenant[h]] ELSE u : u \in Users})
  /\ UNCHANGED <<conn, migrated, owner, bounds, history>>
  /\ Answer(h)

(* Mutant: one's own account may be deleted. *)
AnyUser(a) == Users

Deletable(a) == {u \in Users : u.id # a.id}

(* delete_user *)
DeleteUser(h) ==
  \E a \in Users : \E u \in Deletable(a) :
    /\ doomed' = [doomed EXCEPT ![h] = {u.id}]
    /\ Authorise(h, a, "delete user")
    /\ UNCHANGED <<db, email, role, tenant>>

(* For the history: the administrator has been deleted since. *)
Overtaken(h) == \A u \in Users : u.id # who[h]

CommitDeleteUser(h) ==
  /\ pc[h] = "delete user"
  /\ Commit("users", Users \ Loaded(h))
  /\ excuse' = (excuse \/ Overtaken(h))
  /\ UNCHANGED <<conn, migrated, owner, bounds, owed>>
  /\ Answer(h)

CreateTenant(h) ==
  \E a \in Users, t \in Tenants \ Open :
    /\ tenant' = [tenant EXCEPT ![h] = t]
    /\ Authorise(h, a, "create tenant")
    /\ UNCHANGED <<db, email, role, doomed>>

CommitCreateTenant(h) ==
  /\ pc[h] = "create tenant" /\ tenant[h] \notin Open
  /\ Commit("tenants", Open \cup {tenant[h]})
  /\ UNCHANGED <<conn, migrated, owner, bounds, history>>
  /\ Answer(h)

(* delete_tenant: the users it has loaded go with the tenant, wherever they  *)
(* belong by then.  Its projects are in ProjectAssignment.                   *)
DeleteTenant(h) ==
  \E a \in Users, t \in Open :
    /\ tenant' = [tenant EXCEPT ![h] = t]
    /\ doomed' = [doomed EXCEPT ![h] = {u.id : u \in {v \in Users : v.of = t}}]
    /\ Authorise(h, a, "delete tenant")
    /\ UNCHANGED <<db, email, role>>

CommitDeleteTenant(h) ==
  /\ pc[h] = "delete tenant"
  /\ \A u \in Users \ Loaded(h) : u.of # tenant[h]
  /\ db' = [db EXCEPT ![conn].rows.users = @ \ Loaded(h),
                      ![conn].rows.tenants = @ \ {tenant[h]}]
  /\ excuse' = (excuse \/ Overtaken(h))
  /\ UNCHANGED <<conn, migrated, owner, bounds, owed>>
  /\ Answer(h)

(* A unique or foreign key is violated, or the row to update is gone: 500.   *)
RequestFails(h) ==
  /\ \/ pc[h] = "create user" /\ (Taken(email[h]) \/ tenant[h] \notin Open \cup {None})
     \/ pc[h] = "update user" /\ (Loaded(h) = {} \/ tenant[h] \notin Open)
     \/ pc[h] = "create tenant" /\ tenant[h] \in Open
     \/ pc[h] = "delete tenant" /\ \E u \in Users \ Loaded(h) : u.of = tenant[h]
  /\ UNCHANGED <<db, conn, migrated, owner, bounds, history>>
  /\ Answer(h)

-----------------------------------------------------------------------------
(* create_tenant_project, as far as it gives out project ids                *)

CreateProject(h) ==
  \E a \in Users :
    /\ Open # {}
    /\ Authorise(h, a, "create project")
    /\ UNCHANGED <<db, email, role, tenant, doomed>>

(* Mutant: the new project waits for the next cycle of the collector. *)
AnswerAtOnce(h) == Answer(h)

ThenRecompute(h) == Goto(h, "recompute") /\ Forget(h) /\ Watch

CommitCreateProject(h) ==
  /\ pc[h] = "create project"
  /\ born < MaxBorn /\ born' = born + 1
  /\ LET n == db[conn].lastProject + 1 IN
     /\ n \in Ids
     /\ db' = [db EXCEPT ![conn].lastProject = n,
                         ![conn].rows.projects = @ \cup {[id |-> n, born |-> born + 1]}]
  /\ UNCHANGED <<conn, migrated, owner, requests, crashes, history>>
  /\ ThenRecompute(h)

(* recompute_project_assignments gives the VM to some project there is, or   *)
(* to none: which one is in ProjectAssignment.  The rows it has read stay    *)
(* locked against a wipe until it is done.                                   *)
Assign ==
  /\ db[conn].schema
  /\ owner' \in Projects \cup {[id |-> 0, born |-> 0]}
  /\ owed' = FALSE

Recompute(h) ==
  /\ pc[h] = "recompute" /\ Assign
  /\ UNCHANGED <<db, conn, migrated, bounds, excuse>>
  /\ Answer(h)

RecomputeFails(h) ==
  /\ pc[h] = "recompute" /\ ~ db[conn].schema
  /\ owed' = TRUE
  /\ UNCHANGED <<db, conn, migrated, owner, bounds, excuse>>
  /\ Answer(h)

(* A cycle of the collector ends. *)
CollectorCycle ==
  /\ pc[Collector] = "up" /\ Assign
  /\ UNCHANGED <<db, conn, migrated, local, bounds, excuse, watch>>

-----------------------------------------------------------------------------
(* bootstrap, and apply_local_db_setup with wipe_data                       *)

Wipe(h) ==
  \E a \in Users :
    /\ Authorise(h, a, "drop")
    /\ UNCHANGED <<db, email, role, tenant, doomed>>

(* DROP TABLE waits for every transaction that has read the tables. *)
Reading == {x \in Actors : pc[x] \in Deciding \cup Copying \cup {"check", "commit", "insert"}}

DropAll(h) ==
  /\ pc[h] = "drop" /\ Reading = {}
  /\ db' = [db EXCEPT ![conn] = Blank]
  /\ excuse' = TRUE
  /\ Goto(h, "create")
  /\ UNCHANGED <<conn, migrated, owner, who, email, role, tenant, doomed, copy, bounds, owed, watch>>

(* create_all makes the tables that are not there. *)
CreateAll(x) ==
  /\ pc[x] = "create"
  /\ db' = [db EXCEPT ![conn].schema = TRUE]
  /\ Goto(x, "look")
  /\ UNCHANGED <<conn, migrated, owner, who, email, role, tenant, doomed, copy, bounds, history, watch>>

(* The process has started, or the wipe is answered. *)
Ready(x) ==
  /\ IF x \in Handlers THEN Answer(x)
     ELSE Goto(x, "up") /\ UNCHANGED <<who, email, role, tenant, doomed, copy>> /\ Watch
  /\ excuse' = FALSE

DefaultAdminExists == Taken(DEFAULT_ADMIN_EMAIL)

(* ensure_default_admin looks for the default account by its e-mail ... *)
EnsureDefaultAdmin(x) ==
  /\ pc[x] = "look" /\ db[conn].schema
  /\ UNCHANGED <<db, conn, migrated, owner, bounds, owed>>
  /\ IF DefaultAdminExists THEN Ready(x)
     ELSE /\ Goto(x, "insert")
          /\ UNCHANGED <<who, email, role, tenant, doomed, copy, excuse, watch>>

(* ... and inserts it. *)
InsertDefaultAdmin(x) ==
  /\ pc[x] = "insert" /\ ~ Taken(DEFAULT_ADMIN_EMAIL)
  /\ LET n == db[conn].lastUser + 1 IN
     /\ n \in Ids
     /\ db' = [db EXCEPT ![conn].lastUser = n, ![conn].rows.users = @ \cup {DefaultAdmin(n)}]
  /\ UNCHANGED <<conn, migrated, owner, bounds, owed>>
  /\ Ready(x)

(* Another actor made the tables or the account in between, or dropped them: *)
(* the wipe is answered with an error, the process exits.                    *)
SetupFails(x) ==
  /\ \/ pc[x] \in {"drop", "create"} /\ \E y \in Actors \ {x} : pc[y] \in {"drop", "create"}
     \/ pc[x] = "look" /\ ~ db[conn].schema
     \/ pc[x] = "insert" /\ Taken(DEFAULT_ADMIN_EMAIL)
  /\ UNCHANGED <<db, conn, migrated, owner, bounds, history>>
  /\ IF x \in Handlers THEN Answer(x)
     ELSE Goto(x, "down") /\ UNCHANGED <<who, email, role, tenant, doomed, copy, watch>>

(* The threads of the API die with it, and so do their transactions. *)
ForgetAll ==
  /\ who' = [h \in Handlers |-> 0] /\ email' = [h \in Handlers |-> None]
  /\ role' = [h \in Handlers |-> "user"] /\ tenant' = [h \in Handlers |-> None]
  /\ doomed' = [h \in Handlers |-> {}] /\ copy' = [h \in Handlers |-> NoRows]
  /\ stayed' = [h \in Handlers |-> NoRows] /\ met' = [h \in Handlers |-> NoRows]

Crash(p) ==
  /\ pc[p] # "down"
  /\ crashes < MaxCrashes /\ crashes' = crashes + 1
  /\ IF p = Api
     THEN /\ pc' = [x \in Actors |-> IF x \in Handlers THEN "idle" ELSE IF x = p THEN "down" ELSE pc[x]]
          /\ ForgetAll
          /\ owed' = (owed \/ \E h \in Handlers : pc[h] = "recompute")
     ELSE Goto(p, "down") /\ UNCHANGED <<who, email, role, tenant, doomed, copy, owed, watch>>
  /\ UNCHANGED <<db, conn, migrated, owner, born, requests, excuse>>

(* restart: unless-stopped *)
Restart(p) ==
  /\ pc[p] = "down"
  /\ Goto(p, "create")
  /\ UNCHANGED <<db, conn, migrated, owner, who, email, role, tenant, doomed, copy, bounds, history, watch>>

-----------------------------------------------------------------------------
(* migrate_to_external_postgres                                             *)

Migrate(h) ==
  \E a \in Users :
    /\ conn = Local
    /\ Authorise(h, a, "check")
    /\ db' = [db EXCEPT ![External].schema = TRUE]
    /\ UNCHANGED <<email, role, tenant, doomed>>

(* The external database must be empty, on a connection of its own. *)
CheckEmpty(h) ==
  /\ pc[h] = "check"
  /\ UNCHANGED <<db, conn, migrated, owner, bounds, history>>
  /\ IF db[External].rows = NoRows
     THEN /\ Goto(h, "tenants")
          /\ stayed' = [stayed EXCEPT ![h] = db[conn].rows]
          /\ met' = [met EXCEPT ![h] = db[conn].rows]
          /\ UNCHANGED <<who, email, role, tenant, doomed, copy>>
     ELSE Answer(h)

NextTable(t) ==
  CASE t = "tenants" -> "projects" [] t = "projects" -> "users" [] t = "users" -> "commit"

(* Mutant: the loop over the tables ends at one without rows. *)
StopAtEmptyTable(t) == IF db[conn].rows[t] = {} THEN "commit" ELSE NextTable(t)

AfterTable(t) == NextTable(t)

(* sorted_tables, one SELECT for each. *)
CopyTable(h) ==
  /\ pc[h] \in Copying
  /\ copy' = [copy EXCEPT ![h][pc[h]] = db[conn].rows[pc[h]]]
  /\ Goto(h, AfterTable(pc[h]))
  /\ UNCHANGED <<db, conn, migrated, owner, who, email, role, tenant, doomed, bounds, history, watch>>

(* The INSERTs meet rows of another migration, or a user without its tenant. *)
Clash(c, r) ==
  \/ c.tenants \cap r.tenants # {}
  \/ \E u \in c.users, v \in r.users : u.id = v.id \/ u.email = v.email
  \/ \E p \in c.projects, q \in r.projects : p.id = q.id
  \/ \E u \in c.users : u.of \notin c.tenants \cup r.tenants \cup {None}

(* Mutant: setval to the id after it. *)
NextId(rows) == Max({0} \cup {r.id : r \in rows}) + 1

(* setval after the rows of a table: MAX(id) *)
LastId(rows) == Max({0} \cup {r.id : r \in rows})

CommitMigration(h) ==
  /\ pc[h] = "commit" /\ ~ Clash(copy[h], db[External].rows)
  /\ LET all == [t \in Tables |-> db[External].rows[t] \cup copy[h][t]] IN
     db' = [db EXCEPT ![External].rows = all, ![External].lastUser = LastId(all.users),
                      ![External].lastProject = LastId(all.projects)]
  /\ migrated' = TRUE
  /\ UNCHANGED <<conn, owner, bounds, history>>
  /\ Answer(h)

MigrationFails(h) ==
  /\ pc[h] = "commit" /\ Clash(copy[h], db[External].rows)
  /\ UNCHANGED <<db, conn, migrated, owner, bounds, history>>
  /\ Answer(h)

(* .env is edited and the containers are recreated. *)
Recreate ==
  /\ migrated /\ conn = Local /\ conn' = External
  /\ pc' = [x \in Actors |-> IF x \in Handlers THEN "idle" ELSE "create"]
  /\ ForgetAll
  /\ excuse' = TRUE /\ owed' = TRUE
  /\ UNCHANGED <<db, migrated, owner, bounds>>

-----------------------------------------------------------------------------
Next ==
  \/ \E h \in Handlers :
       \/ CreateUser(h) \/ CommitCreateUser(h) \/ UpdateUser(h) \/ CommitUpdateUser(h)
       \/ DeleteUser(h) \/ CommitDeleteUser(h) \/ CreateTenant(h) \/ CommitCreateTenant(h)
       \/ DeleteTenant(h) \/ CommitDeleteTenant(h) \/ RequestFails(h) \/ CreateProject(h)
       \/ CommitCreateProject(h) \/ Recompute(h) \/ RecomputeFails(h) \/ Wipe(h) \/ DropAll(h)
       \/ Migrate(h) \/ CheckEmpty(h) \/ CopyTable(h) \/ CommitMigration(h) \/ MigrationFails(h)
  \/ \E x \in Actors :
       CreateAll(x) \/ EnsureDefaultAdmin(x) \/ InsertDefaultAdmin(x) \/ SetupFails(x)
  \/ \E p \in Processes : Crash(p) \/ Restart(p)
  \/ CollectorCycle \/ Recreate

Spec == Init /\ [][Next]_vars

-----------------------------------------------------------------------------
(* Properties                                                               *)

Administrators == {u \in Users : u.role = "admin"}

(* Someone can administer the portal.  Only one's own account is protected   *)
(* from deletion (delete_user), which is enough unless the administrator who *)
(* deletes has been deleted since the request began, or a wipe or a switch   *)
(* has not got to ensure_default_admin; and the next process that starts     *)
(* repairs it, unless an ordinary user has the e-mail it looks for.          *)
AdministratorRemains ==
  Administrators = {} =>
    \/ excuse
    \/ \E u \in Users : u.email = DEFAULT_ADMIN_EMAIL /\ u.role = "user"

(* migrate_to_external_postgres reads its tables one after the other while   *)
(* requests commit.  What it adds to the external database was in the source *)
(* at some time meanwhile, and what was in the source all the time is there. *)
MigrationIsFaithful ==
  [][\A h \in Handlers : CommitMigration(h) =>
       \A t \in Tables :
         /\ stayed[h][t] \subseteq db'[External].rows[t]
         /\ db'[External].rows[t] \subseteq db[External].rows[t] \cup met[h][t]]_vars

(* The project_id of a VM survives a wipe and a switch of the Billing DB,    *)
(* which give out the same ids again.  It means another project than the one *)
(* it was assigned to only while a recompute is owed: by the request that    *)
(* created the project, or after that one died, or after a switch.           *)
OwnerIsMeant ==
  (\E p \in Projects : p.id = owner.id /\ p.born # owner.born) =>
    owed \/ \E h \in Handlers : pc[h] = "recompute"
=============================================================================
