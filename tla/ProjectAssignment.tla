-------------------------- MODULE ProjectAssignment --------------------------
(***************************************************************************)
(* Which project a virtual machine is billed to.                           *)
(*                                                                         *)
(* A project (Billing DB) selects clusters, folders and tags; a VM         *)
(* (Operations DB) carries the ones the last inventory reported.  The      *)
(* column virtual_machines.project_id is recomputed from both by           *)
(* recompute_project_assignments, in the collector at the end of each      *)
(* cycle and in the API handlers after the changes an administrator makes. *)
(* The two databases share no transaction, every SELECT sees what was      *)
(* committed when it ran (READ COMMITTED), and handlers and collector run  *)
(* concurrently: an action here is one statement or one commit.            *)
(***************************************************************************)
EXTENDS Integers, FiniteSets

CONSTANTS
  Handlers,      \* API worker threads, each serving one request at a time
  Collector,     \* the collector process
  Tenants,
  Accounts,      \* integration account ids, never reused
  InitAccounts,  \* the accounts registered at the start
  Restored,      \* those of them that came back from a backup, without credentials
  VMs,           \* virtual machine ids, never reused
  Clusters, Folders, Tags,   \* ids of the three criterion tables
  AccountOf,     \* the account a VM, cluster, folder or tag belongs to
  MaxRequests,   \* bound: requests the administrator makes
  MaxMoves,      \* bound: collections that find the inventory changed
  MaxFaults      \* bound: processes that die, or whose database session fails

Procs     == Handlers \cup {Collector}
Criteria  == Clusters \cup Folders \cup Tags
Kinds     == {Clusters, Folders, Tags}
ProjectId == 1 .. MaxRequests     \* a request creates at most one project
Nobody    == 0                    \* project_id IS NULL
Owner     == ProjectId \cup {Nobody}

ASSUME BoundsAssumption == MaxRequests \in Nat /\ MaxMoves \in Nat /\ MaxFaults \in Nat
ASSUME KindsAssumption ==
  Clusters \cap Folders = {} /\ Clusters \cap Tags = {} /\ Folders \cap Tags = {}
ASSUME ProcsAssumption == Collector \notin Handlers
ASSUME AccountsAssumption ==
  Restored \subseteq InitAccounts /\ InitAccounts \subseteq Accounts /\ AccountOf \in [VMs \cup Criteria -> Accounts]

VARIABLES
  tenants, projects, tenantOf, links, nextProject,  \* Billing DB
  account, inventory, vms, carried, owner,          \* Operations DB
  pc, req, todo, work,                              \* local to a process
  requests, moves, faults,                          \* what the bounds count
  selected, borne, disturbed                        \* history, read by no action

billing == <<tenants, projects, tenantOf, links, nextProject>>
ops     == <<account, inventory, vms, carried, owner>>
counts  == <<requests, moves, faults>>
vars    == <<billing, ops, pc, req, todo, work, counts, selected, borne, disturbed>>

(* A registered account is "live" when a client can be built from what is    *)
(* stored, a "placeholder" when it was restored and needs_reconnect says so, *)
(* and "incomplete" when an edit has cleared that and left no password.      *)
Registered    == {"live", "placeholder", "incomplete"}
AccountStates == Registered \cup {"unused", "deleted"}

(* The steps of recompute_project_assignments, in order. *)
Recomputing == {"clusters", "folders", "tags", "vms", "vmtags", "write"}
Labels == Recomputing \cup
  {"idle", "create", "locate", "update", "unassign", "delete", "unassignAll",
   "deleteTenant", "deleteAccount", "import", "cycle", "ids"}

(* What a handler keeps of its request. *)
NoRequest == [tenant |-> {}, projects |-> {}, account |-> {}, replace |-> {},
              add |-> {}, drop |-> {}]
Request == [tenant : SUBSET Tenants, projects : SUBSET ProjectId,
            account : SUBSET Accounts, replace : SUBSET Criteria,
            add : SUBSET Criteria, drop : SUBSET Criteria]

(* What a recompute has read: the project ids, the three dicts              *)
(* cluster/folder/tag -> project as one function, the VMs it loaded, the    *)
(* project_id each had and the one it computes.                             *)
NoWork == [ids |-> {}, map |-> [c \in Criteria |-> Nobody], loaded |-> {},
           old |-> [v \in VMs |-> Nobody], new |-> [v \in VMs |-> Nobody]]
Work == [ids : SUBSET ProjectId, map : [Criteria -> Owner], loaded : SUBSET VMs,
         old : [VMs -> Owner], new : [VMs -> Owner]]

TypeOK ==
  /\ tenants \subseteq Tenants
  /\ projects \subseteq ProjectId
  /\ tenantOf \in [ProjectId -> Tenants]
  /\ links \in [ProjectId -> SUBSET Criteria]
  /\ nextProject \in 1 .. (MaxRequests + 1)
  /\ account \in [Accounts -> AccountStates]
  /\ inventory \subseteq Criteria
  /\ vms \subseteq VMs
  /\ carried \in [VMs -> SUBSET Criteria]
  /\ owner \in [VMs -> Owner]
  /\ pc \in [Procs -> Labels]
  /\ req \in [Procs -> Request]
  /\ todo \subseteq Accounts
  /\ work \in [Procs -> Work]
  /\ requests \in 0 .. MaxRequests /\ moves \in 0 .. MaxMoves /\ faults \in 0 .. MaxFaults
  /\ selected \subseteq ProjectId \X Criteria
  /\ borne \subseteq VMs \X Criteria
  /\ disturbed \subseteq Procs

Init ==
  /\ tenants = Tenants /\ projects = {} /\ nextProject = 1
  /\ tenantOf \in {[p \in ProjectId |-> t] : t \in Tenants}   \* read only for live projects
  /\ links = [p \in ProjectId |-> {}]
  /\ account = [a \in Accounts |-> IF a \in Restored THEN "placeholder"
                                  ELSE IF a \in InitAccounts THEN "live" ELSE "unused"]
  /\ inventory = {} /\ vms = {}
  /\ carried = [v \in VMs |-> {}]
  /\ owner = [v \in VMs |-> Nobody]
  /\ pc = [h \in Procs |-> "idle"]
  /\ req = [h \in Procs |-> NoRequest]
  /\ todo = {}
  /\ work = [h \in Procs |-> NoWork]
  /\ requests = 0 /\ moves = 0 /\ faults = 0
  /\ selected = {} /\ borne = {} /\ disturbed = {}

Goto(h, l) == pc' = [pc EXCEPT ![h] = l]

(* A commit of h overlaps the recomputes that are under way elsewhere. *)
Disturb(h) == disturbed' = disturbed \cup {g \in Procs \ {h} : pc[g] \in Recomputing}

(* The request or the cycle is over: the session closes, locals are gone. *)
Finish(h) ==
  /\ Goto(h, "idle")
  /\ req' = [req EXCEPT ![h] = NoRequest]
  /\ work' = [work EXCEPT ![h] = NoWork]

-----------------------------------------------------------------------------
(* recompute_project_assignments(billing_db, ops_db)                        *)

(* Mutants: a default that is no id, and assignment instead of setdefault. *)
FirstOrMinusOne(P) == IF P = {} THEN -1 ELSE CHOOSE p \in P : \A q \in P : p <= q
LastWins(P) == IF P = {} THEN Nobody ELSE CHOOSE p \in P : \A q \in P : p >= q

First(P) == IF P = {} THEN Nobody ELSE CHOOSE p \in P : \A q \in P : p <= q

(* Mutant: projects are marked deleted and the query forgets the mark. *)
ReadAllProjectIds(h) ==
  /\ pc[h] = "ids"
  /\ work' = [work EXCEPT ![h].ids = 1 .. (nextProject - 1)]
  /\ disturbed' = disturbed \ {h}
  /\ Goto(h, "clusters")
  /\ UNCHANGED <<billing, ops, req, todo, counts, selected, borne>>

ReadProjectIds(h) ==
  /\ pc[h] = "ids"
  /\ work' = [work EXCEPT ![h].ids = projects]
  /\ disturbed' = disturbed \ {h}
  /\ Goto(h, "clusters")
  /\ UNCHANGED <<billing, ops, req, todo, counts, selected, borne>>

(* Mutant: the link rows alone say which projects there are. *)
AnySelectors(h, c) == {p \in ProjectId : c \in links[p]}

(* One of the three SELECTs of get_all_projects_criteria_ids.  The projects  *)
(* are visited by ascending id and setdefault keeps the first that selected  *)
(* a criterion; rows of a project that is not among the ids are ignored.     *)
Selectors(h, c) == {p \in work[h].ids : c \in links[p]}

ReadLinks(h, kind, from, to) ==
  /\ pc[h] = from
  /\ work' = [work EXCEPT ![h].map =
                [c \in Criteria |-> IF c \in kind THEN First(Selectors(h, c)) ELSE @[c]]]
  /\ Goto(h, to)
  /\ UNCHANGED <<billing, ops, req, todo, counts, selected, borne, disturbed>>

(* The projects a VM that carries S can get from one kind of criterion. *)
Hits(map, S) == {map[c] : c \in S} \ {Nobody}

(* The cluster decides, or else the folder; Nobody leaves it to the tags. *)
ByHierarchy(map, S) ==
  LET byCluster == Hits(map, S \cap Clusters)
      byFolder  == Hits(map, S \cap Folders)
  IN  IF byCluster # {} THEN byCluster
      ELSE IF byFolder # {} THEN byFolder ELSE {Nobody}

(* SELECT of every VM: its columns cluster_id, folder_id and project_id. *)
LoadVMs(h) ==
  /\ pc[h] = "vms"
  /\ \E n \in [VMs -> Owner] :
       /\ \A v \in VMs : n[v] \in IF v \in vms THEN ByHierarchy(work[h].map, carried[v])
                                  ELSE {Nobody}
       /\ work' = [work EXCEPT ![h].loaded = vms, ![h].old = owner, ![h].new = n]
  /\ Goto(h, "vmtags")
  /\ UNCHANGED <<billing, ops, req, todo, counts, selected, borne, disturbed>>

(* Mutant: the tag table decides, whether or not the VM has the tag. *)
ByAnyTag(map, S) == IF Hits(map, Tags) = {} THEN {Nobody} ELSE Hits(map, Tags)

(* vm.tags is loaded lazily, by later SELECTs without ORDER BY: of several   *)
(* tags that some project selected, the first row returned decides.          *)
ByTags(map, S) ==
  IF Hits(map, S \cap Tags) = {} THEN {Nobody} ELSE Hits(map, S \cap Tags)

LoadTags(h) ==
  /\ pc[h] = "vmtags"
  /\ \E n \in [VMs -> Owner] :
       /\ \A v \in VMs : n[v] \in
            IF v \in work[h].loaded /\ work[h].new[v] = Nobody
            THEN ByTags(work[h].map, carried[v]) ELSE {work[h].new[v]}
       /\ work' = [work EXCEPT ![h].new = n]
  /\ Goto(h, "write")
  /\ UNCHANGED <<billing, ops, req, todo, counts, selected, borne, disturbed>>

(* Mutant: a VM that no project selects keeps the project it had. *)
UpdatedUnlessNobody(h) ==
  {v \in work[h].loaded : work[h].old[v] # work[h].new[v] /\ work[h].new[v] # Nobody}

(* Only a VM whose project_id differs from the value loaded gets an UPDATE;  *)
(* one that matches no row (StaleDataError) rolls the whole flush back.      *)
Updated(h) == {v \in work[h].loaded : work[h].old[v] # work[h].new[v]}

WriteBack(h) ==
  /\ pc[h] = "write"
  /\ owner' = IF Updated(h) \subseteq vms
              THEN [v \in VMs |-> IF v \in Updated(h) THEN work[h].new[v] ELSE owner[v]]
              ELSE owner
  /\ Disturb(h)
  /\ Finish(h)
  /\ UNCHANGED <<billing, account, inventory, vms, carried, todo, counts, selected, borne>>

Recompute(h) ==
  \/ ReadProjectIds(h)
  \/ ReadLinks(h, Clusters, "clusters", "folders")
  \/ ReadLinks(h, Folders, "folders", "tags")
  \/ ReadLinks(h, Tags, "tags", "vms")
  \/ LoadVMs(h)
  \/ LoadTags(h)
  \/ WriteBack(h)

-----------------------------------------------------------------------------
(* The administrator's requests.  A request that an early return refuses     *)
(* (404, 409, 400) changes nothing and is no step.                           *)

Begin(h, l, r) ==
  /\ pc[h] = "idle" /\ h \in Handlers
  /\ requests < MaxRequests
  /\ requests' = requests + 1
  /\ Goto(h, l)
  /\ req' = [req EXCEPT ![h] = r]
  /\ UNCHANGED <<billing, ops, todo, work, moves, faults, selected, borne, disturbed>>

(* _validate_criteria_ids: the chosen ids have rows in the Operations DB.    *)
(* Nothing keeps them there until the choice is stored in the other.         *)
Selectable(kinds) == SUBSET (inventory \cap UNION kinds)

(* create_tenant_project: at least one criterion must be chosen.             *)
CreateProject(h) ==
  \E t \in tenants, S \in Selectable(Kinds) \ {{}} :
    Begin(h, "create", [NoRequest EXCEPT !.tenant = {t}, !.add = S])

CommitCreate(h) ==
  /\ pc[h] = "create"
  /\ req[h].tenant \subseteq tenants         \* else the foreign key fails: RequestFails
  /\ nextProject \in ProjectId               \* bound: always so, one id per request
  /\ projects' = projects \cup {nextProject}
  /\ \E t \in req[h].tenant : tenantOf' = [tenantOf EXCEPT ![nextProject] = t]
  /\ links' = [links EXCEPT ![nextProject] = req[h].add]
  /\ nextProject' = nextProject + 1
  /\ selected' = selected \cup ({nextProject} \X req[h].add)
  /\ Disturb(h)
  /\ Goto(h, "ids")
  /\ UNCHANGED <<tenants, ops, req, todo, work, counts, borne>>

(* update_tenant_project: the kinds named in the payload are replaced, the   *)
(* others keep the rows read now, and together they must not be empty.       *)
UpdateProject(h) ==
  \E p \in projects, kinds \in SUBSET Kinds :
    \E S \in Selectable(kinds) :
      /\ (links[p] \ UNION kinds) \cup S # {}
      /\ Begin(h, "locate", [NoRequest EXCEPT !.projects = {p},
                                              !.replace = UNION kinds, !.add = S])

(* set_project_criteria: the DELETEs find the rows that are committed now... *)
LocateLinks(h) ==
  /\ pc[h] = "locate"
  /\ req' = [req EXCEPT ![h].drop = UNION {links[p] : p \in req[h].projects} \cap req[h].replace]
  /\ Goto(h, "update")
  /\ UNCHANGED <<billing, ops, todo, work, counts, selected, borne, disturbed>>

(* ... and an INSERT of a row that has appeared since fails on its key, as   *)
(* does one for a project that has gone: RequestFails.                       *)
CommitUpdate(h) ==
  /\ pc[h] = "update"
  /\ \A p \in req[h].projects :
       /\ (links[p] \ req[h].drop) \cap req[h].add = {}
       /\ req[h].add # {} => p \in projects
  /\ links' = [p \in ProjectId |-> IF p \in req[h].projects
                 THEN (links[p] \ req[h].drop) \cup req[h].add ELSE links[p]]
  /\ selected' = selected \cup (req[h].projects \X req[h].add)
  /\ Disturb(h)
  /\ Goto(h, "ids")
  /\ UNCHANGED <<tenants, projects, tenantOf, nextProject, ops, req, todo, work, counts, borne>>

(* A collection of account a is under way elsewhere. *)
Collecting(h, a) ==
  \/ \E g \in Handlers \ {h} : pc[g] = "import" /\ a \in req[g].account
  \/ pc[Collector] = "cycle" /\ a \in todo

(* The commit that failed on a constraint: rolled back, answered with 500.   *)
(* Rows that a collection inserts refuse the DELETE of their account, and    *)
(* the sync of an account that is gone or has no password raises; that of a  *)
(* placeholder is answered with an error before anything is tried.           *)
RequestFails(h) ==
  /\ \/ pc[h] = "create" /\ ~ (req[h].tenant \subseteq tenants)
     \/ /\ pc[h] = "update"
        /\ \E p \in req[h].projects :
             \/ (links[p] \ req[h].drop) \cap req[h].add # {}
             \/ req[h].add # {} /\ p \notin projects
     \/ /\ pc[h] = "deleteTenant"
        /\ \E p \in projects \ req[h].projects : tenantOf[p] \in req[h].tenant
     \/ pc[h] = "deleteAccount" /\ \E a \in req[h].account : Collecting(h, a)
     \/ pc[h] = "import" /\ \E a \in req[h].account : account[a] # "live"
  /\ Finish(h)
  /\ UNCHANGED <<billing, ops, todo, counts, selected, borne, disturbed>>

(* delete_tenant_project, and delete_tenant for all projects of a tenant:    *)
(* the VMs are released in the Operations DB first, in a commit of its own.  *)
DeleteProject(h) ==
  \E p \in projects : Begin(h, "unassign", [NoRequest EXCEPT !.projects = {p}])

DeleteTenant(h) ==
  \E t \in tenants :
    Begin(h, "unassignAll", [NoRequest EXCEPT !.tenant = {t},
                              !.projects = {p \in projects : tenantOf[p] = t}])

Unassign(h, from, to) ==
  /\ pc[h] = from
  /\ owner' = [v \in VMs |-> IF owner[v] \in req[h].projects THEN Nobody ELSE owner[v]]
  /\ Disturb(h)
  /\ Goto(h, to)
  /\ UNCHANGED <<billing, account, inventory, vms, carried, req, todo, work, counts,
                 selected, borne>>

(* The rows of the projects and of their criteria, in one Billing DB commit; *)
(* deleting what another request already deleted is only a warning.          *)
RemoveProjects(P) ==
  /\ projects' = projects \ P
  /\ links' = [p \in ProjectId |-> IF p \in P THEN {} ELSE links[p]]

CommitDelete(h) ==
  /\ pc[h] = "delete"
  /\ RemoveProjects(req[h].projects)
  /\ Disturb(h)
  /\ Goto(h, "ids")
  /\ UNCHANGED <<tenants, tenantOf, nextProject, ops, req, todo, work, counts, selected, borne>>

(* A project created under the tenant meanwhile refuses the DELETE           *)
(* (RequestFails).  No recompute follows.                                    *)
CommitDeleteTenant(h) ==
  /\ pc[h] = "deleteTenant"
  /\ \A p \in projects \ req[h].projects : tenantOf[p] \notin req[h].tenant
  /\ RemoveProjects(req[h].projects)
  /\ tenants' = tenants \ req[h].tenant
  /\ Disturb(h)
  /\ Finish(h)
  /\ UNCHANGED <<tenantOf, nextProject, ops, todo, counts, selected, borne>>

(* delete_integration_account: the account's inventory goes with it, the     *)
(* links that named it stay in the Billing DB.                               *)
DeleteAccount(h) ==
  \E a \in Accounts :
    /\ account[a] \in Registered
    /\ Begin(h, "deleteAccount", [NoRequest EXCEPT !.account = {a}])

BelongsTo(x, A) == AccountOf[x] \in A

CommitDeleteAccount(h) ==
  /\ pc[h] = "deleteAccount"
  /\ account' = [a \in Accounts |-> IF a \in req[h].account THEN "deleted" ELSE account[a]]
  /\ inventory' = {c \in inventory : ~ BelongsTo(c, req[h].account)}
  /\ vms' = {v \in vms : ~ BelongsTo(v, req[h].account)}
  /\ carried' = [v \in VMs |-> IF BelongsTo(v, req[h].account) THEN {} ELSE carried[v]]
  /\ owner' = [v \in VMs |-> IF BelongsTo(v, req[h].account) THEN Nobody ELSE owner[v]]
  /\ Disturb(h)
  /\ Goto(h, "ids")
  /\ UNCHANGED <<billing, req, todo, work, counts, selected, borne>>

(* The row of an account is committed, and its sync follows. *)
SaveAccount(h, a, state) ==
  /\ pc[h] = "idle" /\ h \in Handlers
  /\ requests < MaxRequests
  /\ requests' = requests + 1
  /\ account' = [account EXCEPT ![a] = state]
  /\ Goto(h, "import")
  /\ req' = [req EXCEPT ![h] = [NoRequest EXCEPT !.account = {a}]]
  /\ UNCHANGED <<billing, inventory, vms, carried, owner, todo, work, moves, faults,
                 selected, borne, disturbed>>

(* create_integration_account: a password is required. *)
CreateAccount(h) ==
  \E a \in Accounts : account[a] = "unused" /\ SaveAccount(h, a, "live")

(* update_integration_account with a change of the connection: any such      *)
(* change clears needs_reconnect, and only a password makes the account      *)
(* usable.  Other edits change nothing of this.                              *)
EditAccount(h) ==
  \E a \in Accounts, state \in {"live", "incomplete"} :
    /\ account[a] \in Registered
    /\ account[a] = "live" => state = "live"
    /\ SaveAccount(h, a, state)

SyncAccount(h) ==
  \E a \in Accounts :
    /\ account[a] \in Registered
    /\ Begin(h, "import", [NoRequest EXCEPT !.account = {a}])

-----------------------------------------------------------------------------
(* collect_once_for_account: the VMs it reports are created or moved, in one *)
(* commit.  A VM it no longer reports keeps its row and what it carried; a   *)
(* VM has at most one cluster and one folder, all of its own account.        *)

Placements(v) ==
  {S \in SUBSET {c \in Criteria : AccountOf[c] = AccountOf[v]} :
     Cardinality(S \cap Clusters) <= 1 /\ Cardinality(S \cap Folders) <= 1}

Collected(a) ==
  \E V \in SUBSET {v \in VMs : AccountOf[v] = a} :
    \E place \in [V -> UNION {Placements(v) : v \in V}] :
      /\ \A v \in V : place[v] \in Placements(v)
      /\ \E v \in V : v \notin vms \/ place[v] # carried[v]
      /\ vms' = vms \cup V
      /\ carried' = [v \in VMs |-> IF v \in V THEN place[v] ELSE carried[v]]
      /\ inventory' = inventory \cup UNION {place[v] : v \in V}
      /\ borne' = borne \cup UNION {{v} \X place[v] : v \in V}

(* The collection finds something new (bounded), or nothing; or it fails,    *)
(* is rolled back and leaves the inventory as it was.                        *)
InventoryChanges(h, a) ==
  /\ moves < MaxMoves /\ moves' = moves + 1
  /\ Collected(a)
  /\ Disturb(h)
  /\ UNCHANGED <<account, owner>>

InventoryStays == UNCHANGED <<ops, moves, borne, disturbed>>

(* sync_account_once in a handler; an error skips the recompute. *)
Import(h) ==
  /\ pc[h] = "import"
  /\ \A a \in req[h].account : account[a] = "live"
  /\ \/ (\E a \in req[h].account : InventoryChanges(h, a)) /\ Goto(h, "ids") /\ UNCHANGED <<req, work>>
     \/ InventoryStays /\ Goto(h, "ids") /\ UNCHANGED <<req, work>>
     \/ InventoryStays /\ Finish(h)
  /\ UNCHANGED <<billing, todo, requests, faults, selected>>

(* collect_once: the accounts are listed, synced one after the other without *)
(* recompute, and one recompute ends the cycle.                              *)
StartCycle ==
  /\ pc[Collector] = "idle"
  /\ todo' = {a \in Accounts : account[a] \in Registered}
  /\ Goto(Collector, "cycle")
  /\ UNCHANGED <<billing, ops, req, work, counts, selected, borne, disturbed>>

(* A placeholder is passed over. *)
CollectAccount ==
  /\ pc[Collector] = "cycle"
  /\ \E a \in todo :
       /\ todo' = todo \ {a}
       /\ \/ account[a] = "live" /\ InventoryChanges(Collector, a)
          \/ account[a] \in {"live", "placeholder"} /\ InventoryStays
  /\ UNCHANGED <<billing, pc, req, work, requests, faults, selected>>

(* Outside of what sync_account_once catches, the client of an account       *)
(* without a password cannot be built, and the row of one that is gone       *)
(* cannot be read: run_forever ends the cycle, with no recompute.            *)
CycleAborts ==
  /\ pc[Collector] = "cycle"
  /\ \E a \in todo : account[a] \in {"incomplete", "deleted"}
  /\ todo' = {}
  /\ Finish(Collector)
  /\ UNCHANGED <<billing, ops, counts, selected, borne, disturbed>>

CollectionDone ==
  /\ pc[Collector] = "cycle" /\ todo = {}
  /\ Goto(Collector, "ids")
  /\ UNCHANGED <<billing, ops, req, todo, work, counts, selected, borne, disturbed>>

(* The process dies, or its database session fails, between two commits. *)
Fault(h) ==
  /\ pc[h] # "idle"
  /\ faults < MaxFaults /\ faults' = faults + 1
  /\ todo' = IF h = Collector THEN {} ELSE todo
  /\ Finish(h)
  /\ UNCHANGED <<billing, ops, requests, moves, selected, borne, disturbed>>

-----------------------------------------------------------------------------
Submit(h) ==
  \/ CreateProject(h) \/ UpdateProject(h) \/ DeleteProject(h) \/ DeleteTenant(h)
  \/ DeleteAccount(h) \/ CreateAccount(h) \/ EditAccount(h) \/ SyncAccount(h)

Serve(h) ==
  \/ CommitCreate(h) \/ LocateLinks(h) \/ CommitUpdate(h) \/ RequestFails(h)
  \/ Unassign(h, "unassign", "delete") \/ CommitDelete(h)
  \/ Unassign(h, "unassignAll", "deleteTenant") \/ CommitDeleteTenant(h)
  \/ CommitDeleteAccount(h) \/ Import(h) \/ Recompute(h)

Collect == StartCycle \/ CollectAccount \/ CycleAborts \/ CollectionDone \/ Recompute(Collector)

Next ==
  \/ \E h \in Handlers : Submit(h) \/ Serve(h)
  \/ Collect
  \/ \E h \in Procs : Fault(h)

Spec == Init /\ [][Next]_vars

(* run_forever never stops; nothing is assumed of the API. *)
FairSpec == Spec /\ WF_vars(Collect)

-----------------------------------------------------------------------------
(* Properties                                                               *)

(* Who should be billed for v, from the comment on recompute_project_        *)
(* assignments: a project that selected something v carries, such that no    *)
(* project selected a stronger kind of criterion, nor an older project the   *)
(* same one.                                                                 *)
Strength(c) == IF c \in Clusters THEN 3 ELSE IF c \in Folders THEN 2 ELSE 1

Owns(p, v) ==
  \E c \in carried[v] :
    /\ p \in projects /\ c \in links[p]
    /\ \A q \in projects : \A d \in carried[v] \cap links[q] :
         /\ Strength(d) <= Strength(c)
         /\ d = c => p <= q

Unclaimed(v) == \A p \in projects : carried[v] \cap links[p] = {}

Settled == \A v \in vms : IF owner[v] = Nobody THEN Unclaimed(v) ELSE Owns(owner[v], v)

Entitled(p, v) == \E c \in Criteria : <<p, c>> \in selected /\ <<v, c>> \in borne

(* A VM is only ever billed to a project that has selected, at some time,    *)
(* something the VM has carried, whatever reads and commits overlapped: the  *)
(* mix of old and new rows a recompute reads invents no assignment           *)
(* (collector.py recompute_project_assignments).                             *)
OnlyEverSelected ==
  \A v \in vms : owner[v] # Nobody => Entitled(owner[v], v)

(* What makes OnlyEverSelected inductive.  The ids a running recompute holds *)
(* were created before it read them; every entry of its three dicts was      *)
(* selected by a project among those ids, every project_id it computed names *)
(* one that is entitled to the VM, and a process that is not recomputing     *)
(* holds nothing.  A project_id is only ever kept by a VM that has a row     *)
(* (recompute_project_assignments against delete_integration_account).       *)
Created == 1 .. (nextProject - 1)

KnownOnly(w) ==
  /\ w.ids \subseteq Created
  /\ \A c \in Criteria : w.map[c] # Nobody => w.map[c] \in w.ids /\ <<w.map[c], c>> \in selected
  /\ \A v \in VMs : w.new[v] # Nobody => w.new[v] \in w.ids /\ Entitled(w.new[v], v)

LinksSelected  == \A p \in ProjectId : \A c \in links[p] : <<p, c>> \in selected
CarriedBorne   == \A v \in VMs : \A c \in carried[v] : <<v, c>> \in borne
OwnersEntitled == \A v \in VMs : owner[v] # Nobody => v \in vms /\ Entitled(owner[v], v)
WorkKnown      == \A h \in Procs : KnownOnly(work[h])
IdleKnowsNone  == \A h \in Procs : pc[h] \notin Recomputing => work[h].ids = {}

Provenance ==
  /\ LinksSelected /\ CarriedBorne /\ OwnersEntitled
  /\ projects \subseteq Created
  /\ WorkKnown /\ IdleKnowsNone

(* A project that was deleted never comes back, and once no VM and no        *)
(* running recompute holds its id, none takes it up again                    *)
(* (admin.py delete_tenant_project, delete_tenant).                          *)
Dead(p) == p < nextProject /\ p \notin projects
Held(p) == (\E v \in vms : owner[v] = p) \/ (\E h \in Procs : p \in work[h].ids)

DeletedStaysGone ==
  [][\A p \in ProjectId : Dead(p) => Dead(p)' /\ (Held(p)' => Held(p))]_vars

(* A recompute that no other commit overlapped leaves every VM with the      *)
(* project the rule names, also the VMs it did not UPDATE.                   *)
UndisturbedIsExact ==
  [][\A h \in Procs : WriteBack(h) /\ h \notin disturbed => Settled']_vars

(* The two databases and their processes implement VMOwnership. *)
Ownership == INSTANCE VMOwnership WITH
  created  <- Created,
  alive    <- projects,
  known    <- UNION {work[h].ids : h \in Procs},
  entitled <- {x \in VMs \X ProjectId : Entitled(x[2], x[1])}

(* Ownership of a VM changes hands only as VMOwnership allows: to a project  *)
(* that a running recompute read while it existed and that was entitled to   *)
(* the VM (recompute_project_assignments against every commit of admin.py).  *)
ImplementsOwnership == Ownership!Spec

(* When the administrator and the inventory come to rest, and leave no       *)
(* account without its password, the collector brings every VM to its        *)
(* project and keeps it there, whatever a lost race, a failed request, a     *)
(* restart or cycles that were broken off left behind.  An account without   *)
(* a password ends every cycle before the recompute (collector.py 339, 391). *)
NoneIncomplete == \A a \in Accounts : account[a] # "incomplete"

Converges == <>[]NoneIncomplete => <>[]Settled

=============================================================================
