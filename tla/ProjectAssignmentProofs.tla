---------------------- MODULE ProjectAssignmentProofs ----------------------
(***************************************************************************)
(* What holds of ProjectAssignment for any handlers, tenants, accounts,    *)
(* VMs and criteria.  That every VM is billed only to a project that       *)
(* selected something it carried is not inductive: the project_id is       *)
(* written from what a recompute read several commits ago.  Provenance     *)
(* says what may be in the hands of a recompute at any time; it is kept    *)
(* because ids, selections and what VMs have carried are only ever added   *)
(* to (Created, selected, borne grow), so that what was read can get old   *)
(* but not wrong in this sense.  The lemmas go by groups of actions:       *)
(* types, then Provenance, then the mapping of each step to VMOwnership.   *)
(***************************************************************************)
EXTENDS ProjectAssignment, WellFoundedInduction, TLAPS

Less == {ab \in Nat \X Nat : ab[1] < ab[2]}

(* A non-empty set of naturals has a least element. *)
LEMMA LeastExists ==
  ASSUME NEW P, P \subseteq Nat, P # {}
  PROVE  \E p \in P : \A q \in P : p <= q
<1>1. \A a, b \in Nat : <<a, b>> \in Less <=> a < b
  BY DEF Less
<1>2. OpToRel(<, Nat) = Less
  BY Zenon DEF OpToRel, Less
<1>3. IsWellFoundedOn(Less, Nat)
  BY <1>2, NatLessThanWellFounded, Zenon
<1>4. \E p \in P : \A q \in P : ~ (<<q, p>> \in Less)
  BY <1>3, WFMin, Zenon
<1>5. PICK p \in P : \A q \in P : ~ (<<q, p>> \in Less)
  BY <1>4
<1>6. ASSUME NEW q \in P PROVE p <= q
  <2>1. ~ (q < p)
    BY <1>1, <1>5
  <2> QED BY <2>1
<1> QED BY <1>5, <1>6

(* First names a member of a set of project ids, and Nobody if there is none. *)
LEMMA FirstIsMember ==
  ASSUME NEW P \in SUBSET ProjectId
  PROVE  /\ First(P) \in Owner
         /\ First(P) # Nobody => First(P) \in P
<1>1. CASE P = {}
  BY <1>1 DEF First, Owner
<1>2. CASE P # {}
  <2>1. P \subseteq Nat
    BY BoundsAssumption DEF ProjectId
  <2>2. \E p \in P : \A q \in P : p <= q
    BY <1>2, <2>1, LeastExists, Zenon
  <2>3. First(P) \in P
    BY <1>2, <2>2 DEF First
  <2> QED BY <2>3 DEF Owner
<1> QED BY <1>1, <1>2

(* What a VM can get from its cluster, folder or tags is the entry of a     *)
(* criterion it carries.                                                    *)
LEMMA HierarchyIsAnEntry ==
  ASSUME NEW map \in [Criteria -> Owner], NEW S \in SUBSET Criteria,
         NEW p \in ByHierarchy(map, S)
  PROVE  p \in Owner /\ (p # Nobody => \E c \in S : map[c] = p)
BY DEF ByHierarchy, Hits, Owner

LEMMA TagIsAnEntry ==
  ASSUME NEW map \in [Criteria -> Owner], NEW S \in SUBSET Criteria,
         NEW p \in ByTags(map, S)
  PROVE  p \in Owner /\ (p # Nobody => \E c \in S : map[c] = p)
BY DEF ByTags, Hits, Owner

-----------------------------------------------------------------------------
(* Types *)

LEMMA GotoTypes ==
  ASSUME TypeOK, NEW h \in Procs, NEW l \in Labels, Goto(h, l)
  PROVE  pc' \in [Procs -> Labels]
BY DEF TypeOK, Goto

LEMMA NoWorkType == NoWork \in Work /\ NoRequest \in Request
<1>1. NoWork \in Work
  BY DEF NoWork, Work, Owner
<1>2. NoRequest \in Request
  BY DEF NoRequest, Request
<1> QED BY <1>1, <1>2

LEMMA FinishTypes ==
  ASSUME TypeOK, NEW h \in Procs, Finish(h)
  PROVE  pc' \in [Procs -> Labels] /\ req' \in [Procs -> Request] /\ work' \in [Procs -> Work]
<1>1. pc' \in [Procs -> Labels]
  BY DEF TypeOK, Finish, Goto, Labels
<1>2. req' \in [Procs -> Request]
  BY NoWorkType DEF TypeOK, Finish
<1>3. work' \in [Procs -> Work]
  BY NoWorkType DEF TypeOK, Finish
<1> QED BY <1>1, <1>2, <1>3

LEMMA BeginTypes ==
  ASSUME TypeOK, NEW h \in Procs, NEW l \in Labels, NEW r \in Request, Begin(h, l, r)
  PROVE  TypeOK'
<1>1. pc' \in [Procs -> Labels] /\ req' \in [Procs -> Request] /\ requests' \in 0 .. MaxRequests
  BY BoundsAssumption DEF TypeOK, Begin, Goto
<1> QED BY <1>1 DEF TypeOK, Begin, billing, ops

LEMMA InitTypes == Init => TypeOK
<1> SUFFICES ASSUME Init PROVE TypeOK
  OBVIOUS
<1>1. pc \in [Procs -> Labels] /\ req \in [Procs -> Request] /\ work \in [Procs -> Work]
  BY NoWorkType DEF Init, Labels
<1>2. account \in [Accounts -> AccountStates] /\ owner \in [VMs -> Owner]
  BY DEF Init, Owner, AccountStates, Registered
<1> QED BY <1>1, <1>2, BoundsAssumption DEF Init, TypeOK

LEMMA RecomputeTypes ==
  ASSUME TypeOK, NEW h \in Procs, Recompute(h)
  PROVE  TypeOK'
<1>1. CASE ReadProjectIds(h)
  <2>1. work' \in [Procs -> Work]
    BY ZenonT(40), <1>1 DEF TypeOK, ReadProjectIds, Work
  <2>2. pc' \in [Procs -> Labels]
    BY <1>1 DEF TypeOK, ReadProjectIds, Goto, Labels, Recomputing
  <2> QED BY <1>1, <2>1, <2>2 DEF TypeOK, ReadProjectIds, billing, ops, counts
<1>2. ASSUME NEW kind \in Kinds, NEW from, NEW to \in Labels, ReadLinks(h, kind, from, to)
      PROVE  TypeOK'
  <2>1. \A c \in Criteria : First(Selectors(h, c)) \in Owner
    <3>1. \A c \in Criteria : Selectors(h, c) \in SUBSET ProjectId
      BY DEF TypeOK, Selectors, Work
    <3> QED BY <3>1, FirstIsMember
  <2>2. work' \in [Procs -> Work]
    BY ZenonT(40), <1>2, <2>1 DEF TypeOK, ReadLinks, Work
  <2>3. pc' \in [Procs -> Labels]
    BY <1>2 DEF TypeOK, ReadLinks, Goto
  <2> QED BY <1>2, <2>2, <2>3 DEF TypeOK, ReadLinks, billing, ops, counts
<1>3. CASE LoadVMs(h)
  <2>1. work' \in [Procs -> Work]
    <3>1. PICK n \in [VMs -> Owner] :
            work' = [work EXCEPT ![h].loaded = vms, ![h].old = owner, ![h].new = n]
      BY <1>3 DEF LoadVMs
    <3>2. work[h] \in Work /\ vms \in SUBSET VMs /\ owner \in [VMs -> Owner]
      BY DEF TypeOK
    <3>3. [work[h] EXCEPT !.loaded = vms, !.old = owner, !.new = n] \in Work
      BY <3>2 DEF Work
    <3> QED BY <3>1, <3>3 DEF TypeOK
  <2>2. pc' \in [Procs -> Labels]
    BY <1>3 DEF TypeOK, LoadVMs, Goto, Labels, Recomputing
  <2> QED BY <1>3, <2>1, <2>2 DEF TypeOK, LoadVMs, billing, ops, counts
<1>4. CASE LoadTags(h)
  <2>1. work' \in [Procs -> Work]
    <3>1. PICK n \in [VMs -> Owner] : work' = [work EXCEPT ![h].new = n]
      BY <1>4 DEF LoadTags
    <3>2. [work[h] EXCEPT !.new = n] \in Work
      BY DEF TypeOK, Work
    <3> QED BY <3>1, <3>2 DEF TypeOK
  <2>2. pc' \in [Procs -> Labels]
    BY <1>4 DEF TypeOK, LoadTags, Goto, Labels, Recomputing
  <2> QED BY <1>4, <2>1, <2>2 DEF TypeOK, LoadTags, billing, ops, counts
<1>5. CASE WriteBack(h)
  <2>1. owner' \in [VMs -> Owner]
    BY <1>5 DEF TypeOK, WriteBack, Work
  <2>2. pc' \in [Procs -> Labels] /\ req' \in [Procs -> Request] /\ work' \in [Procs -> Work]
    BY <1>5, FinishTypes DEF WriteBack
  <2>3. disturbed' \subseteq Procs
    BY <1>5 DEF TypeOK, WriteBack, Disturb
  <2> QED BY <1>5, <2>1, <2>2, <2>3 DEF TypeOK, WriteBack, billing, counts
<1>6. {"folders", "tags", "vms"} \subseteq Labels
  BY DEF Labels, Recomputing
<1> QED BY <1>1, <1>2, <1>3, <1>4, <1>5, <1>6 DEF Recompute, Kinds

LEMMA SubmitTypes ==
  ASSUME TypeOK, NEW h \in Handlers, Submit(h)
  PROVE  TypeOK'
<1>h. h \in Procs
  BY DEF Procs
<1>l. {"create", "locate", "unassign", "unassignAll", "deleteAccount", "import"} \subseteq Labels
  BY DEF Labels
<1>1. CASE CreateProject(h)
  <2>1. PICK t \in tenants, S \in SUBSET inventory :
           Begin(h, "create", [NoRequest EXCEPT !.tenant = {t}, !.add = S])
    BY <1>1 DEF CreateProject, Selectable, Kinds
  <2>2. [NoRequest EXCEPT !.tenant = {t}, !.add = S] \in Request
    BY DEF TypeOK, NoRequest, Request
  <2> QED BY <1>h, <1>l, <2>1, <2>2, BeginTypes
<1>2. CASE UpdateProject(h)
  <2>1. PICK p \in projects, kinds \in SUBSET Kinds, S \in SUBSET inventory :
           Begin(h, "locate", [NoRequest EXCEPT !.projects = {p},
                                 !.replace = UNION kinds, !.add = S])
    BY <1>2 DEF UpdateProject, Selectable
  <2>2. UNION kinds \subseteq Criteria
    BY DEF Kinds, Criteria
  <2>3. [NoRequest EXCEPT !.projects = {p}, !.replace = UNION kinds, !.add = S] \in Request
    BY <2>2 DEF TypeOK, NoRequest, Request
  <2> QED BY <1>h, <1>l, <2>1, <2>3, BeginTypes
<1>3. CASE DeleteProject(h)
  <2>1. PICK p \in projects : Begin(h, "unassign", [NoRequest EXCEPT !.projects = {p}])
    BY <1>3 DEF DeleteProject
  <2>2. [NoRequest EXCEPT !.projects = {p}] \in Request
    BY DEF TypeOK, NoRequest, Request
  <2> QED BY <1>h, <1>l, <2>1, <2>2, BeginTypes
<1>4. CASE DeleteTenant(h)
  <2>1. PICK t \in tenants :
           Begin(h, "unassignAll", [NoRequest EXCEPT !.tenant = {t},
                                      !.projects = {p \in projects : tenantOf[p] = t}])
    BY <1>4 DEF DeleteTenant
  <2>2. [NoRequest EXCEPT !.tenant = {t},
            !.projects = {p \in projects : tenantOf[p] = t}] \in Request
    BY DEF TypeOK, NoRequest, Request
  <2> QED BY <1>h, <1>l, <2>1, <2>2, BeginTypes
<1>5. \A a \in Accounts : [NoRequest EXCEPT !.account = {a}] \in Request
  BY DEF NoRequest, Request
<1>6. CASE DeleteAccount(h)
  BY <1>h, <1>l, <1>5, <1>6, BeginTypes DEF DeleteAccount
<1>7. CASE SyncAccount(h)
  BY <1>h, <1>l, <1>5, <1>7, BeginTypes DEF SyncAccount
<1>8. ASSUME NEW a \in Accounts, NEW state \in AccountStates, SaveAccount(h, a, state)
      PROVE  TypeOK'
  <2>1. account' \in [Accounts -> AccountStates] /\ req' \in [Procs -> Request]
    BY <1>5, <1>8 DEF TypeOK, SaveAccount
  <2>2. requests' \in 0 .. MaxRequests
    BY <1>8, BoundsAssumption DEF TypeOK, SaveAccount
  <2>3. pc' \in [Procs -> Labels]
    BY <1>l, <1>8 DEF TypeOK, SaveAccount, Goto
  <2> QED BY <1>8, <2>1, <2>2, <2>3 DEF TypeOK, SaveAccount, billing
<1>9. {"live", "incomplete"} \subseteq AccountStates
  BY DEF AccountStates, Registered
<1>10. CASE CreateAccount(h)
  BY <1>8, <1>9, <1>10 DEF CreateAccount
<1>11. CASE EditAccount(h)
  BY <1>8, <1>9, <1>11 DEF EditAccount
<1> QED BY <1>1, <1>2, <1>3, <1>4, <1>6, <1>7, <1>10, <1>11 DEF Submit

LEMMA UnassignTypes ==
  ASSUME TypeOK, NEW h \in Procs, NEW from, NEW to \in Labels, Unassign(h, from, to)
  PROVE  TypeOK'
<1>1. owner' \in [VMs -> Owner]
  BY DEF TypeOK, Unassign, Owner
<1>2. pc' \in [Procs -> Labels] /\ disturbed' \subseteq Procs
  BY DEF TypeOK, Unassign, Goto, Disturb
<1> QED BY <1>1, <1>2 DEF TypeOK, Unassign, billing, counts

(* What a collection finds keeps the Operations DB well-formed. *)
LEMMA CollectedTypes ==
  ASSUME TypeOK, NEW h \in Procs, NEW a \in Accounts, InventoryChanges(h, a)
  PROVE  /\ account' = account /\ owner' = owner
         /\ vms' \subseteq VMs /\ vms \subseteq vms'
         /\ inventory' \subseteq Criteria
         /\ carried' \in [VMs -> SUBSET Criteria]
         /\ borne' \subseteq VMs \X Criteria
         /\ moves' \in 0 .. MaxMoves
         /\ disturbed' \subseteq Procs
         /\ borne \subseteq borne'
         /\ \A v \in VMs : \A c \in carried'[v] : c \in carried[v] \/ <<v, c>> \in borne'
<1> DEFINE Found(V, place) ==
        /\ \A v \in V : place[v] \in Placements(v)
        /\ vms' = vms \cup V
        /\ carried' = [v \in VMs |-> IF v \in V THEN place[v] ELSE carried[v]]
        /\ inventory' = inventory \cup UNION {place[v] : v \in V}
        /\ borne' = borne \cup UNION {{v} \X place[v] : v \in V}
<1>1. PICK V \in SUBSET {v \in VMs : AccountOf[v] = a} :
        \E place \in [V -> UNION {Placements(v) : v \in V}] :
          Found(V, place)
  BY DEF InventoryChanges, Collected
<1>2. PICK place \in [V -> UNION {Placements(v) : v \in V}] : Found(V, place)
  BY <1>1
<1>3. \A v \in V : place[v] \in SUBSET Criteria
  BY <1>2 DEF Placements
<1>4. vms' \subseteq VMs /\ vms \subseteq vms' /\ inventory' \subseteq Criteria
  BY <1>2, <1>3 DEF TypeOK
<1>5. carried' \in [VMs -> SUBSET Criteria]
  BY <1>2, <1>3 DEF TypeOK
<1>6. borne' \subseteq VMs \X Criteria /\ borne \subseteq borne'
  BY <1>2, <1>3 DEF TypeOK
<1>7. ASSUME NEW v \in VMs, NEW c \in carried'[v], c \notin carried[v]
      PROVE  <<v, c>> \in borne'
  <2>1. v \in V /\ c \in place[v]
    BY <1>2, <1>7
  <2> QED BY <1>2, <2>1
<1>8. moves' \in 0 .. MaxMoves
  BY BoundsAssumption DEF TypeOK, InventoryChanges
<1>9. disturbed' \subseteq Procs /\ account' = account /\ owner' = owner
  BY DEF TypeOK, InventoryChanges, Disturb
<1> QED BY <1>4, <1>5, <1>6, <1>7, <1>8, <1>9

LEMMA ServeTypes ==
  ASSUME TypeOK, NEW h \in Handlers, Serve(h)
  PROVE  TypeOK'
<1>h. h \in Procs
  BY DEF Procs
<1>l. {"ids", "update", "delete", "deleteTenant", "idle"} \subseteq Labels
  BY DEF Labels
<1>1. CASE CommitCreate(h)
  <2>1. projects' \subseteq ProjectId
    BY <1>1 DEF TypeOK, CommitCreate
  <2>2. tenantOf' \in [ProjectId -> Tenants]
    <3>1. PICK t \in req[h].tenant : tenantOf' = [tenantOf EXCEPT ![nextProject] = t]
      BY <1>1 DEF CommitCreate
    <3>2. t \in Tenants
      BY <1>h DEF TypeOK, Request
    <3> QED BY <3>1, <3>2 DEF TypeOK
  <2>3. req[h].add \in SUBSET Criteria
    BY <1>h DEF TypeOK, Request
  <2>4. links' \in [ProjectId -> SUBSET Criteria]
    BY <1>1, <2>3 DEF TypeOK, CommitCreate
  <2>5. nextProject' \in 1 .. (MaxRequests + 1)
    BY <1>1, BoundsAssumption DEF TypeOK, CommitCreate, ProjectId
  <2>6. selected' \subseteq ProjectId \X Criteria
    BY <1>1, <2>3 DEF TypeOK, CommitCreate
  <2>7. pc' \in [Procs -> Labels] /\ disturbed' \subseteq Procs
    BY <1>1, <1>h, <1>l DEF TypeOK, CommitCreate, Goto, Disturb
  <2> QED BY <1>1, <2>1, <2>2, <2>4, <2>5, <2>6, <2>7 DEF TypeOK, CommitCreate, ops, counts
<1>2. CASE LocateLinks(h)
  <2>1. req' \in [Procs -> Request]
    <3>1. UNION {links[p] : p \in req[h].projects} \cap req[h].replace \in SUBSET Criteria
      BY <1>h DEF TypeOK, Request
    <3>2. \A r \in Request, D \in SUBSET Criteria : [r EXCEPT !.drop = D] \in Request
      BY DEF Request
    <3>3. [req[h] EXCEPT !.drop = UNION {links[p] : p \in req[h].projects} \cap req[h].replace] \in Request
      BY <1>h, <3>1, <3>2 DEF TypeOK
    <3> QED BY <1>2, <3>3 DEF TypeOK, LocateLinks
  <2>2. pc' \in [Procs -> Labels]
    BY <1>2, <1>h, <1>l DEF TypeOK, LocateLinks, Goto
  <2> QED BY <1>2, <2>1, <2>2 DEF TypeOK, LocateLinks, billing, ops, counts
<1>3. CASE CommitUpdate(h)
  <2>1. req[h].add \in SUBSET Criteria /\ req[h].projects \in SUBSET ProjectId
    BY <1>h DEF TypeOK, Request
  <2>2. links' \in [ProjectId -> SUBSET Criteria]
    BY <1>3, <2>1 DEF TypeOK, CommitUpdate
  <2>3. selected' \subseteq ProjectId \X Criteria
    BY <1>3, <2>1 DEF TypeOK, CommitUpdate
  <2>4. pc' \in [Procs -> Labels] /\ disturbed' \subseteq Procs
    BY <1>3, <1>h, <1>l DEF TypeOK, CommitUpdate, Goto, Disturb
  <2> QED BY <1>3, <2>2, <2>3, <2>4 DEF TypeOK, CommitUpdate, ops, counts
<1>4. CASE RequestFails(h)
  BY <1>4, <1>h, FinishTypes DEF TypeOK, RequestFails, billing, ops, counts
<1>5. CASE Unassign(h, "unassign", "delete")
  BY <1>5, <1>h, <1>l, UnassignTypes
<1>6. CASE Unassign(h, "unassignAll", "deleteTenant")
  BY <1>6, <1>h, <1>l, UnassignTypes
<1>7. CASE CommitDelete(h)
  <2>1. projects' \subseteq ProjectId /\ links' \in [ProjectId -> SUBSET Criteria]
    BY <1>7 DEF TypeOK, CommitDelete, RemoveProjects
  <2>2. pc' \in [Procs -> Labels] /\ disturbed' \subseteq Procs
    BY <1>7, <1>h, <1>l DEF TypeOK, CommitDelete, Goto, Disturb
  <2> QED BY <1>7, <2>1, <2>2 DEF TypeOK, CommitDelete, ops, counts
<1>8. CASE CommitDeleteTenant(h)
  <2>1. projects' \subseteq ProjectId /\ links' \in [ProjectId -> SUBSET Criteria]
    BY <1>8 DEF TypeOK, CommitDeleteTenant, RemoveProjects
  <2>2. tenants' \subseteq Tenants /\ disturbed' \subseteq Procs
    BY <1>8 DEF TypeOK, CommitDeleteTenant, Disturb
  <2>3. pc' \in [Procs -> Labels] /\ req' \in [Procs -> Request] /\ work' \in [Procs -> Work]
    BY <1>8, <1>h, FinishTypes DEF CommitDeleteTenant
  <2> QED BY <1>8, <2>1, <2>2, <2>3 DEF TypeOK, CommitDeleteTenant, ops, counts
<1>9. CASE CommitDeleteAccount(h)
  <2>1. account' \in [Accounts -> AccountStates]
    BY <1>9 DEF TypeOK, CommitDeleteAccount, AccountStates
  <2>2. inventory' \subseteq Criteria /\ vms' \subseteq VMs
    BY <1>9 DEF TypeOK, CommitDeleteAccount
  <2>3. carried' \in [VMs -> SUBSET Criteria]
    BY <1>9 DEF TypeOK, CommitDeleteAccount
  <2>4. owner' \in [VMs -> Owner]
    BY <1>9 DEF TypeOK, CommitDeleteAccount, Owner
  <2>5. pc' \in [Procs -> Labels] /\ disturbed' \subseteq Procs
    BY <1>9, <1>h, <1>l DEF TypeOK, CommitDeleteAccount, Goto, Disturb
  <2> QED BY <1>9, <2>1, <2>2, <2>3, <2>4, <2>5 DEF TypeOK, CommitDeleteAccount, billing, counts
<1>10. CASE Import(h)
  <2>1. CASE \E a \in req[h].account : InventoryChanges(h, a)
    <3>1. PICK a \in Accounts : InventoryChanges(h, a)
      BY <2>1, <1>h DEF TypeOK, Request
    <3>2. pc' \in [Procs -> Labels] /\ req' \in [Procs -> Request] /\ work' \in [Procs -> Work]
      <4>1. CASE Goto(h, "ids") /\ UNCHANGED <<req, work>>
        BY <4>1, <1>h, <1>l DEF TypeOK, Goto
      <4>2. CASE Finish(h)
        BY <4>2, <1>h, FinishTypes
      <4> QED BY <1>10, <4>1, <4>2 DEF Import
    <3> QED BY <1>10, <1>h, <3>1, <3>2, CollectedTypes DEF TypeOK, Import, billing
  <2>2. CASE InventoryStays
    <3>1. pc' \in [Procs -> Labels] /\ req' \in [Procs -> Request] /\ work' \in [Procs -> Work]
      <4>1. CASE Goto(h, "ids") /\ UNCHANGED <<req, work>>
        BY <4>1, <1>h, <1>l DEF TypeOK, Goto
      <4>2. CASE Finish(h)
        BY <4>2, <1>h, FinishTypes
      <4> QED BY <1>10, <4>1, <4>2 DEF Import
    <3> QED BY <1>10, <2>2, <3>1 DEF TypeOK, Import, InventoryStays, billing, ops
  <2> QED BY <1>10, <2>1, <2>2 DEF Import
<1>11. CASE Recompute(h)
  BY <1>11, <1>h, RecomputeTypes
<1> QED BY <1>1, <1>2, <1>3, <1>4, <1>5, <1>6, <1>7, <1>8, <1>9, <1>10, <1>11 DEF Serve

LEMMA CollectTypes ==
  ASSUME TypeOK, Collect
  PROVE  TypeOK'
<1>h. Collector \in Procs
  BY DEF Procs
<1>l. {"cycle", "ids"} \subseteq Labels
  BY DEF Labels
<1>1. CASE StartCycle
  BY <1>1, <1>h, <1>l DEF TypeOK, StartCycle, Goto, billing, ops, counts
<1>2. CASE CollectAccount
  <2>1. PICK a \in todo : /\ todo' = todo \ {a}
                          /\ InventoryChanges(Collector, a) \/ InventoryStays
    BY <1>2 DEF CollectAccount
  <2>2. todo' \subseteq Accounts
    BY <2>1 DEF TypeOK
  <2>3. CASE InventoryChanges(Collector, a)
    <3>1. a \in Accounts
      BY DEF TypeOK
    <3> QED BY <1>2, <1>h, <2>2, <2>3, <3>1, CollectedTypes DEF TypeOK, CollectAccount, billing
  <2>4. CASE InventoryStays
    BY <1>2, <2>2, <2>4 DEF TypeOK, CollectAccount, InventoryStays, billing, ops
  <2> QED BY <2>1, <2>3, <2>4
<1>3. CASE CycleAborts
  BY <1>3, <1>h, FinishTypes DEF TypeOK, CycleAborts, billing, ops, counts
<1>4. CASE CollectionDone
  BY <1>4, <1>h, <1>l DEF TypeOK, CollectionDone, Goto, billing, ops, counts
<1>5. CASE Recompute(Collector)
  BY <1>5, <1>h, RecomputeTypes
<1> QED BY <1>1, <1>2, <1>3, <1>4, <1>5 DEF Collect

LEMMA FaultTypes ==
  ASSUME TypeOK, NEW h \in Procs, Fault(h)
  PROVE  TypeOK'
<1>1. pc' \in [Procs -> Labels] /\ req' \in [Procs -> Request] /\ work' \in [Procs -> Work]
  BY FinishTypes DEF Fault
<1>2. faults' \in 0 .. MaxFaults
  BY BoundsAssumption DEF TypeOK, Fault
<1>3. todo' \subseteq Accounts
  BY DEF TypeOK, Fault
<1> QED BY <1>1, <1>2, <1>3 DEF TypeOK, Fault, billing, ops

LEMMA NextTypes ==
  ASSUME TypeOK, [Next]_vars
  PROVE  TypeOK'
<1>1. CASE UNCHANGED vars
  BY <1>1 DEF TypeOK, vars, billing, ops, counts
<1>2. CASE Next
  BY <1>2, SubmitTypes, ServeTypes, CollectTypes, FaultTypes DEF Next
<1> QED BY <1>1, <1>2

(* Every variable of the databases and the processes keeps its type, for any *)
(* number of handlers, tenants, accounts, VMs and criteria (all of           *)
(* collector.py and admin.py that ProjectAssignment models).                 *)
THEOREM TypeCorrect == Spec => []TypeOK
<1>1. Init => TypeOK
  BY InitTypes
<1>2. TypeOK /\ [Next]_vars => TypeOK'
  BY NextTypes
<1> QED BY <1>1, <1>2, PTL DEF Spec

-----------------------------------------------------------------------------
(* Provenance *)

(* History and project ids only ever grow. *)
Grows == selected \subseteq selected' /\ borne \subseteq borne' /\ Created \subseteq Created'

LEMMA CreatedGrows ==
  ASSUME TypeOK, nextProject' \in {nextProject, nextProject + 1}
  PROVE  Created \subseteq Created'
<1>1. nextProject \in Nat /\ nextProject' \in Nat /\ nextProject <= nextProject'
  BY BoundsAssumption DEF TypeOK
<1>2. ASSUME NEW n \in Nat, NEW m \in Nat, n <= m
      PROVE  1 .. (n - 1) \subseteq 1 .. (m - 1)
  BY <1>2
<1> QED BY <1>1, <1>2 DEF Created

(* Each part survives a step that leaves alone what it is about. *)
LEMMA LinksKept ==
  ASSUME Grows, LinksSelected, links' = links
  PROVE  LinksSelected'
BY DEF Grows, LinksSelected

LEMMA CarriedKept ==
  ASSUME Grows, CarriedBorne, carried' = carried
  PROVE  CarriedBorne'
BY DEF Grows, CarriedBorne

LEMMA OwnersKept ==
  ASSUME Grows, OwnersEntitled, vms \subseteq vms',
         \A v \in VMs : owner'[v] \in {owner[v], Nobody}
  PROVE  OwnersEntitled'
<1> SUFFICES ASSUME NEW v \in VMs, owner'[v] # Nobody
             PROVE  v \in vms' /\ Entitled(owner[v], v)'
  BY DEF OwnersEntitled
<1>1. owner'[v] = owner[v] /\ v \in vms /\ Entitled(owner[v], v)
  BY DEF OwnersEntitled
<1> QED BY <1>1 DEF Grows, Entitled

LEMMA KnownOnlyKept ==
  ASSUME Grows, NEW h, work'[h] = work[h], KnownOnly(work[h])
  PROVE  KnownOnly(work[h])'
<1>1. (work[h].ids \subseteq Created)'
  BY DEF Grows, KnownOnly
<1>2. ASSUME NEW c \in Criteria, work[h].map[c] # Nobody
      PROVE  work[h].map[c] \in work[h].ids /\ <<work[h].map[c], c>> \in selected'
  BY <1>2 DEF Grows, KnownOnly
<1>3. ASSUME NEW v \in VMs, work[h].new[v] # Nobody
      PROVE  work[h].new[v] \in work[h].ids /\ Entitled(work[h].new[v], v)'
  BY <1>3 DEF Grows, KnownOnly, Entitled
<1> QED BY <1>1, <1>2, <1>3 DEF KnownOnly

LEMMA NoWorkKnown ==
  ASSUME NEW h, work'[h] = NoWork
  PROVE  KnownOnly(work[h])'
BY DEF KnownOnly, NoWork

LEMMA WorkKept ==
  ASSUME Grows, WorkKnown, \A h \in Procs : work'[h] \in {work[h], NoWork}
  PROVE  WorkKnown'
<1> SUFFICES ASSUME NEW h \in Procs PROVE KnownOnly(work[h])'
  BY DEF WorkKnown
<1> QED BY KnownOnlyKept, NoWorkKnown DEF WorkKnown

LEMMA InitProvenance == Init => Provenance
<1> SUFFICES ASSUME Init PROVE Provenance
  OBVIOUS
<1>1. LinksSelected /\ CarriedBorne /\ OwnersEntitled /\ projects \subseteq Created
  BY DEF Init, LinksSelected, CarriedBorne, OwnersEntitled
<1>2. WorkKnown /\ IdleKnowsNone
  BY DEF Init, WorkKnown, KnownOnly, IdleKnowsNone, NoWork
<1> QED BY <1>1, <1>2 DEF Provenance

LEMMA RecomputeProvenance ==
  ASSUME TypeOK, Provenance, NEW h \in Procs, Recompute(h)
  PROVE  Provenance'
<1>1. UNCHANGED <<links, projects, nextProject, carried, vms, selected, borne>>
  BY DEF Recompute, ReadProjectIds, ReadLinks, LoadVMs, LoadTags, WriteBack, billing, ops
<1>2. Grows
  BY <1>1, CreatedGrows DEF Grows
<1>3. LinksSelected' /\ CarriedBorne' /\ (projects \subseteq Created)'
  BY <1>1, <1>2, LinksKept, CarriedKept DEF Provenance, Created
<1>4. \A g \in Procs \ {h} : work'[g] = work[g] /\ pc'[g] = pc[g]
  BY DEF TypeOK, Recompute, ReadProjectIds, ReadLinks, LoadVMs, LoadTags, WriteBack, Finish, Goto
<1>5. \A g \in Procs \ {h} : KnownOnly(work[g])'
  BY <1>2, <1>4, KnownOnlyKept DEF Provenance, WorkKnown
<1>t. work[h] \in Work /\ KnownOnly(work[h])
  BY DEF TypeOK, Provenance, WorkKnown
<1>6. CASE ReadProjectIds(h)
  <2>1. work'[h] = [work[h] EXCEPT !.ids = projects] /\ pc'[h] = "clusters"
    BY <1>6 DEF TypeOK, ReadProjectIds, Goto
  <2>2. work[h].ids = {}
    BY <1>6 DEF Provenance, IdleKnowsNone, ReadProjectIds, Recomputing
  <2>3. KnownOnly(work[h])'
    <3>1. work'[h].ids = projects /\ work'[h].map = work[h].map /\ work'[h].new = work[h].new
      BY <1>t, <2>1 DEF Work
    <3>2. /\ \A c \in Criteria : work'[h].map[c] = Nobody
          /\ \A v \in VMs : work'[h].new[v] = Nobody
      BY <1>t, <2>2, <3>1 DEF KnownOnly
    <3> QED BY <1>1, <1>3, <3>1, <3>2 DEF KnownOnly
  <2>4. OwnersEntitled'
    BY <1>1, <1>2, <1>6, OwnersKept DEF Provenance, ReadProjectIds, ops
  <2> QED BY <1>3, <1>4, <1>5, <2>1, <2>3, <2>4 DEF Provenance, WorkKnown, IdleKnowsNone, Recomputing
<1>7. ASSUME NEW kind, NEW from, NEW to \in Recomputing, ReadLinks(h, kind, from, to)
      PROVE  Provenance'
  <2> DEFINE m == [c \in Criteria |-> IF c \in kind THEN First(Selectors(h, c)) ELSE work[h].map[c]]
  <2>1. work'[h] = [work[h] EXCEPT !.map = m] /\ pc'[h] = to
    BY <1>7 DEF TypeOK, ReadLinks, Goto
  <2>2. ASSUME NEW c \in Criteria, m[c] # Nobody
        PROVE  m[c] \in work[h].ids /\ <<m[c], c>> \in selected
    <3>1. CASE c \in kind
      <4>1. Selectors(h, c) \in SUBSET ProjectId
        BY <1>t DEF Selectors, Work
      <4>2. m[c] \in Selectors(h, c)
        BY <2>2, <3>1, <4>1, FirstIsMember
      <4> QED BY <4>1, <4>2 DEF Selectors, Provenance, LinksSelected
    <3>2. CASE c \notin kind
      BY <1>t, <2>2, <3>2 DEF KnownOnly
    <3> QED BY <3>1, <3>2
  <2>3. KnownOnly(work[h])'
    <3>1. /\ work'[h].ids = work[h].ids /\ work'[h].new = work[h].new
          /\ \A c \in Criteria : work'[h].map[c] = m[c]
      BY <1>t, <2>1 DEF Work
    <3>2. \A c \in Criteria : work'[h].map[c] # Nobody =>
             work'[h].map[c] \in work'[h].ids /\ <<work'[h].map[c], c>> \in selected'
      BY <1>1, <2>2, <3>1
    <3>3. \A v \in VMs : work'[h].new[v] # Nobody =>
             work'[h].new[v] \in work'[h].ids /\ Entitled(work[h].new[v], v)'
      BY <1>1, <1>t, <3>1 DEF KnownOnly, Entitled
    <3>4. work'[h].ids \subseteq Created'
      BY <1>2, <1>t, <3>1 DEF KnownOnly, Grows
    <3> QED BY <3>2, <3>3, <3>4 DEF KnownOnly
  <2>4. OwnersEntitled'
    BY <1>1, <1>2, <1>7, OwnersKept DEF Provenance, ReadLinks, ops
  <2> QED BY <1>3, <1>4, <1>5, <2>1, <2>3, <2>4 DEF Provenance, WorkKnown, IdleKnowsNone
<1>8. ASSUME NEW n \in [VMs -> Owner], NEW to \in Recomputing,
             work'[h].ids = work[h].ids, work'[h].map = work[h].map, work'[h].new = n,
             \A v \in VMs : n[v] # Nobody =>
               \/ n[v] = work[h].new[v]
               \/ \E c \in carried[v] : work[h].map[c] = n[v],
             owner' = owner, pc'[h] = to
      PROVE  Provenance'
  <2>1. ASSUME NEW v \in VMs, n[v] # Nobody
        PROVE  n[v] \in work[h].ids /\ Entitled(n[v], v)
    <3>1. CASE n[v] = work[h].new[v]
      BY <1>t, <2>1, <3>1 DEF KnownOnly
    <3>2. CASE \E c \in carried[v] : work[h].map[c] = n[v]
      <4>1. PICK c \in carried[v] : work[h].map[c] = n[v]
        BY <3>2
      <4>2. c \in Criteria /\ <<v, c>> \in borne
        BY DEF TypeOK, Provenance, CarriedBorne
      <4> QED BY <1>t, <2>1, <4>1, <4>2 DEF KnownOnly, Entitled
    <3> QED BY <1>8, <2>1, <3>1, <3>2
  <2>2. KnownOnly(work[h])'
    <3>1. \A v \in VMs : work'[h].new[v] # Nobody =>
             work'[h].new[v] \in work'[h].ids /\ Entitled(work[h].new[v], v)'
      BY <1>1, <1>8, <2>1 DEF Entitled
    <3>2. work'[h].ids \subseteq Created'
      BY <1>2, <1>8, <1>t DEF KnownOnly, Grows
    <3>3. \A c \in Criteria : work'[h].map[c] # Nobody =>
             work'[h].map[c] \in work'[h].ids /\ <<work'[h].map[c], c>> \in selected'
      BY <1>1, <1>8, <1>t DEF KnownOnly
    <3> QED BY <3>1, <3>2, <3>3 DEF KnownOnly
  <2>3. OwnersEntitled'
    BY <1>1, <1>2, <1>8, OwnersKept DEF Provenance
  <2> QED BY <1>3, <1>4, <1>5, <1>8, <2>2, <2>3 DEF Provenance, WorkKnown, IdleKnowsNone
<1>9. CASE LoadVMs(h)
  <2>1. PICK n \in [VMs -> Owner] :
          /\ \A v \in VMs : n[v] \in IF v \in vms THEN ByHierarchy(work[h].map, carried[v])
                                     ELSE {Nobody}
          /\ work' = [work EXCEPT ![h].loaded = vms, ![h].old = owner, ![h].new = n]
    BY <1>9 DEF LoadVMs
  <2>2. work'[h].ids = work[h].ids /\ work'[h].map = work[h].map /\ work'[h].new = n
    BY <1>t, <2>1 DEF TypeOK, Work
  <2>3. ASSUME NEW v \in VMs, n[v] # Nobody
        PROVE  \E c \in carried[v] : work[h].map[c] = n[v]
    <3>1. n[v] \in ByHierarchy(work[h].map, carried[v])
      BY <2>1, <2>3
    <3>2. work[h].map \in [Criteria -> Owner] /\ carried[v] \in SUBSET Criteria
      BY <1>t DEF TypeOK, Work
    <3> QED BY <2>3, <3>1, <3>2, HierarchyIsAnEntry
  <2> QED BY <1>8, <1>9, <2>2, <2>3 DEF LoadVMs, Goto, TypeOK, Recomputing, ops
<1>10. CASE LoadTags(h)
  <2>1. PICK n \in [VMs -> Owner] :
          /\ \A v \in VMs : n[v] \in
               IF v \in work[h].loaded /\ work[h].new[v] = Nobody
               THEN ByTags(work[h].map, carried[v]) ELSE {work[h].new[v]}
          /\ work' = [work EXCEPT ![h].new = n]
    BY <1>10 DEF LoadTags
  <2>2. work'[h].ids = work[h].ids /\ work'[h].map = work[h].map /\ work'[h].new = n
    BY <1>t, <2>1 DEF TypeOK, Work
  <2>3. ASSUME NEW v \in VMs, n[v] # Nobody, n[v] # work[h].new[v]
        PROVE  \E c \in carried[v] : work[h].map[c] = n[v]
    <3>1. n[v] \in ByTags(work[h].map, carried[v])
      BY <2>1, <2>3
    <3>2. work[h].map \in [Criteria -> Owner] /\ carried[v] \in SUBSET Criteria
      BY <1>t DEF TypeOK, Work
    <3> QED BY <2>3, <3>1, <3>2, TagIsAnEntry
  <2> QED BY <1>8, <1>10, <2>2, <2>3 DEF LoadTags, Goto, TypeOK, Recomputing, ops
<1>11. CASE WriteBack(h)
  <2>1. work'[h] = NoWork /\ pc'[h] = "idle"
    BY <1>11 DEF TypeOK, WriteBack, Finish, Goto
  <2>2. KnownOnly(work[h])'
    BY <2>1, NoWorkKnown
  <2>3. OwnersEntitled'
    <3>1. ASSUME NEW v \in VMs, owner'[v] # Nobody
          PROVE  v \in vms' /\ Entitled(owner[v], v)'
      <4>1. CASE v \in Updated(h) /\ Updated(h) \subseteq vms
        <5>1. owner'[v] = work[h].new[v] /\ v \in vms
          BY <1>11, <4>1 DEF WriteBack
        <5> QED BY <1>1, <1>t, <3>1, <5>1 DEF KnownOnly, Entitled
      <4>2. CASE ~ (v \in Updated(h) /\ Updated(h) \subseteq vms)
        <5>1. owner'[v] = owner[v]
          BY <1>11, <4>2 DEF WriteBack
        <5> QED BY <1>1, <3>1, <5>1 DEF Provenance, OwnersEntitled, Entitled
      <4> QED BY <4>1, <4>2
    <3> QED BY <3>1 DEF OwnersEntitled
  <2> QED BY <1>3, <1>4, <1>5, <2>1, <2>2, <2>3 DEF Provenance, WorkKnown, IdleKnowsNone, NoWork
<1>12. {"folders", "tags", "vms"} \subseteq Recomputing
  BY DEF Recomputing
<1> QED BY <1>6, <1>7, <1>9, <1>10, <1>11, <1>12 DEF Recompute

(* What every other step does to the recomputes: nothing, or one is over. *)
Releases ==
  \A g \in Procs :
    \/ work'[g] = NoWork
    \/ work'[g] = work[g] /\ (pc'[g] \notin Recomputing => pc[g] \notin Recomputing)

LEMMA ReleasesKept ==
  ASSUME Grows, Provenance, Releases
  PROVE  WorkKnown' /\ IdleKnowsNone'
<1>1. WorkKnown'
  BY WorkKept DEF Provenance, Releases
<1>2. IdleKnowsNone'
  BY DEF Provenance, IdleKnowsNone, Releases, NoWork
<1> QED BY <1>1, <1>2

LEMMA FinishReleases ==
  ASSUME TypeOK, NEW h \in Procs, Finish(h)
  PROVE  Releases
<1>1. \A g \in Procs \ {h} : work'[g] = work[g] /\ pc'[g] = pc[g]
  BY DEF TypeOK, Finish, Goto
<1>2. work'[h] = NoWork
  BY DEF TypeOK, Finish
<1> QED BY <1>1, <1>2 DEF Releases

LEMMA GotoReleases ==
  ASSUME TypeOK, NEW h \in Procs, NEW l \in Labels \ Recomputing, Goto(h, l),
         pc[h] \notin Recomputing, work' = work
  PROVE  Releases
<1>1. \A g \in Procs : work'[g] = work[g] /\ (g # h => pc'[g] = pc[g])
  BY DEF TypeOK, Goto
<1> QED BY <1>1 DEF Releases

(* A step that touches neither links nor VMs. *)
LEMMA QuietProvenance ==
  ASSUME TypeOK, Provenance, Releases,
         UNCHANGED <<links, projects, nextProject, carried, vms, owner, selected, borne>>
  PROVE  Provenance'
<1>1. Grows
  BY CreatedGrows DEF Grows
<1>2. OwnersEntitled'
  BY <1>1, OwnersKept DEF Provenance
<1> QED BY <1>1, <1>2, LinksKept, CarriedKept, ReleasesKept DEF Provenance, Created

LEMMA SubmitProvenance ==
  ASSUME TypeOK, Provenance, NEW h \in Handlers, Submit(h)
  PROVE  Provenance'
<1>1. h \in Procs
  BY DEF Procs
<1>2. /\ UNCHANGED <<links, projects, nextProject, carried, vms, owner, selected, borne, work>>
      /\ pc[h] = "idle"
      /\ \E l \in {"create", "locate", "unassign", "unassignAll", "deleteAccount", "import"} : Goto(h, l)
  BY DEF Submit, CreateProject, UpdateProject, DeleteProject, DeleteTenant, DeleteAccount,
         CreateAccount, EditAccount, SaveAccount, SyncAccount, Begin, billing, ops
<1>3. Releases
  BY <1>1, <1>2, GotoReleases DEF Labels, Recomputing
<1> QED BY <1>2, <1>3, QuietProvenance

LEMMA CollectedProvenance ==
  ASSUME TypeOK, Provenance, Releases, NEW h \in Procs, NEW a \in Accounts,
         InventoryChanges(h, a), UNCHANGED <<links, projects, nextProject, selected>>
  PROVE  Provenance'
<1>1. Grows
  BY CollectedTypes, CreatedGrows DEF Grows
<1>2. CarriedBorne'
  <2> SUFFICES ASSUME NEW v \in VMs, NEW c \in carried'[v] PROVE <<v, c>> \in borne'
    BY DEF CarriedBorne
  <2>1. c \in carried[v] \/ <<v, c>> \in borne'
    BY CollectedTypes
  <2> QED BY <1>1, <2>1 DEF Provenance, CarriedBorne, Grows
<1>3. OwnersEntitled'
  BY <1>1, CollectedTypes, OwnersKept DEF Provenance
<1>4. LinksSelected' /\ WorkKnown' /\ IdleKnowsNone'
  BY <1>1, LinksKept, ReleasesKept DEF Provenance
<1> QED BY <1>2, <1>3, <1>4 DEF Provenance, Created

LEMMA ServeProvenance ==
  ASSUME TypeOK, Provenance, NEW h \in Handlers, Serve(h)
  PROVE  Provenance'
<1>h. h \in Procs
  BY DEF Procs
<1>l. {"ids", "update", "delete", "deleteTenant"} \subseteq Labels \ Recomputing
  BY DEF Labels, Recomputing
<1>1. CASE CommitCreate(h)
  <2>1. Grows
    BY <1>1, CreatedGrows DEF CommitCreate, Grows
  <2>2. Releases
    BY <1>1, <1>h, <1>l, GotoReleases DEF CommitCreate, Recomputing
  <2>3. LinksSelected'
    BY <1>1, <2>1 DEF TypeOK, CommitCreate, Provenance, LinksSelected, Grows
  <2>4. (projects \subseteq Created)'
    <3>1. nextProject \in Nat \ {0} /\ nextProject' = nextProject + 1
      BY <1>1, BoundsAssumption DEF TypeOK, CommitCreate
    <3>2. nextProject \in Created'
      BY <3>1 DEF Created
    <3> QED BY <1>1, <2>1, <3>2 DEF CommitCreate, Provenance, Grows
  <2>5. CarriedBorne' /\ OwnersEntitled'
    BY <1>1, <2>1, CarriedKept, OwnersKept DEF CommitCreate, Provenance, ops
  <2> QED BY <2>1, <2>2, <2>3, <2>4, <2>5, ReleasesKept DEF Provenance
<1>2. CASE LocateLinks(h)
  <2>1. Releases
    BY <1>2, <1>h, <1>l, GotoReleases DEF LocateLinks, Recomputing
  <2> QED BY <1>2, <2>1, QuietProvenance DEF LocateLinks, billing, ops
<1>3. CASE CommitUpdate(h)
  <2>1. Grows
    BY <1>3, CreatedGrows DEF CommitUpdate, Grows
  <2>2. Releases
    BY <1>3, <1>h, <1>l, GotoReleases DEF CommitUpdate, Recomputing
  <2>3. LinksSelected'
    BY <1>3, <2>1 DEF TypeOK, CommitUpdate, Provenance, LinksSelected, Grows
  <2>4. CarriedBorne' /\ OwnersEntitled' /\ (projects \subseteq Created)'
    BY <1>3, <2>1, CarriedKept, OwnersKept DEF CommitUpdate, Provenance, ops, Created
  <2> QED BY <2>1, <2>2, <2>3, <2>4, ReleasesKept DEF Provenance
<1>4. CASE RequestFails(h)
  <2>1. Releases
    BY <1>4, <1>h, FinishReleases DEF RequestFails
  <2> QED BY <1>4, <2>1, QuietProvenance DEF RequestFails, billing, ops
<1>5. ASSUME NEW from \in Labels \ Recomputing, NEW to \in Labels \ Recomputing,
             Unassign(h, from, to)
      PROVE  Provenance'
  <2>1. Grows
    BY <1>5, CreatedGrows DEF Unassign, Grows, billing
  <2>2. Releases
    BY <1>5, <1>h, GotoReleases DEF Unassign
  <2>3. OwnersEntitled'
    BY <1>5, <2>1, OwnersKept DEF Unassign, Provenance
  <2>4. LinksSelected' /\ CarriedBorne' /\ (projects \subseteq Created)'
    BY <1>5, <2>1, LinksKept, CarriedKept DEF Unassign, Provenance, billing, Created
  <2> QED BY <2>1, <2>2, <2>3, <2>4, ReleasesKept DEF Provenance
<1>6. ASSUME NEW P, RemoveProjects(P), Releases,
             UNCHANGED <<nextProject, carried, vms, owner, selected, borne>>
      PROVE  Provenance'
  <2>1. Grows
    BY <1>6, CreatedGrows DEF Grows
  <2>2. LinksSelected' /\ (projects \subseteq Created)'
    BY <1>6 DEF TypeOK, RemoveProjects, Provenance, LinksSelected, Created
  <2>3. CarriedBorne' /\ OwnersEntitled'
    BY <1>6, <2>1, CarriedKept, OwnersKept DEF Provenance
  <2> QED BY <1>6, <2>1, <2>2, <2>3, ReleasesKept DEF Provenance
<1>7. CASE CommitDelete(h)
  <2>1. Releases
    BY <1>7, <1>h, <1>l, GotoReleases DEF CommitDelete, Recomputing
  <2> QED BY <1>6, <1>7, <2>1 DEF CommitDelete, ops
<1>8. CASE CommitDeleteTenant(h)
  <2>1. Releases
    BY <1>8, <1>h, FinishReleases DEF CommitDeleteTenant
  <2> QED BY <1>6, <1>8, <2>1 DEF CommitDeleteTenant, ops
<1>9. CASE CommitDeleteAccount(h)
  <2>1. Grows
    BY <1>9, CreatedGrows DEF CommitDeleteAccount, Grows, billing
  <2>2. Releases
    BY <1>9, <1>h, <1>l, GotoReleases DEF CommitDeleteAccount, Recomputing
  <2>3. CarriedBorne'
    BY <1>9 DEF CommitDeleteAccount, Provenance, CarriedBorne
  <2>4. OwnersEntitled'
    BY <1>9 DEF CommitDeleteAccount, Provenance, OwnersEntitled, Entitled
  <2>5. LinksSelected' /\ (projects \subseteq Created)'
    BY <1>9, <2>1, LinksKept DEF CommitDeleteAccount, Provenance, billing, Created
  <2> QED BY <2>1, <2>2, <2>3, <2>4, <2>5, ReleasesKept DEF Provenance
<1>10. CASE Import(h)
  <2>1. Releases
    <3>1. CASE Goto(h, "ids") /\ UNCHANGED <<req, work>>
      BY <1>10, <1>h, <1>l, <3>1, GotoReleases DEF Import, Recomputing
    <3>2. CASE Finish(h)
      BY <1>h, <3>2, FinishReleases
    <3> QED BY <1>10, <3>1, <3>2 DEF Import
  <2>2. CASE \E a \in req[h].account : InventoryChanges(h, a)
    <3>1. PICK a \in Accounts : InventoryChanges(h, a)
      BY <2>2, <1>h DEF TypeOK, Request
    <3> QED BY <1>10, <1>h, <2>1, <3>1, CollectedProvenance DEF Import, billing
  <2>3. CASE InventoryStays
    BY <1>10, <2>1, <2>3, QuietProvenance DEF Import, InventoryStays, billing, ops
  <2> QED BY <1>10, <2>2, <2>3 DEF Import
<1>11. CASE Recompute(h)
  BY <1>11, <1>h, RecomputeProvenance
<1>12. {"unassign", "unassignAll"} \subseteq Labels \ Recomputing
  BY DEF Labels, Recomputing
<1>13. CASE Unassign(h, "unassign", "delete") \/ Unassign(h, "unassignAll", "deleteTenant")
  BY <1>5, <1>13, <1>12, <1>l
<1> QED BY <1>1, <1>2, <1>3, <1>4, <1>7, <1>8, <1>9, <1>10, <1>11, <1>13 DEF Serve

LEMMA CollectProvenance ==
  ASSUME TypeOK, Provenance, Collect
  PROVE  Provenance'
<1>h. Collector \in Procs
  BY DEF Procs
<1>l. {"cycle", "ids"} \subseteq Labels \ Recomputing
  BY DEF Labels, Recomputing
<1>1. CASE StartCycle \/ CollectionDone
  <2>1. Releases
    BY <1>1, <1>h, <1>l, GotoReleases DEF StartCycle, CollectionDone, Recomputing
  <2> QED BY <1>1, <2>1, QuietProvenance DEF StartCycle, CollectionDone, billing, ops
<1>2. CASE CollectAccount
  <2>1. PICK a \in todo : InventoryChanges(Collector, a) \/ InventoryStays
    BY <1>2 DEF CollectAccount
  <2>2. Releases
    BY <1>2 DEF TypeOK, CollectAccount, Releases
  <2>3. CASE InventoryChanges(Collector, a)
    BY <1>2, <1>h, <2>2, <2>3, CollectedProvenance DEF TypeOK, CollectAccount, billing
  <2>4. CASE InventoryStays
    BY <1>2, <2>2, <2>4, QuietProvenance DEF CollectAccount, InventoryStays, billing, ops
  <2> QED BY <2>1, <2>3, <2>4
<1>3. CASE CycleAborts
  <2>1. Releases
    BY <1>3, <1>h, FinishReleases DEF CycleAborts
  <2> QED BY <1>3, <2>1, QuietProvenance DEF CycleAborts, billing, ops
<1>4. CASE Recompute(Collector)
  BY <1>4, <1>h, RecomputeProvenance
<1> QED BY <1>1, <1>2, <1>3, <1>4 DEF Collect

LEMMA NextProvenance ==
  ASSUME TypeOK, Provenance, [Next]_vars
  PROVE  Provenance'
<1>1. CASE UNCHANGED vars
  <2>1. Releases
    BY <1>1 DEF Releases, vars
  <2> QED BY <1>1, <2>1, QuietProvenance DEF vars, billing, ops
<1>2. ASSUME NEW h \in Procs, Fault(h)
      PROVE  Provenance'
  <2>1. Releases
    BY <1>2, FinishReleases DEF Fault
  <2> QED BY <1>2, <2>1, QuietProvenance DEF Fault, billing, ops
<1> QED BY <1>1, <1>2, SubmitProvenance, ServeProvenance, CollectProvenance DEF Next

(* Everything a recompute holds or writes can be traced to a selection and   *)
(* to an inventory, whatever commits fall between its statements.            *)
THEOREM ProvenanceHolds == Spec => []Provenance
<1>1. Init => Provenance
  BY InitProvenance
<1>2. TypeOK /\ Provenance /\ [Next]_vars => Provenance'
  BY NextProvenance
<1> QED BY <1>1, <1>2, TypeCorrect, PTL DEF Spec

(* A VM is only ever billed to a project that has selected something the VM  *)
(* has carried (collector.py recompute_project_assignments).                 *)
THEOREM BilledOnlyIfSelected == Spec => []OnlyEverSelected
<1>1. TypeOK /\ Provenance => OnlyEverSelected
  BY DEF TypeOK, Provenance, OwnersEntitled, OnlyEverSelected
<1> QED BY <1>1, TypeCorrect, ProvenanceHolds, PTL

-----------------------------------------------------------------------------
(* Refinement: what VMOwnership calls known and entitled. *)
Known      == UNION {work[h].ids : h \in Procs}
Entitlings == {x \in VMs \X ProjectId : Entitled(x[2], x[1])}

LEMMA Abstracted ==
  /\ Ownership!vars = <<Created, projects, Known, Entitlings, owner>>
  /\ Ownership!Init <=> /\ Created = {} /\ projects = {} /\ Known = {} /\ Entitlings = {}
                       /\ owner = [v \in VMs |-> Nobody]
BY DEF Ownership!vars, Ownership!Init, Known, Entitlings

LEMMA KnownShrinks ==
  ASSUME Releases
  PROVE  Known' \subseteq Known
<1>1. \A g \in Procs : work'[g].ids \subseteq work[g].ids
  BY DEF Releases, NoWork
<1> QED BY <1>1 DEF Known

LEMMA EntitlingsGrow ==
  ASSUME Grows
  PROVE  Entitlings \subseteq Entitlings' /\ Entitlings' \subseteq VMs \X ProjectId
BY DEF Grows, Entitlings, Entitled

LEMMA EntitlingsSame ==
  ASSUME UNCHANGED <<selected, borne>>
  PROVE  Entitlings' = Entitlings
BY DEF Entitlings, Entitled

LEMMA OfferStep ==
  ASSUME Entitlings \subseteq Entitlings', Entitlings' \subseteq VMs \X ProjectId,
         Known' = Known, owner' = owner,
         \/ Created' = Created /\ projects' = projects
         \/ \E p \in ProjectId \ Created :
              Created' = Created \cup {p} /\ projects' = projects \cup {p}
  PROVE  Ownership!Next
BY DEF Ownership!Next, Ownership!Offer, Known, Entitlings

LEMMA WithdrawStep ==
  ASSUME projects' \subseteq projects, Releases, UNCHANGED <<nextProject, selected, borne, owner>>
  PROVE  Ownership!Next
<1>1. Created' = Created /\ Entitlings' = Entitlings
  BY EntitlingsSame DEF Created
<1> QED BY <1>1, KnownShrinks DEF Ownership!Next, Ownership!Withdraw, Known, Entitlings

LEMMA LearnStep ==
  ASSUME Known' = Known \cup projects,
         UNCHANGED <<projects, nextProject, selected, borne, owner>>
  PROVE  Ownership!Next
<1>1. Created' = Created /\ Entitlings' = Entitlings
  BY EntitlingsSame DEF Created
<1> QED BY <1>1 DEF Ownership!Next, Ownership!Learn, Known, Entitlings

LEMMA AssignStep ==
  ASSUME owner' \in [VMs -> Owner], Releases,
         \A v \in VMs : \/ owner'[v] \in {owner[v], Nobody}
                        \/ owner'[v] \in Known /\ <<v, owner'[v]>> \in Entitlings,
         UNCHANGED <<projects, nextProject, selected, borne>>
  PROVE  Ownership!Next
<1>1. Created' = Created /\ Entitlings' = Entitlings
  BY EntitlingsSame DEF Created
<1> QED BY <1>1, KnownShrinks DEF Ownership!Next, Ownership!Assign, Known, Entitlings, Owner

LEMMA StutterStep ==
  ASSUME Known' = Known, UNCHANGED <<projects, nextProject, selected, borne, owner>>
  PROVE  UNCHANGED Ownership!vars
<1>1. Created' = Created /\ Entitlings' = Entitlings
  BY EntitlingsSame DEF Created
<1> QED BY <1>1 DEF Ownership!vars, Known, Entitlings

LEMMA RecomputeRefines ==
  ASSUME TypeOK, Provenance, NEW h \in Procs, Recompute(h)
  PROVE  [Ownership!Next]_(Ownership!vars)
<1>1. CASE ReadProjectIds(h)
  <2>1. \A g \in Procs : work'[g].ids = IF g = h THEN projects ELSE work[g].ids
    BY <1>1 DEF TypeOK, ReadProjectIds, Work
  <2>2. work[h].ids = {}
    BY <1>1 DEF Provenance, IdleKnowsNone, ReadProjectIds, Recomputing
  <2>3. Known' = Known \cup projects
    BY <2>1, <2>2 DEF Known
  <2> QED BY <1>1, <2>3, LearnStep DEF ReadProjectIds, billing, ops
<1>2. CASE ~ ReadProjectIds(h) /\ ~ WriteBack(h)
  <2>1. \A g \in Procs : work'[g].ids = work[g].ids
    <3>1. ASSUME NEW kind, NEW from, NEW to, ReadLinks(h, kind, from, to)
          PROVE  \A g \in Procs : work'[g].ids = work[g].ids
      BY <3>1 DEF TypeOK, ReadLinks, Work
    <3>2. CASE LoadVMs(h)
      <4>1. PICK n : work' = [work EXCEPT ![h].loaded = vms, ![h].old = owner, ![h].new = n]
        BY <3>2 DEF LoadVMs
      <4> QED BY <4>1 DEF TypeOK, Work
    <3>3. CASE LoadTags(h)
      <4>1. PICK n : work' = [work EXCEPT ![h].new = n]
        BY <3>3 DEF LoadTags
      <4> QED BY <4>1 DEF TypeOK, Work
    <3> QED BY <1>2, <3>1, <3>2, <3>3 DEF Recompute
  <2>2. Known' = Known
    BY <2>1 DEF Known
  <2>3. UNCHANGED <<projects, nextProject, selected, borne, owner>>
    BY <1>2 DEF Recompute, ReadLinks, LoadVMs, LoadTags, billing, ops
  <2> QED BY <2>2, <2>3, StutterStep
<1>3. CASE WriteBack(h)
  <2>1. Releases
    BY <1>3, FinishReleases DEF WriteBack
  <2>2. owner' \in [VMs -> Owner]
    BY RecomputeTypes DEF TypeOK
  <2>3. ASSUME NEW v \in VMs, owner'[v] \notin {owner[v], Nobody}
        PROVE  owner'[v] \in Known /\ <<v, owner'[v]>> \in Entitlings
    <3>1. owner'[v] = work[h].new[v]
      BY <1>3, <2>3 DEF WriteBack
    <3>2. owner'[v] \in work[h].ids /\ Entitled(work[h].new[v], v) /\ owner'[v] \in ProjectId
      BY <2>3, <3>1 DEF TypeOK, Provenance, WorkKnown, KnownOnly, Work, Owner
    <3> QED BY <3>1, <3>2 DEF Known, Entitlings
  <2> QED BY <1>3, <2>1, <2>2, <2>3, AssignStep DEF WriteBack, billing
<1> QED BY <1>1, <1>2, <1>3

LEMMA CollectedRefines ==
  ASSUME TypeOK, NEW h \in Procs, NEW a \in Accounts, InventoryChanges(h, a),
         Known' = Known, UNCHANGED <<projects, nextProject, selected>>
  PROVE  Ownership!Next
<1>1. Grows
  BY CollectedTypes, CreatedGrows DEF Grows
<1>2. owner' = owner /\ Created' = Created
  BY CollectedTypes DEF Created
<1> QED BY <1>1, <1>2, EntitlingsGrow, OfferStep

LEMMA ServeRefines ==
  ASSUME TypeOK, Provenance, NEW h \in Handlers, Serve(h)
  PROVE  [Ownership!Next]_(Ownership!vars)
<1>h. h \in Procs
  BY DEF Procs
<1>l. {"ids", "update", "delete", "deleteTenant"} \subseteq Labels \ Recomputing
  BY DEF Labels, Recomputing
<1>w. work' = work => Known' = Known
  BY DEF Known
<1>1. CASE CommitCreate(h)
  <2>1. Grows
    BY <1>1, CreatedGrows DEF CommitCreate, Grows
  <2>2. nextProject \in ProjectId /\ nextProject' = nextProject + 1
    BY <1>1 DEF CommitCreate
  <2>3. nextProject \notin Created /\ Created' = Created \cup {nextProject}
    <3>1. nextProject \in Nat \ {0}
      BY BoundsAssumption DEF TypeOK
    <3> QED BY <2>2, <3>1 DEF Created
  <2> QED BY <1>1, <1>w, <2>1, <2>2, <2>3, EntitlingsGrow, OfferStep DEF CommitCreate, ops
<1>2. CASE CommitUpdate(h)
  <2>1. Grows
    BY <1>2, CreatedGrows DEF CommitUpdate, Grows
  <2>2. Created' = Created
    BY <1>2 DEF CommitUpdate, Created
  <2> QED BY <1>2, <1>w, <2>1, <2>2, EntitlingsGrow, OfferStep DEF CommitUpdate, ops
<1>3. CASE LocateLinks(h)
  BY <1>3, <1>w, StutterStep DEF LocateLinks, billing, ops
<1>4. CASE RequestFails(h)
  <2>1. Releases
    BY <1>4, <1>h, FinishReleases DEF RequestFails
  <2> QED BY <1>4, <2>1, WithdrawStep DEF RequestFails, billing, ops
<1>5. ASSUME NEW from \in Labels \ Recomputing, NEW to \in Labels \ Recomputing,
             Unassign(h, from, to)
      PROVE  Ownership!Next
  <2>1. Releases
    BY <1>5, <1>h, GotoReleases DEF Unassign
  <2>2. owner' \in [VMs -> Owner]
    BY <1>5 DEF TypeOK, Unassign, Owner
  <2>3. \A v \in VMs : owner'[v] \in {owner[v], Nobody}
    BY <1>5 DEF Unassign
  <2> QED BY <1>5, <2>1, <2>2, <2>3, AssignStep DEF Unassign, billing
<1>6. CASE CommitDelete(h)
  <2>1. Releases
    BY <1>6, <1>h, <1>l, GotoReleases DEF CommitDelete, Recomputing
  <2> QED BY <1>6, <2>1, WithdrawStep DEF CommitDelete, RemoveProjects, ops
<1>7. CASE CommitDeleteTenant(h)
  <2>1. Releases
    BY <1>7, <1>h, FinishReleases DEF CommitDeleteTenant
  <2> QED BY <1>7, <2>1, WithdrawStep DEF CommitDeleteTenant, RemoveProjects, ops
<1>8. CASE CommitDeleteAccount(h)
  <2>1. Releases
    BY <1>8, <1>h, <1>l, GotoReleases DEF CommitDeleteAccount, Recomputing
  <2>2. owner' \in [VMs -> Owner]
    BY ServeTypes DEF TypeOK
  <2>3. \A v \in VMs : owner'[v] \in {owner[v], Nobody}
    BY <1>8 DEF CommitDeleteAccount
  <2> QED BY <1>8, <2>1, <2>2, <2>3, AssignStep DEF CommitDeleteAccount, billing
<1>9. CASE Import(h)
  <2>1. Releases
    <3>1. CASE Goto(h, "ids") /\ UNCHANGED <<req, work>>
      BY <1>9, <1>h, <1>l, <3>1, GotoReleases DEF Import, Recomputing
    <3>2. CASE Finish(h)
      BY <1>h, <3>2, FinishReleases
    <3> QED BY <1>9, <3>1, <3>2 DEF Import
  <2>2. CASE InventoryStays
    BY <1>9, <2>1, <2>2, WithdrawStep DEF Import, InventoryStays, billing, ops
  <2>3. CASE ~ InventoryStays
    <3>1. PICK a \in Accounts : InventoryChanges(h, a)
      BY <1>9, <1>h, <2>3 DEF TypeOK, Request, Import
    <3>2. Known' = Known
      BY <1>9, <1>w, <2>3 DEF Import
    <3> QED BY <1>9, <1>h, <3>1, <3>2, CollectedRefines DEF Import, billing
  <2> QED BY <2>2, <2>3
<1>10. CASE Recompute(h)
  BY <1>10, <1>h, RecomputeRefines
<1>11. {"unassign", "unassignAll"} \subseteq Labels \ Recomputing
  BY DEF Labels, Recomputing
<1>12. CASE Unassign(h, "unassign", "delete") \/ Unassign(h, "unassignAll", "deleteTenant")
  BY <1>5, <1>11, <1>12, <1>l
<1> QED BY <1>1, <1>2, <1>3, <1>4, <1>6, <1>7, <1>8, <1>9, <1>10, <1>12 DEF Serve

LEMMA CollectRefines ==
  ASSUME TypeOK, Provenance, Collect
  PROVE  [Ownership!Next]_(Ownership!vars)
<1>h. Collector \in Procs
  BY DEF Procs
<1>w. work' = work => Known' = Known
  BY DEF Known
<1>1. CASE StartCycle \/ CollectionDone
  BY <1>1, <1>w, StutterStep DEF StartCycle, CollectionDone, billing, ops
<1>2. CASE CollectAccount
  <2>1. PICK a \in Accounts : InventoryChanges(Collector, a) \/ InventoryStays
    BY <1>2 DEF TypeOK, CollectAccount
  <2>2. CASE InventoryChanges(Collector, a)
    BY <1>2, <1>h, <1>w, <2>2, CollectedRefines DEF CollectAccount, billing
  <2>3. CASE InventoryStays
    BY <1>2, <1>w, <2>3, StutterStep DEF CollectAccount, InventoryStays, billing, ops
  <2> QED BY <2>1, <2>2, <2>3
<1>3. CASE CycleAborts
  <2>1. Releases
    BY <1>3, <1>h, FinishReleases DEF CycleAborts
  <2> QED BY <1>3, <2>1, WithdrawStep DEF CycleAborts, billing, ops
<1>4. CASE Recompute(Collector)
  BY <1>4, <1>h, RecomputeRefines
<1> QED BY <1>1, <1>2, <1>3, <1>4 DEF Collect

LEMMA NextRefines ==
  ASSUME TypeOK, Provenance, [Next]_vars
  PROVE  [Ownership!Next]_(Ownership!vars)
<1>w. work' = work => Known' = Known
  BY DEF Known
<1>1. CASE UNCHANGED vars
  BY <1>1, <1>w, StutterStep DEF vars, billing, ops
<1>2. ASSUME NEW h \in Handlers, Submit(h)
      PROVE  UNCHANGED Ownership!vars
  <2>1. UNCHANGED <<projects, nextProject, owner, selected, borne, work>>
    BY <1>2 DEF Submit, CreateProject, UpdateProject, DeleteProject, DeleteTenant,
           DeleteAccount, CreateAccount, EditAccount, SaveAccount, SyncAccount, Begin, billing, ops
  <2> QED BY <1>w, <2>1, StutterStep
<1>3. ASSUME NEW h \in Procs, Fault(h)
      PROVE  Ownership!Next
  <2>1. Releases
    BY <1>3, FinishReleases DEF Fault
  <2> QED BY <1>3, <2>1, WithdrawStep DEF Fault, billing, ops
<1> QED BY <1>1, <1>2, <1>3, ServeRefines, CollectRefines DEF Next

LEMMA InitRefines == Init => Ownership!Init
<1> SUFFICES ASSUME Init PROVE Ownership!Init
  OBVIOUS
<1>1. Created = {} /\ Known = {} /\ Entitlings = {}
  BY DEF Init, Created, Known, Entitlings, Entitled, NoWork
<1> QED BY <1>1, Abstracted DEF Init

(* The databases and the processes that work on them implement VMOwnership:  *)
(* a VM passes only to a project that some running recompute read while it   *)
(* existed and that was entitled to the VM.                                  *)
THEOREM Refines == Spec => ImplementsOwnership
<1>1. Init => Ownership!Init
  BY InitRefines
<1>2. TypeOK /\ Provenance /\ [Next]_vars => [Ownership!Next]_(Ownership!vars)
  BY NextRefines
<1> QED BY <1>1, <1>2, TypeCorrect, ProvenanceHolds, PTL DEF Spec, ImplementsOwnership, Ownership!Spec

(* No commit and no late write brings a deleted project back.                *)
THEOREM DeletedNeverReturns == Spec => DeletedStaysGone
<1>1. ASSUME TypeOK, Provenance, [Next]_vars, NEW p \in ProjectId, Dead(p)
      PROVE  Dead(p)' /\ (Held(p)' => Held(p))
  <2>1. TypeOK'
    BY <1>1, NextTypes
  <2>2. [Ownership!Next]_(Ownership!vars)
    BY <1>1, NextRefines
  <2>n. nextProject \in Nat /\ nextProject' \in Nat /\ p \in Nat \ {0}
    BY <1>1, <2>1, BoundsAssumption DEF TypeOK, ProjectId
  <2>3. p \in Created \ projects
    BY <1>1, <2>n DEF Dead, Created
  <2>4. p \in Created' \ projects' /\ (p \in Known' => p \in Known)
    BY <2>2, <2>3 DEF Ownership!Next, Ownership!vars, Ownership!Offer, Ownership!Withdraw,
                      Ownership!Learn, Ownership!Assign, Known
  <2>5. Dead(p)'
    <3>1. p \in 1 .. (nextProject' - 1)
      BY <2>4 DEF Created
    <3>2. \A n \in Nat : \A m \in 1 .. (n - 1) : m < n
      OBVIOUS
    <3>3. p < nextProject'
      BY <2>n, <3>1, <3>2
    <3> QED BY <2>4, <3>3 DEF Dead
  <2>6. ASSUME NEW v \in vms', owner'[v] = p
        PROVE  Held(p)
    <3>1. v \in VMs /\ p # Nobody
      BY <2>1, BoundsAssumption DEF TypeOK, ProjectId, Nobody
    <3>2. owner[v] = p \/ p \in Known
      BY <2>2, <2>6, <3>1 DEF Ownership!Next, Ownership!vars, Ownership!Offer,
              Ownership!Withdraw, Ownership!Learn, Ownership!Assign, Known
    <3> QED BY <1>1, <3>1, <3>2 DEF Held, Known, Provenance, OwnersEntitled
  <2>7. Held(p)' => Held(p)
    BY <2>4, <2>6 DEF Held, Known
  <2> QED BY <2>5, <2>7
<1>2. TypeOK /\ Provenance /\ [Next]_vars =>
        [\A p \in ProjectId : Dead(p) => Dead(p)' /\ (Held(p)' => Held(p))]_vars
  BY <1>1
<1> QED BY <1>2, TypeCorrect, ProvenanceHolds, PTL DEF Spec, DeletedStaysGone

-----------------------------------------------------------------------------
(* Undisturbed recomputes                                                   *)
(*                                                                          *)
(* What a recompute has read is what the databases hold, until some other   *)
(* process commits: then the recompute is disturbed.                        *)

Chosen(c) == {p \in projects : c \in links[p]}

(* The kinds of criteria a recompute has read when it has come to label l.   *)
KindsRead(l) ==
  CASE l = "clusters" -> {}
    [] l = "folders"  -> Clusters
    [] l = "tags"     -> Clusters \cup Folders
    [] OTHER          -> Criteria

Decided(w, S, p) == \E b \in ByHierarchy(w.map, S) : p \in IF b = Nobody THEN ByTags(w.map, S) ELSE {b}

Current(h) ==
  /\ work[h].ids = projects
  /\ \A c \in KindsRead(pc[h]) : work[h].map[c] = First(Chosen(c))
  /\ pc[h] \in {"vmtags", "write"} => work[h].loaded = vms /\ work[h].old = owner
  /\ pc[h] = "vmtags" => \A v \in vms : work[h].new[v] \in ByHierarchy(work[h].map, carried[v])
  /\ pc[h] = "write" => \A v \in vms : Decided(work[h], carried[v], work[h].new[v])

UpToDate == \A h \in Procs : pc[h] \in Recomputing /\ h \notin disturbed => Current(h)

(* What a step of g leaves to the others: all they have, or a disturbance.   *)
Apart(g) ==
  /\ \A h \in Procs \ {g} : pc'[h] = pc[h] /\ work'[h] = work[h]
  /\ \/ Disturb(g)
     \/ /\ UNCHANGED <<projects, links, vms, carried, owner>>
        /\ \A h \in Procs \ {g} : h \in disturbed' <=> h \in disturbed

Outside(g) == pc'[g] \notin Recomputing

LEMMA OthersUpToDate ==
  ASSUME UpToDate, NEW g \in Procs, Apart(g),
         pc'[g] \in Recomputing /\ g \notin disturbed' => Current(g)'
  PROVE  UpToDate'
<1> SUFFICES ASSUME NEW h \in Procs, pc'[h] \in Recomputing, h \notin disturbed'
             PROVE  Current(h)'
  BY DEF UpToDate
<1>1. CASE h = g
  BY <1>1
<1>2. CASE h # g
  <2>1. pc'[h] = pc[h] /\ work'[h] = work[h]
    BY <1>2 DEF Apart
  <2>2. ~ Disturb(g)
    BY <1>2, <2>1 DEF Disturb
  <2>3. UNCHANGED <<projects, links, vms, carried, owner>> /\ h \notin disturbed
    BY <1>2, <2>2 DEF Apart
  <2>4. Current(h)
    BY <2>1, <2>3 DEF UpToDate
  <2>5. \A c : Chosen(c)' = Chosen(c)
    BY <2>3 DEF Chosen
  <2>6. \A c \in KindsRead(pc[h]) : work[h].map[c] = First(Chosen(c)')
    BY <2>4, <2>5 DEF Current
  <2>7. \A c \in KindsRead(pc'[h]) : work'[h].map[c] = First(Chosen(c)')
    BY <2>1, <2>6
  <2>8. /\ work'[h].ids = projects'
        /\ pc'[h] \in {"vmtags", "write"} => work'[h].loaded = vms' /\ work'[h].old = owner'
        /\ pc'[h] = "vmtags" => \A v \in vms' : work'[h].new[v] \in ByHierarchy(work'[h].map, carried'[v])
        /\ pc'[h] = "write" => \A v \in vms' : Decided(work'[h], carried'[v], work'[h].new[v])
    BY <2>1, <2>3, <2>4 DEF Current
  <2> QED BY <2>7, <2>8 DEF Current
<1> QED BY <1>1, <1>2

LEMMA InitUpToDate == Init => UpToDate
BY DEF Init, UpToDate, Recomputing

LEMMA GotoApart ==
  ASSUME TypeOK, NEW g \in Procs, NEW l, Goto(g, l)
  PROVE  pc'[g] = l /\ \A h \in Procs \ {g} : pc'[h] = pc[h]
BY DEF TypeOK, Goto

LEMMA FinishApart ==
  ASSUME TypeOK, NEW g \in Procs, Finish(g)
  PROVE  pc'[g] = "idle" /\ Outside(g) /\ \A h \in Procs \ {g} : pc'[h] = pc[h] /\ work'[h] = work[h]
<1>1. pc'[g] = "idle" /\ \A h \in Procs \ {g} : pc'[h] = pc[h]
  BY GotoApart DEF Finish
<1>2. \A h \in Procs \ {g} : work'[h] = work[h]
  BY DEF TypeOK, Finish
<1> QED BY <1>1, <1>2 DEF Outside, Recomputing

LEMMA NoDisturbance ==
  ASSUME TypeOK, NEW g \in Procs, UNCHANGED <<projects, links, vms, carried, owner, disturbed>>,
         \/ Finish(g)
         \/ UNCHANGED work /\ \E l \in Labels \ Recomputing : Goto(g, l)
  PROVE  Apart(g) /\ Outside(g)
BY FinishApart, GotoApart DEF Apart, Outside

LEMMA CommitApart ==
  ASSUME TypeOK, NEW g \in Procs, Disturb(g),
         \/ Finish(g)
         \/ UNCHANGED work /\ \E l \in Labels \ Recomputing : Goto(g, l)
  PROVE  Apart(g) /\ Outside(g)
BY FinishApart, GotoApart DEF Apart, Outside

LEMMA KindsReadGrow ==
  /\ KindsRead("clusters") = {} /\ KindsRead("folders") = Clusters
  /\ KindsRead("tags") = Clusters \cup Folders
  /\ KindsRead("vms") = Criteria /\ KindsRead("vmtags") = Criteria /\ KindsRead("write") = Criteria
BY DEF KindsRead

LEMMA ReadLinksUpToDate ==
  ASSUME TypeOK, UpToDate, NEW g \in Procs, NEW kind \in Kinds, NEW from \in Recomputing,
         NEW to \in {"folders", "tags", "vms"},
         KindsRead(to) = KindsRead(from) \cup kind, ReadLinks(g, kind, from, to)
  PROVE  Apart(g) /\ (g \notin disturbed' => Current(g)')
<1> DEFINE map == [c \in Criteria |-> IF c \in kind THEN First(Selectors(g, c)) ELSE work[g].map[c]]
<1>1. /\ pc[g] = from /\ pc'[g] = to
      /\ \A h \in Procs \ {g} : pc'[h] = pc[h] /\ work'[h] = work[h]
      /\ UNCHANGED <<projects, links, vms, carried, owner, disturbed>>
  BY GotoApart DEF TypeOK, ReadLinks, billing, ops
<1>2. work'[g].ids = work[g].ids /\ work'[g].map = map
  BY DEF TypeOK, ReadLinks, Work
<1>3. Apart(g)
  BY <1>1 DEF Apart
<1>4. ASSUME g \notin disturbed'
      PROVE  Current(g)'
  <2>1. Current(g)
    BY <1>1, <1>4 DEF UpToDate
  <2>2. \A c : Selectors(g, c) = Chosen(c) /\ Chosen(c)' = Chosen(c)
    BY <1>1, <2>1 DEF Selectors, Chosen, Current
  <2>3. KindsRead(to) \subseteq Criteria
    BY DEF KindsRead, Criteria
  <2>4. ASSUME NEW c \in KindsRead(to)
        PROVE  map[c] = First(Chosen(c)')
    <3>1. c \in kind \/ c \in KindsRead(from)
      BY <2>4
    <3>2. map[c] = IF c \in kind THEN First(Selectors(g, c)) ELSE work[g].map[c]
      BY <2>3
    <3>3. c \in KindsRead(from) => work[g].map[c] = First(Chosen(c))
      BY <1>1, <2>1 DEF Current
    <3> QED BY <2>2, <3>1, <3>2, <3>3
  <2> HIDE DEF map
  <2>5. \A c \in KindsRead(pc'[g]) : work'[g].map[c] = First(Chosen(c)')
    BY <1>1, <1>2, <2>4
  <2>6. work'[g].ids = projects' /\ pc'[g] \notin {"vmtags", "write"}
    BY <1>1, <1>2, <2>1 DEF Current
  <2> QED BY <2>5, <2>6 DEF Current
<1> QED BY <1>3, <1>4

LEMMA RecomputeUpToDate ==
  ASSUME TypeOK, UpToDate, NEW g \in Procs, Recompute(g)
  PROVE  Apart(g) /\ (pc'[g] \in Recomputing /\ g \notin disturbed' => Current(g)')
<1>k. {"clusters", "folders", "tags", "vms", "vmtags"} \subseteq Recomputing
  BY DEF Recomputing
<1>1. CASE ReadProjectIds(g)
  <2>1. /\ pc'[g] = "clusters" /\ UNCHANGED <<projects, links, vms, carried, owner>>
        /\ \A h \in Procs \ {g} : pc'[h] = pc[h] /\ work'[h] = work[h]
        /\ disturbed' = disturbed \ {g}
    BY <1>1, GotoApart DEF TypeOK, ReadProjectIds, billing, ops
  <2>2. work'[g].ids = projects
    BY <1>1 DEF TypeOK, ReadProjectIds, Work
  <2>3. Apart(g)
    BY <2>1 DEF Apart
  <2>4. Current(g)'
    BY <2>1, <2>2, KindsReadGrow DEF Current
  <2> QED BY <2>3, <2>4
<1>2. CASE ReadLinks(g, Clusters, "clusters", "folders")
  BY <1>2, <1>k, KindsReadGrow, ReadLinksUpToDate DEF Kinds
<1>3. CASE ReadLinks(g, Folders, "folders", "tags")
  BY <1>3, <1>k, KindsReadGrow, ReadLinksUpToDate DEF Kinds
<1>4. CASE ReadLinks(g, Tags, "tags", "vms")
  <2>1. KindsRead("vms") = KindsRead("tags") \cup Tags
    BY KindsReadGrow DEF Criteria
  <2> QED BY <1>4, <1>k, <2>1, ReadLinksUpToDate DEF Kinds
<1>5. CASE LoadVMs(g)
  <2>1. PICK n \in [VMs -> Owner] :
          /\ \A v \in VMs : n[v] \in IF v \in vms THEN ByHierarchy(work[g].map, carried[v]) ELSE {Nobody}
          /\ work' = [work EXCEPT ![g].loaded = vms, ![g].old = owner, ![g].new = n]
    BY <1>5 DEF LoadVMs
  <2>2. /\ pc[g] = "vms" /\ pc'[g] = "vmtags"
        /\ UNCHANGED <<projects, links, vms, carried, owner, disturbed>>
        /\ \A h \in Procs \ {g} : pc'[h] = pc[h] /\ work'[h] = work[h]
    BY <1>5, <2>1, GotoApart DEF TypeOK, LoadVMs, billing, ops
  <2>3. /\ work'[g].ids = work[g].ids /\ work'[g].map = work[g].map
        /\ work'[g].loaded = vms /\ work'[g].old = owner /\ work'[g].new = n
    BY <2>1 DEF TypeOK, Work
  <2>4. Apart(g)
    BY <2>2 DEF Apart
  <2>5. ASSUME g \notin disturbed'
        PROVE  Current(g)'
    <3>1. Current(g)
      BY <1>k, <2>2, <2>5 DEF UpToDate
    <3>2. \A c : Chosen(c)' = Chosen(c)
      BY <2>2 DEF Chosen
    <3>3. \A c \in KindsRead(pc'[g]) : work'[g].map[c] = First(Chosen(c)')
      BY <2>2, <2>3, <3>1, <3>2, KindsReadGrow DEF Current
    <3>4. \A v \in vms' : work'[g].new[v] \in ByHierarchy(work'[g].map, carried'[v])
      BY <2>1, <2>2, <2>3 DEF TypeOK
    <3>5. work'[g].ids = projects' /\ work'[g].loaded = vms' /\ work'[g].old = owner'
      BY <2>2, <2>3, <3>1 DEF Current
    <3> QED BY <2>2, <3>3, <3>4, <3>5 DEF Current
  <2> QED BY <2>4, <2>5
<1>6. CASE LoadTags(g)
  <2>1. PICK n \in [VMs -> Owner] :
          /\ \A v \in VMs : n[v] \in IF v \in work[g].loaded /\ work[g].new[v] = Nobody
                                     THEN ByTags(work[g].map, carried[v]) ELSE {work[g].new[v]}
          /\ work' = [work EXCEPT ![g].new = n]
    BY <1>6 DEF LoadTags
  <2>2. /\ pc[g] = "vmtags" /\ pc'[g] = "write"
        /\ UNCHANGED <<projects, links, vms, carried, owner, disturbed>>
        /\ \A h \in Procs \ {g} : pc'[h] = pc[h] /\ work'[h] = work[h]
    BY <1>6, <2>1, GotoApart DEF TypeOK, LoadTags, billing, ops
  <2>3. /\ work'[g].ids = work[g].ids /\ work'[g].map = work[g].map
        /\ work'[g].loaded = work[g].loaded /\ work'[g].old = work[g].old /\ work'[g].new = n
    BY <2>1 DEF TypeOK, Work
  <2>4. Apart(g)
    BY <2>2 DEF Apart
  <2>5. ASSUME g \notin disturbed'
        PROVE  Current(g)'
    <3>1. Current(g)
      BY <1>k, <2>2, <2>5 DEF UpToDate
    <3>2. \A c : Chosen(c)' = Chosen(c)
      BY <2>2 DEF Chosen
    <3>3. \A c \in KindsRead(pc'[g]) : work'[g].map[c] = First(Chosen(c)')
      BY <2>2, <2>3, <3>1, <3>2, KindsReadGrow DEF Current
    <3>4. ASSUME NEW v \in vms'
          PROVE  Decided(work'[g], carried'[v], work'[g].new[v])
      <4>1. v \in VMs /\ v \in work[g].loaded /\ work[g].new[v] \in ByHierarchy(work[g].map, carried[v])
        BY <2>2, <3>1 DEF TypeOK, Current
      <4>2. n[v] \in IF work[g].new[v] = Nobody THEN ByTags(work[g].map, carried[v]) ELSE {work[g].new[v]}
        BY <2>1, <4>1
      <4> QED BY <2>2, <2>3, <4>1, <4>2 DEF Decided
    <3>5. work'[g].ids = projects' /\ work'[g].loaded = vms' /\ work'[g].old = owner'
      BY <2>2, <2>3, <3>1 DEF Current
    <3> QED BY <2>2, <3>3, <3>4, <3>5 DEF Current
  <2> QED BY <2>4, <2>5
<1>7. CASE WriteBack(g)
  BY <1>7, FinishApart DEF WriteBack, Apart, Outside
<1> QED BY <1>1, <1>2, <1>3, <1>4, <1>5, <1>6, <1>7 DEF Recompute

LEMMA SubmitApart ==
  ASSUME TypeOK, NEW g \in Handlers, Submit(g)
  PROVE  Apart(g) /\ Outside(g)
<1>h. g \in Procs
  BY DEF Procs
<1>1. UNCHANGED <<projects, links, vms, carried, owner, disturbed, work>>
  BY DEF Submit, CreateProject, UpdateProject, DeleteProject, DeleteTenant,
         DeleteAccount, CreateAccount, EditAccount, SaveAccount, SyncAccount, Begin, billing, ops
<1>2. \E l \in Labels \ Recomputing : Goto(g, l)
  <2>1. {"create", "locate", "unassign", "unassignAll", "deleteAccount", "import"} \subseteq Labels \ Recomputing
    BY DEF Labels, Recomputing
  <2> QED BY <2>1 DEF Submit, CreateProject, UpdateProject, DeleteProject, DeleteTenant,
         DeleteAccount, CreateAccount, EditAccount, SaveAccount, SyncAccount, Begin
<1> QED BY <1>h, <1>1, <1>2, NoDisturbance

LEMMA ServeUpToDate ==
  ASSUME TypeOK, UpToDate, NEW g \in Handlers, Serve(g)
  PROVE  UpToDate'
<1>h. g \in Procs
  BY DEF Procs
<1>l. {"ids", "update", "delete", "deleteTenant"} \subseteq Labels \ Recomputing
  BY DEF Labels, Recomputing
<1>1. CASE CommitCreate(g) \/ CommitUpdate(g) \/ CommitDelete(g) \/ CommitDeleteTenant(g)
             \/ CommitDeleteAccount(g) \/ Unassign(g, "unassign", "delete")
             \/ Unassign(g, "unassignAll", "deleteTenant")
  <2>1. Disturb(g)
    BY <1>1 DEF CommitCreate, CommitUpdate, CommitDelete, CommitDeleteTenant, CommitDeleteAccount, Unassign
  <2>2. Finish(g) \/ (UNCHANGED work /\ \E l \in Labels \ Recomputing : Goto(g, l))
    BY <1>1, <1>l DEF CommitCreate, CommitUpdate, CommitDelete, CommitDeleteTenant,
                      CommitDeleteAccount, Unassign
  <2> QED BY <1>h, <2>1, <2>2, CommitApart, OthersUpToDate DEF Outside
<1>2. CASE LocateLinks(g) \/ RequestFails(g)
  <2>1. UNCHANGED <<projects, links, vms, carried, owner, disturbed>>
    BY <1>2 DEF LocateLinks, RequestFails, billing, ops
  <2>2. Finish(g) \/ (UNCHANGED work /\ \E l \in Labels \ Recomputing : Goto(g, l))
    BY <1>2, <1>l DEF LocateLinks, RequestFails
  <2> QED BY <1>h, <2>1, <2>2, NoDisturbance, OthersUpToDate DEF Outside
<1>3. CASE Import(g)
  <2>1. Finish(g) \/ (UNCHANGED work /\ \E l \in Labels \ Recomputing : Goto(g, l))
    BY <1>3, <1>l DEF Import
  <2>2. CASE InventoryStays
    <3>1. UNCHANGED <<projects, links, vms, carried, owner, disturbed>>
      BY <1>3, <2>2 DEF Import, InventoryStays, billing, ops
    <3> QED BY <1>h, <2>1, <3>1, NoDisturbance, OthersUpToDate DEF Outside
  <2>3. CASE ~ InventoryStays
    <3>1. Disturb(g)
      BY <1>3, <2>3 DEF Import, InventoryChanges
    <3> QED BY <1>h, <2>1, <3>1, CommitApart, OthersUpToDate DEF Outside
  <2> QED BY <2>2, <2>3
<1>4. CASE Recompute(g)
  BY <1>4, <1>h, RecomputeUpToDate, OthersUpToDate
<1> QED BY <1>1, <1>2, <1>3, <1>4 DEF Serve

LEMMA CollectUpToDate ==
  ASSUME TypeOK, UpToDate, Collect
  PROVE  UpToDate'
<1>h. Collector \in Procs
  BY DEF Procs
<1>l. {"ids", "cycle"} \subseteq Labels \ Recomputing
  BY DEF Labels, Recomputing
<1>1. CASE StartCycle \/ CycleAborts \/ CollectionDone
  <2>1. UNCHANGED <<projects, links, vms, carried, owner, disturbed>>
    BY <1>1 DEF StartCycle, CycleAborts, CollectionDone, billing, ops
  <2>2. Finish(Collector) \/ (UNCHANGED work /\ \E l \in Labels \ Recomputing : Goto(Collector, l))
    BY <1>1, <1>l DEF StartCycle, CycleAborts, CollectionDone
  <2> QED BY <1>h, <2>1, <2>2, NoDisturbance, OthersUpToDate DEF Outside
<1>2. CASE CollectAccount
  <2>1. pc[Collector] = "cycle" /\ pc' = pc /\ work' = work /\ UNCHANGED <<projects, links>>
    BY <1>2 DEF CollectAccount, billing
  <2>2. Disturb(Collector) \/ UNCHANGED <<vms, carried, owner, disturbed>>
    BY <1>2 DEF CollectAccount, InventoryChanges, InventoryStays, ops
  <2>3. Apart(Collector)
    BY <2>1, <2>2 DEF Apart
  <2>4. pc'[Collector] \notin Recomputing
    BY <2>1 DEF Recomputing
  <2> QED BY <1>h, <2>3, <2>4, OthersUpToDate
<1>3. CASE Recompute(Collector)
  BY <1>3, <1>h, RecomputeUpToDate, OthersUpToDate
<1> QED BY <1>1, <1>2, <1>3 DEF Collect

LEMMA NextUpToDate ==
  ASSUME TypeOK, UpToDate, [Next]_vars
  PROVE  UpToDate'
<1>1. CASE UNCHANGED vars
  <2> SUFFICES ASSUME NEW h \in Procs, pc'[h] \in Recomputing, h \notin disturbed'
               PROVE  Current(h)'
    BY DEF UpToDate
  <2>1. UNCHANGED <<projects, links, vms, carried, owner, disturbed, pc, work>>
    BY <1>1 DEF vars, billing, ops
  <2>2. Current(h)
    BY <2>1 DEF UpToDate
  <2>3. \A c : Chosen(c)' = Chosen(c)
    BY <2>1 DEF Chosen
  <2>4. \A c \in KindsRead(pc'[h]) : work'[h].map[c] = First(Chosen(c)')
    BY <2>1, <2>2, <2>3 DEF Current
  <2> QED BY <2>1, <2>2, <2>4 DEF Current
<1>2. ASSUME NEW g \in Handlers, Submit(g)
      PROVE  UpToDate'
  <2>1. g \in Procs
    BY DEF Procs
  <2> QED BY <1>2, <2>1, SubmitApart, OthersUpToDate DEF Outside
<1>3. ASSUME NEW g \in Procs, Fault(g)
      PROVE  UpToDate'
  <2>1. Finish(g) /\ UNCHANGED <<projects, links, vms, carried, owner, disturbed>>
    BY <1>3 DEF Fault, billing, ops
  <2> QED BY <2>1, NoDisturbance, OthersUpToDate DEF Outside
<1> QED BY <1>1, <1>2, <1>3, ServeUpToDate, CollectUpToDate DEF Next

(* First names the oldest project. *)
LEMMA FirstIsOldest ==
  ASSUME NEW P \in SUBSET ProjectId
  PROVE  /\ First(P) = Nobody <=> P = {}
         /\ \A q \in P : First(P) \in P /\ First(P) <= q
<1>1. \A p \in ProjectId : p \in Nat /\ p # Nobody
  BY BoundsAssumption DEF ProjectId, Nobody
<1>2. CASE P = {}
  BY <1>2 DEF First
<1>3. CASE P # {}
  <2>1. \E p \in P : \A q \in P : p <= q
    BY <1>1, <1>3, LeastExists
  <2>2. First(P) \in P /\ \A q \in P : First(P) <= q
    BY <1>3, <2>1 DEF First
  <2> QED BY <1>1, <1>3, <2>2
<1> QED BY <1>2, <1>3

(* The rule on recompute_project_assignments, applied to dictionaries that   *)
(* are those of the present links, names the project that owns the VM.       *)
LEMMA DecidedIsOwner ==
  ASSUME TypeOK, NEW w \in Work, NEW v \in VMs, NEW p \in Owner, Decided(w, carried[v], p),
         \A c \in Criteria : w.map[c] = First(Chosen(c))
  PROVE  IF p = Nobody THEN Unclaimed(v) ELSE Owns(p, v)
<1> DEFINE S == carried[v]
<1>1. S \subseteq Criteria /\ \A c \in Criteria : Chosen(c) \in SUBSET ProjectId
  BY DEF TypeOK, Chosen
<1>2. \A c \in Criteria : w.map[c] = Nobody <=> Chosen(c) = {}
  BY <1>1, FirstIsOldest
<1>3. ASSUME NEW c \in S, w.map[c] = p, p # Nobody,
             \A q \in projects : \A d \in S \cap links[q] : Strength(d) <= Strength(c)
      PROVE  Owns(p, v)
  <2>1. c \in Criteria /\ Chosen(c) # {} /\ p = First(Chosen(c))
    BY <1>1, <1>2, <1>3
  <2>2. p \in Chosen(c) /\ \A q \in Chosen(c) : p <= q
    BY <1>1, <2>1, FirstIsOldest
  <2>3. \A q \in projects : \A d \in S \cap links[q] : d = c => p <= q
    BY <2>2 DEF Chosen
  <2> QED BY <1>3, <2>2, <2>3 DEF Owns, Chosen
<1>4. ASSUME NEW q \in projects, NEW d \in S \cap links[q]
      PROVE  d \in Criteria /\ w.map[d] # Nobody
  BY <1>1, <1>2 DEF Chosen
<1>5. PICK b \in ByHierarchy(w.map, S) : p \in IF b = Nobody THEN ByTags(w.map, S) ELSE {b}
  BY DEF Decided
<1>6. CASE Hits(w.map, S \cap Clusters) # {}
  <2>1. p # Nobody /\ \E c \in S \cap Clusters : w.map[c] = p
    BY <1>5, <1>6 DEF ByHierarchy, Hits
  <2>2. PICK c \in S \cap Clusters : w.map[c] = p
    BY <2>1
  <2>3. \A d : Strength(d) <= Strength(c)
    BY DEF Strength
  <2> QED BY <1>3, <2>1, <2>2, <2>3
<1>7. CASE Hits(w.map, S \cap Clusters) = {} /\ Hits(w.map, S \cap Folders) # {}
  <2>1. p # Nobody /\ \E c \in S \cap Folders : w.map[c] = p
    BY <1>5, <1>7 DEF ByHierarchy, Hits
  <2>2. PICK c \in S \cap Folders : w.map[c] = p
    BY <2>1
  <2>3. ASSUME NEW q \in projects, NEW d \in S \cap links[q]
        PROVE  Strength(d) <= Strength(c)
    <3>1. d \notin Clusters
      BY <1>4, <1>7 DEF Hits
    <3>2. Strength(c) = 2
      BY KindsAssumption DEF Strength
    <3> QED BY <3>1, <3>2 DEF Strength
  <2> QED BY <1>3, <2>1, <2>2, <2>3
<1>8. CASE Hits(w.map, S \cap Clusters) = {} /\ Hits(w.map, S \cap Folders) = {}
  <2>1. p \in ByTags(w.map, S)
    BY <1>5, <1>8 DEF ByHierarchy
  <2>2. ASSUME NEW q \in projects, NEW d \in S \cap links[q]
        PROVE  d \in Tags /\ d \notin Clusters /\ d \notin Folders
    BY <1>4, <1>8 DEF Hits, Criteria
  <2>3. CASE Hits(w.map, S \cap Tags) = {}
    <3>1. p = Nobody
      BY <2>1, <2>3 DEF ByTags
    <3>2. \A q \in projects : S \cap links[q] = {}
      BY <1>4, <2>2, <2>3 DEF Hits
    <3> QED BY <3>1, <3>2 DEF Unclaimed
  <2>4. CASE Hits(w.map, S \cap Tags) # {}
    <3>1. p # Nobody /\ \E c \in S \cap Tags : w.map[c] = p
      BY <2>1, <2>4 DEF ByTags, Hits
    <3>2. PICK c \in S \cap Tags : w.map[c] = p
      BY <3>1
    <3>3. \A q \in projects : \A d \in S \cap links[q] : Strength(d) <= Strength(c)
      BY <2>2 DEF Strength
    <3> QED BY <1>3, <3>1, <3>2, <3>3
  <2> QED BY <2>3, <2>4
<1> QED BY <1>6, <1>7, <1>8

LEMMA WriteBackSettles ==
  ASSUME TypeOK, UpToDate, NEW h \in Procs, WriteBack(h), h \notin disturbed
  PROVE  Settled'
<1>1. pc[h] = "write" /\ UNCHANGED <<projects, links, vms, carried>>
  BY DEF WriteBack, billing
<1>2. Current(h)
  BY <1>1 DEF UpToDate, Recomputing
<1>3. /\ work[h] \in Work /\ work[h].loaded = vms /\ work[h].old = owner
      /\ \A c \in Criteria : work[h].map[c] = First(Chosen(c))
      /\ \A v \in vms : Decided(work[h], carried[v], work[h].new[v])
  BY <1>1, <1>2, KindsReadGrow DEF TypeOK, Current
<1>4. \A v \in vms : v \in VMs /\ work[h].new[v] \in Owner
  BY <1>3 DEF TypeOK, Work
<1>5. \A v \in vms : owner'[v] = work[h].new[v]
  <2>1. Updated(h) \subseteq vms
    BY <1>3 DEF Updated
  <2>2. owner' = [v \in VMs |-> IF v \in Updated(h) THEN work[h].new[v] ELSE owner[v]]
    BY <2>1 DEF WriteBack
  <2> QED BY <1>3, <1>4, <2>2 DEF Updated
<1>6. \A v \in vms : IF work[h].new[v] = Nobody THEN Unclaimed(v) ELSE Owns(work[h].new[v], v)
  BY <1>3, <1>4, DecidedIsOwner
<1> SUFFICES ASSUME NEW v \in vms'
             PROVE  (IF owner[v] = Nobody THEN Unclaimed(v) ELSE Owns(owner[v], v))'
  BY DEF Settled
<1>7. v \in vms /\ owner'[v] = work[h].new[v]
  BY <1>1, <1>5
<1>8. CASE work[h].new[v] = Nobody
  <2>1. Unclaimed(v)'
    BY <1>1, <1>6, <1>7, <1>8 DEF Unclaimed
  <2> QED BY <1>7, <1>8, <2>1
<1>9. CASE work[h].new[v] # Nobody
  <2>1. Owns(owner'[v], v)
    BY <1>6, <1>7, <1>9
  <2>2. Owns(owner[v], v)'
    BY <1>1, <2>1 DEF Owns
  <2> QED BY <1>7, <1>9, <2>2
<1> QED BY <1>8, <1>9

(* A recompute that no other commit overlapped leaves every VM with exactly  *)
(* the project the rule names: cluster before folder before tag, the oldest  *)
(* project first (recompute_project_assignments).                            *)
THEOREM UndisturbedSettles == Spec => UndisturbedIsExact
<1>1. Init => UpToDate
  BY InitUpToDate
<1>2. TypeOK /\ UpToDate /\ [Next]_vars => UpToDate'
  BY NextUpToDate
<1>3. TypeOK /\ UpToDate /\ [Next]_vars =>
        [\A h \in Procs : WriteBack(h) /\ h \notin disturbed => Settled']_vars
  BY WriteBackSettles
<1> QED BY <1>1, <1>2, <1>3, TypeCorrect, PTL DEF Spec, UndisturbedIsExact
=============================================================================
