--------------------------- MODULE ApplianceClient ---------------------------
(***************************************************************************)
(* VCFOpsRestClient.list_vm_snapshot: how the collector learns which VMs   *)
(* an appliance runs, and what collect_once_for_account makes of the       *)
(* answer.  Collection takes the listing for one instant's truth; here it  *)
(* is the dozens of HTTP requests it really is, while VMs come, go and     *)
(* move and the session token expires.                                     *)
(*                                                                         *)
(* The VMs are fetched page by page, then the children of every cluster,   *)
(* host and folder, then the properties and the statistics of each VM.     *)
(* One behaviour is one listing, with the client that was built for it.    *)
(* An action is one GET and what the client does with the answer.          *)
(***************************************************************************)
EXTENDS Integers, Sequences, FiniteSets, SequencesExt

CONSTANTS
  VMs, Hosts, Clusters, Folders,
  Own,            \* the VM that is the appliance itself
  NamesParents,   \* VMs whose properties name their parents
  None,           \* no host, cluster or folder known
  PageSize,       \* page_size of _iter_resources
  MaxChanges,     \* bound: changes of the inventory
  MaxExpiries,    \* bound: tokens that expire
  MaxFaults       \* bound: requests that fail for another reason

ASSUME ParametersAssumption ==
  /\ PageSize \in Nat \ {0}
  /\ Hosts # {} /\ Clusters # {} /\ Folders # {}
  /\ MaxChanges \in Nat /\ MaxExpiries \in Nat /\ MaxFaults \in Nat
  /\ None \notin Hosts \cup Clusters \cup Folders
  /\ Own \subseteq VMs /\ NamesParents \subseteq VMs

VARIABLES
  order, hostOf, clusterOf, folderOf,             \* the appliance's inventory
  token, retrying,                                \* the session
  pc, page, items, todo,                          \* the listing
  hostCluster, vmHost, vmFolder,
  i, failures, excluded, found,
  known, samples,                                 \* Operations DB: the account's VMs and this bucket's samples
  changes, expiries, faults,                      \* what the bounds count
  kinds, lateExpiry, wasIn, wasAt, always, unread \* history, read by no action

inventory == <<order, hostOf, clusterOf, folderOf>>
session   == <<token, retrying>>
hierarchy == <<hostCluster, vmHost, vmFolder>>
result    == <<failures, excluded, found>>
bounds    == <<changes, expiries, faults>>
history   == <<kinds, lateExpiry, wasIn, wasAt, always>>
vars == <<inventory, session, pc, page, items, todo, hierarchy, i, result, known, samples,
          bounds, history, unread>>

Phases == {"vms", "containers", "clusters", "hosts", "folders", "properties", "stats"}
Ended  == {"listed", "raised", "done"}
Snapshot == [vm : VMs, cluster : Clusters, named : BOOLEAN, folder : Folders \cup {None},
             weighted : BOOLEAN]

TypeOK ==
  /\ order \in Seq(VMs) /\ hostOf \in [VMs -> Hosts]
  /\ clusterOf \in [Hosts -> Clusters] /\ folderOf \in [VMs -> Folders]
  /\ token \in {"none", "good", "expired"} /\ retrying \in BOOLEAN
  /\ pc \in Phases \cup Ended /\ page \in Nat /\ items \in Seq(VMs)
  /\ todo \subseteq Clusters \cup Hosts \cup Folders
  /\ hostCluster \in [Hosts -> Clusters \cup {None}]
  /\ vmHost \in [VMs -> Hosts \cup {None}]
  /\ vmFolder \in [VMs -> Folders \cup {None}]
  /\ i \in Nat \ {0} /\ failures \in Nat /\ excluded \in Nat
  /\ found \in Seq(Snapshot)
  /\ known \subseteq VMs /\ samples \subseteq VMs
  /\ changes \in 0 .. MaxChanges /\ expiries \in 0 .. MaxExpiries /\ faults \in 0 .. MaxFaults
  /\ kinds \subseteq {"added", "removed", "vm moved", "host moved"}
  /\ lateExpiry \in BOOLEAN
  /\ wasIn \subseteq VMs \X Clusters /\ wasAt \subseteq VMs \X Folders
  /\ always \subseteq VMs /\ unread \subseteq VMs

(* Where every VM is, for the history. *)
InCluster(ho, co) == {<<v, co[ho[v]]>> : v \in VMs}
AtFolder(fo)      == {<<v, fo[v]>> : v \in VMs}

Listings == {s \in UNION {[1 .. n -> VMs] : n \in 0 .. Cardinality(VMs)} : IsInjective(s)}

Init ==
  /\ order \in Listings
  /\ hostOf \in [VMs -> Hosts] /\ clusterOf \in [Hosts -> Clusters] /\ folderOf \in [VMs -> Folders]
  /\ token = "none" /\ retrying = FALSE
  /\ pc = "vms" /\ page = 0 /\ items = <<>> /\ todo = {}
  /\ hostCluster = [h \in Hosts |-> None]
  /\ vmHost = [v \in VMs |-> None] /\ vmFolder = [v \in VMs |-> None]
  /\ i = 1 /\ failures = 0 /\ excluded = 0 /\ found = <<>>
  /\ known \in SUBSET VMs /\ samples = {}
  /\ changes = 0 /\ expiries = 0 /\ faults = 0
  /\ kinds = {} /\ lateExpiry = FALSE
  /\ wasIn = InCluster(hostOf, clusterOf) /\ wasAt = AtFolder(folderOf)
  /\ always = ToSet(order) /\ unread = {}

-----------------------------------------------------------------------------
(* The appliance                                                            *)

Change(kind) ==
  /\ pc \in Phases
  /\ changes < MaxChanges /\ changes' = changes + 1
  /\ kinds' = kinds \cup {kind}
  /\ wasIn' = wasIn \cup InCluster(hostOf', clusterOf')
  /\ wasAt' = wasAt \cup AtFolder(folderOf')
  /\ always' = always \cap ToSet(order')
  /\ UNCHANGED <<session, pc, page, items, todo, hierarchy, i, result, known, samples,
                 expiries, faults, lateExpiry, unread>>

(* A VM is created, at any place of the listing, ... *)
VMAdded ==
  /\ \E v \in VMs \ ToSet(order), k \in 1 .. Len(order) + 1 : order' = InsertAt(order, k, v)
  /\ UNCHANGED <<hostOf, clusterOf, folderOf>>
  /\ Change("added")

(* ... or deleted. *)
VMRemoved ==
  /\ \E k \in DOMAIN order : order' = RemoveAt(order, k)
  /\ UNCHANGED <<hostOf, clusterOf, folderOf>>
  /\ Change("removed")

(* vMotion, or a move to another folder. *)
VMMoves ==
  /\ \E v \in VMs :
       \/ \E h \in Hosts : hostOf' = [hostOf EXCEPT ![v] = h] /\ UNCHANGED folderOf
       \/ \E f \in Folders : folderOf' = [folderOf EXCEPT ![v] = f] /\ UNCHANGED hostOf
  /\ UNCHANGED <<order, clusterOf>>
  /\ Change("vm moved")

HostMoves ==
  /\ \E h \in Hosts, c \in Clusters : clusterOf' = [clusterOf EXCEPT ![h] = c]
  /\ UNCHANGED <<order, hostOf, folderOf>>
  /\ Change("host moved")

TokenExpires ==
  /\ token = "good" /\ pc \in Phases
  /\ expiries < MaxExpiries /\ expiries' = expiries + 1
  /\ token' = "expired"
  /\ lateExpiry' = (lateExpiry \/ retrying)
  /\ UNCHANGED <<inventory, retrying, pc, page, items, todo, hierarchy, i, result, known,
                 samples, changes, faults, kinds, wasIn, wasAt, always, unread>>

-----------------------------------------------------------------------------
(* _authenticate and _get                                                   *)

(* The first request acquires a token; a 401 acquires another, once for each *)
(* GET.                                                                      *)
Authenticate ==
  /\ pc \in Phases
  /\ \/ token = "none" /\ UNCHANGED retrying
     \/ token = "expired" /\ ~ retrying /\ retrying' = TRUE
  /\ token' = "good"
  /\ UNCHANGED <<inventory, pc, page, items, todo, hierarchy, i, result, known, samples,
                 bounds, history, unread>>

(* A GET of this phase is answered. *)
Answered(phase) ==
  /\ pc = phase /\ token = "good"
  /\ retrying' = FALSE
  /\ UNCHANGED <<inventory, token, known, samples, bounds, history>>

(* Mutant: a token that expired is not renewed. *)
NoRenewal(phase) ==
  /\ pc = phase /\ token # "none"
  /\ \/ token = "expired" /\ UNCHANGED faults
     \/ faults < MaxFaults /\ faults' = faults + 1
  /\ retrying' = FALSE
  /\ UNCHANGED <<inventory, token, known, samples, changes, expiries, history>>

(* It raises httpx.HTTPError: a second 401, or a fault (a timeout, a refused *)
(* connection, a 5xx, for the GET or for the POST that acquires the token).  *)
Failed(phase) ==
  /\ pc = phase
  /\ \/ token = "expired" /\ retrying /\ UNCHANGED faults
     \/ faults < MaxFaults /\ faults' = faults + 1
  /\ retrying' = FALSE
  /\ UNCHANGED <<inventory, token, known, samples, changes, expiries, history>>

(* The phase is over when nothing is left to ask; an empty one is skipped.   *)
Enter(phase, containers) ==
  /\ pc' = phase /\ todo' = containers

-----------------------------------------------------------------------------
(* list_vm_snapshot                                                         *)

Smaller(m, n) == IF m < n THEN m ELSE n

(* Mutant: the loop ends one page early. *)
StopsShort(p) == (p + 2) * PageSize >= Len(order)

(* What the appliance answers for a page, in today's order. *)
PageOf(p) == SubSeq(order, p * PageSize + 1, Smaller((p + 1) * PageSize, Len(order)))

(* page * page_size >= total, with the totalCount of this answer. *)
LastPage(p) == (p + 1) * PageSize >= Len(order)

(* _iter_resources(VM): appends the page; an empty page ends the loop. *)
FetchPage ==
  /\ Answered("vms")
  /\ items' = items \o PageOf(page)
  /\ page' = page + 1
  /\ IF PageOf(page) = <<>> \/ LastPage(page)
     THEN pc' = IF items' = <<>> THEN "listed" ELSE "containers"
     ELSE UNCHANGED pc
  /\ UNCHANGED <<todo, hierarchy, i, result, unread>>

(* The lists of datacenters, clusters and hosts and the children of the      *)
(* datacenter: the containers themselves do not change.                      *)
FetchContainers ==
  /\ Answered("containers")
  /\ Enter("clusters", Clusters)
  /\ UNCHANGED <<page, items, hierarchy, i, result, unread>>

(* _get_children: what the appliance answers for a container, today. *)
HostsOf(c) == {h \in Hosts : clusterOf[h] = c}
VMsOn(h)   == {v \in ToSet(order) : hostOf[v] = h}
VMsIn(f)   == {v \in ToSet(order) : folderOf[v] = f}

(* Cluster -> HostSystem: a later answer overwrites an earlier one. *)
FetchCluster ==
  /\ Answered("clusters")
  /\ \E c \in todo :
       /\ hostCluster' = [h \in Hosts |-> IF h \in HostsOf(c) THEN c ELSE hostCluster[h]]
       /\ IF todo = {c} THEN Enter("hosts", Hosts) ELSE Enter("clusters", todo \ {c})
  /\ UNCHANGED <<page, items, vmHost, vmFolder, i, result, unread>>

(* HostSystem -> VirtualMachine *)
FetchHost ==
  /\ Answered("hosts")
  /\ \E h \in todo :
       /\ vmHost' = [v \in VMs |-> IF v \in VMsOn(h) THEN h ELSE vmHost[v]]
       /\ IF todo = {h} THEN Enter("folders", Folders) ELSE Enter("hosts", todo \ {h})
  /\ UNCHANGED <<page, items, hostCluster, vmFolder, i, result, unread>>

(* Mutant: the walk does not remember which folders it has asked. *)
FolderAskedAgain(f) == Enter("folders", todo)

FolderDone(f) ==
  IF todo = {f} THEN Enter("properties", {}) ELSE Enter("folders", todo \ {f})

(* _resolve_folders: asks every folder for the VMs in it ... *)
FetchFolder ==
  /\ Answered("folders")
  /\ \E f \in todo :
       /\ vmFolder' = [v \in VMs |-> IF v \in VMsIn(f) THEN f ELSE vmFolder[v]]
       /\ FolderDone(f)
  /\ UNCHANGED <<page, items, hostCluster, vmHost, i, result, unread>>

(* ... and goes on without one that does not answer. *)
SkipFolder ==
  /\ Failed("folders")
  /\ \E f \in todo : FolderDone(f)
  /\ UNCHANGED <<page, items, hierarchy, i, result, unread>>

(* Everything before the VMs' own properties raises when a request fails. *)
ListingFails ==
  /\ \E phase \in {"vms", "containers", "clusters", "hosts"} : Failed(phase)
  /\ pc' = "raised"
  /\ UNCHANGED <<page, items, todo, hierarchy, i, result, unread>>

(* The loop over vm_items goes on; after it, an inventory of which no VM has *)
(* a place in the hierarchy is an error.                                     *)
Advance ==
  /\ i' = i + 1
  /\ pc' = IF i < Len(items) THEN "properties"
           ELSE IF failures' > 0 /\ failures' = Len(items) - excluded' THEN "raised"
           ELSE "listed"

(* Mutant: a VM without a host keeps the one of the VM before it. *)
ClusterOfLoopVariable(v) ==
  LET w == IF vmHost[v] = None /\ i > 1 THEN items[i - 1] ELSE v
  IN  IF vmHost[w] = None THEN None ELSE hostCluster[vmHost[w]]

(* The cluster the relationships lead to, if any. *)
ClusterByRelation(v) == IF vmHost[v] = None THEN None ELSE hostCluster[vmHost[v]]

(* Mutant: the properties are not consulted. *)
PlacedByRelation(v) == ClusterByRelation(v) # None

(* The VM's properties, when the relationships broke off, name its parents.  *)
Placed(v) == ClusterByRelation(v) # None \/ v \in NamesParents

(* The folder whose answer listed the VM, or else the one its properties name. *)
FolderOf(v) ==
  IF vmFolder[v] = None /\ v \in NamesParents THEN folderOf[v] ELSE vmFolder[v]

(* Mutant: only the datacenter is taken from the properties. *)
DescribedWithoutCluster(v) ==
  [vm |-> v, cluster |-> ClusterByRelation(v), named |-> FALSE,
   folder |-> FolderOf(v), weighted |-> FALSE]

Described(v) ==
  LET c == ClusterByRelation(v) IN
  [vm |-> v,
   cluster |-> IF c # None THEN c ELSE clusterOf[hostOf[v]],
   named |-> c = None,
   folder |-> FolderOf(v),
   weighted |-> FALSE]

(* _is_own_appliance_vm: by the VM's name or its guest's host name.          *)
IsOwnApplianceVM(v) == v \in Own

(* The properties arrive: the appliance itself is left out, a VM without a   *)
(* place is counted and left out, and any other is described.                *)
FetchProperties ==
  /\ Answered("properties")
  /\ items[i] \in ToSet(order)
  /\ \/ /\ IsOwnApplianceVM(items[i])
        /\ excluded' = excluded + 1
        /\ UNCHANGED <<failures, found>>
        /\ Advance
     \/ /\ ~ IsOwnApplianceVM(items[i]) /\ ~ Placed(items[i])
        /\ failures' = failures + 1
        /\ UNCHANGED <<excluded, found>>
        /\ Advance
     \/ /\ ~ IsOwnApplianceVM(items[i]) /\ Placed(items[i])
        /\ found' = Append(found, Described(items[i]))
        /\ pc' = "stats"
        /\ UNCHANGED <<i, failures, excluded>>
  /\ UNCHANGED <<page, items, todo, hierarchy, unread>>

(* They do not arrive, for a fault or because the VM is gone: the VM is left *)
(* out and counted nowhere.                                                  *)
SkipVM ==
  /\ \/ Failed("properties")
     \/ Answered("properties") /\ items[i] \notin ToSet(order)
  /\ unread' = unread \cup {items[i]}
  /\ UNCHANGED <<page, items, todo, hierarchy, result>>
  /\ Advance

(* _fetch_usage_pct: without statistics the block has full weight. *)
FetchUsage ==
  /\ \/ /\ Answered("stats")
        /\ found' = [found EXCEPT ![Len(found)].weighted = items[i] \in ToSet(order)]
     \/ Failed("stats") /\ UNCHANGED found
  /\ UNCHANGED <<page, items, todo, hierarchy, failures, excluded, unread>>
  /\ Advance

-----------------------------------------------------------------------------
(* collect_once_for_account                                                 *)

Reported == {found[k].vm : k \in DOMAIN found}

(* The entries whose VM has no row yet: its INSERT is flushed, and with it    *)
(* the samples of the entries before.                                        *)
NewRows == {k \in DOMAIN found : found[k].vm \notin known /\ \A j \in 1 .. k - 1 : found[j].vm # found[k].vm}

(* Two entries for one VM: the second adds a sample although the first one's *)
(* is pending, unless a flush came between.                                  *)
SampledTwice(flushes) ==
  \E j, k \in DOMAIN found :
    /\ j < k /\ found[j].vm = found[k].vm
    /\ \A m \in j + 1 .. k : m \notin flushes

(* The account's batch is one transaction.  Rows of the hierarchy and tags   *)
(* that are new are flushed too, so there may be more flushes than new VMs.  *)
(* A violated key is rolled back and swallowed: the sync is a success.       *)
Store ==
  /\ pc = "listed" /\ pc' = "done"
  /\ \E flushes \in SUBSET (DOMAIN found) :
       /\ NewRows \subseteq flushes
       /\ IF SampledTwice(flushes)
          THEN UNCHANGED <<known, samples>>
          ELSE known' = known \cup Reported /\ samples' = Reported
  /\ UNCHANGED <<inventory, session, page, items, todo, hierarchy, i, result, bounds, history, unread>>

-----------------------------------------------------------------------------
Client ==
  \/ Authenticate \/ FetchPage \/ FetchContainers \/ FetchCluster \/ FetchHost \/ FetchFolder
  \/ SkipFolder \/ ListingFails \/ FetchProperties \/ SkipVM \/ FetchUsage \/ Store

Next == VMAdded \/ VMRemoved \/ VMMoves \/ HostMoves \/ TokenExpires \/ Client

Spec == Init /\ [][Next]_vars

(* Every request ends within the 30 seconds of its timeout, so the client's  *)
(* thread always takes another step.                                         *)
FairSpec == Spec /\ WF_vars(Client)

-----------------------------------------------------------------------------
(* Properties                                                               *)

Paged == {"containers", "clusters", "hosts", "folders", "properties", "stats", "listed", "done"}

(* Pages are cut out of a list that changes under them (_iter_resources), and *)
(* yet a VM that is there all the time is missed only if another was deleted, *)
(* and is listed twice only if another was created.                          *)
PagesCoverTheInventory ==
  pc \in Paged =>
    /\ "removed" \in kinds \/ always \subseteq ToSet(items)
    /\ "added" \in kinds \/ IsInjective(items)

(* The place of a VM is put together from answers of different times         *)
(* (host_cluster, vm_host, vm_folder).  It is one where the VM really was     *)
(* during the listing, so long as no host changed its cluster meanwhile.      *)
PlacesAreReal ==
  \A k \in DOMAIN found :
    /\ found[k].named \/ "host moved" \notin kinds => <<found[k].vm, found[k].cluster>> \in wasIn
    /\ found[k].folder # None => <<found[k].vm, found[k].folder>> \in wasAt

(* A token that expires in the middle of a listing costs nothing, unless the *)
(* one that replaces it expires before the request has been repeated (_get). *)
ExpiryIsHarmless ==
  faults = 0 /\ ~ lateExpiry =>
    /\ pc = "raised" => failures > 0
    /\ unread # {} => "removed" \in kinds

(* A sync that succeeds has stored a sample for every VM that was there from  *)
(* beginning to end, unless the pages missed it, its properties were not to   *)
(* be had, it or a host moved while the hierarchy was read and its properties *)
(* do not name its parents, or a VM that was listed twice cost the account    *)
(* the whole batch (collect_once_for_account).                               *)
LossIsExplained ==
  pc = "done" =>
    \A v \in always \ Own :
      \/ v \in samples
      \/ v \notin ToSet(items) \/ v \in unread
      \/ v \notin NamesParents /\ kinds \cap {"vm moved", "host moved"} # {}
      \/ \E j, k \in DOMAIN found : j # k /\ found[j].vm = found[k].vm

(* The listing ends, however the inventory changes and the session breaks.   *)
Ends == <>(pc \in {"raised", "done"})

(* vcf_ops_client.py 752-755: when VMs are there and none has found its place *)
(* in the hierarchy, the listing fails and does not pass for a success        *)
(* without VMs.                                                              *)
NoSilentEmptiness ==
  pc = "listed" /\ (always \cap ToSet(items)) \ Own # {} => found # <<>>
=============================================================================
