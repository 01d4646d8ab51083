------------------------- MODULE ApplianceClientProofs -------------------------
(***************************************************************************)
(* What holds of a listing for any VMs, hosts, clusters and folders, any   *)
(* length of a page, and any number of changes, expiries and faults.       *)
(***************************************************************************)
EXTENDS ApplianceClient, SequenceTheorems, TLAPS

-----------------------------------------------------------------------------
(* The appliance's list and its pages                                       *)

LEMMA Inserted ==
  ASSUME NEW S, NEW s \in Seq(S), NEW k \in 1 .. Len(s) + 1, NEW e \in S
  PROVE  /\ InsertAt(s, k, e) \in Seq(S) /\ Len(InsertAt(s, k, e)) = Len(s) + 1
         /\ \A j \in 1 .. Len(s) + 1 :
              InsertAt(s, k, e)[j] = IF j < k THEN s[j] ELSE IF j = k THEN e ELSE s[j - 1]
<1> DEFINE front == SubSeq(s, 1, k - 1)
           back  == SubSeq(s, k, Len(s))
           head  == front \o <<e>>
<1>1. Len(s) \in Nat /\ k \in Nat /\ \A j \in 1 .. Len(s) : s[j] \in S
  OBVIOUS
<1>2. front \in Seq(S) /\ Len(front) = k - 1 /\ \A j \in 1 .. k - 1 : front[j] = s[j]
  BY <1>1, SubSeqProperties
<1>3. back \in Seq(S) /\ Len(back) = Len(s) - k + 1 /\ \A j \in 1 .. Len(s) - k + 1 : back[j] = s[k + j - 1]
  BY <1>1, SubSeqProperties
<1> HIDE DEF front, back
<1>4. <<e>> \in Seq(S) /\ Len(<<e>>) = 1 /\ <<e>>[1] = e
  OBVIOUS
<1>5. /\ head \in Seq(S) /\ Len(head) = k
      /\ \A j \in 1 .. k : head[j] = IF j <= k - 1 THEN front[j] ELSE <<e>>[j - (k - 1)]
  BY <1>1, <1>2, <1>4, ConcatProperties
<1> HIDE DEF head
<1>6. /\ head \o back \in Seq(S) /\ Len(head \o back) = Len(s) + 1
      /\ \A j \in 1 .. Len(s) + 1 : (head \o back)[j] = IF j <= k THEN head[j] ELSE back[j - k]
  BY <1>1, <1>3, <1>5, ConcatProperties
<1>7. InsertAt(s, k, e) = head \o back
  BY DEF InsertAt, front, back, head
<1>8. ASSUME NEW j \in 1 .. Len(s) + 1
      PROVE  (head \o back)[j] = IF j < k THEN s[j] ELSE IF j = k THEN e ELSE s[j - 1]
  <2>1. CASE j < k
    BY <1>1, <1>2, <1>5, <1>6, <2>1
  <2>2. CASE j = k
    BY <1>1, <1>4, <1>5, <1>6, <2>2
  <2>3. CASE j > k
    BY <1>1, <1>3, <1>6, <2>3
  <2>4. j < k \/ j = k \/ j > k
    BY <1>1
  <2> QED BY <2>1, <2>2, <2>3, <2>4
<1> QED BY <1>6, <1>7, <1>8

LEMMA Removed ==
  ASSUME NEW S, NEW s \in Seq(S), NEW k \in 1 .. Len(s)
  PROVE  /\ RemoveAt(s, k) \in Seq(S) /\ Len(RemoveAt(s, k)) = Len(s) - 1
         /\ \A j \in 1 .. Len(s) - 1 : RemoveAt(s, k)[j] = IF j < k THEN s[j] ELSE s[j + 1]
<1> DEFINE front == SubSeq(s, 1, k - 1)
           back  == SubSeq(s, k + 1, Len(s))
<1>1. Len(s) \in Nat /\ k \in Nat /\ \A j \in 1 .. Len(s) : s[j] \in S
  OBVIOUS
<1>2. front \in Seq(S) /\ Len(front) = k - 1 /\ \A j \in 1 .. k - 1 : front[j] = s[j]
  BY <1>1, SubSeqProperties
<1>3. back \in Seq(S) /\ Len(back) = Len(s) - k /\ \A j \in 1 .. Len(s) - k : back[j] = s[k + j]
  BY <1>1, SubSeqProperties
<1> HIDE DEF front, back
<1>4. /\ front \o back \in Seq(S) /\ Len(front \o back) = Len(front) + Len(back)
      /\ \A j \in 1 .. Len(front) + Len(back) :
           (front \o back)[j] = IF j <= Len(front) THEN front[j] ELSE back[j - Len(front)]
  BY <1>2, <1>3, ConcatProperties
<1>5. RemoveAt(s, k) = front \o back
  BY DEF RemoveAt, front, back
<1>6. Len(front) = k - 1 /\ Len(front) + Len(back) = Len(s) - 1
  BY <1>1, <1>2, <1>3
<1>7. ASSUME NEW j \in 1 .. Len(s) - 1
      PROVE  (front \o back)[j] = IF j < k THEN s[j] ELSE s[j + 1]
  <2>1. CASE j < k
    BY <1>1, <1>2, <1>4, <1>6, <2>1
  <2>2. CASE ~ (j < k)
    <3>1. j - (k - 1) \in 1 .. Len(s) - k /\ k + (j - (k - 1)) = j + 1 /\ ~ (j <= Len(front))
      BY <1>1, <1>6, <2>2
    <3> QED BY <1>3, <1>4, <1>6, <2>2, <3>1
  <2> QED BY <2>1, <2>2
<1> QED BY <1>4, <1>5, <1>6, <1>7

(* Where a page begins, and what it holds. *)
LEMMA PageHolds ==
  ASSUME NEW p \in Nat, order \in Seq(VMs)
  PROVE  /\ p * PageSize \in Nat /\ (p + 1) * PageSize = p * PageSize + PageSize
         /\ PageOf(p) \in Seq(VMs)
         /\ Len(PageOf(p)) = IF p * PageSize >= Len(order) THEN 0
                             ELSE Smaller(p * PageSize + PageSize, Len(order)) - p * PageSize
         /\ \A j \in 1 .. Len(PageOf(p)) :
              PageOf(p)[j] = order[p * PageSize + j] /\ p * PageSize + j \in 1 .. Len(order)
<1>1. PageSize \in Nat /\ PageSize > 0 /\ Len(order) \in Nat
  BY ParametersAssumption
<1>2. p * PageSize \in Nat /\ (p + 1) * PageSize = p * PageSize + PageSize
  BY <1>1
<1> DEFINE P == p * PageSize
           last == Smaller(P + PageSize, Len(order))
<1> HIDE DEF P
<1>3. P \in Nat /\ (p + 1) * PageSize = P + PageSize
  BY <1>2 DEF P
<1>4. last \in Int /\ \A j \in P + 1 .. last : j \in 1 .. Len(order)
  BY <1>1, <1>3 DEF Smaller
<1>5. \A j \in P + 1 .. last : order[j] \in VMs
  BY <1>4
<1>6. PageOf(p) = SubSeq(order, P + 1, last)
  BY <1>3 DEF PageOf, P
<1>7. P + 1 \in Int
  BY <1>3
<1> HIDE DEF last
<1>8. /\ SubSeq(order, P + 1, last) \in Seq(VMs)
      /\ Len(SubSeq(order, P + 1, last)) = IF P + 1 <= last THEN last - (P + 1) + 1 ELSE 0
      /\ \A j \in 1 .. last - (P + 1) + 1 : SubSeq(order, P + 1, last)[j] = order[P + 1 + j - 1]
  BY <1>4, <1>5, <1>7, SubSeqProperties
<1>9. /\ PageOf(p) \in Seq(VMs)
      /\ Len(PageOf(p)) = IF P >= Len(order) THEN 0 ELSE last - P
  BY <1>1, <1>3, <1>4, <1>6, <1>8 DEF last, Smaller
<1>10. ASSUME NEW j \in 1 .. Len(PageOf(p))
       PROVE  PageOf(p)[j] = order[P + j] /\ P + j \in 1 .. Len(order)
  <2>1. j \in 1 .. last - (P + 1) + 1 /\ P + j \in P + 1 .. last /\ P + 1 + j - 1 = P + j
    BY <1>1, <1>3, <1>4, <1>9 DEF last, Smaller
  <2> QED BY <1>4, <1>6, <1>8, <2>1
<1> QED BY <1>3, <1>9, <1>10 DEF P, last

-----------------------------------------------------------------------------
(* Types                                                                    *)

(* Where the client is in its listing. *)
Progress ==
  /\ pc \in {"vms", "containers", "clusters", "hosts", "folders"} => i = 1 /\ found = <<>>
  /\ pc \in {"containers", "clusters", "hosts", "folders"} => items # <<>>
  /\ pc \in {"properties", "stats"} => i <= Len(items)
  /\ pc = "stats" => found # <<>> /\ found[Len(found)].vm = items[i]
  /\ pc = "clusters" => todo \subseteq Clusters
  /\ pc = "hosts" => todo \subseteq Hosts
  /\ pc = "folders" => todo \subseteq Folders

(* TypeOK in three parts: the appliance, the client, and what is counted and *)
(* remembered.                                                               *)
InventoryTyped ==
  /\ order \in Seq(VMs) /\ hostOf \in [VMs -> Hosts]
  /\ clusterOf \in [Hosts -> Clusters] /\ folderOf \in [VMs -> Folders]

ClientTyped ==
  /\ pc \in Phases \cup Ended /\ page \in Nat /\ items \in Seq(VMs)
  /\ todo \subseteq Clusters \cup Hosts \cup Folders
  /\ hostCluster \in [Hosts -> Clusters \cup {None}]
  /\ vmHost \in [VMs -> Hosts \cup {None}]
  /\ vmFolder \in [VMs -> Folders \cup {None}]
  /\ i \in Nat \ {0} /\ failures \in Nat /\ excluded \in Nat
  /\ found \in Seq(Snapshot) /\ unread \subseteq VMs

RestTyped ==
  /\ token \in {"none", "good", "expired"} /\ retrying \in BOOLEAN
  /\ known \subseteq VMs /\ samples \subseteq VMs
  /\ changes \in 0 .. MaxChanges /\ expiries \in 0 .. MaxExpiries /\ faults \in 0 .. MaxFaults
  /\ kinds \subseteq {"added", "removed", "vm moved", "host moved"}
  /\ lateExpiry \in BOOLEAN
  /\ wasIn \subseteq VMs \X Clusters /\ wasAt \subseteq VMs \X Folders
  /\ always \subseteq VMs

LEMMA Parts == TypeOK <=> InventoryTyped /\ ClientTyped /\ RestTyped
BY DEF TypeOK, InventoryTyped, ClientTyped, RestTyped

LEMMA PartsNext == TypeOK' <=> InventoryTyped' /\ ClientTyped' /\ RestTyped'
BY DEF TypeOK, InventoryTyped, ClientTyped, RestTyped

LEMMA InitTyped == Init => TypeOK /\ Progress
<1> SUFFICES ASSUME Init PROVE TypeOK /\ Progress
  OBVIOUS
<1>1. order \in Seq(VMs)
  <2>1. PICK n \in 0 .. Cardinality(VMs) : order \in [1 .. n -> VMs]
    BY DEF Init, Listings
  <2>2. n \in Nat
    BY <2>1
  <2> QED BY <2>1, <2>2
<1>2. wasIn \subseteq VMs \X Clusters /\ wasAt \subseteq VMs \X Folders
  BY DEF Init, InCluster, AtFolder
<1>3. always \subseteq VMs
  BY <1>1 DEF Init, ToSet
<1>4. found \in Seq(Snapshot) /\ items \in Seq(VMs)
  BY EmptySeq DEF Init
<1>5. changes \in 0 .. MaxChanges /\ expiries \in 0 .. MaxExpiries /\ faults \in 0 .. MaxFaults
  BY ParametersAssumption DEF Init
<1>6. InventoryTyped
  BY <1>1 DEF Init, InventoryTyped
<1>7. ClientTyped
  BY <1>4 DEF Init, ClientTyped, Phases
<1>8. RestTyped
  BY <1>2, <1>3, <1>5 DEF Init, RestTyped
<1>9. Progress
  BY DEF Init, Progress
<1> QED BY <1>6, <1>7, <1>8, <1>9, Parts

LEMMA ChangeCounts ==
  ASSUME changes \in 0 .. MaxChanges, NEW kind, Change(kind)
  PROVE  changes' \in 0 .. MaxChanges
BY ParametersAssumption DEF Change

LEMMA ChangeRemembers ==
  ASSUME hostOf' \in [VMs -> Hosts], clusterOf' \in [Hosts -> Clusters], folderOf' \in [VMs -> Folders],
         wasIn \subseteq VMs \X Clusters, wasAt \subseteq VMs \X Folders, NEW kind, Change(kind)
  PROVE  wasIn' \subseteq VMs \X Clusters /\ wasAt' \subseteq VMs \X Folders
<1>1. InCluster(hostOf', clusterOf') \subseteq VMs \X Clusters
  BY DEF InCluster
<1>2. AtFolder(folderOf') \subseteq VMs \X Folders
  BY DEF AtFolder
<1> QED BY <1>1, <1>2 DEF Change

(* The client does not notice a change of the inventory. *)
LEMMA ChangeTyped ==
  ASSUME TypeOK, Progress, NEW kind \in {"added", "removed", "vm moved", "host moved"}, Change(kind),
         InventoryTyped'
  PROVE  (TypeOK /\ Progress)'
<1>1. UNCHANGED <<token, retrying, pc, page, items, todo, hostCluster, vmHost, vmFolder, i, failures,
                  excluded, found, known, samples, expiries, faults, lateExpiry, unread>>
  BY DEF Change, session, hierarchy, result
<1>2. changes' \in 0 .. MaxChanges
  BY Parts, ChangeCounts DEF RestTyped
<1>3. wasIn' \subseteq VMs \X Clusters /\ wasAt' \subseteq VMs \X Folders
  BY Parts, ChangeRemembers DEF RestTyped, InventoryTyped
<1>4. kinds' \subseteq {"added", "removed", "vm moved", "host moved"} /\ always' \subseteq VMs
  BY Parts DEF Change, RestTyped
<1>5. RestTyped'
  BY <1>1, <1>2, <1>3, <1>4, Parts DEF RestTyped
<1>6. ClientTyped'
  BY <1>1, Parts DEF ClientTyped
<1>7. Progress'
  BY <1>1 DEF Progress
<1> QED BY <1>5, <1>6, <1>7, PartsNext

LEMMA ApplianceTyped ==
  ASSUME TypeOK, Progress, VMAdded \/ VMRemoved \/ VMMoves \/ HostMoves
  PROVE  (TypeOK /\ Progress)'
<1>0. InventoryTyped
  BY Parts
<1>1. CASE VMAdded
  <2>1. PICK v \in VMs \ ToSet(order), k \in 1 .. Len(order) + 1 : order' = InsertAt(order, k, v)
    BY <1>1 DEF VMAdded
  <2>2. InventoryTyped'
    BY <1>0, <1>1, <2>1, Inserted DEF VMAdded, InventoryTyped
  <2> QED BY <1>1, <2>2, ChangeTyped DEF VMAdded
<1>2. CASE VMRemoved
  <2>1. PICK k \in DOMAIN order : order' = RemoveAt(order, k)
    BY <1>2 DEF VMRemoved
  <2>2. k \in 1 .. Len(order)
    BY <1>0, <2>1, LenProperties DEF InventoryTyped
  <2>3. InventoryTyped'
    BY <1>0, <1>2, <2>1, <2>2, Removed DEF VMRemoved, InventoryTyped
  <2> QED BY <1>2, <2>3, ChangeTyped DEF VMRemoved
<1>3. CASE VMMoves
  <2>1. InventoryTyped'
    BY <1>0, <1>3 DEF VMMoves, InventoryTyped
  <2> QED BY <1>3, <2>1, ChangeTyped DEF VMMoves
<1>4. CASE HostMoves
  <2>1. PICK h \in Hosts, c \in Clusters : clusterOf' = [clusterOf EXCEPT ![h] = c]
    BY <1>4 DEF HostMoves
  <2>2. clusterOf' \in [Hosts -> Clusters]
    BY <1>0, <2>1 DEF InventoryTyped
  <2>3. InventoryTyped'
    BY <1>0, <1>4, <2>2 DEF HostMoves, InventoryTyped
  <2> QED BY <1>4, <2>3, ChangeTyped DEF HostMoves
<1> QED BY <1>1, <1>2, <1>3, <1>4

(* The session changes and the client stays where it is. *)
LEMMA SessionTyped ==
  ASSUME TypeOK, Progress, TokenExpires \/ Authenticate
  PROVE  (TypeOK /\ Progress)'
<1>1. UNCHANGED <<order, hostOf, clusterOf, folderOf, pc, page, items, todo, hostCluster, vmHost, vmFolder,
                  i, failures, excluded, found, known, samples, changes, faults, kinds, wasIn, wasAt,
                  always, unread>>
  BY DEF TokenExpires, Authenticate, inventory, hierarchy, result, bounds, history
<1>2. expiries \in 0 .. MaxExpiries /\ MaxExpiries \in Nat
  BY Parts, ParametersAssumption DEF RestTyped
<1>3. expiries' \in 0 .. MaxExpiries
  BY <1>2 DEF TokenExpires, Authenticate, bounds
<1>4. /\ token' \in {"none", "good", "expired"} /\ retrying' \in BOOLEAN /\ lateExpiry' \in BOOLEAN
  BY Parts DEF TokenExpires, Authenticate, RestTyped, history
<1>5. RestTyped'
  BY <1>1, <1>3, <1>4, Parts DEF RestTyped
<1>6. ClientTyped' /\ InventoryTyped'
  BY <1>1, Parts DEF ClientTyped, InventoryTyped
<1>7. Progress'
  BY <1>1 DEF Progress
<1> QED BY <1>5, <1>6, <1>7, PartsNext

(* What a GET leaves alone. *)
LEMMA Asked ==
  ASSUME TypeOK, NEW phase, Answered(phase) \/ Failed(phase)
  PROVE  /\ pc = phase
         /\ UNCHANGED <<order, hostOf, clusterOf, folderOf, token, known, samples, changes, expiries,
                        kinds, lateExpiry, wasIn, wasAt, always>>
         /\ InventoryTyped' /\ RestTyped'
<1>1. MaxFaults \in Nat /\ faults \in 0 .. MaxFaults
  BY ParametersAssumption, Parts DEF RestTyped
<1>2. faults' \in 0 .. MaxFaults
  BY <1>1 DEF Answered, Failed, bounds
<1>3. pc = phase /\ retrying' = FALSE
  BY DEF Answered, Failed
<1>4. UNCHANGED <<order, hostOf, clusterOf, folderOf, token, known, samples, changes, expiries,
                  kinds, lateExpiry, wasIn, wasAt, always>>
  BY DEF Answered, Failed, inventory, bounds, history
<1>5. InventoryTyped'
  BY <1>4, Parts DEF InventoryTyped
<1>6. RestTyped'
  BY <1>2, <1>3, <1>4, Parts DEF RestTyped
<1> QED BY <1>3, <1>4, <1>5, <1>6

(* The end of the loop over the VMs. *)
LEMMA Advanced ==
  ASSUME i \in Nat \ {0}, items \in Seq(VMs), Advance
  PROVE  /\ i' \in Nat \ {0} /\ i' = i + 1
         /\ pc' \in {"properties", "raised", "listed"}
         /\ pc' = "properties" => i < Len(items) /\ i' <= Len(items)
         /\ pc' # "properties" => ~ (i < Len(items))
BY LenProperties DEF Advance

LEMMA FetchPageTyped ==
  ASSUME TypeOK, Progress, FetchPage
  PROVE  (TypeOK /\ Progress)'
<1>1. InventoryTyped' /\ RestTyped' /\ pc = "vms"
  BY Asked DEF FetchPage
<1>2. items' \in Seq(VMs)
  <2>1. page \in Nat /\ order \in Seq(VMs) /\ items \in Seq(VMs)
    BY Parts DEF ClientTyped, InventoryTyped
  <2>2. PageOf(page) \in Seq(VMs)
    BY <2>1, PageHolds
  <2> QED BY <2>1, <2>2, ConcatProperties DEF FetchPage
<1>3. page' \in Nat
  BY Parts DEF FetchPage, ClientTyped
<1>4. pc' \in {"vms", "listed", "containers"} /\ (pc' = "containers" => items' # <<>>)
  BY <1>1 DEF FetchPage
<1>5. UNCHANGED <<todo, hostCluster, vmHost, vmFolder, i, failures, excluded, found, unread>>
  BY DEF FetchPage, hierarchy, result
<1>6. ClientTyped'
  BY <1>2, <1>3, <1>4, <1>5, Parts DEF ClientTyped, Phases, Ended
<1>7. Progress'
  BY <1>1, <1>4, <1>5 DEF Progress
<1> QED BY <1>1, <1>6, <1>7, PartsNext

LEMMA HierarchyTyped ==
  ASSUME TypeOK, Progress, FetchContainers \/ FetchCluster \/ FetchHost \/ FetchFolder \/ SkipFolder
  PROVE  (TypeOK /\ Progress)'
<1> DEFINE Walk == {"containers", "clusters", "hosts", "folders"}
<1>1. ClientTyped
  BY Parts
<1>2. /\ InventoryTyped' /\ RestTyped' /\ pc \in Walk
      /\ UNCHANGED <<page, items, i, failures, excluded, found, unread>>
  BY Asked DEF FetchContainers, FetchCluster, FetchHost, FetchFolder, SkipFolder, result
<1>3. i = 1 /\ found = <<>> /\ items # <<>>
  BY <1>2 DEF Progress
<1>4. 1 <= Len(items)
  BY <1>1, <1>3, EmptySeq DEF ClientTyped
<1>5. ASSUME hostCluster' \in [Hosts -> Clusters \cup {None}],
             vmHost' \in [VMs -> Hosts \cup {None}],
             vmFolder' \in [VMs -> Folders \cup {None}],
             \/ pc' = "clusters" /\ todo' \subseteq Clusters
             \/ pc' = "hosts" /\ todo' \subseteq Hosts
             \/ pc' = "folders" /\ todo' \subseteq Folders
             \/ pc' = "properties" /\ todo' = {}
      PROVE  (TypeOK /\ Progress)'
  <2>1. ClientTyped'
    BY <1>1, <1>2, <1>5 DEF ClientTyped, Phases
  <2>2. Progress'
    BY <1>2, <1>3, <1>4, <1>5 DEF Progress
  <2> QED BY <1>2, <2>1, <2>2, PartsNext
<1>6. CASE FetchContainers
  <2>1. UNCHANGED <<hostCluster, vmHost, vmFolder>> /\ pc' = "clusters" /\ todo' = Clusters
    BY <1>6 DEF FetchContainers, Enter, hierarchy
  <2> QED BY <1>1, <1>5, <2>1 DEF ClientTyped
<1>7. CASE FetchCluster
  <2>1. UNCHANGED <<vmHost, vmFolder>> /\ pc = "clusters" /\ todo \subseteq Clusters
    BY <1>7 DEF FetchCluster, Answered, Progress
  <2>2. PICK c \in todo :
          /\ hostCluster' = [h \in Hosts |-> IF h \in HostsOf(c) THEN c ELSE hostCluster[h]]
          /\ IF todo = {c} THEN Enter("hosts", Hosts) ELSE Enter("clusters", todo \ {c})
    BY <1>7 DEF FetchCluster
  <2>3. hostCluster' \in [Hosts -> Clusters \cup {None}]
    BY <1>1, <2>1, <2>2 DEF ClientTyped
  <2> QED BY <1>1, <1>5, <2>1, <2>2, <2>3 DEF ClientTyped, Enter
<1>8. CASE FetchHost
  <2>1. UNCHANGED <<hostCluster, vmFolder>> /\ pc = "hosts" /\ todo \subseteq Hosts
    BY <1>8 DEF FetchHost, Answered, Progress
  <2>2. PICK h \in todo :
          /\ vmHost' = [v \in VMs |-> IF v \in VMsOn(h) THEN h ELSE vmHost[v]]
          /\ IF todo = {h} THEN Enter("folders", Folders) ELSE Enter("hosts", todo \ {h})
    BY <1>8 DEF FetchHost
  <2>3. vmHost' \in [VMs -> Hosts \cup {None}]
    BY <1>1, <2>1, <2>2 DEF ClientTyped
  <2> QED BY <1>1, <1>5, <2>1, <2>2, <2>3 DEF ClientTyped, Enter
<1>9. CASE FetchFolder
  <2>1. UNCHANGED <<hostCluster, vmHost>> /\ pc = "folders" /\ todo \subseteq Folders
    BY <1>9 DEF FetchFolder, Answered, Progress
  <2>2. PICK f \in todo :
          /\ vmFolder' = [v \in VMs |-> IF v \in VMsIn(f) THEN f ELSE vmFolder[v]]
          /\ FolderDone(f)
    BY <1>9 DEF FetchFolder
  <2>3. vmFolder' \in [VMs -> Folders \cup {None}]
    BY <1>1, <2>1, <2>2 DEF ClientTyped
  <2> QED BY <1>1, <1>5, <2>1, <2>2, <2>3 DEF ClientTyped, Enter, FolderDone
<1>10. CASE SkipFolder
  <2>1. UNCHANGED <<hostCluster, vmHost, vmFolder>> /\ pc = "folders" /\ todo \subseteq Folders
    BY <1>10 DEF SkipFolder, Failed, Progress, hierarchy
  <2>2. PICK f \in todo : FolderDone(f)
    BY <1>10 DEF SkipFolder
  <2> QED BY <1>1, <1>5, <2>1, <2>2 DEF ClientTyped, Enter, FolderDone
<1> QED BY <1>6, <1>7, <1>8, <1>9, <1>10

LEMMA ListingFailsTyped ==
  ASSUME TypeOK, Progress, ListingFails
  PROVE  (TypeOK /\ Progress)'
<1>1. InventoryTyped' /\ RestTyped'
  BY Asked DEF ListingFails
<1>2. pc' = "raised" /\ UNCHANGED <<page, items, todo, hostCluster, vmHost, vmFolder, i, failures, excluded, found, unread>>
  BY DEF ListingFails, hierarchy, result
<1>3. ClientTyped'
  BY <1>2, Parts DEF ClientTyped, Ended
<1>4. Progress'
  BY <1>2 DEF Progress
<1> QED BY <1>1, <1>3, <1>4, PartsNext

LEMMA DescribedTyped ==
  ASSUME InventoryTyped, ClientTyped, NEW v \in VMs, Placed(v)
  PROVE  Described(v) \in Snapshot
<1>1. ClusterByRelation(v) \in Clusters \cup {None}
  BY DEF ClusterByRelation, ClientTyped
<1>2. clusterOf[hostOf[v]] \in Clusters /\ FolderOf(v) \in Folders \cup {None}
  BY DEF InventoryTyped, FolderOf, ClientTyped
<1> QED BY <1>1, <1>2, ParametersAssumption DEF Described, Snapshot

LEMMA LoopTyped ==
  ASSUME TypeOK, Progress, FetchProperties \/ SkipVM
  PROVE  (TypeOK /\ Progress)'
<1>1. ClientTyped /\ InventoryTyped
  BY Parts
<1>2. /\ InventoryTyped' /\ RestTyped' /\ pc = "properties"
      /\ UNCHANGED <<page, items, todo, hostCluster, vmHost, vmFolder>>
  BY Asked DEF FetchProperties, SkipVM, hierarchy
<1>3. i \in 1 .. Len(items) /\ items \in Seq(VMs)
  BY <1>1, <1>2 DEF ClientTyped, Progress
<1>4. items[i] \in VMs
  BY <1>3, ElementOfSeq
<1>5. ASSUME Advance, failures' \in Nat, excluded' \in Nat, UNCHANGED found, unread' \subseteq VMs
      PROVE  (TypeOK /\ Progress)'
  <2>1. /\ i' \in Nat \ {0} /\ pc' \in {"properties", "raised", "listed"}
        /\ pc' = "properties" => i' <= Len(items)
    BY <1>1, <1>5, Advanced DEF ClientTyped
  <2>2. ClientTyped'
    BY <1>1, <1>2, <1>5, <2>1 DEF ClientTyped, Phases, Ended
  <2>3. Progress'
    BY <1>2, <2>1 DEF Progress
  <2> QED BY <1>2, <2>2, <2>3, PartsNext
<1>6. CASE SkipVM
  BY <1>1, <1>4, <1>5, <1>6 DEF SkipVM, result, ClientTyped
<1>7. CASE FetchProperties /\ pc' # "stats"
  BY <1>1, <1>5, <1>7 DEF FetchProperties, ClientTyped
<1>8. CASE FetchProperties /\ pc' = "stats"
  <2>1. ~ Advance
    BY <1>8 DEF Advance
  <2>2. /\ Placed(items[i]) /\ found' = Append(found, Described(items[i]))
        /\ UNCHANGED <<i, failures, excluded, unread>>
    BY <1>8, <2>1 DEF FetchProperties
  <2>3. Described(items[i]) \in Snapshot /\ Described(items[i]).vm = items[i]
    BY <1>1, <1>4, <2>2, DescribedTyped DEF Described
  <2>4. found \in Seq(Snapshot)
    BY <1>1 DEF ClientTyped
  <2>5. /\ found' \in Seq(Snapshot) /\ found' # <<>>
        /\ Len(found') = Len(found) + 1 /\ found'[Len(found) + 1] = Described(items[i])
    BY <2>2, <2>3, <2>4, AppendProperties
  <2>6. ClientTyped'
    BY <1>1, <1>2, <1>8, <2>2, <2>5 DEF ClientTyped, Phases
  <2>7. Progress'
    BY <1>2, <1>3, <1>8, <2>2, <2>3, <2>5 DEF Progress
  <2> QED BY <1>2, <2>6, <2>7, PartsNext
<1> QED BY <1>6, <1>7, <1>8

(* The statistics of a VM change nothing else of its entry. *)
LEMMA UsageKeeps ==
  ASSUME TypeOK, Progress, FetchUsage
  PROVE  /\ found' \in Seq(Snapshot) /\ Len(found') = Len(found) /\ Len(found) > 0
         /\ \A k \in 1 .. Len(found) :
              /\ found'[k].vm = found[k].vm /\ found'[k].cluster = found[k].cluster
              /\ found'[k].named = found[k].named /\ found'[k].folder = found[k].folder
<1>1. pc = "stats" /\ found # <<>> /\ found \in Seq(Snapshot)
  BY Parts DEF FetchUsage, Answered, Failed, Progress, ClientTyped
<1>2. Len(found) \in Nat /\ Len(found) > 0 /\ Len(found) \in 1 .. Len(found)
  BY <1>1, EmptySeq
<1>3. CASE UNCHANGED found
  BY <1>1, <1>2, <1>3
<1>4. ASSUME NEW yes \in BOOLEAN, found' = [found EXCEPT ![Len(found)].weighted = yes]
      PROVE  /\ found' \in Seq(Snapshot) /\ Len(found') = Len(found)
             /\ \A k \in 1 .. Len(found) :
                  /\ found'[k].vm = found[k].vm /\ found'[k].cluster = found[k].cluster
                  /\ found'[k].named = found[k].named /\ found'[k].folder = found[k].folder
  <2> DEFINE last == [found[Len(found)] EXCEPT !.weighted = yes]
  <2>1. found[Len(found)] \in Snapshot
    BY <1>1, <1>2, ElementOfSeq
  <2>2. /\ last \in Snapshot
        /\ last.vm = found[Len(found)].vm /\ last.cluster = found[Len(found)].cluster
        /\ last.named = found[Len(found)].named /\ last.folder = found[Len(found)].folder
    BY <2>1 DEF Snapshot
  <2>3. found' = [found EXCEPT ![Len(found)] = last]
    BY <1>4
  <2> HIDE DEF last
  <2>4. /\ [found EXCEPT ![Len(found)] = last] \in Seq(Snapshot)
        /\ Len([found EXCEPT ![Len(found)] = last]) = Len(found)
        /\ \A k \in 1 .. Len(found) :
             [found EXCEPT ![Len(found)] = last][k] = IF k = Len(found) THEN last ELSE found[k]
    BY <1>1, <1>2, <2>2, ExceptSeq
  <2> QED BY <2>2, <2>3, <2>4
<1>5. CASE Answered("stats")
  <2>1. (items[i] \in ToSet(order)) \in BOOLEAN
    OBVIOUS
  <2>2. CASE found' = [found EXCEPT ![Len(found)].weighted = items[i] \in ToSet(order)]
    BY <1>2, <1>4, <2>1, <2>2
  <2> QED BY <1>2, <1>3, <2>2 DEF FetchUsage
<1> QED BY <1>3, <1>5 DEF FetchUsage

LEMMA EndTyped ==
  ASSUME TypeOK, Progress, FetchUsage \/ Store
  PROVE  (TypeOK /\ Progress)'
<1>1. ClientTyped
  BY Parts
<1>2. CASE FetchUsage
  <2>1. /\ InventoryTyped' /\ RestTyped' /\ pc = "stats"
        /\ UNCHANGED <<page, items, todo, hostCluster, vmHost, vmFolder, failures, excluded, unread>>
    BY <1>2, Asked DEF FetchUsage, hierarchy
  <2>2. /\ i' \in Nat \ {0} /\ pc' \in {"properties", "raised", "listed"}
        /\ pc' = "properties" => i' <= Len(items)
    BY <1>1, <1>2, Advanced DEF ClientTyped, FetchUsage
  <2>3. found' \in Seq(Snapshot)
    BY <1>2, UsageKeeps
  <2>4. ClientTyped'
    BY <1>1, <2>1, <2>2, <2>3 DEF ClientTyped, Phases, Ended
  <2>5. Progress'
    BY <2>1, <2>2 DEF Progress
  <2> QED BY <2>1, <2>4, <2>5, PartsNext
<1>3. CASE Store
  <2>0. found \in Seq(Snapshot) /\ DOMAIN found = 1 .. Len(found)
    BY <1>1, LenProperties DEF ClientTyped
  <2>1. Reported \subseteq VMs
    <3> SUFFICES ASSUME NEW k \in DOMAIN found PROVE found[k].vm \in VMs
      BY DEF Reported
    <3>1. found[k] \in Snapshot
      BY <2>0, ElementOfSeq
    <3> QED BY <3>1 DEF Snapshot
  <2>2. /\ UNCHANGED <<order, hostOf, clusterOf, folderOf, token, retrying, page, items, todo,
                       hostCluster, vmHost, vmFolder, i, failures, excluded, found, changes, expiries,
                       faults, kinds, lateExpiry, wasIn, wasAt, always, unread>>
        /\ pc' = "done"
    BY <1>3 DEF Store, inventory, session, hierarchy, result, bounds, history
  <2>3. known' \subseteq VMs /\ samples' \subseteq VMs
    BY <1>3, <2>1, Parts DEF Store, RestTyped
  <2>4. RestTyped'
    BY <2>2, <2>3, Parts DEF RestTyped
  <2>5. InventoryTyped' /\ ClientTyped'
    BY <1>1, <2>2, Parts DEF InventoryTyped, ClientTyped, Ended
  <2>6. Progress'
    BY <2>2 DEF Progress
  <2> QED BY <2>4, <2>5, <2>6, PartsNext
<1> QED BY <1>2, <1>3

LEMMA NextTyped ==
  ASSUME TypeOK, Progress, [Next]_vars
  PROVE  (TypeOK /\ Progress)'
<1>1. CASE UNCHANGED vars
  <2>1. InventoryTyped' /\ ClientTyped' /\ RestTyped'
    BY <1>1, Parts DEF vars, inventory, session, hierarchy, result, bounds, history, InventoryTyped,
                       ClientTyped, RestTyped
  <2>2. Progress'
    BY <1>1 DEF vars, result, Progress
  <2> QED BY <2>1, <2>2, PartsNext
<1>2. CASE VMAdded \/ VMRemoved \/ VMMoves \/ HostMoves
  BY <1>2, ApplianceTyped
<1>3. CASE TokenExpires \/ Authenticate
  BY <1>3, SessionTyped
<1>4. CASE FetchPage
  BY <1>4, FetchPageTyped
<1>5. CASE FetchContainers \/ FetchCluster \/ FetchHost \/ FetchFolder \/ SkipFolder
  BY <1>5, HierarchyTyped
<1>6. CASE ListingFails
  BY <1>6, ListingFailsTyped
<1>7. CASE FetchProperties \/ SkipVM
  BY <1>7, LoopTyped
<1>8. CASE FetchUsage \/ Store
  BY <1>8, EndTyped
<1> QED BY <1>1, <1>2, <1>3, <1>4, <1>5, <1>6, <1>7, <1>8 DEF Next, Client

(* Every variable keeps its type, and the client never reads past the end of *)
(* the VMs it was told of (list_vm_snapshot).                                *)
THEOREM TypeCorrect == Spec => [](TypeOK /\ Progress)
<1> QED BY InitTyped, NextTyped, PTL DEF Spec

-----------------------------------------------------------------------------
(* Pages.  A VM that has been there all the time is in the pages fetched so  *)
(* far or behind them, and what is behind them has not been fetched: one of  *)
(* the two can only go wrong when the list moves, to the front by a deletion *)
(* or to the back by a creation.                                             *)

Offset == page * PageSize

Behind(v) == \E k \in 1 .. Len(order) : k > Offset /\ order[k] = v

NoneMissed == \A v \in always : v \in ToSet(items) \/ Behind(v)
NoneAgain  == \A k \in 1 .. Len(order) : k > Offset => order[k] \notin ToSet(items)

Pages ==
  /\ \A a, b \in 1 .. Len(order) : order[a] = order[b] => a = b
  /\ always \subseteq ToSet(order)
  /\ "removed" \notin kinds => ToSet(items) \subseteq ToSet(order)
  /\ "added" \notin kinds => IsInjective(items)
  /\ pc = "vms" /\ "removed" \notin kinds => NoneMissed
  /\ pc = "vms" /\ "added" \notin kinds => NoneAgain
  /\ pc \in Paged /\ "removed" \notin kinds => always \subseteq ToSet(items)

LEMMA RangeIs ==
  ASSUME NEW S, NEW s \in Seq(S)
  PROVE  \A x : x \in ToSet(s) <=> \E k \in 1 .. Len(s) : s[k] = x
BY LenProperties DEF ToSet

LEMMA InitPages == Init => Pages
<1> SUFFICES ASSUME Init PROVE Pages
  OBVIOUS
<1>1. TypeOK
  BY InitTyped
<1>2. order \in Seq(VMs) /\ DOMAIN order = 1 .. Len(order) /\ Len(order) \in Nat
  BY <1>1, Parts, LenProperties DEF InventoryTyped
<1>3. IsInjective(order)
  BY DEF Init, Listings
<1>4. \A a, b \in 1 .. Len(order) : order[a] = order[b] => a = b
  BY <1>2, <1>3 DEF IsInjective
<1>5. Offset = 0
  BY ParametersAssumption DEF Init, Offset
<1>6. NoneMissed
  BY <1>2, <1>5, RangeIs DEF NoneMissed, Behind, Init
<1>7. items = <<>> /\ ToSet(items) = {} /\ IsInjective(items)
  BY DEF Init, ToSet, IsInjective
<1>8. always = ToSet(order) /\ pc = "vms" /\ kinds = {}
  BY DEF Init
<1> QED BY <1>4, <1>6, <1>7, <1>8 DEF Pages, NoneAgain, Paged

(* A change that leaves the list alone. *)
LEMMA StillPages ==
  ASSUME Pages, UNCHANGED <<order, items, page, pc>>, always' \subseteq always, kinds \subseteq kinds'
  PROVE  Pages'
<1>1. Offset' = Offset
  BY DEF Offset
<1>2. NoneMissed => NoneMissed'
  BY <1>1 DEF NoneMissed, Behind
<1>3. NoneAgain => NoneAgain'
  BY <1>1 DEF NoneAgain
<1> QED BY <1>2, <1>3 DEF Pages

LEMMA AddedPages ==
  ASSUME TypeOK, Pages, VMAdded
  PROVE  Pages'
<1>1. PICK v \in VMs \ ToSet(order), k \in 1 .. Len(order) + 1 : order' = InsertAt(order, k, v)
  BY DEF VMAdded
<1>2. order \in Seq(VMs) /\ Len(order) \in Nat
  BY Parts, LenProperties DEF InventoryTyped
<1>3. /\ order' \in Seq(VMs) /\ Len(order') = Len(order) + 1
      /\ \A j \in 1 .. Len(order) + 1 : order'[j] = IF j < k THEN order[j] ELSE IF j = k THEN v ELSE order[j - 1]
  <2>1. /\ InsertAt(order, k, v) \in Seq(VMs) /\ Len(InsertAt(order, k, v)) = Len(order) + 1
        /\ \A j \in 1 .. Len(order) + 1 :
             InsertAt(order, k, v)[j] = IF j < k THEN order[j] ELSE IF j = k THEN v ELSE order[j - 1]
    BY <1>2, Inserted
  <2> QED BY <1>1, <2>1
<1>4. \A j \in 1 .. Len(order) : order[j] # v
  BY <1>2, RangeIs
<1>5. \A a, b \in 1 .. Len(order') : order'[a] = order'[b] => a = b
  BY SMTT(20), <1>1, <1>2, <1>3, <1>4 DEF Pages
<1>6. ASSUME NEW j \in 1 .. Len(order)
      PROVE  \E l \in 1 .. Len(order') : l >= j /\ order'[l] = order[j]
  <2>1. CASE j < k
    BY <1>2, <1>3, <2>1
  <2>2. CASE ~ (j < k)
    <3>1. j + 1 \in 1 .. Len(order') /\ order'[j + 1] = order[j]
      BY <1>2, <1>3, <2>2
    <3> QED BY <3>1
  <2> QED BY <2>1, <2>2
<1>7. ToSet(order) \subseteq ToSet(order')
  BY <1>2, <1>3, <1>6, RangeIs
<1>8. UNCHANGED <<items, page, pc>> /\ kinds' = kinds \cup {"added"} /\ always' = always \cap ToSet(order')
  BY DEF VMAdded, Change
<1>9. Offset' = Offset /\ Offset \in Nat
  BY <1>8, ParametersAssumption, Parts DEF Offset, ClientTyped
<1>10. NoneMissed => NoneMissed'
  <2> SUFFICES ASSUME NoneMissed, NEW w \in always, w \notin ToSet(items) PROVE Behind(w)'
    BY <1>8 DEF NoneMissed
  <2>1. PICK j \in 1 .. Len(order) : j > Offset /\ order[j] = w
    BY DEF NoneMissed, Behind
  <2>2. PICK l \in 1 .. Len(order') : l >= j /\ order'[l] = w
    BY <1>6, <2>1
  <2>3. l > Offset
    BY <1>2, <1>3, <1>9, <2>1, <2>2
  <2> QED BY <1>9, <2>2, <2>3 DEF Behind
<1> QED BY <1>5, <1>7, <1>8, <1>10 DEF Pages

LEMMA RemovedPages ==
  ASSUME TypeOK, Pages, VMRemoved
  PROVE  Pages'
<1>1. order \in Seq(VMs) /\ Len(order) \in Nat /\ DOMAIN order = 1 .. Len(order)
  BY Parts, LenProperties DEF InventoryTyped
<1>2. PICK k \in 1 .. Len(order) : order' = RemoveAt(order, k)
  BY <1>1 DEF VMRemoved
<1>3. /\ order' \in Seq(VMs) /\ Len(order') = Len(order) - 1
      /\ \A j \in 1 .. Len(order) - 1 : order'[j] = IF j < k THEN order[j] ELSE order[j + 1]
  BY <1>1, <1>2, Removed
<1>4. \A a, b \in 1 .. Len(order') : order'[a] = order'[b] => a = b
  BY <1>1, <1>2, <1>3 DEF Pages
<1>5. UNCHANGED <<items, page, pc>> /\ kinds' = kinds \cup {"removed"} /\ always' = always \cap ToSet(order')
  BY DEF VMRemoved, Change
<1>6. Offset' = Offset /\ Offset \in Nat
  BY <1>5, ParametersAssumption, Parts DEF Offset, ClientTyped
<1>7. NoneAgain => NoneAgain'
  <2> SUFFICES ASSUME NoneAgain, NEW j \in 1 .. Len(order'), j > Offset PROVE order'[j] \notin ToSet(items)
    BY <1>5, <1>6 DEF NoneAgain
  <2>1. CASE j < k
    BY <1>1, <1>3, <2>1 DEF NoneAgain
  <2>2. CASE ~ (j < k)
    <3>1. j + 1 \in 1 .. Len(order) /\ j + 1 > Offset /\ order'[j] = order[j + 1]
      BY <1>1, <1>3, <1>6, <2>2
    <3> QED BY <3>1 DEF NoneAgain
  <2> QED BY <2>1, <2>2
<1> QED BY <1>4, <1>5, <1>7 DEF Pages

LEMMA RangeOfBoth ==
  ASSUME NEW S, NEW s \in Seq(S), NEW t \in Seq(S)
  PROVE  ToSet(s \o t) = ToSet(s) \cup ToSet(t)
<1>1. /\ s \o t \in Seq(S) /\ Len(s \o t) = Len(s) + Len(t) /\ Len(s) \in Nat /\ Len(t) \in Nat
      /\ \A j \in 1 .. Len(s) + Len(t) : (s \o t)[j] = IF j <= Len(s) THEN s[j] ELSE t[j - Len(s)]
  BY ConcatProperties, LenProperties
<1>2. ASSUME NEW j \in 1 .. Len(s) PROVE s[j] \in ToSet(s \o t)
  <2>1. j \in 1 .. Len(s) + Len(t) /\ j <= Len(s)
    BY <1>1
  <2> QED BY <1>1, <2>1, RangeIs
<1>3. ASSUME NEW j \in 1 .. Len(t) PROVE t[j] \in ToSet(s \o t)
  <2>1. /\ Len(s) + j \in 1 .. Len(s) + Len(t) /\ ~ (Len(s) + j <= Len(s))
        /\ Len(s) + j - Len(s) = j
    BY <1>1
  <2>2. (s \o t)[Len(s) + j] = t[j]
    BY <1>1, <2>1
  <2> QED BY <1>1, <2>1, <2>2, RangeIs
<1>4. ASSUME NEW j \in 1 .. Len(s) + Len(t) PROVE (s \o t)[j] \in ToSet(s) \cup ToSet(t)
  <2>1. CASE j <= Len(s)
    BY <1>1, <2>1, RangeIs
  <2>2. CASE ~ (j <= Len(s))
    <3>1. j - Len(s) \in 1 .. Len(t)
      BY <1>1, <2>2
    <3> QED BY <1>1, <2>2, <3>1, RangeIs
  <2> QED BY <2>1, <2>2
<1>5. \A x \in ToSet(s) : x \in ToSet(s \o t)
  BY <1>2, RangeIs
<1>6. \A x \in ToSet(t) : x \in ToSet(s \o t)
  BY <1>3, RangeIs
<1>7. ASSUME NEW x \in ToSet(s \o t) PROVE x \in ToSet(s) \cup ToSet(t)
  <2>1. PICK j \in 1 .. Len(s \o t) : (s \o t)[j] = x
    BY <1>1, RangeIs
  <2> QED BY <1>1, <1>4, <2>1
<1> QED BY <1>5, <1>6, <1>7

LEMMA FetchPagePages ==
  ASSUME TypeOK, Pages, FetchPage
  PROVE  Pages'
<1> DEFINE pg == PageOf(page)
<1>1. /\ page \in Nat /\ order \in Seq(VMs) /\ items \in Seq(VMs) /\ Len(order) \in Nat
      /\ Len(items) \in Nat /\ PageSize \in Nat /\ PageSize > 0
  BY Parts, LenProperties, ParametersAssumption DEF ClientTyped, InventoryTyped
<1>2. /\ pc = "vms" /\ items' = items \o pg /\ page' = page + 1
      /\ UNCHANGED <<order, kinds, always>>
      /\ pc' # "vms" => pg = <<>> \/ LastPage(page)
  BY Asked DEF FetchPage
<1>3. /\ Offset \in Nat /\ Offset' = Offset + PageSize /\ pg \in Seq(VMs)
      /\ Len(pg) = IF Offset >= Len(order) THEN 0
                    ELSE Smaller(Offset + PageSize, Len(order)) - Offset
      /\ \A j \in 1 .. Len(pg) : pg[j] = order[Offset + j] /\ Offset + j \in 1 .. Len(order)
  BY <1>1, <1>2, PageHolds DEF Offset
<1>4. LastPage(page) <=> Offset + PageSize >= Len(order)
  BY <1>1, PageHolds DEF LastPage, Offset
<1> HIDE DEF pg
<1>5. Len(pg) \in Nat /\ ToSet(items') = ToSet(items) \cup ToSet(pg)
  BY <1>1, <1>2, <1>3, RangeOfBoth, LenProperties
<1>6. ASSUME NEW k \in 1 .. Len(order), k > Offset, ~ (k > Offset')
      PROVE  order[k] \in ToSet(pg)
  <2>1. k - Offset \in 1 .. Len(pg) /\ Offset + (k - Offset) = k
    BY <1>1, <1>3, <1>6 DEF Smaller
  <2>2. pg[k - Offset] = order[k]
    BY <1>3, <2>1
  <2> QED BY <1>3, <2>1, <2>2, RangeIs
<1>7. ASSUME NoneMissed, NEW v \in always, v \notin ToSet(items')
      PROVE  \E k \in 1 .. Len(order) : k > Offset' /\ order[k] = v
  <2>1. PICK k \in 1 .. Len(order) : k > Offset /\ order[k] = v
    BY <1>5, <1>7 DEF NoneMissed, Behind
  <2> QED BY <1>5, <1>6, <1>7, <2>1
<1>8. NoneMissed => NoneMissed'
  BY <1>2, <1>7 DEF NoneMissed, Behind
<1>9. ASSUME NEW j \in 1 .. Len(pg)
      PROVE  Offset + j \in 1 .. Len(order) /\ Offset + j > Offset /\ pg[j] = order[Offset + j]
  BY <1>3
<1>10. ASSUME NoneAgain, NEW k \in 1 .. Len(order), k > Offset'
       PROVE  order[k] \notin ToSet(items')
  <2>1. order[k] \notin ToSet(items)
    BY <1>1, <1>3, <1>10 DEF NoneAgain
  <2>2. ASSUME NEW j \in 1 .. Len(pg) PROVE pg[j] # order[k]
    <3>1. Offset + j < k
      <4>1. Len(pg) <= PageSize
        BY <1>1, <1>3 DEF Smaller
      <4> QED BY <1>1, <1>3, <1>5, <1>10, <4>1
    <3> QED BY <1>1, <1>3, <1>9, <3>1 DEF Pages
  <2> QED BY <1>3, <1>5, <2>1, <2>2, RangeIs
<1>11. NoneAgain => NoneAgain'
  BY <1>2, <1>10 DEF NoneAgain
<1>12. ToSet(pg) \subseteq ToSet(order)
  BY <1>1, <1>3, RangeIs
<1>13. ASSUME pc' # "vms" PROVE \A k \in 1 .. Len(order) : ~ (k > Offset')
  <2>1. pg = <<>> => Offset >= Len(order)
    BY <1>1, <1>3, EmptySeq DEF Smaller
  <2> QED BY <1>1, <1>2, <1>3, <1>4, <1>13, <2>1
<1>14. ASSUME pc' # "vms", NoneMissed PROVE always \subseteq ToSet(items')
  BY <1>7, <1>13, <1>14
<1>15. ASSUME NoneAgain, IsInjective(items) PROVE IsInjective(items')
  <2>1. /\ items' \in Seq(VMs) /\ Len(items') = Len(items) + Len(pg)
        /\ \A j \in 1 .. Len(items) + Len(pg) :
             items'[j] = IF j <= Len(items) THEN items[j] ELSE pg[j - Len(items)]
    BY <1>1, <1>2, <1>3, ConcatProperties
  <2>2. \A a, b \in 1 .. Len(items) : items[a] = items[b] => a = b
    BY <1>1, <1>15, LenProperties DEF IsInjective
  <2>3. \A a, b \in 1 .. Len(pg) : pg[a] = pg[b] => a = b
    BY <1>3, <1>5, <1>9 DEF Pages
  <2>4. \A a \in 1 .. Len(items), b \in 1 .. Len(pg) : items[a] # pg[b]
    BY <1>1, <1>9, <1>15, RangeIs DEF NoneAgain
  <2>5. ASSUME NEW a \in 1 .. Len(items) + Len(pg), NEW b \in 1 .. Len(items) + Len(pg), items'[a] = items'[b]
        PROVE  a = b
    <3>1. \A j \in 1 .. Len(items) + Len(pg) :
            \/ j \in 1 .. Len(items) /\ items'[j] = items[j]
            \/ j - Len(items) \in 1 .. Len(pg) /\ items'[j] = pg[j - Len(items)]
      BY <1>1, <1>5, <2>1
    <3> QED BY SMTT(20), <1>1, <2>2, <2>3, <2>4, <2>5, <3>1
  <2> QED BY <2>1, <2>5, LenProperties DEF IsInjective
<1> QED BY <1>2, <1>5, <1>8, <1>11, <1>12, <1>14, <1>15 DEF Pages

(* The pages have been fetched. *)
LEMMA LaterPages ==
  ASSUME Pages, pc \in Paged \/ pc' = "raised", pc' # "vms", UNCHANGED <<order, items, kinds, always>>
  PROVE  Pages'
BY DEF Pages, Paged

(* A step of the client after the pages, and what it leaves alone. *)
LEMMA Later ==
  ASSUME TypeOK, Progress, Client, ~ Authenticate, ~ FetchPage
  PROVE  /\ pc \in Paged \/ pc' = "raised"
         /\ pc' # "vms"
         /\ UNCHANGED <<order, hostOf, clusterOf, folderOf, token, page, items, changes, expiries, kinds,
                        lateExpiry, wasIn, wasAt, always>>
<1>1. CASE FetchContainers \/ FetchCluster \/ FetchHost \/ FetchFolder \/ SkipFolder
  BY <1>1, Asked DEF FetchContainers, FetchCluster, FetchHost, FetchFolder, SkipFolder, FolderDone, Enter, Paged
<1>2. CASE ListingFails
  BY <1>2, Asked DEF ListingFails
<1>3. CASE FetchProperties \/ SkipVM
  BY <1>3, Asked DEF FetchProperties, SkipVM, Advance, Paged
<1>4. CASE FetchUsage
  BY <1>4, Asked DEF FetchUsage, Advance, Paged
<1>5. CASE Store
  BY <1>5 DEF Store, inventory, session, bounds, history, Paged
<1> QED BY <1>1, <1>2, <1>3, <1>4, <1>5 DEF Client

LEMMA NextPages ==
  ASSUME TypeOK, Progress, Pages, [Next]_vars
  PROVE  Pages'
<1>1. CASE UNCHANGED vars
  BY <1>1, StillPages DEF vars, inventory, history
<1>2. CASE VMAdded
  BY <1>2, AddedPages
<1>3. CASE VMRemoved
  BY <1>3, RemovedPages
<1>4. CASE VMMoves \/ HostMoves
  <2>1. UNCHANGED <<order, items, page, pc>> /\ always' \subseteq always /\ kinds \subseteq kinds'
    BY <1>4 DEF VMMoves, HostMoves, Change
  <2> QED BY <2>1, StillPages
<1>5. CASE TokenExpires \/ Authenticate
  BY <1>5, StillPages DEF TokenExpires, Authenticate, inventory, history
<1>6. CASE FetchPage
  BY <1>6, FetchPagePages
<1>7. CASE Client /\ ~ Authenticate /\ ~ FetchPage
  BY <1>7, Later, LaterPages
<1> QED BY <1>1, <1>2, <1>3, <1>4, <1>5, <1>6, <1>7 DEF Next

LEMMA InvariantPages == Spec => [](TypeOK /\ Progress /\ Pages)
<1> QED BY InitTyped, InitPages, NextTyped, NextPages, PTL DEF Spec

(* However the list moves between the pages, a VM that is there from         *)
(* beginning to end is missed only when one has been deleted, and listed     *)
(* twice only when one has been created, for any length of a page            *)
(* (_iter_resources).                                                        *)
THEOREM PagesAreEnough == Spec => []PagesCoverTheInventory
<1>1. Pages => PagesCoverTheInventory
  BY DEF Pages, PagesCoverTheInventory
<1> QED BY <1>1, InvariantPages, PTL

-----------------------------------------------------------------------------
(* Places.  The three answers that lead from a VM to its cluster are of      *)
(* different times; what the client knows of a VM was true at one of them,   *)
(* so long as the last link, from a host to its cluster, has not changed.    *)

Places ==
  /\ InCluster(hostOf, clusterOf) \subseteq wasIn /\ AtFolder(folderOf) \subseteq wasAt
  /\ \A v \in VMs : vmFolder[v] # None => <<v, vmFolder[v]>> \in wasAt
  /\ "host moved" \notin kinds =>
       /\ \A h \in Hosts : hostCluster[h] \in {None, clusterOf[h]}
       /\ \A v \in VMs : vmHost[v] # None => <<v, clusterOf[vmHost[v]]>> \in wasIn
  /\ PlacesAreReal

LEMMA InitPlaces == Init => Places
<1> SUFFICES ASSUME Init PROVE Places
  OBVIOUS
<1>1. found = <<>> /\ DOMAIN found = {}
  BY DEF Init
<1>2. PlacesAreReal
  BY <1>1 DEF PlacesAreReal
<1> QED BY <1>2 DEF Init, Places

LEMMA ChangePlaces ==
  ASSUME Places, NEW kind, Change(kind), UNCHANGED clusterOf \/ kind = "host moved"
  PROVE  Places'
<1>1. /\ UNCHANGED <<hostCluster, vmHost, vmFolder, found>> /\ kinds' = kinds \cup {kind}
      /\ wasIn' = wasIn \cup InCluster(hostOf', clusterOf')
      /\ wasAt' = wasAt \cup AtFolder(folderOf')
  BY DEF Change, hierarchy, result
<1>2. PlacesAreReal'
  BY <1>1 DEF Places, PlacesAreReal
<1>3. InCluster(hostOf', clusterOf') \subseteq wasIn' /\ AtFolder(folderOf') \subseteq wasAt'
  BY <1>1
<1>4. (InCluster(hostOf, clusterOf) \subseteq wasIn /\ AtFolder(folderOf) \subseteq wasAt)'
  BY <1>3
<1> QED BY <1>1, <1>2, <1>4 DEF Places

LEMMA StillPlaces ==
  ASSUME Places, UNCHANGED <<hostOf, clusterOf, folderOf, hostCluster, vmHost, vmFolder, kinds, wasIn, wasAt>>,
         PlacesAreReal'
  PROVE  Places'
BY DEF Places, InCluster, AtFolder

LEMMA HierarchyPlaces ==
  ASSUME TypeOK, Progress, Places, FetchCluster \/ FetchHost \/ FetchFolder
  PROVE  Places'
<1>1. /\ UNCHANGED <<order, hostOf, clusterOf, folderOf, kinds, wasIn, wasAt, found>>
      /\ pc \in {"clusters", "hosts", "folders"}
  BY Asked DEF FetchCluster, FetchHost, FetchFolder, result
<1>2. PlacesAreReal'
  BY <1>1 DEF Places, PlacesAreReal
<1>3. InCluster(hostOf, clusterOf)' \subseteq wasIn' /\ AtFolder(folderOf)' \subseteq wasAt'
  BY <1>1 DEF Places, InCluster, AtFolder
<1>4. /\ hostOf \in [VMs -> Hosts] /\ clusterOf \in [Hosts -> Clusters] /\ folderOf \in [VMs -> Folders]
  BY Parts DEF InventoryTyped
<1>5. CASE FetchCluster
  <2>1. UNCHANGED <<vmHost, vmFolder>>
    BY <1>5 DEF FetchCluster
  <2>2. PICK c \in todo : hostCluster' = [h \in Hosts |-> IF h \in HostsOf(c) THEN c ELSE hostCluster[h]]
    BY <1>5 DEF FetchCluster
  <2>3. \A h \in Hosts : hostCluster'[h] \in {hostCluster[h], clusterOf[h]}
    BY <2>2 DEF HostsOf
  <2> QED BY <1>1, <1>2, <1>3, <2>1, <2>3 DEF Places
<1>6. CASE FetchHost
  <2>1. UNCHANGED <<hostCluster, vmFolder>>
    BY <1>6 DEF FetchHost
  <2>2. PICK h \in todo : vmHost' = [v \in VMs |-> IF v \in VMsOn(h) THEN h ELSE vmHost[v]]
    BY <1>6 DEF FetchHost
  <2>3. \A v \in VMs : vmHost'[v] = vmHost[v] \/ vmHost'[v] = hostOf[v]
    BY <2>2 DEF VMsOn
  <2>4. \A v \in VMs : <<v, clusterOf[hostOf[v]]>> \in wasIn
    BY DEF Places, InCluster
  <2> QED BY <1>1, <1>2, <1>3, <2>1, <2>3, <2>4 DEF Places
<1>7. CASE FetchFolder
  <2>1. UNCHANGED <<hostCluster, vmHost>>
    BY <1>7 DEF FetchFolder
  <2>2. PICK f \in todo : vmFolder' = [v \in VMs |-> IF v \in VMsIn(f) THEN f ELSE vmFolder[v]]
    BY <1>7 DEF FetchFolder
  <2>3. \A v \in VMs : vmFolder'[v] = vmFolder[v] \/ vmFolder'[v] = folderOf[v]
    BY <2>2 DEF VMsIn
  <2>4. \A v \in VMs : <<v, folderOf[v]>> \in wasAt
    BY DEF Places, AtFolder
  <2> QED BY <1>1, <1>2, <1>3, <2>1, <2>3, <2>4 DEF Places
<1> QED BY <1>5, <1>6, <1>7

(* What is put together for a VM when its properties arrive. *)
LEMMA DescribedPlaces ==
  ASSUME TypeOK, Places, NEW v \in VMs
  PROVE  LET d == Described(v) IN
         /\ d.named \/ "host moved" \notin kinds => <<d.vm, d.cluster>> \in wasIn
         /\ d.folder # None => <<d.vm, d.folder>> \in wasAt
<1> DEFINE c == ClusterByRelation(v)
           d == Described(v)
<1>1. /\ d.vm = v /\ d.cluster = (IF c # None THEN c ELSE clusterOf[hostOf[v]])
      /\ d.named = (c = None) /\ d.folder = FolderOf(v)
  BY DEF Described
<1>2. <<v, clusterOf[hostOf[v]]>> \in wasIn /\ <<v, folderOf[v]>> \in wasAt
  BY DEF Places, InCluster, AtFolder
<1>3. c # None /\ "host moved" \notin kinds => <<v, c>> \in wasIn
  <2> SUFFICES ASSUME c # None, "host moved" \notin kinds PROVE <<v, c>> \in wasIn
    OBVIOUS
  <2>1. vmHost[v] # None /\ c = hostCluster[vmHost[v]]
    BY DEF ClusterByRelation
  <2>2. vmHost[v] \in Hosts
    BY <2>1, Parts DEF ClientTyped
  <2> QED BY <2>1, <2>2 DEF Places
<1>4. FolderOf(v) # None => <<v, FolderOf(v)>> \in wasAt
  BY <1>2 DEF FolderOf, Places
<1> HIDE DEF c, d
<1>5. d.named \/ "host moved" \notin kinds => <<d.vm, d.cluster>> \in wasIn
  BY <1>1, <1>2, <1>3
<1>6. d.folder # None => <<d.vm, d.folder>> \in wasAt
  BY <1>1, <1>4
<1> QED BY <1>5, <1>6 DEF d

LEMMA PropertiesPlaces ==
  ASSUME TypeOK, Progress, Places, FetchProperties
  PROVE  Places'
<1>1. /\ UNCHANGED <<hostOf, clusterOf, folderOf, hostCluster, vmHost, vmFolder, items, kinds, wasIn, wasAt>>
      /\ pc = "properties"
  BY Asked DEF FetchProperties, hierarchy
<1>2. found \in Seq(Snapshot) /\ items \in Seq(VMs) /\ i \in Nat \ {0} /\ i <= Len(items)
  BY <1>1, Parts DEF ClientTyped, Progress
<1>3. items[i] \in VMs
  BY <1>2, LenProperties, ElementOfSeq
<1>4. CASE UNCHANGED found
  <2>1. PlacesAreReal'
    BY <1>1, <1>4 DEF Places, PlacesAreReal
  <2> QED BY <1>1, <2>1, StillPlaces
<1>5. CASE found' = Append(found, Described(items[i])) /\ Placed(items[i])
  <2>1. Described(items[i]) \in Snapshot
    BY <1>3, <1>5, DescribedTyped, Parts
  <2>2. /\ found' \in Seq(Snapshot) /\ Len(found') = Len(found) + 1 /\ Len(found) \in Nat
        /\ \A k \in 1 .. Len(found) : found'[k] = found[k]
        /\ found'[Len(found) + 1] = Described(items[i])
    BY <1>2, <1>5, <2>1, AppendProperties, LenProperties
  <2>3. DOMAIN found' = 1 .. Len(found) + 1 /\ DOMAIN found = 1 .. Len(found)
    BY <1>2, <2>2, LenProperties
  <2>4. ASSUME NEW k \in DOMAIN found'
        PROVE  /\ found'[k].named \/ "host moved" \notin kinds => <<found'[k].vm, found'[k].cluster>> \in wasIn
               /\ found'[k].folder # None => <<found'[k].vm, found'[k].folder>> \in wasAt
    <3>1. CASE k = Len(found) + 1
      BY <1>3, <2>2, <3>1, DescribedPlaces
    <3>2. CASE k # Len(found) + 1
      <4>1. k \in 1 .. Len(found)
        BY <2>2, <2>3, <3>2
      <4> QED BY <2>2, <2>3, <4>1 DEF Places, PlacesAreReal
    <3> QED BY <3>1, <3>2
  <2>5. PlacesAreReal'
    BY <1>1, <2>4 DEF PlacesAreReal
  <2> QED BY <1>1, <2>5, StillPlaces
<1> QED BY <1>4, <1>5 DEF FetchProperties

LEMMA UsagePlaces ==
  ASSUME TypeOK, Progress, Places, FetchUsage
  PROVE  Places'
<1>1. UNCHANGED <<hostOf, clusterOf, folderOf, hostCluster, vmHost, vmFolder, kinds, wasIn, wasAt>>
  BY Asked DEF FetchUsage, hierarchy
<1>2. DOMAIN found = 1 .. Len(found) /\ DOMAIN found' = 1 .. Len(found)
  BY UsageKeeps, Parts, LenProperties DEF ClientTyped
<1>3. PlacesAreReal'
  BY <1>1, <1>2, UsageKeeps DEF Places, PlacesAreReal
<1> QED BY <1>1, <1>3, StillPlaces

LEMMA NextPlaces ==
  ASSUME TypeOK, Progress, Places, [Next]_vars
  PROVE  Places'
<1>1. CASE UNCHANGED <<hostOf, clusterOf, folderOf, hostCluster, vmHost, vmFolder, kinds, wasIn, wasAt, found>>
  <2>1. PlacesAreReal'
    BY <1>1 DEF Places, PlacesAreReal
  <2> QED BY <1>1, <2>1, StillPlaces
<1>2. CASE UNCHANGED vars
  BY <1>1, <1>2 DEF vars, inventory, hierarchy, result, history
<1>3. CASE VMAdded \/ VMRemoved \/ VMMoves \/ HostMoves
  BY <1>3, ChangePlaces DEF VMAdded, VMRemoved, VMMoves, HostMoves
<1>4. CASE TokenExpires \/ Authenticate
  BY <1>1, <1>4 DEF TokenExpires, Authenticate, inventory, hierarchy, result, history
<1>5. CASE FetchPage \/ FetchContainers \/ SkipFolder \/ ListingFails \/ SkipVM
  BY <1>1, <1>5, Asked DEF FetchPage, FetchContainers, SkipFolder, ListingFails, SkipVM, hierarchy, result
<1>6. CASE FetchCluster \/ FetchHost \/ FetchFolder
  BY <1>6, HierarchyPlaces
<1>7. CASE FetchProperties
  BY <1>7, PropertiesPlaces
<1>8. CASE FetchUsage
  BY <1>8, UsagePlaces
<1>9. CASE Store
  BY <1>1, <1>9 DEF Store, inventory, hierarchy, result, history
<1> QED BY <1>2, <1>3, <1>4, <1>5, <1>6, <1>7, <1>8, <1>9 DEF Next, Client

(* A VM is given the cluster and the folder it had at some time of the       *)
(* listing, unless a host has changed its cluster (list_vm_snapshot).        *)
THEOREM PlacesWereReal == Spec => []PlacesAreReal
<1>1. Places => PlacesAreReal
  BY DEF Places
<1> QED BY <1>1, InitTyped, InitPlaces, NextTyped, NextPlaces, PTL DEF Spec

-----------------------------------------------------------------------------
(* Sessions                                                                 *)

Sessions ==
  /\ retrying /\ token = "expired" => lateExpiry
  /\ ExpiryIsHarmless

(* A GET that fails while nothing but tokens goes wrong. *)
LEMMA FailedLate ==
  ASSUME TypeOK, Sessions, NEW phase, Failed(phase)
  PROVE  faults' = 0 => faults = 0 /\ lateExpiry
<1>1. faults \in 0 .. MaxFaults
  BY Parts DEF RestTyped
<1>2. faults \in Nat
  BY <1>1
<1> QED BY <1>2 DEF Failed, Sessions

LEMMA NextSessions ==
  ASSUME TypeOK, Progress, Pages, Sessions, [Next]_vars
  PROVE  Sessions'
<1>1. ASSUME UNCHANGED <<failures, faults, unread>>, pc' = "raised" => pc = "raised", kinds \subseteq kinds',
             lateExpiry => lateExpiry', (retrying /\ token = "expired" => lateExpiry)'
      PROVE  Sessions'
  BY <1>1 DEF Sessions, ExpiryIsHarmless
<1>2. CASE UNCHANGED vars
  BY <1>1, <1>2 DEF vars, session, result, bounds, history, Sessions
<1>3. CASE VMAdded \/ VMRemoved \/ VMMoves \/ HostMoves
  BY <1>1, <1>3 DEF VMAdded, VMRemoved, VMMoves, HostMoves, Change, session, result, Sessions
<1>4. CASE TokenExpires \/ Authenticate
  BY <1>1, <1>4 DEF TokenExpires, Authenticate, result, bounds, history, Sessions
<1>5. CASE FetchPage \/ FetchContainers \/ FetchCluster \/ FetchHost \/ FetchFolder
  BY <1>1, <1>5 DEF FetchPage, FetchContainers, FetchCluster, FetchHost, FetchFolder, FolderDone, Enter,
                    Answered, result, bounds, history, Sessions
<1>6. CASE SkipFolder
  <2>1. UNCHANGED <<failures, unread, kinds, lateExpiry>> /\ retrying' = FALSE /\ pc' # "raised"
    BY <1>6 DEF SkipFolder, Failed, FolderDone, Enter, result, history
  <2>2. faults' = 0 => faults = 0
    BY <1>6, FailedLate DEF SkipFolder
  <2> QED BY <2>1, <2>2 DEF Sessions, ExpiryIsHarmless
<1>7. CASE ListingFails
  <2>1. UNCHANGED <<lateExpiry, kinds, unread>> /\ retrying' = FALSE
    BY <1>7 DEF ListingFails, Failed, history
  <2>2. faults' = 0 => lateExpiry
    BY <1>7, FailedLate DEF ListingFails
  <2> QED BY <2>1, <2>2 DEF Sessions, ExpiryIsHarmless
<1>8. CASE FetchProperties \/ FetchUsage \/ SkipVM
  <2>1. UNCHANGED <<lateExpiry, kinds>> /\ retrying' = FALSE
    BY <1>8, Asked DEF FetchProperties, FetchUsage, SkipVM, Answered, Failed
  <2>2. faults' = 0 => faults = 0
    BY <1>8, FailedLate DEF FetchProperties, FetchUsage, SkipVM, Answered, bounds
  <2>3. pc' = "raised" => failures' > 0
    BY <1>8 DEF FetchProperties, FetchUsage, SkipVM, Advance
  <2>4. CASE UNCHANGED unread
    BY <2>1, <2>2, <2>3, <2>4 DEF Sessions, ExpiryIsHarmless
  <2>5. CASE SkipVM /\ Failed("properties")
    <3>1. faults' = 0 => lateExpiry
      BY <2>5, FailedLate
    <3> QED BY <2>1, <3>1 DEF Sessions, ExpiryIsHarmless
  <2>6. CASE SkipVM /\ Answered("properties") /\ items[i] \notin ToSet(order)
    <3>1. pc = "properties" /\ i \in 1 .. Len(items) /\ items \in Seq(VMs)
      BY <2>6, Parts DEF Answered, Progress, ClientTyped
    <3>2. items[i] \in ToSet(items)
      BY <3>1, RangeIs
    <3>3. "removed" \in kinds
      BY <2>6, <3>2 DEF Pages
    <3> QED BY <2>1, <2>2, <2>3, <3>3 DEF Sessions, ExpiryIsHarmless
  <2> QED BY <1>8, <2>4, <2>5, <2>6 DEF FetchProperties, FetchUsage, SkipVM
<1>9. CASE Store
  BY <1>1, <1>9 DEF Store, session, result, bounds, history, Sessions
<1> QED BY <1>2, <1>3, <1>4, <1>5, <1>6, <1>7, <1>8, <1>9 DEF Next, Client

(* Tokens that expire cost neither the listing nor a VM, however often they  *)
(* do, unless one does between its renewal and the request that is repeated  *)
(* (_get).                                                                   *)
THEOREM RenewalIsEnough == Spec => []ExpiryIsHarmless
<1>1. Init => Sessions
  BY DEF Init, Sessions, ExpiryIsHarmless
<1>2. Sessions => ExpiryIsHarmless
  BY DEF Sessions
<1> QED BY <1>1, <1>2, InitTyped, InitPages, NextTyped, NextPages, NextSessions, PTL DEF Spec

-----------------------------------------------------------------------------
(* Losses.  Of a VM that has been in the pages all the time the client knows *)
(* a host and of that host a cluster, unless one of them has moved; so that  *)
(* the loop leaves a VM out only for a reason that is told.                  *)

Moves == {"vm moved", "host moved"}

Explained(v) ==
  \/ v \in Own \/ v \in Reported \/ v \in unread \/ v \notin always
  \/ v \notin NamesParents /\ kinds \cap Moves # {}

Chain ==
  /\ "host moved" \notin kinds =>
       /\ pc = "clusters" => \A h \in Hosts : hostCluster[h] # None \/ clusterOf[h] \in todo
       /\ pc \in {"hosts", "folders", "properties", "stats"} => \A h \in Hosts : hostCluster[h] # None
  /\ "vm moved" \notin kinds =>
       /\ pc = "hosts" => \A v \in always : vmHost[v] # None \/ hostOf[v] \in todo
       /\ pc \in {"folders", "properties", "stats"} => \A v \in always : vmHost[v] # None

Loop ==
  /\ pc = "properties" => \A j \in 1 .. Len(items) : j < i => Explained(items[j])
  /\ pc = "stats" => \A j \in 1 .. Len(items) : j <= i => Explained(items[j])
  /\ pc = "listed" => \A j \in 1 .. Len(items) : Explained(items[j])

Losses == Chain /\ Loop /\ LossIsExplained

(* The client stays where it is, and what it knows of the hierarchy is kept. *)
LEMMA StillLosses ==
  ASSUME Losses, UNCHANGED <<pc, items, i, todo, hostCluster, vmHost, found, unread, samples>>,
         always' \subseteq always, kinds \subseteq kinds',
         UNCHANGED clusterOf \/ "host moved" \in kinds', UNCHANGED hostOf \/ "vm moved" \in kinds'
  PROVE  Losses'
<1>1. Reported' = Reported
  BY DEF Reported
<1>2. \A v : Explained(v) => Explained(v)'
  BY <1>1 DEF Explained
<1>3. Chain'
  BY DEF Losses, Chain
<1>4. Loop'
  BY <1>2 DEF Losses, Loop
<1>5. LossIsExplained'
  BY DEF Losses, LossIsExplained
<1> QED BY <1>3, <1>4, <1>5 DEF Losses

LEMMA ChainKeptUp ==
  ASSUME TypeOK, Progress, Pages, Chain,
         FetchContainers \/ FetchCluster \/ FetchHost \/ FetchFolder \/ SkipFolder
  PROVE  Losses'
<1>1. UNCHANGED <<hostOf, clusterOf, kinds, always, items, i, found>> /\ i = 1
  BY Asked DEF FetchContainers, FetchCluster, FetchHost, FetchFolder, SkipFolder, result, Progress
<1>2. pc' \in {"clusters", "hosts", "folders", "properties"}
  BY DEF FetchContainers, FetchCluster, FetchHost, FetchFolder, SkipFolder, FolderDone, Enter
<1>3. Len(items) \in Nat
  BY Parts, LenProperties DEF ClientTyped
<1>4. LossIsExplained'
  BY <1>2 DEF LossIsExplained
<1>11. Loop'
  <2>1. \A j \in 1 .. Len(items) : ~ (j < i)
    BY <1>1, <1>3
  <2> QED BY <1>1, <1>2, <2>1 DEF Loop
<1>5. /\ hostOf \in [VMs -> Hosts] /\ clusterOf \in [Hosts -> Clusters] /\ always \subseteq VMs
  BY Parts DEF InventoryTyped, RestTyped
<1>6. ASSUME FetchContainers PROVE Chain'
  BY <1>1, <1>5, <1>6 DEF FetchContainers, Enter, Chain
<1>7. ASSUME FetchCluster PROVE Chain'
  <2>1. pc = "clusters" /\ UNCHANGED <<vmHost, vmFolder>> /\ todo \subseteq Clusters
    BY <1>7 DEF FetchCluster, Answered, Progress
  <2>2. PICK c \in todo :
          /\ hostCluster' = [h \in Hosts |-> IF h \in HostsOf(c) THEN c ELSE hostCluster[h]]
          /\ IF todo = {c} THEN Enter("hosts", Hosts) ELSE Enter("clusters", todo \ {c})
    BY <1>7 DEF FetchCluster
  <2>3. \A h \in Hosts : hostCluster'[h] = IF clusterOf[h] = c THEN c ELSE hostCluster[h]
    BY <2>2 DEF HostsOf
  <2>4. c # None
    BY <2>1, ParametersAssumption
  <2> QED BY <1>1, <1>5, <2>1, <2>2, <2>3, <2>4 DEF Enter, Chain
<1>8. ASSUME FetchHost PROVE Chain'
  <2>1. pc = "hosts" /\ UNCHANGED <<hostCluster, vmFolder>> /\ todo \subseteq Hosts
    BY <1>8 DEF FetchHost, Answered, Progress
  <2>2. PICK h \in todo :
          /\ vmHost' = [v \in VMs |-> IF v \in VMsOn(h) THEN h ELSE vmHost[v]]
          /\ IF todo = {h} THEN Enter("folders", Folders) ELSE Enter("hosts", todo \ {h})
    BY <1>8 DEF FetchHost
  <2>3. \A v \in always : vmHost'[v] = IF hostOf[v] = h THEN h ELSE vmHost[v]
    BY <1>5, <2>2 DEF VMsOn, Pages
  <2>4. h # None
    BY <2>1, ParametersAssumption
  <2> QED BY <1>1, <1>5, <2>1, <2>2, <2>3, <2>4 DEF Enter, Chain
<1>9. ASSUME FetchFolder \/ SkipFolder PROVE Chain'
  <2>1. pc = "folders" /\ UNCHANGED <<hostCluster, vmHost>> /\ pc' \in {"folders", "properties"}
    BY <1>9 DEF FetchFolder, SkipFolder, Answered, Failed, FolderDone, Enter, hierarchy
  <2> QED BY <1>1, <2>1 DEF Chain
<1>10. Chain'
  BY <1>6, <1>7, <1>8, <1>9
<1> QED BY <1>4, <1>10, <1>11 DEF Losses

LEMMA LoopGoesOn ==
  ASSUME items \in Seq(VMs), i \in 1 .. Len(items), UNCHANGED items, Advance,
         \A j \in 1 .. Len(items) : j <= i => Explained(items[j])'
  PROVE  Loop' /\ LossIsExplained'
<1>1. /\ i' = i + 1 /\ pc' \in {"properties", "raised", "listed"}
      /\ pc' # "properties" => ~ (i < Len(items))
  BY Advanced
<1>2. Len(items) \in Nat
  BY LenProperties
<1>3. \A j \in 1 .. Len(items) : j < i + 1 => Explained(items[j])'
  BY <1>2
<1>4. pc' = "listed" => \A j \in 1 .. Len(items) : Explained(items[j])'
  BY <1>1, <1>2
<1>5. Loop'
  BY <1>1, <1>3, <1>4 DEF Loop
<1>6. LossIsExplained'
  BY <1>1 DEF LossIsExplained
<1> QED BY <1>5, <1>6

LEMMA LoopKeptUp ==
  ASSUME TypeOK, Progress, Losses, FetchProperties \/ SkipVM \/ FetchUsage
  PROVE  Losses'
<1>1. /\ pc \in {"properties", "stats"} /\ pc' \in {"properties", "stats", "raised", "listed"}
      /\ UNCHANGED <<hostOf, clusterOf, hostCluster, vmHost, kinds, always, items>>
  BY Asked DEF FetchProperties, SkipVM, FetchUsage, Advance, hierarchy
<1>2. Chain'
  BY <1>1 DEF Losses, Chain
<1>3. /\ items \in Seq(VMs) /\ i \in 1 .. Len(items) /\ items[i] \in VMs /\ Len(items) \in Nat
      /\ found \in Seq(Snapshot) /\ DOMAIN found = 1 .. Len(found) /\ Len(found) \in Nat
  BY <1>1, Parts, LenProperties, ElementOfSeq DEF ClientTyped, Progress
<1>4. \A j \in 1 .. Len(items) : j <= i => j < i \/ j = i
  BY <1>3
<1>5. ASSUME Reported \subseteq Reported', unread \subseteq unread' PROVE \A v : Explained(v) => Explained(v)'
  BY <1>1, <1>5 DEF Explained
<1>6. ASSUME Advance, Reported \subseteq Reported', unread \subseteq unread',
             \A v : v = items[i] => pc = "stats" \/ Explained(v)'
      PROVE  Losses'
  <2>1. \A j \in 1 .. Len(items) : j <= i => \A v : v = items[j] => Explained(v)'
    BY <1>1, <1>4, <1>5, <1>6 DEF Losses, Loop
  <2>2. \A j \in 1 .. Len(items) : j <= i => Explained(items[j])'
    BY <1>1, <2>1
  <2> QED BY <1>1, <1>2, <1>3, <1>6, <2>2, LoopGoesOn DEF Losses
<1>7. CASE FetchUsage
  <2>1. pc = "stats" /\ Advance /\ UNCHANGED unread
    BY <1>7 DEF FetchUsage, Answered, Failed
  <2>2. DOMAIN found' = 1 .. Len(found) /\ \A k \in 1 .. Len(found) : found'[k].vm = found[k].vm
    BY <1>7, UsageKeeps, LenProperties
  <2>3. Reported' = Reported
    BY <1>3, <2>2 DEF Reported
  <2> QED BY <1>6, <2>1, <2>3
<1>8. CASE SkipVM
  <2>1. Advance /\ unread' = unread \cup {items[i]} /\ UNCHANGED found
    BY <1>8 DEF SkipVM, result
  <2>2. Reported' = Reported
    BY <2>1 DEF Reported
  <2>3. \A v : v = items[i] => Explained(v)'
    BY <1>1, <2>1 DEF Explained
  <2> QED BY <1>6, <2>1, <2>2, <2>3
<1>9. CASE FetchProperties
  <2>1. pc = "properties" /\ UNCHANGED unread
    BY <1>9 DEF FetchProperties, Answered
  <2>2. CASE IsOwnApplianceVM(items[i]) /\ UNCHANGED found /\ Advance
    <3>1. Reported' = Reported
      BY <2>2 DEF Reported
    <3>2. \A v : v = items[i] => Explained(v)'
      BY <1>1, <2>2 DEF Explained, IsOwnApplianceVM
    <3> QED BY <1>6, <2>1, <2>2, <3>1, <3>2
  <2>3. CASE ~ Placed(items[i]) /\ UNCHANGED found /\ Advance
    <3>1. Reported' = Reported
      BY <2>3 DEF Reported
    <3>2. items[i] \notin NamesParents /\ ClusterByRelation(items[i]) = None
      BY <2>3 DEF Placed
    <3>3. items[i] \in always => kinds \cap Moves # {}
      <4> SUFFICES ASSUME items[i] \in always, kinds \cap Moves = {} PROVE FALSE
        OBVIOUS
      <4>1. "host moved" \notin kinds /\ "vm moved" \notin kinds
        BY DEF Moves
      <4>2. vmHost[items[i]] # None /\ \A h \in Hosts : hostCluster[h] # None
        BY <2>1, <4>1 DEF Losses, Chain
      <4>3. vmHost[items[i]] \in Hosts
        BY <1>3, <4>2, Parts DEF ClientTyped
      <4> QED BY <3>2, <4>2, <4>3 DEF ClusterByRelation
    <3>4. \A v : v = items[i] => Explained(v)'
      BY <1>1, <3>2, <3>3 DEF Explained
    <3> QED BY <1>6, <2>1, <2>3, <3>1, <3>4
  <2>4. CASE Placed(items[i]) /\ found' = Append(found, Described(items[i])) /\ pc' = "stats" /\ UNCHANGED i
    <3>1. Described(items[i]) \in Snapshot /\ Described(items[i]).vm = items[i]
      BY <1>3, <2>4, DescribedTyped, Parts DEF Described
    <3>2. /\ found' \in Seq(Snapshot) /\ Len(found') = Len(found) + 1
          /\ \A k \in 1 .. Len(found) : found'[k] = found[k]
          /\ found'[Len(found) + 1] = Described(items[i])
      BY <1>3, <2>4, <3>1, AppendProperties
    <3>3. DOMAIN found' = 1 .. Len(found) + 1
      BY <3>2, LenProperties
    <3>4. Reported \subseteq Reported' /\ items[i] \in Reported'
      BY <1>3, <3>1, <3>2, <3>3 DEF Reported
    <3>5. \A j \in 1 .. Len(items) : j <= i => \A v : v = items[j] => Explained(v)'
      <4>1. \A v : v = items[i] => Explained(v)'
        BY <3>4 DEF Explained
      <4> QED BY <1>1, <1>4, <1>5, <2>1, <3>4, <4>1 DEF Losses, Loop
    <3>6. Loop' /\ LossIsExplained'
      BY <1>1, <2>4, <3>5 DEF Loop, LossIsExplained
    <3> QED BY <1>2, <3>6 DEF Losses
  <2> QED BY <1>9, <2>2, <2>3, <2>4 DEF FetchProperties
<1> QED BY <1>7, <1>8, <1>9

LEMMA StoreLosses ==
  ASSUME TypeOK, Progress, Losses, Store
  PROVE  Losses'
<1>1. pc = "listed" /\ pc' = "done" /\ UNCHANGED <<items, found, unread, kinds, always>>
  BY DEF Store, result, history
<1>2. items \in Seq(VMs)
  BY Parts DEF ClientTyped
<1>3. \A v \in ToSet(items) : Explained(v)
  BY <1>1, <1>2, RangeIs DEF Losses, Loop
<1>4. PICK flushes \in SUBSET (DOMAIN found) :
        IF SampledTwice(flushes) THEN UNCHANGED <<known, samples>>
        ELSE known' = known \cup Reported /\ samples' = Reported
  BY DEF Store
<1>5. SampledTwice(flushes) => \E j, k \in DOMAIN found : j # k /\ found[j].vm = found[k].vm
  <2> SUFFICES ASSUME NEW j \in DOMAIN found, NEW k \in DOMAIN found, j < k, found[j].vm = found[k].vm
               PROVE  j # k
    BY DEF SampledTwice
  <2>1. j \in Nat /\ k \in Nat
    BY Parts, LenProperties DEF ClientTyped
  <2> QED BY <2>1
<1>6. LossIsExplained'
  BY <1>1, <1>3, <1>4, <1>5 DEF LossIsExplained, Explained, Moves
<1> QED BY <1>1, <1>6 DEF Losses, Chain, Loop

LEMMA NextLosses ==
  ASSUME TypeOK, Progress, Pages, Losses, [Next]_vars
  PROVE  Losses'
<1>1. CASE UNCHANGED vars
  BY <1>1, StillLosses DEF vars, inventory, hierarchy, result, history
<1>2. CASE VMAdded \/ VMRemoved \/ VMMoves \/ HostMoves
  <2>1. /\ UNCHANGED <<pc, items, i, todo, hostCluster, vmHost, found, unread, samples>>
        /\ always' \subseteq always /\ kinds \subseteq kinds'
    BY <1>2 DEF VMAdded, VMRemoved, VMMoves, HostMoves, Change, hierarchy, result
  <2>2. UNCHANGED clusterOf \/ "host moved" \in kinds'
    BY <1>2 DEF VMAdded, VMRemoved, VMMoves, HostMoves, Change
  <2>3. UNCHANGED hostOf \/ "vm moved" \in kinds'
    BY <1>2 DEF VMAdded, VMRemoved, VMMoves, HostMoves, Change
  <2> QED BY <2>1, <2>2, <2>3, StillLosses
<1>3. CASE TokenExpires \/ Authenticate
  BY <1>3, StillLosses DEF TokenExpires, Authenticate, inventory, hierarchy, result, history
<1>4. CASE FetchPage
  <2>1. pc' \in {"vms", "containers", "listed"} /\ (pc' = "listed" => items' = <<>>)
    BY <1>4 DEF FetchPage, Answered
  <2>2. Loop'
    BY <2>1, EmptySeq DEF Loop
  <2> QED BY <2>1, <2>2 DEF Losses, Chain, LossIsExplained
<1>5. CASE FetchContainers \/ FetchCluster \/ FetchHost \/ FetchFolder \/ SkipFolder
  BY <1>5, ChainKeptUp DEF Losses
<1>6. CASE ListingFails
  BY <1>6 DEF ListingFails, Losses, Chain, Loop, LossIsExplained
<1>7. CASE FetchProperties \/ SkipVM \/ FetchUsage
  BY <1>7, LoopKeptUp
<1>8. CASE Store
  BY <1>8, StoreLosses
<1> QED BY <1>1, <1>2, <1>3, <1>4, <1>5, <1>6, <1>7, <1>8 DEF Next, Client

(* A VM that is there from beginning to end of a sync that succeeds has its  *)
(* sample, but for the losses that are told: no other order of changes,      *)
(* expiries and faults costs it its block (list_vm_snapshot and              *)
(* collect_once_for_account).                                                *)
THEOREM EveryLossIsExplained == Spec => []LossIsExplained
<1>1. Init => Losses
  BY DEF Init, Losses, Chain, Loop, LossIsExplained
<1>2. Losses => LossIsExplained
  BY DEF Losses
<1> QED BY <1>1, <1>2, InitTyped, InitPages, NextTyped, NextPages, NextLosses, PTL DEF Spec
=============================================================================
