------------------------------ MODULE Collection ------------------------------
(***************************************************************************)
(* How the collector and the "import" requests fill power_samples, the     *)
(* table the bill is computed from: one row for each VM and each block of  *)
(* collector_interval_minutes in which the VM was observed.                *)
(*                                                                         *)
(* collect_once walks the integration accounts; sync_account_once asks one *)
(* account's appliance for its VMs and stores one sample for each, dated   *)
(* with the bucket in which the sync began.  API handlers run the same     *)
(* sync_account_once on request.  A step here is a statement, a call of    *)
(* the appliance or a commit; time passes between any two.  Which project  *)
(* a VM belongs to, and accounts that are deleted, are in                  *)
(* ProjectAssignment.                                                      *)
(***************************************************************************)
EXTENDS Integers, FiniteSets

CONSTANTS
  Handlers,           \* API worker threads
  Collector,          \* the collector process
  Accounts,           \* integration accounts
  Restored,           \* those that came back from a backup, without credentials
  VMs,
  AccountOf,          \* the account whose appliance runs the VM
  CollectorInterval,  \* collector_interval_minutes: also the block that is billed
  SyncInterval,       \* the interval_minutes the handlers' syncs use: the default
  Hour,               \* minutes in an hour, scaled like the intervals
  MaxTime,            \* bound: the clock stops here
  MaxRequests,        \* bound: syncs and edits the administrator asks for
  MaxChanges,         \* bound: VMs switched on, off, or away
  MaxCrashes          \* bound: processes that die

Procs == Handlers \cup {Collector}
Time  == 0 .. MaxTime

ASSUME IntervalsAssumption ==
  /\ CollectorInterval \in Nat \ {0} /\ SyncInterval \in Nat \ {0} /\ Hour \in Nat \ {0}
  /\ MaxTime \in Nat /\ MaxRequests \in Nat /\ MaxChanges \in Nat /\ MaxCrashes \in Nat
ASSUME AccountsAssumption ==
  Restored \subseteq Accounts /\ AccountOf \in [VMs -> Accounts] /\ Collector \notin Handlers

VARIABLES
  now, power,                         \* the world: the clock and the VMs
  saved, status, rows, samples,       \* Operations DB
  pc, target, at, report, unread, fresh, missing,   \* local to a process
  listed, loaded, wakeAt,             \* local to the collector
  requests, changes, crashes,         \* what the bounds count
  onAt, raced, attempted              \* history, read by no action

world  == <<now, power, changes, onAt>>
ops    == <<saved, status, rows, samples>>
sync   == <<target, at, report, unread, fresh, missing>>
cycle  == <<listed, loaded, wakeAt, attempted>>
vars   == <<world, ops, pc, sync, cycle, requests, crashes, raced>>

SavedStates == {"complete", "placeholder", "incomplete"}

Powers == {"on", "off", "absent"}
Sample == [vm : VMs, at : Time, power : {"on", "off"}]

TypeOK ==
  /\ now \in Time /\ power \in [VMs -> Powers]
  /\ saved \in [Accounts -> SavedStates]
  /\ status \in [Accounts -> {"never", "success", "error"}]
  /\ rows \subseteq VMs /\ samples \subseteq Sample
  /\ pc \in [Procs -> {"idle", "cycle", "listing", "reading", "status"}]
  /\ target \in [Procs -> Accounts \cup {"none"}]
  /\ at \in [Procs -> Time]
  /\ report \in [Procs -> [VMs -> Powers]]
  /\ unread \in [Procs -> SUBSET VMs] /\ fresh \in [Procs -> SUBSET VMs]
  /\ missing \in [Procs -> SUBSET VMs]
  /\ listed \subseteq Accounts /\ attempted \subseteq Accounts
  /\ loaded \in [Accounts -> SavedStates \cup {"expired"}]
  /\ wakeAt \in 0 .. (MaxTime + CollectorInterval)
  /\ requests \in 0 .. MaxRequests /\ changes \in 0 .. MaxChanges /\ crashes \in 0 .. MaxCrashes
  /\ onAt \in [VMs -> SUBSET Time] /\ raced \subseteq Procs

Silence == [v \in VMs |-> "absent"]
Expired == [a \in Accounts |-> "expired"]

Init ==
  /\ now = 0 /\ power \in [VMs -> {"on", "off"}]
  /\ saved = [a \in Accounts |-> IF a \in Restored THEN "placeholder" ELSE "complete"]
  /\ status = [a \in Accounts |-> "never"]
  /\ rows = {} /\ samples = {}
  /\ pc = [p \in Procs |-> "idle"]
  /\ target = [p \in Procs |-> "none"] /\ at = [p \in Procs |-> 0]
  /\ report = [p \in Procs |-> Silence]
  /\ unread = [p \in Procs |-> {}] /\ fresh = unread /\ missing = unread
  /\ listed = {} /\ loaded = Expired /\ wakeAt = 0 /\ attempted = {}
  /\ requests = 0 /\ changes = 0 /\ crashes = 0
  /\ onAt = [v \in VMs |-> IF power[v] = "on" THEN {0} ELSE {}]
  /\ raced = {}

-----------------------------------------------------------------------------
(* The world *)

Tick ==
  /\ now < MaxTime
  /\ now' = now + 1
  /\ onAt' = [v \in VMs |-> IF power[v] = "on" THEN onAt[v] \cup {now + 1} ELSE onAt[v]]
  /\ UNCHANGED <<power, changes, ops, pc, sync, cycle, requests, crashes, raced>>

PowerChanges(v) ==
  /\ changes < MaxChanges /\ changes' = changes + 1
  /\ \E s \in Powers \ {power[v]} :
       /\ power' = [power EXCEPT ![v] = s]
       /\ onAt' = IF s = "on" THEN [onAt EXCEPT ![v] = @ \cup {now}] ELSE onAt
  /\ UNCHANGED <<now, ops, pc, sync, cycle, requests, crashes, raced>>

-----------------------------------------------------------------------------
(* sync_account_once and collect_once_for_account                           *)

Interval(p) == IF p = Collector THEN CollectorInterval ELSE SyncInterval

(* Mutants: the next bucket instead of this one, and no bucket at all. *)
CeilToBucket(t, minutes) == LET r == (t % Hour) % minutes IN IF r = 0 THEN t ELSE t + minutes - r
NoBucket(t, minutes) == t

(* t.minute % minutes is discarded: buckets start anew with every hour. *)
FloorToBucket(t, minutes) == t - ((t % Hour) % minutes)

(* The sync is over; in the collector the cycle goes on. *)
Return(p) ==
  /\ pc' = [pc EXCEPT ![p] = IF p = Collector THEN "cycle" ELSE "idle"]
  /\ target' = [target EXCEPT ![p] = "none"]
  /\ at' = [at EXCEPT ![p] = 0]
  /\ report' = [report EXCEPT ![p] = Silence]
  /\ unread' = [unread EXCEPT ![p] = {}]
  /\ fresh' = [fresh EXCEPT ![p] = {}]
  /\ missing' = [missing EXCEPT ![p] = {}]

(* The client is built from the credentials of an account that is complete,  *)
(* and the bucket is fixed before the appliance is asked.                    *)
StartSync(p, a) ==
  /\ pc' = [pc EXCEPT ![p] = "listing"]
  /\ target' = [target EXCEPT ![p] = a]
  /\ at' = [at EXCEPT ![p] = FloorToBucket(now, Interval(p))]
  /\ UNCHANGED <<report, unread, fresh, missing>>

(* Mutant: the loop is over the inventory instead of the snapshots. *)
WholeInventory(rep) == VMs

Present(rep) == {v \in VMs : rep[v] # "absent"}

(* list_vm_snapshot answers with the VMs the appliance runs ... *)
ListVMs(p) ==
  /\ pc[p] = "listing"
  /\ report' = [report EXCEPT ![p] =
                  [v \in VMs |-> IF AccountOf[v] = target[p] THEN power[v] ELSE "absent"]]
  /\ unread' = [unread EXCEPT ![p] = Present(report'[p])]
  /\ pc' = [pc EXCEPT ![p] = "reading"]
  /\ UNCHANGED <<world, ops, target, at, fresh, missing, cycle, requests, crashes, raced>>

(* Mutant: the exception leaves sync_account_once and ends the loop of        *)
(* collect_once.                                                             *)
SyncFailsUncaught(p) ==
  /\ Return(p)
  /\ listed' = IF p = Collector THEN {} ELSE listed
  /\ raced' = raced \ {p}
  /\ UNCHANGED <<world, ops, loaded, wakeAt, attempted, requests, crashes>>

(* ... or raises.  Anything that raises before the commit ends here, is      *)
(* rolled back and recorded.                                                 *)
SyncFails(p) ==
  /\ status' = [status EXCEPT ![target[p]] = "error"]
  /\ Return(p)
  /\ raced' = raced \ {p}
  /\ UNCHANGED <<world, saved, rows, samples, cycle, requests, crashes>>

ListFails(p) == pc[p] = "listing" /\ SyncFails(p)

(* Mutant: the query for an earlier sample forgets sampled_at. *)
AnySample(p, v) == \E s \in samples : s.vm = v

Already(p, v) == \E s \in samples : s.vm = v /\ s.at = at[p]

(* One VM of the report: is there a row, and a sample of this bucket?        *)
LookUp(p) ==
  /\ pc[p] = "reading"
  /\ \E v \in unread[p] :
       /\ unread' = [unread EXCEPT ![p] = @ \ {v}]
       /\ fresh' = IF v \in rows THEN fresh ELSE [fresh EXCEPT ![p] = @ \cup {v}]
       /\ missing' = IF Already(p, v) THEN missing ELSE [missing EXCEPT ![p] = @ \cup {v}]
  /\ UNCHANGED <<world, ops, pc, target, at, report, cycle, requests, crashes, raced>>

(* Somebody else stored a row or a sample that p found missing: the INSERT   *)
(* violates a unique constraint.                                             *)
RowClash(p)    == fresh[p] \cap rows # {}
SampleClash(p) == \E v \in missing[p] : Already(p, v)

NewSamples(p) == {[vm |-> v, at |-> at[p], power |-> report[p][v]] : v \in missing[p]}

(* The whole account in one transaction.  What others committed makes the    *)
(* syncs of the same account that have begun to read raced.                  *)
CommitSync(p) ==
  /\ pc[p] = "reading" /\ unread[p] = {}
  /\ ~ RowClash(p) /\ ~ SampleClash(p)
  /\ rows' = rows \cup fresh[p]
  /\ samples' = samples \cup NewSamples(p)
  /\ raced' = raced \cup {q \in Procs \ {p} : pc[q] = "reading" /\ target[q] = target[p]}
  /\ pc' = [pc EXCEPT ![p] = "status"]
  /\ UNCHANGED <<world, saved, status, sync, cycle, requests, crashes>>

(* A clash at the final commit is rolled back and taken for a success ...    *)
ClashSwallowed(p) ==
  /\ pc[p] = "reading" /\ unread[p] = {}
  /\ ~ RowClash(p) /\ SampleClash(p)
  /\ pc' = [pc EXCEPT ![p] = "status"]
  /\ UNCHANGED <<world, ops, sync, cycle, requests, crashes, raced>>

(* ... one at an earlier flush, which every new row causes, raises.          *)
ClashRaises(p) ==
  /\ pc[p] = "reading" /\ unread[p] = {}
  /\ RowClash(p) \/ (SampleClash(p) /\ fresh[p] # {})
  /\ SyncFails(p)

(* last_sync_status, in a commit of its own. *)
CommitStatus(p) ==
  /\ pc[p] = "status"
  /\ status' = [status EXCEPT ![target[p]] = "success"]
  /\ Return(p)
  /\ raced' = raced \ {p}
  /\ UNCHANGED <<world, saved, rows, samples, cycle, requests, crashes>>

-----------------------------------------------------------------------------
(* run_forever and collect_once                                             *)

(* The query for the accounts loads their rows; the first commit or rollback *)
(* of a sync expires all of them, and from then on each is read again when   *)
(* its turn comes.                                                           *)
StartCycle ==
  /\ pc[Collector] = "idle" /\ now >= wakeAt
  /\ pc' = [pc EXCEPT ![Collector] = "cycle"]
  /\ listed' = Accounts /\ loaded' = saved
  /\ UNCHANGED <<world, ops, sync, wakeAt, attempted, requests, crashes, raced>>

Known(a) == IF loaded[a] = "expired" THEN saved[a] ELSE loaded[a]

CollectNext ==
  /\ pc[Collector] = "cycle"
  /\ \E a \in listed :
       /\ Known(a) = "complete"
       /\ StartSync(Collector, a)
       /\ listed' = listed \ {a} /\ attempted' = attempted \cup {a}
  /\ loaded' = Expired
  /\ UNCHANGED <<world, ops, wakeAt, requests, crashes, raced>>

(* needs_reconnect: nothing is tried and nothing is recorded. *)
SkipPlaceholder ==
  /\ pc[Collector] = "cycle"
  /\ \E a \in listed : Known(a) = "placeholder" /\ listed' = listed \ {a}
  /\ UNCHANGED <<world, ops, pc, sync, loaded, wakeAt, attempted, requests, crashes, raced>>

Sleep ==
  /\ pc' = [pc EXCEPT ![Collector] = "idle"]
  /\ loaded' = Expired /\ attempted' = {}
  /\ wakeAt' = now + CollectorInterval

EndCycle ==
  /\ pc[Collector] = "cycle" /\ listed = {}
  /\ Sleep
  /\ UNCHANGED <<world, ops, sync, listed, requests, crashes, raced>>

(* build_client_for_integration_account raises outside of what               *)
(* sync_account_once catches; run_forever catches it and sleeps.             *)
CycleAborts ==
  /\ pc[Collector] = "cycle"
  /\ \E a \in listed : Known(a) = "incomplete"
  /\ listed' = {}
  /\ Sleep
  /\ UNCHANGED <<world, ops, sync, requests, crashes, raced>>

-----------------------------------------------------------------------------
(* The administrator                                                        *)

Ask(h) ==
  /\ pc[h] = "idle" /\ h \in Handlers
  /\ requests < MaxRequests /\ requests' = requests + 1

(* sync_integration_account.  Without credentials it answers with an error   *)
(* (placeholder) or a 500 (incomplete), and changes nothing.                 *)
SyncRequest(h) ==
  /\ Ask(h)
  /\ \E a \in Accounts : saved[a] = "complete" /\ StartSync(h, a)
  /\ UNCHANGED <<world, ops, cycle, crashes, raced>>

(* update_integration_account: saving every field makes an account usable;   *)
(* changing any field, verify_ssl say, ends the needs_reconnect of a         *)
(* restored one whose address and password are still empty.  The sync that   *)
(* follows is SyncRequest's, after the commit.                               *)
EditRequest(h) ==
  /\ Ask(h)
  /\ \E a \in Accounts :
       \/ saved' = [saved EXCEPT ![a] = IF @ = "placeholder" THEN "incomplete" ELSE @]
       \/ saved' = [saved EXCEPT ![a] = "complete"]
  /\ UNCHANGED <<world, status, rows, samples, pc, sync, cycle, crashes, raced>>

(* A process dies and is started again by Docker. *)
Crash(p) ==
  /\ pc[p] \notin {"idle", "cycle"} \/ (p = Collector /\ pc[p] = "cycle")
  /\ crashes < MaxCrashes /\ crashes' = crashes + 1
  /\ pc' = [pc EXCEPT ![p] = "idle"]
  /\ target' = [target EXCEPT ![p] = "none"]
  /\ at' = [at EXCEPT ![p] = 0]
  /\ report' = [report EXCEPT ![p] = Silence]
  /\ unread' = [unread EXCEPT ![p] = {}]
  /\ fresh' = [fresh EXCEPT ![p] = {}]
  /\ missing' = [missing EXCEPT ![p] = {}]
  /\ IF p = Collector THEN listed' = {} /\ loaded' = Expired /\ wakeAt' = now /\ attempted' = {}
     ELSE UNCHANGED cycle
  /\ raced' = raced \ {p}
  /\ UNCHANGED <<world, ops, requests>>

-----------------------------------------------------------------------------
Sync(p) ==
  \/ ListVMs(p) \/ ListFails(p) \/ LookUp(p) \/ CommitSync(p)
  \/ ClashSwallowed(p) \/ ClashRaises(p) \/ CommitStatus(p)

Next ==
  \/ Tick \/ \E v \in VMs : PowerChanges(v)
  \/ StartCycle \/ CollectNext \/ SkipPlaceholder \/ EndCycle \/ CycleAborts
  \/ \E h \in Handlers : SyncRequest(h) \/ EditRequest(h)
  \/ \E p \in Procs : Sync(p) \/ Crash(p)

Spec == Init /\ [][Next]_vars

-----------------------------------------------------------------------------
(* Properties                                                               *)

(* A VM is billed once for any minute: the blocks of its samples, each as    *)
(* long as the engine bills it, do not overlap, whoever took them            *)
(* (collector.py floor_to_bucket; engine.py "one row = one block").          *)
BlocksDisjoint ==
  \A s, r \in samples :
    s.vm = r.vm /\ s # r => s.at + CollectorInterval <= r.at \/ r.at + CollectorInterval <= s.at

(* A sync that reports success without having raced another sync of the      *)
(* account has stored a sample of its bucket for every VM it was told of     *)
(* (collect_once_for_account).                                               *)
UnracedIsComplete ==
  [][\A p \in Procs : CommitStatus(p) /\ p \notin raced =>
       \A v \in VMs : report[p][v] # "absent" =>
         v \in rows /\ \E s \in samples : s.vm = v /\ s.at = at[p]]_vars

(* A VM is never billed for a block if it was not seen on at any time since  *)
(* the block began.                                                          *)
OnSinceBlockBegan ==
  \A s \in samples : s.power = "on" => \E t \in onAt[s.vm] : t >= s.at

(* An account whose appliance fails, or that is a placeholder, keeps no      *)
(* other from being collected: a cycle that ends while every account is, as  *)
(* far as the cycle knows, usable or a placeholder has tried all that were   *)
(* usable from the start (collect_once; sync_account_once catches and        *)
(* records).                                                                 *)
FailuresAreIsolated ==
  [][pc[Collector] = "cycle" /\ pc'[Collector] = "idle" /\ crashes' = crashes
       /\ (\A a \in Accounts : Known(a) # "incomplete")
     => Accounts \ Restored \subseteq attempted]_vars

(* collector.py:15-16 and 376: a failure of one account does not block the   *)
(* collection of another.                                                    *)
EveryAccountAttempted ==
  [][pc[Collector] = "cycle" /\ pc'[Collector] = "idle" /\ crashes' = crashes
     => Accounts \ Restored \subseteq attempted]_vars
=============================================================================
