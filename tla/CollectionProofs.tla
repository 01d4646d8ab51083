--------------------------- MODULE CollectionProofs ---------------------------
(***************************************************************************)
(* What holds of Collection for any accounts, VMs, workers and intervals.  *)
(* BlocksDisjoint rests on arithmetic (every date is a multiple of the     *)
(* interval, two different multiples are an interval apart) and on the     *)
(* unique key of power_samples.  OnSinceBlockBegan rests on what a sync    *)
(* holds between the answer of the appliance and its commit: a VM it was   *)
(* told is on has been on since the bucket began.  Both need to know how a *)
(* step may change dates, reports and samples; Shape says it once.         *)
(***************************************************************************)
EXTENDS Collection, TLAPS

(* The beginnings of blocks. *)

Buckets == {k * CollectorInterval : k \in Int}

(* Collector and imports use the same interval, which divides the hour. *)
OneSetting ==
  /\ SyncInterval = CollectorInterval
  /\ \E m \in Int : Hour = m * CollectorInterval

-----------------------------------------------------------------------------
(* Arithmetic *)

(* The numbers \div and % are what division makes of them. *)
LEMMA Remainder ==
  ASSUME NEW t \in Int, NEW n \in Nat \ {0}
  PROVE  /\ t % n \in 0 .. (n - 1) /\ t \div n \in Int
         /\ t = n * (t \div n) + (t % n)
OBVIOUS

LEMMA Distribute ==
  ASSUME NEW a \in Int, NEW b \in Int, NEW c \in Int, NEW d \in Int
  PROVE  (a * d) * b + d * c = (a * b + c) * d
OBVIOUS

(* floor_to_bucket: buckets start anew with every hour, so that it takes an  *)
(* interval that divides the hour to make all of them multiples of it.       *)
LEMMA FloorIsBucket ==
  ASSUME OneSetting, NEW t \in Int
  PROVE  FloorToBucket(t, CollectorInterval) \in Buckets
<1> DEFINE I == CollectorInterval
<1>1. I \in Nat \ {0} /\ Hour \in Nat \ {0}
  BY IntervalsAssumption
<1>2. PICK m \in Int : Hour = m * I
  BY DEF OneSetting
<1> DEFINE r == t % Hour
           q == t \div Hour
           j == r \div I
<1>3. r \in Int /\ q \in Int /\ t = Hour * q + r
  BY <1>1, Remainder
<1>4. j \in Int /\ r % I \in Int /\ r = I * j + (r % I)
  BY <1>1, <1>3, Remainder
<1>5. FloorToBucket(t, I) = t - (r % I)
  BY DEF FloorToBucket
<1> HIDE DEF r, q, j
<1>6. Hour * q \in Int /\ I * j \in Int
  BY <1>1, <1>3, <1>4
<1>7. FloorToBucket(t, I) = Hour * q + I * j
  BY <1>3, <1>4, <1>5, <1>6
<1>8. (m * I) * q + I * j = (m * q + j) * I
  BY <1>1, <1>2, <1>3, <1>4, Distribute
<1>9. m * q + j \in Int
  BY <1>2, <1>3, <1>4
<1> QED BY <1>2, <1>7, <1>8, <1>9 DEF Buckets

(* Two different buckets are at least an interval apart. *)
LEMMA BucketsApart ==
  ASSUME NEW s \in Buckets, NEW r \in Buckets, s # r
  PROVE  s + CollectorInterval <= r \/ r + CollectorInterval <= s
<1> DEFINE I == CollectorInterval
<1>1. I \in Nat \ {0}
  BY IntervalsAssumption
<1>2. PICK j \in Int : s = j * I
  BY DEF Buckets
<1>3. PICK k \in Int : r = k * I
  BY DEF Buckets
<1> HIDE DEF I
<1>4. ASSUME NEW x \in Int, NEW y \in Int, x + 1 <= y PROVE x * I + I <= y * I
  BY <1>1, <1>4
<1>5. j + 1 <= k \/ k + 1 <= j
  BY <1>2, <1>3
<1> QED BY <1>2, <1>3, <1>4, <1>5 DEF I

(* A bucket begins no later than the moment it is taken at, nor before time. *)
LEMMA FloorIsPast ==
  ASSUME NEW t \in Nat, NEW minutes \in Nat \ {0}
  PROVE  FloorToBucket(t, minutes) \in Nat /\ FloorToBucket(t, minutes) <= t
<1>1. Hour \in Nat \ {0}
  BY IntervalsAssumption
<1> DEFINE r == t % Hour
<1>2. r \in Nat /\ r <= t
  BY <1>1
<1>3. r % minutes \in Nat /\ r % minutes <= r
  BY <1>2
<1> QED BY <1>2, <1>3 DEF FloorToBucket

-----------------------------------------------------------------------------
(* Types *)

(* A sync only looks for samples of VMs that the appliance reported, and     *)
(* knows of none that is missing before it has asked.                        *)
OnlyReported ==
  \A p \in Procs :
    /\ unread[p] \cup missing[p] \subseteq Present(report[p])
    /\ pc[p] \in {"idle", "cycle", "listing"} => missing[p] = {} /\ report[p] = Silence

Typed == TypeOK /\ OnlyReported

LEMMA IntervalType == \A p \in Procs : Interval(p) \in Nat \ {0}
BY IntervalsAssumption DEF Interval

LEMMA BucketType ==
  ASSUME TypeOK, NEW p \in Procs
  PROVE  FloorToBucket(now, Interval(p)) \in Time
<1>1. now \in Nat /\ now <= MaxTime
  BY IntervalsAssumption DEF TypeOK, Time
<1> QED BY <1>1, IntervalType, FloorIsPast, IntervalsAssumption DEF Time

LEMMA SilenceType == Silence \in [VMs -> Powers]
BY DEF Silence, Powers

LEMMA ExpiredType == Expired \in [Accounts -> SavedStates \cup {"expired"}]
BY DEF Expired

LEMMA InitTypes == Init => Typed
<1> SUFFICES ASSUME Init PROVE Typed
  OBVIOUS
<1>1. now \in Time /\ wakeAt \in 0 .. (MaxTime + CollectorInterval)
  BY IntervalsAssumption DEF Init, Time
<1>2. at \in [Procs -> Time] /\ \A v \in VMs : onAt[v] \subseteq Time
  BY IntervalsAssumption DEF Init, Time
<1>3. requests \in 0 .. MaxRequests /\ changes \in 0 .. MaxChanges /\ crashes \in 0 .. MaxCrashes
  BY IntervalsAssumption DEF Init
<1>4. onAt \in [VMs -> SUBSET Time]
  BY <1>2 DEF Init
<1>5. report \in [Procs -> [VMs -> Powers]]
  BY SilenceType DEF Init
<1>6. OnlyReported
  BY DEF Init, OnlyReported
<1>7. saved \in [Accounts -> SavedStates] /\ loaded \in [Accounts -> SavedStates \cup {"expired"}]
  BY ExpiredType DEF Init, SavedStates
<1> QED BY <1>1, <1>2, <1>3, <1>4, <1>5, <1>6, <1>7 DEF Init, Typed, TypeOK, Powers

(* What a process keeps of a sync. *)
SyncTyped ==
  /\ pc \in [Procs -> {"idle", "cycle", "listing", "reading", "status"}]
  /\ target \in [Procs -> Accounts \cup {"none"}]
  /\ at \in [Procs -> Time]
  /\ report \in [Procs -> [VMs -> Powers]]
  /\ unread \in [Procs -> SUBSET VMs] /\ fresh \in [Procs -> SUBSET VMs]
  /\ missing \in [Procs -> SUBSET VMs]
  /\ OnlyReported

LEMMA ReturnTypes ==
  ASSUME Typed, NEW p \in Procs, Return(p)
  PROVE  SyncTyped'
<1>1. 0 \in Time
  BY IntervalsAssumption DEF Time
<1>2. report' \in [Procs -> [VMs -> Powers]]
  BY SilenceType DEF Return, Typed, TypeOK
<1>3. OnlyReported'
  BY DEF Return, OnlyReported, Typed, TypeOK
<1> QED BY <1>1, <1>2, <1>3 DEF Return, SyncTyped, Typed, TypeOK

LEMMA StartSyncTypes ==
  ASSUME Typed, NEW p \in Procs, NEW a \in Accounts, StartSync(p, a),
         pc[p] \in {"idle", "cycle"}
  PROVE  SyncTyped'
<1>1. FloorToBucket(now, Interval(p)) \in Time
  BY BucketType DEF Typed
<1>2. OnlyReported'
  BY DEF StartSync, OnlyReported, Typed, TypeOK
<1> QED BY <1>1, <1>2 DEF StartSync, SyncTyped, Typed, TypeOK

LEMMA SyncFailsTypes ==
  ASSUME Typed, NEW p \in Procs, SyncFails(p)
  PROVE  Typed'
<1>1. SyncTyped'
  BY ReturnTypes DEF SyncFails
<1>2. raced' \subseteq Procs /\ status' \in [Accounts -> {"never", "success", "error"}]
  BY DEF SyncFails, Typed, TypeOK
<1> QED BY <1>1, <1>2 DEF SyncFails, SyncTyped, Typed, TypeOK, world, cycle

LEMMA SyncTypes ==
  ASSUME Typed, NEW p \in Procs, Sync(p)
  PROVE  Typed'
<1>1. CASE ListVMs(p)
  <2>1. report' \in [Procs -> [VMs -> Powers]]
    BY <1>1 DEF ListVMs, Typed, TypeOK, Powers
  <2>2. unread' \in [Procs -> SUBSET VMs]
    BY <1>1 DEF ListVMs, Present, Typed, TypeOK
  <2>3. OnlyReported'
    BY <1>1 DEF ListVMs, OnlyReported, Present, Typed, TypeOK
  <2> QED BY <1>1, <2>1, <2>2, <2>3 DEF ListVMs, Typed, TypeOK, world, ops, cycle
<1>2. CASE ListFails(p)
  BY <1>2, SyncFailsTypes DEF ListFails
<1>3. CASE LookUp(p)
  <2>1. /\ unread' \in [Procs -> SUBSET VMs] /\ fresh' \in [Procs -> SUBSET VMs]
        /\ missing' \in [Procs -> SUBSET VMs]
    BY <1>3 DEF LookUp, Typed, TypeOK
  <2>2. OnlyReported'
    BY <1>3 DEF LookUp, OnlyReported, Typed, TypeOK
  <2> QED BY <1>3, <2>1, <2>2 DEF LookUp, Typed, TypeOK, world, ops, cycle
<1>4. CASE CommitSync(p)
  <2>1. NewSamples(p) \subseteq Sample
    BY <1>4 DEF NewSamples, Sample, OnlyReported, Present, Powers, Typed, TypeOK
  <2>2. samples' \subseteq Sample /\ rows' \subseteq VMs /\ raced' \subseteq Procs
    BY <1>4, <2>1 DEF CommitSync, Typed, TypeOK
  <2>3. pc' \in [Procs -> {"idle", "cycle", "listing", "reading", "status"}]
    BY <1>4 DEF CommitSync, Typed, TypeOK
  <2> QED BY <1>4, <2>2, <2>3 DEF CommitSync, Typed, TypeOK, OnlyReported, world, sync, cycle
<1>5. CASE ClashSwallowed(p)
  BY <1>5 DEF ClashSwallowed, Typed, TypeOK, OnlyReported, world, ops, sync, cycle
<1>6. CASE ClashRaises(p)
  BY <1>6, SyncFailsTypes DEF ClashRaises
<1>7. CASE CommitStatus(p)
  <2>1. SyncTyped'
    BY <1>7, ReturnTypes DEF CommitStatus
  <2>2. raced' \subseteq Procs /\ status' \in [Accounts -> {"never", "success", "error"}]
    BY <1>7 DEF CommitStatus, Typed, TypeOK
  <2> QED BY <1>7, <2>1, <2>2 DEF CommitStatus, SyncTyped, Typed, TypeOK, world, cycle
<1> QED BY <1>1, <1>2, <1>3, <1>4, <1>5, <1>6, <1>7 DEF Sync

LEMMA WorldTypes ==
  ASSUME Typed, Tick \/ \E v \in VMs : PowerChanges(v)
  PROVE  Typed'
<1>1. CASE Tick
  <2>1. now' \in Time /\ now + 1 \in Time
    BY <1>1, IntervalsAssumption DEF Tick, Time, Typed, TypeOK
  <2>2. onAt' \in [VMs -> SUBSET Time]
    BY <1>1, <2>1 DEF Tick, Typed, TypeOK
  <2> QED BY <1>1, <2>1, <2>2 DEF Tick, Typed, TypeOK, OnlyReported, ops, sync, cycle
<1>2. ASSUME NEW v \in VMs, PowerChanges(v) PROVE Typed'
  <2>1. changes' \in 0 .. MaxChanges
    BY <1>2, IntervalsAssumption DEF PowerChanges, Typed, TypeOK
  <2>2. onAt' \in [VMs -> SUBSET Time] /\ power' \in [VMs -> Powers]
    BY <1>2 DEF PowerChanges, Typed, TypeOK
  <2> QED BY <1>2, <2>1, <2>2 DEF PowerChanges, Typed, TypeOK, OnlyReported, ops, sync, cycle
<1> QED BY <1>1, <1>2

LEMMA SleepTypes ==
  ASSUME Typed, Sleep
  PROVE  /\ pc' \in [Procs -> {"idle", "cycle", "listing", "reading", "status"}]
         /\ wakeAt' \in 0 .. (MaxTime + CollectorInterval) /\ attempted' \subseteq Accounts
         /\ loaded' \in [Accounts -> SavedStates \cup {"expired"}]
<1>1. wakeAt' \in 0 .. (MaxTime + CollectorInterval)
  <2>1. now \in Nat /\ now <= MaxTime
    BY IntervalsAssumption DEF Time, Typed, TypeOK
  <2> QED BY <2>1, IntervalsAssumption DEF Sleep
<1>2. pc' \in [Procs -> {"idle", "cycle", "listing", "reading", "status"}]
  BY DEF Sleep, Typed, TypeOK
<1> QED BY <1>1, <1>2, ExpiredType DEF Sleep

LEMMA CycleTypes ==
  ASSUME Typed, StartCycle \/ CollectNext \/ SkipPlaceholder \/ EndCycle \/ CycleAborts
  PROVE  Typed'
<1>1. CASE StartCycle
  BY <1>1 DEF StartCycle, Typed, TypeOK, OnlyReported, world, ops, sync
<1>2. CASE CollectNext
  <2>1. PICK a \in listed : StartSync(Collector, a) /\ listed' = listed \ {a}
                              /\ attempted' = attempted \cup {a}
    BY <1>2 DEF CollectNext
  <2>2. a \in Accounts /\ Collector \in Procs
    BY DEF Procs, Typed, TypeOK
  <2>3. SyncTyped'
    BY <1>2, <2>1, <2>2, StartSyncTypes DEF CollectNext
  <2> QED BY <1>2, <2>1, <2>2, <2>3, ExpiredType DEF CollectNext, SyncTyped, Typed, TypeOK, world, ops
<1>3. CASE SkipPlaceholder
  BY <1>3 DEF SkipPlaceholder, Typed, TypeOK, OnlyReported, world, ops, sync
<1>4. CASE EndCycle
  <2>1. OnlyReported'
    BY <1>4 DEF EndCycle, Sleep, Typed, TypeOK, OnlyReported, sync
  <2> QED BY <1>4, <2>1, SleepTypes DEF EndCycle, Typed, TypeOK, world, ops, sync
<1>5. CASE CycleAborts
  <2>1. OnlyReported'
    BY <1>5 DEF CycleAborts, Sleep, Typed, TypeOK, OnlyReported, sync
  <2> QED BY <1>5, <2>1, SleepTypes DEF CycleAborts, Typed, TypeOK, world, ops, sync
<1> QED BY <1>1, <1>2, <1>3, <1>4, <1>5

LEMMA RequestTypes ==
  ASSUME Typed, NEW h \in Handlers, SyncRequest(h) \/ EditRequest(h)
  PROVE  Typed'
<1>1. requests' \in 0 .. MaxRequests /\ h \in Procs
  BY IntervalsAssumption DEF SyncRequest, EditRequest, Ask, Procs, Typed, TypeOK
<1>2. CASE SyncRequest(h)
  <2>1. SyncTyped'
    BY <1>1, <1>2, StartSyncTypes DEF SyncRequest, Ask
  <2> QED BY <1>1, <1>2, <2>1 DEF SyncRequest, SyncTyped, Typed, TypeOK, world, ops, cycle
<1>3. CASE EditRequest(h)
  <2>1. saved' \in [Accounts -> SavedStates]
    BY <1>3 DEF EditRequest, Typed, TypeOK, SavedStates
  <2> QED BY <1>1, <1>3, <2>1 DEF EditRequest, Typed, TypeOK, OnlyReported, world, sync, cycle
<1> QED BY <1>2, <1>3

LEMMA CrashTypes ==
  ASSUME Typed, NEW p \in Procs, Crash(p)
  PROVE  Typed'
<1>1. 0 \in Time /\ crashes' \in 0 .. MaxCrashes
  BY IntervalsAssumption DEF Crash, Time, Typed, TypeOK
<1>2. report' \in [Procs -> [VMs -> Powers]]
  BY SilenceType DEF Crash, Typed, TypeOK
<1>3. OnlyReported'
  BY DEF Crash, OnlyReported, Typed, TypeOK
<1>4. /\ wakeAt' \in 0 .. (MaxTime + CollectorInterval)
      /\ listed' \subseteq Accounts /\ attempted' \subseteq Accounts
      /\ loaded' \in [Accounts -> SavedStates \cup {"expired"}]
  BY IntervalsAssumption, ExpiredType DEF Crash, cycle, Time, Typed, TypeOK
<1> QED BY <1>1, <1>2, <1>3, <1>4 DEF Crash, Typed, TypeOK, world, ops

LEMMA NextTypes == Typed /\ [Next]_vars => Typed'
<1> SUFFICES ASSUME Typed, [Next]_vars PROVE Typed'
  OBVIOUS
<1>1. CASE UNCHANGED vars
  BY <1>1 DEF vars, world, ops, sync, cycle, Typed, TypeOK, OnlyReported
<1> QED BY <1>1, WorldTypes, CycleTypes, RequestTypes, SyncTypes, CrashTypes DEF Next

(* Every variable keeps its type; a sample is only ever of a VM that was     *)
(* reported on or off (collect_once_for_account).                            *)
THEOREM TypeCorrect == Spec => []TypeOK
<1>1. Spec => []Typed
  BY InitTypes, NextTypes, PTL DEF Spec
<1>2. Typed => TypeOK
  BY DEF Typed
<1> QED BY <1>1, <1>2, PTL

-----------------------------------------------------------------------------
(* Samples change by CommitSync alone; the date and the report of a sync     *)
(* change when it begins, when the appliance answers and when it is over;    *)
(* time and what has been seen only grow.                                    *)
KeepsDates == \A p \in Procs : at'[p] \in {at[p], 0, FloorToBucket(now, Interval(p))}

KeepsReports ==
  \A p \in Procs :
    \/ report'[p] = Silence
    \/ report'[p] = report[p] /\ at'[p] = at[p]
    \/ at'[p] = at[p] /\ \A v \in VMs : report'[p][v] = "on" => power[v] = "on"

Grows == now <= now' /\ \A v \in VMs : onAt[v] \subseteq onAt'[v]

Shape ==
  /\ UNCHANGED samples \/ \E p \in Procs : CommitSync(p)
  /\ KeepsDates /\ KeepsReports /\ Grows

LEMMA ReturnShape ==
  ASSUME Typed, NEW p \in Procs, Return(p)
  PROVE  KeepsDates /\ KeepsReports
BY DEF Return, KeepsDates, KeepsReports, Typed, TypeOK

LEMMA StartSyncShape ==
  ASSUME Typed, NEW p \in Procs, NEW a \in Accounts, StartSync(p, a), pc[p] \in {"idle", "cycle"}
  PROVE  KeepsDates /\ KeepsReports
BY DEF StartSync, KeepsDates, KeepsReports, OnlyReported, Typed, TypeOK

LEMMA WorldStands ==
  ASSUME Typed, UNCHANGED world
  PROVE  Grows
BY IntervalsAssumption DEF world, Grows, Typed, TypeOK, Time

LEMMA SyncStands ==
  ASSUME UNCHANGED sync
  PROVE  KeepsDates /\ KeepsReports
BY DEF sync, KeepsDates, KeepsReports

LEMMA SyncShape ==
  ASSUME Typed, NEW p \in Procs, Sync(p)
  PROVE  Shape
<1>1. CASE ListVMs(p)
  <2>1. KeepsDates /\ KeepsReports
    BY <1>1 DEF ListVMs, KeepsDates, KeepsReports, Typed, TypeOK
  <2> QED BY <1>1, <2>1, WorldStands DEF ListVMs, Shape, ops
<1>2. CASE SyncFails(p)
  BY <1>2, ReturnShape, WorldStands DEF SyncFails, Shape
<1>3. CASE LookUp(p)
  <2>1. KeepsDates /\ KeepsReports
    BY <1>3 DEF LookUp, KeepsDates, KeepsReports
  <2> QED BY <1>3, <2>1, WorldStands DEF LookUp, Shape, ops
<1>4. CASE CommitSync(p)
  BY <1>4, SyncStands, WorldStands DEF CommitSync, Shape
<1>5. CASE ClashSwallowed(p)
  BY <1>5, SyncStands, WorldStands DEF ClashSwallowed, Shape, ops
<1>6. CASE CommitStatus(p)
  BY <1>6, ReturnShape, WorldStands DEF CommitStatus, Shape
<1> QED BY <1>1, <1>2, <1>3, <1>4, <1>5, <1>6 DEF Sync, ListFails, ClashRaises

LEMMA NextShape ==
  ASSUME Typed, [Next]_vars
  PROVE  Shape
<1>1. CASE Tick
  <2>1. Grows
    BY <1>1, IntervalsAssumption DEF Tick, Grows, Typed, TypeOK, Time
  <2> QED BY <1>1, <2>1, SyncStands DEF Tick, Shape, ops
<1>2. ASSUME NEW v \in VMs, PowerChanges(v) PROVE Shape
  <2>1. Grows
    BY <1>2, IntervalsAssumption DEF PowerChanges, Grows, Typed, TypeOK, Time
  <2> QED BY <1>2, <2>1, SyncStands DEF PowerChanges, Shape, ops
<1>3. CASE CollectNext
  <2>1. PICK a \in listed : StartSync(Collector, a)
    BY <1>3 DEF CollectNext
  <2>2. a \in Accounts /\ Collector \in Procs /\ pc[Collector] = "cycle"
    BY <1>3 DEF CollectNext, Procs, Typed, TypeOK
  <2> QED BY <1>3, <2>1, <2>2, StartSyncShape, WorldStands DEF CollectNext, Shape, ops
<1>4. CASE StartCycle \/ SkipPlaceholder \/ EndCycle \/ CycleAborts
  BY <1>4, SyncStands, WorldStands
     DEF StartCycle, SkipPlaceholder, EndCycle, CycleAborts, Shape, ops
<1>5. ASSUME NEW h \in Handlers, SyncRequest(h) PROVE Shape
  <2>1. h \in Procs /\ pc[h] = "idle"
    BY <1>5 DEF SyncRequest, Ask, Procs
  <2> QED BY <1>5, <2>1, StartSyncShape, WorldStands DEF SyncRequest, Shape, ops
<1>6. ASSUME NEW h \in Handlers, EditRequest(h) PROVE Shape
  BY <1>6, SyncStands, WorldStands DEF EditRequest, Shape
<1>7. ASSUME NEW p \in Procs, Crash(p) PROVE Shape
  <2>1. KeepsDates /\ KeepsReports
    BY <1>7 DEF Crash, KeepsDates, KeepsReports, Typed, TypeOK
  <2> QED BY <1>7, <2>1, WorldStands DEF Crash, Shape, ops
<1>8. CASE UNCHANGED vars
  BY <1>8, SyncStands, WorldStands DEF vars, Shape, ops
<1> QED BY <1>1, <1>2, <1>3, <1>4, <1>5, <1>6, <1>7, <1>8, SyncShape DEF Next

-----------------------------------------------------------------------------
(* Blocks do not overlap *)

(* All dates are buckets of the one interval, and the unique key of          *)
(* power_samples admits one sample of a VM for each.                         *)
OnBuckets == (\A p \in Procs : at[p] \in Buckets) /\ \A s \in samples : s.at \in Buckets

OnePerBucket == \A s, r \in samples : s.vm = r.vm /\ s.at = r.at => s = r

LEMMA ZeroIsBucket == 0 \in Buckets
<1>1. 0 = 0 * CollectorInterval
  BY IntervalsAssumption
<1> QED BY <1>1 DEF Buckets

LEMMA NextOnBuckets ==
  ASSUME OneSetting, Typed, OnBuckets, [Next]_vars
  PROVE  OnBuckets'
<1>1. \A p \in Procs : FloorToBucket(now, Interval(p)) \in Buckets
  <2>1. now \in Int
    BY IntervalsAssumption DEF Typed, TypeOK, Time
  <2> QED BY <2>1, FloorIsBucket DEF Interval, OneSetting
<1>2. \A p \in Procs : at'[p] \in Buckets
  BY <1>1, NextShape, ZeroIsBucket DEF Shape, KeepsDates, OnBuckets
<1>3. CASE UNCHANGED samples
  BY <1>2, <1>3 DEF OnBuckets
<1>4. ASSUME NEW p \in Procs, CommitSync(p) PROVE OnBuckets'
  BY <1>2, <1>4 DEF CommitSync, NewSamples, OnBuckets
<1> QED BY <1>3, <1>4, NextShape DEF Shape

LEMMA NextOnePerBucket ==
  ASSUME Typed, OnePerBucket, [Next]_vars
  PROVE  OnePerBucket'
<1>1. CASE UNCHANGED samples
  BY <1>1 DEF OnePerBucket
<1>2. ASSUME NEW p \in Procs, CommitSync(p) PROVE OnePerBucket'
  <2>1. \A s \in NewSamples(p) : s.vm \in missing[p] /\ s.at = at[p]
                                 /\ s = [vm |-> s.vm, at |-> at[p], power |-> report[p][s.vm]]
    BY DEF NewSamples
  <2>2. \A s \in NewSamples(p), r \in samples : ~ (s.vm = r.vm /\ s.at = r.at)
    BY <1>2, <2>1 DEF CommitSync, SampleClash, Already
  <2>3. \A s, r \in NewSamples(p) : s.vm = r.vm => s = r
    BY <2>1
  <2>4. samples' = samples \cup NewSamples(p)
    BY <1>2 DEF CommitSync
  <2> QED BY <2>2, <2>3, <2>4 DEF OnePerBucket
<1> QED BY <1>1, <1>2, NextShape DEF Shape

(* Where imports and collector use the same interval, and it divides the     *)
(* hour, no VM is billed twice for a minute, however syncs interleave, fail  *)
(* and die (floor_to_bucket; the unique key of power_samples).               *)
THEOREM NoMinuteTwice ==
  ASSUME OneSetting
  PROVE  Spec => []BlocksDisjoint
<1> DEFINE Inv == Typed /\ OnBuckets /\ OnePerBucket
<1>1. Init => Inv
  BY InitTypes, ZeroIsBucket DEF Init, OnBuckets, OnePerBucket
<1>2. Inv /\ [Next]_vars => Inv'
  BY NextTypes, NextOnBuckets, NextOnePerBucket
<1>3. Inv => BlocksDisjoint
  BY BucketsApart DEF OnBuckets, OnePerBucket, BlocksDisjoint
<1> QED BY <1>1, <1>2, <1>3, PTL DEF Spec

-----------------------------------------------------------------------------
(* Nothing is billed that was off all the time *)

(* What is on has been seen on, no block begins in the future, and what a    *)
(* sync was told is on has been on since its block began.                    *)
PowerSeen  == \A v \in VMs : power[v] = "on" => now \in onAt[v]
DatedPast  == \A p \in Procs : at[p] <= now
ReportSeen ==
  \A p \in Procs, v \in VMs : report[p][v] = "on" => \E t \in onAt[v] : t >= at[p]

Seen == PowerSeen /\ DatedPast /\ ReportSeen /\ OnSinceBlockBegan

LEMMA InitSeen == Init => Seen
BY IntervalsAssumption DEF Init, Seen, PowerSeen, DatedPast, ReportSeen, OnSinceBlockBegan, Silence

LEMMA NextPowerSeen ==
  ASSUME Typed, PowerSeen, [Next]_vars
  PROVE  PowerSeen'
<1>1. CASE UNCHANGED world
  BY <1>1 DEF world, PowerSeen
<1>2. CASE Tick
  BY <1>2 DEF Tick, PowerSeen, Typed, TypeOK
<1>3. ASSUME NEW v \in VMs, PowerChanges(v) PROVE PowerSeen'
  BY <1>3 DEF PowerChanges, PowerSeen, Typed, TypeOK
<1> QED BY <1>1, <1>2, <1>3 DEF Next, StartCycle, CollectNext, SkipPlaceholder, EndCycle,
          CycleAborts, SyncRequest, EditRequest, Sync, ListVMs, ListFails, SyncFails, LookUp,
          CommitSync, ClashSwallowed, ClashRaises, CommitStatus, Crash, vars

LEMMA NextSeen ==
  ASSUME Typed, Seen, [Next]_vars
  PROVE  Seen'
<1>1. Shape /\ PowerSeen' /\ Typed'
  BY NextShape, NextPowerSeen, NextTypes DEF Seen
<1>2. now \in Nat /\ now' \in Nat /\ (\A p \in Procs : at[p] \in Nat /\ at'[p] \in Nat)
  BY <1>1, IntervalsAssumption DEF Typed, TypeOK, Time
<1>3. DatedPast'
  <2>1. \A p \in Procs : FloorToBucket(now, Interval(p)) <= now
    BY <1>2, IntervalType, FloorIsPast
  <2> QED BY <1>1, <1>2, <2>1 DEF Shape, KeepsDates, Grows, DatedPast, Seen
<1>4. ReportSeen'
  <2> SUFFICES ASSUME NEW p \in Procs, NEW v \in VMs, report'[p][v] = "on"
               PROVE  \E t \in onAt'[v] : t >= at'[p]
    BY DEF ReportSeen
  <2>1. onAt[v] \subseteq onAt'[v]
    BY <1>1 DEF Shape, Grows
  <2>2. CASE report'[p] = Silence
    BY <2>2 DEF Silence
  <2>3. CASE report'[p] = report[p] /\ at'[p] = at[p]
    BY <2>1, <2>3 DEF Seen, ReportSeen
  <2>4. CASE at'[p] = at[p] /\ power[v] = "on"
    BY <1>2, <2>1, <2>4 DEF Seen, PowerSeen, DatedPast
  <2> QED BY <1>1, <2>2, <2>3, <2>4 DEF Shape, KeepsReports
<1>5. OnSinceBlockBegan'
  <2> SUFFICES ASSUME NEW s \in samples', s.power = "on"
               PROVE  \E t \in onAt'[s.vm] : t >= s.at
    BY DEF OnSinceBlockBegan
  <2>1. CASE s \in samples
    <3>1. s.vm \in VMs
      BY <2>1 DEF Typed, TypeOK, Sample
    <3> QED BY <1>1, <2>1, <3>1 DEF Shape, Grows, Seen, OnSinceBlockBegan
  <2>2. ASSUME NEW p \in Procs, CommitSync(p), s \in NewSamples(p)
        PROVE  \E t \in onAt'[s.vm] : t >= s.at
    <3>1. s.vm \in VMs /\ s.at = at[p] /\ report[p][s.vm] = "on"
      BY <2>2 DEF NewSamples, Typed, TypeOK
    <3>2. onAt' = onAt
      BY <2>2 DEF CommitSync, world
    <3> QED BY <3>1, <3>2 DEF Seen, ReportSeen
  <2> QED BY <1>1, <2>1, <2>2 DEF Shape, CommitSync
<1> QED BY <1>1, <1>3, <1>4, <1>5 DEF Seen

(* A VM is billed for a block only if it has been on at some time since the  *)
(* block began, for any intervals (collect_once_for_account).                *)
THEOREM NeverOffSince == Spec => []OnSinceBlockBegan
<1>1. Init => Typed /\ Seen
  BY InitTypes, InitSeen
<1>2. Typed /\ Seen /\ [Next]_vars => (Typed /\ Seen)'
  BY NextTypes, NextSeen
<1>3. Typed /\ Seen => OnSinceBlockBegan
  BY DEF Seen
<1> QED BY <1>1, <1>2, <1>3, PTL DEF Spec

-----------------------------------------------------------------------------
(* What a sync stores *)

(* A sync reads the VMs of its account only, and keeps nothing for the next. *)
OwnVMs(p) ==
  /\ pc[p] \in {"idle", "cycle", "listing"} => fresh[p] = {}
  /\ pc[p] = "reading" =>
       fresh[p] \subseteq Present(report[p]) /\ \A v \in Present(report[p]) : AccountOf[v] = target[p]

(* What it has looked up is stored or is in its hands; and unless somebody   *)
(* has overtaken it, nobody else has stored what is in its hands.            *)
LookedUp(p) ==
  pc[p] = "reading" /\ p \notin raced =>
    \A v \in Present(report[p]) \ unread[p] :
      (v \in rows \/ v \in fresh[p]) /\ (Already(p, v) \/ v \in missing[p])

Unclashed(p) == pc[p] = "reading" /\ p \notin raced => ~ RowClash(p) /\ ~ SampleClash(p)

StoredAll(p) ==
  pc[p] = "status" /\ p \notin raced => \A v \in Present(report[p]) : v \in rows /\ Already(p, v)

Counted(p) == OwnVMs(p) /\ LookedUp(p) /\ Unclashed(p) /\ StoredAll(p)

Keeps(p) ==
  /\ pc'[p] = pc[p] /\ target'[p] = target[p] /\ at'[p] = at[p] /\ report'[p] = report[p]
  /\ unread'[p] = unread[p] /\ fresh'[p] = fresh[p] /\ missing'[p] = missing[p]

LEMMA SparedIsCounted ==
  ASSUME NEW p \in Procs, Counted(p), Keeps(p), UNCHANGED <<rows, samples>>, p \notin raced' => p \notin raced
  PROVE  Counted(p)'
BY DEF Counted, Keeps, OwnVMs, LookedUp, Unclashed, StoredAll, Already, RowClash, SampleClash, Present

LEMMA DoneIsCounted ==
  ASSUME NEW p \in Procs, pc'[p] \in {"idle", "cycle", "listing"}, fresh'[p] = {}
  PROVE  Counted(p)'
BY DEF Counted, OwnVMs, LookedUp, Unclashed, StoredAll

(* What another sync commits counts: it is of another account, or has        *)
(* overtaken this one.                                                       *)
LEMMA CommitCounted ==
  ASSUME Typed, \A p \in Procs : Counted(p), NEW q \in Procs, CommitSync(q)
  PROVE  \A p \in Procs : Counted(p)'
<1>1. /\ pc[q] = "reading" /\ unread[q] = {} /\ ~ RowClash(q) /\ ~ SampleClash(q)
      /\ rows' = rows \cup fresh[q] /\ samples' = samples \cup NewSamples(q)
      /\ raced' = raced \cup {p \in Procs \ {q} : pc[p] = "reading" /\ target[p] = target[q]}
      /\ UNCHANGED <<target, at, report, unread, fresh, missing>>
      /\ pc' = [pc EXCEPT ![q] = "status"]
  BY DEF CommitSync, sync
<1>2. pc'[q] = "status" /\ \A p \in Procs \ {q} : pc'[p] = pc[p]
  BY <1>1 DEF Typed, TypeOK
<1>3. missing[q] \subseteq Present(report[q]) /\ OwnVMs(q)
  BY DEF Typed, OnlyReported, Counted
<1>4. \A s \in NewSamples(q) : s.vm \in missing[q] /\ s.at = at[q]
  BY DEF NewSamples
<1>5. ASSUME NEW v \in missing[q] PROVE \E s \in NewSamples(q) : s.vm = v /\ s.at = at[q]
  <2> DEFINE s == [vm |-> v, at |-> at[q], power |-> report[q][v]]
  <2>1. s \in NewSamples(q) /\ s.vm = v /\ s.at = at[q]
    BY DEF NewSamples
  <2> QED BY <2>1
<1>6. Counted(q)'
  <2>1. q \notin raced' => q \notin raced
    BY <1>1
  <2>2. ASSUME q \notin raced, NEW v \in Present(report[q]) PROVE v \in rows' /\ Already(q, v)'
    <3>1. (v \in rows \/ v \in fresh[q]) /\ (Already(q, v) \/ v \in missing[q])
      BY <1>1, <2>2 DEF Counted, LookedUp
    <3> QED BY <1>1, <1>5, <3>1 DEF Already
  <2>3. StoredAll(q)'
    BY <1>1, <2>1, <2>2 DEF StoredAll
  <2> QED BY <1>2, <2>3 DEF Counted, OwnVMs, LookedUp, Unclashed
<1>7. ASSUME NEW p \in Procs \ {q} PROVE Counted(p)'
  <2>1. Keeps(p) /\ Counted(p) /\ (p \notin raced' => p \notin raced)
    BY <1>1, <1>2 DEF Keeps
  <2>2. OwnVMs(p)'
    BY <2>1 DEF Counted, Keeps, OwnVMs
  <2>3. LookedUp(p)' /\ StoredAll(p)'
    BY <1>1, <2>1 DEF Counted, Keeps, LookedUp, StoredAll, Already
  <2>4. Unclashed(p)'
    <3> SUFFICES ASSUME pc[p] = "reading", p \notin raced' PROVE ~ RowClash(p)' /\ ~ SampleClash(p)'
      BY <2>1 DEF Unclashed, Keeps
    <3>1. target[p] # target[q] /\ ~ RowClash(p) /\ ~ SampleClash(p)
      BY <1>1, <2>1 DEF Counted, Unclashed
    <3>2. \A v \in Present(report[p]) : AccountOf[v] = target[p]
      BY <2>1 DEF Counted, OwnVMs
    <3>3. \A v \in Present(report[q]) : AccountOf[v] = target[q]
      BY <1>1, <1>3 DEF OwnVMs
    <3>4. fresh[p] \cup missing[p] \subseteq Present(report[p]) /\ fresh[q] \subseteq Present(report[q])
      BY <1>1, <1>3, <2>1 DEF Typed, OnlyReported, Counted, OwnVMs
    <3>5. fresh[p] \cap fresh[q] = {} /\ missing[p] \cap missing[q] = {}
      BY <1>3, <3>1, <3>2, <3>3, <3>4
    <3> QED BY <1>1, <1>4, <3>1, <3>5 DEF RowClash, SampleClash, Already
  <2> QED BY <2>2, <2>3, <2>4 DEF Counted
<1> QED BY <1>6, <1>7

LEMMA ReturnIs ==
  ASSUME Typed, NEW p \in Procs, Return(p)
  PROVE  /\ pc'[p] \in {"idle", "cycle", "listing"} /\ fresh'[p] = {}
         /\ \A q \in Procs \ {p} : Keeps(q)
BY DEF Return, Keeps, Typed, TypeOK

LEMMA StartSyncIs ==
  ASSUME Typed, \A p \in Procs : Counted(p), NEW p \in Procs, NEW a, StartSync(p, a), pc[p] \in {"idle", "cycle"}
  PROVE  /\ pc'[p] \in {"idle", "cycle", "listing"} /\ fresh'[p] = {}
         /\ \A q \in Procs \ {p} : Keeps(q)
BY DEF StartSync, Keeps, Typed, TypeOK, Counted, OwnVMs

LEMMA SyncCounted ==
  ASSUME Typed, \A p \in Procs : Counted(p), NEW p \in Procs, Sync(p)
  PROVE  \A q \in Procs : Counted(q)'
<1>0. ASSUME NEW q \in Procs, \A k \in Procs \ {q} : Keeps(k), UNCHANGED <<rows, samples>>,
             raced \ {q} \subseteq raced', Counted(q)'
      PROVE  \A k \in Procs : Counted(k)'
  BY <1>0, SparedIsCounted
<1>1. CASE ListVMs(p)
  <2>1. /\ pc'[p] = "reading" /\ unread'[p] = Present(report'[p]) /\ fresh'[p] = fresh[p] /\ missing'[p] = missing[p]
        /\ pc[p] = "listing" /\ target'[p] = target[p]
        /\ report'[p] = [v \in VMs |-> IF AccountOf[v] = target[p] THEN power[v] ELSE "absent"]
        /\ \A k \in Procs \ {p} : Keeps(k)
        /\ UNCHANGED <<rows, samples, raced>>
    BY <1>1 DEF ListVMs, Keeps, ops, Typed, TypeOK
  <2>2. fresh[p] = {} /\ missing[p] = {}
    BY <2>1 DEF Counted, OwnVMs, Typed, OnlyReported
  <2>3. \A v \in Present(report'[p]) : AccountOf[v] = target[p]
    BY <2>1 DEF Present
  <2>4. Counted(p)'
    BY <2>1, <2>2, <2>3 DEF Counted, OwnVMs, LookedUp, Unclashed, StoredAll, RowClash, SampleClash
  <2> QED BY <1>0, <2>1, <2>4
<1>2. CASE SyncFails(p)
  BY <1>0, <1>2, ReturnIs, DoneIsCounted DEF SyncFails
<1>3. CASE LookUp(p)
  <2>1. PICK v \in unread[p] :
       /\ unread' = [unread EXCEPT ![p] = @ \ {v}]
       /\ fresh' = IF v \in rows THEN fresh ELSE [fresh EXCEPT ![p] = @ \cup {v}]
       /\ missing' = IF Already(p, v) THEN missing ELSE [missing EXCEPT ![p] = @ \cup {v}]
    BY <1>3 DEF LookUp
  <2>2. /\ pc[p] = "reading" /\ UNCHANGED <<rows, samples, pc, target, at, report, raced>>
        /\ v \in Present(report[p])
    BY <1>3 DEF LookUp, ops, Typed, OnlyReported
  <2>3. /\ unread'[p] = unread[p] \ {v}
        /\ fresh'[p] = IF v \in rows THEN fresh[p] ELSE fresh[p] \cup {v}
        /\ missing'[p] = IF Already(p, v) THEN missing[p] ELSE missing[p] \cup {v}
        /\ \A k \in Procs \ {p} : Keeps(k)
    BY <2>1, <2>2 DEF Typed, TypeOK, Keeps
  <2>4. OwnVMs(p)'
    BY <2>2, <2>3 DEF Counted, OwnVMs
  <2>5. \A u : Already(p, u)' <=> Already(p, u)
    BY <2>2 DEF Already
  <2>6. LookedUp(p)'
    <3> SUFFICES ASSUME p \notin raced, NEW u \in Present(report[p]), u \notin unread'[p]
                 PROVE  (u \in rows \/ u \in fresh'[p]) /\ (Already(p, u) \/ u \in missing'[p])
      BY <2>2, <2>5 DEF LookedUp
    <3> QED BY <2>2, <2>3 DEF Counted, LookedUp
  <2>7. Unclashed(p)'
    BY <2>2, <2>3, <2>5 DEF Counted, Unclashed, RowClash, SampleClash
  <2>8. Counted(p)'
    BY <2>2, <2>4, <2>6, <2>7 DEF Counted, StoredAll
  <2> QED BY <1>0, <2>2, <2>3, <2>8
<1>4. CASE ClashSwallowed(p)
  <2>1. /\ pc[p] = "reading" /\ SampleClash(p) /\ pc'[p] = "status" /\ \A k \in Procs \ {p} : Keeps(k)
        /\ UNCHANGED <<rows, samples, raced>>
    BY <1>4 DEF ClashSwallowed, Keeps, ops, sync, Typed, TypeOK
  <2>2. Counted(p)'
    BY <2>1 DEF Counted, OwnVMs, LookedUp, Unclashed, StoredAll
  <2> QED BY <1>0, <2>1, <2>2
<1>5. CASE CommitStatus(p)
  BY <1>0, <1>5, ReturnIs, DoneIsCounted DEF CommitStatus
<1> QED BY <1>1, <1>2, <1>3, <1>4, <1>5, CommitCounted DEF Sync, ListFails, ClashRaises

LEMMA NextCounted ==
  ASSUME Typed, \A p \in Procs : Counted(p), [Next]_vars
  PROVE  \A p \in Procs : Counted(p)'
<1>0. ASSUME UNCHANGED <<rows, samples, pc, sync, raced>> PROVE \A p \in Procs : Counted(p)'
  BY <1>0, SparedIsCounted DEF sync, Keeps
<1>1. CASE UNCHANGED vars
  BY <1>0, <1>1 DEF vars, ops
<1>2. CASE Tick \/ SkipPlaceholder
  BY <1>0, <1>2 DEF Tick, SkipPlaceholder, ops
<1>3. ASSUME NEW v \in VMs, PowerChanges(v) PROVE \A p \in Procs : Counted(p)'
  BY <1>0, <1>3 DEF PowerChanges, ops
<1>4. ASSUME NEW q \in Procs, \A k \in Procs \ {q} : Keeps(k), UNCHANGED <<rows, samples>>,
             raced \ {q} \subseteq raced', pc'[q] \in {"idle", "cycle", "listing"}, fresh'[q] = {}
      PROVE  \A p \in Procs : Counted(p)'
  BY <1>4, SparedIsCounted, DoneIsCounted
<1>5. CASE StartCycle \/ EndCycle \/ CycleAborts
  <2>1. /\ pc[Collector] \in {"idle", "cycle"} /\ Collector \in Procs
        /\ \E loc \in {"idle", "cycle"} : pc' = [pc EXCEPT ![Collector] = loc]
        /\ UNCHANGED <<rows, samples, sync, raced>>
    BY <1>5 DEF StartCycle, EndCycle, CycleAborts, Sleep, ops, Procs
  <2>2. pc'[Collector] \in {"idle", "cycle", "listing"} /\ fresh'[Collector] = {}
    BY <2>1 DEF Typed, TypeOK, Counted, OwnVMs, sync
  <2>3. \A k \in Procs \ {Collector} : Keeps(k)
    BY <2>1 DEF Keeps, sync, Typed, TypeOK
  <2> QED BY <1>4, <2>1, <2>2, <2>3
<1>6. CASE CollectNext
  <2>1. PICK a \in listed : StartSync(Collector, a)
    BY <1>6 DEF CollectNext
  <2>2. Collector \in Procs /\ pc[Collector] = "cycle" /\ UNCHANGED <<rows, samples, raced>>
    BY <1>6 DEF CollectNext, Procs, ops
  <2> QED BY <1>4, <2>1, <2>2, StartSyncIs
<1>7. ASSUME NEW h \in Handlers, SyncRequest(h) PROVE \A p \in Procs : Counted(p)'
  <2>1. h \in Procs /\ pc[h] = "idle" /\ UNCHANGED <<rows, samples, raced>> /\ \E a \in Accounts : StartSync(h, a)
    BY <1>7 DEF SyncRequest, Ask, Procs, ops
  <2> QED BY <1>4, <2>1, StartSyncIs
<1>8. ASSUME NEW h \in Handlers, EditRequest(h) PROVE \A p \in Procs : Counted(p)'
  BY <1>0, <1>8 DEF EditRequest
<1>9. ASSUME NEW p \in Procs, Crash(p) PROVE \A q \in Procs : Counted(q)'
  <2>1. /\ pc'[p] = "idle" /\ fresh'[p] = {} /\ \A k \in Procs \ {p} : Keeps(k)
        /\ UNCHANGED <<rows, samples>> /\ raced' = raced \ {p}
    BY <1>9 DEF Crash, Keeps, ops, Typed, TypeOK
  <2> QED BY <1>4, <2>1
<1> QED BY <1>1, <1>2, <1>3, <1>5, <1>6, <1>7, <1>8, <1>9, SyncCounted DEF Next

(* A sync that reports success and that no other sync of the account has     *)
(* overtaken has stored a sample of its bucket for every VM it was told of,  *)
(* for any accounts, VMs, workers, failures and crashes: between the answer  *)
(* and the commit every VM is unread, stored or in the sync's hands          *)
(* (LookedUp), and what is in its hands nobody else has stored (Unclashed),  *)
(* so that a clash that is swallowed was a race.                             *)
THEOREM SuccessIsComplete == Spec => UnracedIsComplete
<1> DEFINE Inv == Typed /\ \A p \in Procs : Counted(p)
<1>1. Init => Inv
  <2>1. ASSUME Init PROVE \A p \in Procs : Counted(p)
    BY <2>1 DEF Init, Counted, OwnVMs, LookedUp, Unclashed, StoredAll
  <2> QED BY <2>1, InitTypes
<1>2. Inv /\ [Next]_vars => Inv'
  BY NextTypes, NextCounted
<1>3. ASSUME Inv, [Next]_vars
      PROVE  [\A p \in Procs : CommitStatus(p) /\ p \notin raced =>
                \A v \in VMs : report[p][v] # "absent" =>
                  v \in rows /\ \E s \in samples : s.vm = v /\ s.at = at[p]]_vars
  <2>1. ASSUME NEW p \in Procs, CommitStatus(p), p \notin raced, NEW v \in VMs, report[p][v] # "absent"
        PROVE  v \in rows /\ \E s \in samples : s.vm = v /\ s.at = at[p]
    <3>1. StoredAll(p) /\ pc[p] = "status"
      BY <1>3, <2>1 DEF Counted, CommitStatus
    <3> QED BY <2>1, <3>1 DEF StoredAll, Present, Already
  <2> QED BY <2>1
<1> QED BY <1>1, <1>2, <1>3, PTL DEF Spec, UnracedIsComplete

-----------------------------------------------------------------------------
(* One account's failure is no other's                                      *)

(* Accounts that were never restored stay usable, as stored and as loaded,   *)
(* and the cycle has tried them or still has them on its list.               *)
Isolated ==
  /\ \A a \in Accounts \ Restored : saved[a] = "complete" /\ loaded[a] \in {"complete", "expired"}
  /\ pc[Collector] # "idle" => Accounts \ Restored \subseteq listed \cup attempted

LEMMA NextIsolated ==
  ASSUME Typed, Isolated, [Next]_vars
  PROVE  Isolated'
<1>0. Collector \in Procs
  BY DEF Procs
<1>1. ASSUME UNCHANGED <<saved, listed, loaded, attempted>>, pc'[Collector] = pc[Collector] \/ pc[Collector] # "idle"
      PROVE  Isolated'
  BY <1>1 DEF Isolated
<1>2. CASE UNCHANGED vars
  BY <1>1, <1>2 DEF vars, ops, cycle
<1>3. CASE Tick
  BY <1>1, <1>3 DEF Tick, ops, cycle
<1>4. ASSUME NEW v \in VMs, PowerChanges(v) PROVE Isolated'
  BY <1>1, <1>4 DEF PowerChanges, ops, cycle
<1>5. CASE StartCycle
  BY <1>5 DEF StartCycle, Isolated, ops
<1>6. CASE CollectNext
  BY <1>6 DEF CollectNext, Expired, Isolated, ops
<1>7. CASE SkipPlaceholder
  <2>1. PICK a \in listed : Known(a) = "placeholder" /\ listed' = listed \ {a}
    BY <1>7 DEF SkipPlaceholder
  <2>2. a \notin Accounts \ Restored
    BY <2>1 DEF Isolated, Known
  <2> QED BY <1>7, <2>1, <2>2 DEF SkipPlaceholder, Isolated, ops
<1>8. CASE EndCycle \/ CycleAborts
  BY <1>0, <1>8 DEF EndCycle, CycleAborts, Sleep, Expired, Isolated, ops, Typed, TypeOK
<1>9. ASSUME NEW h \in Handlers, SyncRequest(h) PROVE Isolated'
  <2>1. h # Collector
    BY AccountsAssumption
  <2> QED BY <1>0, <1>1, <1>9, <2>1 DEF SyncRequest, StartSync, ops, cycle, Typed, TypeOK
<1>10. ASSUME NEW h \in Handlers, EditRequest(h) PROVE Isolated'
  <2>1. \A a \in Accounts \ Restored : saved'[a] = "complete"
    BY <1>10 DEF EditRequest, Isolated, Typed, TypeOK
  <2> QED BY <1>10, <2>1 DEF EditRequest, Isolated, cycle
<1>11. ASSUME NEW p \in Procs, Sync(p) PROVE Isolated'
  <2>1. UNCHANGED <<saved, listed, loaded, attempted>>
    BY <1>11 DEF Sync, ListVMs, ListFails, SyncFails, LookUp, CommitSync, ClashSwallowed, ClashRaises, CommitStatus,
                 ops, cycle
  <2>2. pc[p] \in {"listing", "reading", "status"} /\ \A q \in Procs \ {p} : pc'[q] = pc[q]
    BY <1>11 DEF Sync, ListVMs, ListFails, SyncFails, LookUp, CommitSync, ClashSwallowed, ClashRaises, CommitStatus,
                 Return, Typed, TypeOK
  <2> QED BY <1>0, <1>1, <2>1, <2>2
<1>12. ASSUME NEW p \in Procs, Crash(p) PROVE Isolated'
  <2>1. pc'[p] = "idle" /\ (\A q \in Procs \ {p} : pc'[q] = pc[q]) /\ UNCHANGED saved
    BY <1>12 DEF Crash, ops, Typed, TypeOK
  <2>2. IF p = Collector THEN loaded' = Expired ELSE UNCHANGED cycle
    BY <1>12 DEF Crash
  <2> QED BY <1>0, <2>1, <2>2 DEF Isolated, Expired, cycle
<1> QED BY <1>2, <1>3, <1>4, <1>5, <1>6, <1>7, <1>8, <1>9, <1>10, <1>11, <1>12 DEF Next

(* A cycle that ends knowing every account usable or a placeholder has       *)
(* tried all accounts that were usable from the start, whatever fails and    *)
(* whoever edits accounts meanwhile (collect_once).                          *)
THEOREM NoFailureSpreads == Spec => FailuresAreIsolated
<1>1. Init => Typed /\ Isolated
  BY InitTypes, AccountsAssumption DEF Init, Isolated, Expired, Procs
<1>2. Typed /\ Isolated /\ [Next]_vars => (Typed /\ Isolated)'
  BY NextTypes, NextIsolated
<1>3. ASSUME Typed, Isolated, [Next]_vars
      PROVE  [pc[Collector] = "cycle" /\ pc'[Collector] = "idle" /\ crashes' = crashes
                /\ (\A a \in Accounts : Known(a) # "incomplete")
              => Accounts \ Restored \subseteq attempted]_vars
  <2> SUFFICES ASSUME Next, pc[Collector] = "cycle", pc'[Collector] = "idle", crashes' = crashes,
                      \A a \in Accounts : Known(a) # "incomplete"
               PROVE  Accounts \ Restored \subseteq attempted
    BY <1>3
  <2>0. Collector \in Procs /\ crashes \in Nat /\ listed \subseteq Accounts
    BY <1>3, IntervalsAssumption DEF Procs, Typed, TypeOK
  <2>1. EndCycle
    <3>1. ~ Tick /\ ~ SkipPlaceholder /\ ~ StartCycle /\ ~ CollectNext
      BY <1>3, <2>0 DEF Tick, SkipPlaceholder, StartCycle, CollectNext, StartSync, Typed, TypeOK
    <3>2. \A v \in VMs : ~ PowerChanges(v)
      BY DEF PowerChanges
    <3>3. \A h \in Handlers : ~ SyncRequest(h) /\ ~ EditRequest(h)
      BY <1>3, <2>0, AccountsAssumption DEF SyncRequest, EditRequest, StartSync, Typed, TypeOK
    <3>4. \A p \in Procs : ~ Sync(p)
      <4>1. ASSUME NEW p \in Procs, Sync(p) PROVE FALSE
        <5>1. pc[p] \in {"listing", "reading", "status"} /\ \A q \in Procs \ {p} : pc'[q] = pc[q]
          BY <1>3, <4>1 DEF Sync, ListVMs, ListFails, SyncFails, LookUp, CommitSync, ClashSwallowed, ClashRaises,
                     CommitStatus, Return, Typed, TypeOK
        <5> QED BY <2>0, <5>1
      <4> QED BY <4>1
    <3>5. \A p \in Procs : ~ Crash(p)
      BY <2>0 DEF Crash
    <3>6. ~ CycleAborts
      BY <2>0 DEF CycleAborts
    <3> QED BY <3>1, <3>2, <3>3, <3>4, <3>5, <3>6 DEF Next
  <2> QED BY <1>3, <2>1 DEF EndCycle, Isolated
<1> QED BY <1>1, <1>2, <1>3, PTL DEF Spec, FailuresAreIsolated
=============================================================================
