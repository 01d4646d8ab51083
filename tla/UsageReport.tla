------------------------------ MODULE UsageReport ------------------------------
(***************************************************************************)
(* The bill.  A report request computes the usage of projects over the     *)
(* period asked for: the overview of all projects or of a tenant, which    *)
(* does so again over the period of the same length just before, to show   *)
(* the change; the forecast; and the usage of a single project.  For each  *)
(* project it reads the rate card from the Billing DB, then the VMs        *)
(* assigned to the project and their samples from the Operations DB: three *)
(* statements, none in a transaction with another, while administrators    *)
(* change rates, assignments are recomputed and the collector stores       *)
(* samples.                                                                *)
(*                                                                         *)
(* Costs are whole numbers here: a price is multiplied by block_hours and  *)
(* by a weight in the code, and counted in 1/10000 of the price of a block *)
(* here.  Memory is priced and weighted the way vCPUs are and is left out. *)
(***************************************************************************)
EXTENDS Integers, Sequences, FiniteSetsExt

CONSTANTS
  Projects, VMs,
  Tenants, TenantOf,   \* the tenant each project is of
  Cards,         \* the rate cards update_rates may leave behind
  FirstCard,     \* the one every project starts with
  Kinds,         \* what a sample may say of a VM
  Time,          \* the blocks
  Start, End,    \* the period asked for, End excluded
  KST,           \* how many blocks Korean time is ahead of UTC
  Day,           \* blocks in a day
  Nobody, Unknown,
  MaxSamples,    \* bound: samples there can be
  MaxCommits     \* bound: commits that change anything else

Card    == [vcpu : Nat, vdisk : Nat, weighted : BOOLEAN, floor : 0 .. 100]
Kind    == [power : {"on", "off"}, cores : Nat, disk : Nat, usage : Int \cup {Unknown}]

ASSUME PeriodAssumption ==
  /\ Time \subseteq Int /\ Start \in Int /\ End \in Int /\ Start <= End
  /\ KST \in Nat /\ Day \in Nat \ {0}
ASSUME FiniteAssumption == IsFiniteSet(VMs) /\ IsFiniteSet(Time)
ASSUME TenantsAssumption == TenantOf \in [Projects -> Tenants]
ASSUME ValuesAssumption ==
  Cards \subseteq Card /\ FirstCard \in Card /\ Kinds \subseteq Kind
ASSUME BoundsAssumption ==
  MaxSamples \in Nat /\ MaxCommits \in Nat

VARIABLES
  projects, card,                        \* Billing DB
  owner, samples,                        \* Operations DB
  scope,                                 \* the projects a request asks for
  pc, pass, todo, project, rate, found,  \* and where it is
  results,                               \* what it has computed
  commits,                               \* what the bound counts
  billed, owned, quiet           \* history, read by no action

billing == <<projects, card>>
ops     == <<owner, samples>>
report  == <<scope, pc, pass, todo, project, rate, found, results, billed>>
vars    == <<billing, ops, report, commits, owned, quiet>>

Sample == [vm : VMs, at : Time, kind : Kinds]
Passes == {"current", "previous"}
Parts  == {"vcpu", "vdisk"}
Days   == {(t + KST) \div Day : t \in Time}
Cost   == [Parts -> Nat]
Free   == [c \in Parts |-> 0]

TypeOK ==
  /\ projects \subseteq Projects /\ card \in [Projects -> Card]
  /\ owner \in [VMs -> Projects \cup {Nobody}] /\ samples \subseteq Sample
  /\ scope \subseteq Projects
  /\ pc \in {"idle", "next", "vms", "samples", "done"} /\ pass \in Passes
  /\ todo \subseteq Projects /\ project \in Projects \cup {Nobody}
  /\ rate \in [Passes -> [Projects -> Card]] /\ found \subseteq VMs
  /\ results \in [Passes -> [Projects -> [vms : [VMs -> Cost], daily : [Days -> Cost]]]]
  /\ commits \in 0 .. MaxCommits
  /\ billed \in [Passes -> SUBSET (Projects \X Sample)]
  /\ owned \in [VMs -> SUBSET (Projects \cup {Nobody})]
  /\ quiet \in BOOLEAN

-----------------------------------------------------------------------------
(* billing/engine.py                                                        *)

Clamp(low, x, high) == IF x < low THEN low ELSE IF x > high THEN high ELSE x

(* Mutant: usage is not clamped. *)
UnclampedWeight(usage, r) ==
  IF ~ r.weighted \/ usage = Unknown THEN 10000
  ELSE 100 * r.floor + (100 - r.floor) * usage

(* _usage_weight, in 1/10000: full price unless usage is known and counts. *)
UsageWeight(usage, r) ==
  IF ~ r.weighted \/ usage = Unknown THEN 10000
  ELSE 100 * r.floor + (100 - r.floor) * Clamp(0, usage, 100)

CostOfBlock(k, r) ==
  [c \in Parts |->
     IF c = "vcpu" THEN k.cores * r.vcpu * UsageWeight(k.usage, r) ELSE k.disk * r.vdisk * 10000]

(* Mutant: the daily cost forgets the usage weights. *)
FlatCost(k, r) ==
  [c \in Parts |-> IF c = "vcpu" THEN k.cores * r.vcpu * 10000 ELSE k.disk * r.vdisk * 10000]

DailyCostOf(k, r) == CostOfBlock(k, r)

(* accumulate_sample passes over a block the VM was off in. *)
Charged(S) == {s \in S : s.kind.power = "on"}

(* What accumulate_sample adds up, given the cost of each block. *)
Total(cost) == [c \in Parts |-> SumFunction([s \in DOMAIN cost |-> cost[s][c]])]

-----------------------------------------------------------------------------
(* billing/aggregator.py                                                    *)

From(ps) == IF ps = "current" THEN Start ELSE Start - (End - Start)
To(ps)   == IF ps = "current" THEN End ELSE Start

(* Mutant: both ends of the period are included. *)
InClosedPeriod(s, ps) == From(ps) <= s.at /\ s.at <= To(ps)

InPeriod(s, ps) == From(ps) <= s.at /\ s.at < To(ps)

(* The day of a block, in Korea. *)
DayOf(t) == (t + KST) \div Day

SamplesOf(V, ps) == {s \in samples : s.vm \in V /\ InPeriod(s, ps)}

(* The loop over the samples of one project: a total for every VM and one    *)
(* for every day.                                                            *)
Usage(S, r) ==
  [vms   |-> [v \in VMs |->
     Total([s \in {s \in Charged(S) : s.vm = v} |-> CostOfBlock(s.kind, r)])],
   daily |-> [d \in Days |->
     Total([s \in {s \in Charged(S) : DayOf(s.at) = d} |-> DailyCostOf(s.kind, r)])]]

NoUsage == Usage({}, FirstCard)

-----------------------------------------------------------------------------
ZeroCard == [vcpu |-> 0, vdisk |-> 0, weighted |-> FALSE, floor |-> 30]

Init ==
  /\ projects = Projects /\ card = [p \in Projects |-> FirstCard]
  /\ owner \in [VMs -> Projects \cup {Nobody}]
  /\ samples = {}
  /\ scope = {}
  /\ pc = "idle" /\ pass = "current" /\ todo = {} /\ project = Nobody
  /\ rate = [ps \in Passes |-> [p \in Projects |-> ZeroCard]] /\ found = {}
  /\ results = [ps \in Passes |-> [p \in Projects |-> NoUsage]]
  /\ commits = 0
  /\ billed = [ps \in Passes |-> {}]
  /\ owned = [v \in VMs |-> {owner[v]}] /\ quiet = TRUE

-----------------------------------------------------------------------------
(* What goes on around the request.  quiet: nothing has been committed       *)
(* since the request began.                                                  *)

Disturb == quiet' = (quiet /\ pc = "idle")

(* collect_once_for_account stores a block; blocks may arrive late. *)
StoreSample ==
  /\ Cardinality(samples) < MaxSamples
  /\ \E v \in VMs, t \in Time, k \in Kinds :
       /\ \A s \in samples : s.vm = v => s.at # t
       /\ samples' = samples \cup {[vm |-> v, at |-> t, kind |-> k]}
  /\ Disturb
  /\ UNCHANGED <<billing, owner, report, commits, owned>>

(* A commit of recompute_project_assignments or unassign_project_vms: any    *)
(* VMs move.                                                                 *)
Reassign ==
  /\ commits < MaxCommits /\ commits' = commits + 1
  /\ owner' \in [VMs -> projects \cup {Nobody}] /\ owner' # owner
  /\ owned' = [v \in VMs |-> owned[v] \cup {owner'[v]}]
  /\ Disturb
  /\ UNCHANGED <<billing, samples, report>>

(* delete_tenant_project commits: the rate card goes along. *)
DeleteProject(p) ==
  /\ commits < MaxCommits /\ commits' = commits + 1
  /\ p \in projects /\ projects' = projects \ {p}
  /\ card' = [card EXCEPT ![p] = ZeroCard]
  /\ Disturb
  /\ UNCHANGED <<ops, report, owned>>

(* update_rates commits. *)
SetRates(p) ==
  /\ commits < MaxCommits /\ commits' = commits + 1
  /\ p \in projects /\ card' \in {[card EXCEPT ![p] = c] : c \in Cards \ {card[p]}}
  /\ Disturb
  /\ UNCHANGED <<projects, ops, report, owned>>

-----------------------------------------------------------------------------
(* The request.                                                             *)

(* A member of a tenant sees the projects of that tenant, an administrator   *)
(* may ask for those of any tenant or for all.                               *)
Scopes == {Projects} \cup {{p \in Projects : TenantOf[p] = t} : t \in Tenants}

(* The first statement of compute_all_projects_usage lists the projects.     *)
Ask(S) ==
  /\ pc = "idle"
  /\ scope' = S
  /\ pc' = "next" /\ todo' = projects \cap S
  /\ owned' = [v \in VMs |-> {owner[v]}]
  /\ UNCHANGED <<billing, ops, pass, project, rate, found, results, billed, commits, quiet>>

(* An overview or a forecast: they differ in what follows. *)
StartReport == \E S \in Scopes : Ask(S)

StartUsage == \E p \in projects : Ask({p})

(* compute_project_usage begins by loading the rate card.  A project that    *)
(* was deleted in between has none and is billed at zero.  In the second     *)
(* pass the card of the first one may still be in the session.               *)
ReadCard ==
  /\ pc = "next"
  /\ \E p \in todo :
       /\ project' = p /\ todo' = todo \ {p}
       /\ rate' \in {[rate EXCEPT ![pass][p] = c] :
                       c \in {card[p]} \cup (IF pass = "previous" THEN {rate["current"][p]} ELSE {})}
  /\ pc' = "vms"
  /\ UNCHANGED <<billing, ops, scope, pass, found, results, billed, commits, owned, quiet>>

(* Mutant: the filter on the project is lost. *)
VMsOfAny(p) == {v \in VMs : owner[v] # Nobody}

VMsOf(p) == {v \in VMs : owner[v] = p}

(* get_vms_for_project *)
ReadVMs ==
  /\ pc = "vms"
  /\ found' = VMsOf(project)
  /\ pc' = "samples"
  /\ UNCHANGED <<billing, ops, scope, pass, todo, project, rate, results, billed, commits, owned, quiet>>

(* The samples, and what the loop over them makes of them. *)
ReadSamples ==
  /\ pc = "samples"
  /\ LET S == SamplesOf(found, pass) IN
       /\ results' = [results EXCEPT ![pass][project] = Usage(S, rate[pass][project])]
       /\ billed' = [billed EXCEPT ![pass] =
                       @ \cup {<<project, s>> : s \in Charged(S)}]
  /\ found' = {} /\ project' = Nobody /\ pc' = "next"
  /\ UNCHANGED <<billing, ops, scope, pass, todo, rate, commits, owned, quiet>>

(* Mutant: the filter on the tenant is not handed on. *)
AnyTenant == Projects

Compared == scope

(* An overview goes on to period_over_period_change, which lists the         *)
(* projects anew.                                                            *)
NextPass ==
  /\ pc = "next" /\ todo = {} /\ pass = "current" /\ scope \in Scopes
  /\ pass' = "previous" /\ todo' = projects \cap Compared
  /\ UNCHANGED <<billing, ops, scope, pc, project, rate, found, results, billed, commits, owned, quiet>>

Done ==
  /\ pc = "next" /\ todo = {}
  /\ pc' = "done"
  /\ UNCHANGED <<billing, ops, scope, pass, todo, project, rate, found, results, billed, commits,
                 owned, quiet>>

EndOverview == pass = "previous" /\ Done

(* A forecast, of which Calendar has the rest, or the usage of a project. *)
EndForecast == pass = "current" /\ Done

Request ==
  \/ StartReport \/ StartUsage \/ ReadCard \/ ReadVMs \/ ReadSamples \/ NextPass \/ EndOverview \/ EndForecast

Next ==
  \/ StoreSample \/ Reassign \/ \E p \in Projects : DeleteProject(p) \/ SetRates(p)
  \/ Request

Spec == Init /\ [][Next]_vars

-----------------------------------------------------------------------------
(* Properties                                                               *)

(* A project is billed for a VM only if the VM was assigned to it at some    *)
(* time during the request (compute_project_usage, get_vms_for_project), and *)
(* it is a project the request asked for, also in the period compared with.  *)
BilledWasOwned ==
  \A ps \in Passes : \A x \in billed[ps] : x[1] \in owned[x[2].vm] /\ x[1] \in scope

(* The two periods compared share no block: what is billed now is not also   *)
(* counted in the period before (period_over_period_change; half-open        *)
(* sampled_at >= start and < end).                                           *)
PeriodsAbut ==
  \A x \in billed["current"], y \in billed["previous"] : x[2] # y[2]

(* The chart by day and the table by VM of a project, summed on their own,   *)
(* show the same money, whatever was committed while they were computed.     *)
DailyAddsUp ==
  \A ps \in Passes, p \in Projects, c \in Parts :
    SumFunction([v \in VMs |-> results[ps][p].vms[v][c]])
      = SumFunction([d \in Days |-> results[ps][p].daily[d][c]])

(* The price of a block under the flat tariff, its weight one. *)
Flat(k, r) == [vcpu |-> k.cores * r.vcpu * 10000, vdisk |-> k.disk * r.vdisk * 10000]

(* Weighting never makes a VM dearer than the flat tariff and never cheaper  *)
(* than its floor, and storage is never weighted (engine.py: floor).         *)
WeightsAreBounded ==
  \A ps \in Passes, p \in Projects :
    LET r == rate[ps][p]
        on == {x[2] : x \in {x \in billed[ps] : x[1] = p}}
        flat(c) == SumFunction([s \in on |-> Flat(s.kind, r)[c]])
        got(c)  == SumFunction([v \in VMs |-> results[ps][p].vms[v][c]])
    IN  /\ got("vdisk") = flat("vdisk")
        /\ 100 * got("vcpu") <= 100 * flat("vcpu")
        /\ 100 * got("vcpu") >= (IF r.weighted THEN r.floor ELSE 100) * flat("vcpu")

(* What is due for a period: every block of a VM of a project asked for, in  *)
(* the period and on, once, to the project that owns the VM.                 *)
Due(ps) ==
  {<<owner[s.vm], s>> : s \in {s \in samples :
     owner[s.vm] \in projects \cap scope /\ s.kind.power = "on" /\ From(ps) <= s.at /\ s.at < To(ps)}}

(* A report since whose beginning nothing has been committed bills what is   *)
(* due to the projects it asks for, in both periods of an overview and at    *)
(* the present rates: nothing twice, nothing missing, and no VM to a project *)
(* that is not its own (compute_all_projects_usage).                         *)
QuietReportIsExact ==
  pc = "done" /\ quiet =>
    \A ps \in {"current", pass} :
      /\ billed[ps] = Due(ps)
      /\ \A v \in VMs, p \in projects :
           results[ps][p].vms[v] =
             LET S == {x[2] : x \in {x \in Due(ps) : x[1] = p /\ x[2].vm = v}}
             IN  Total([s \in S |-> CostOfBlock(s.kind, card[p])])
=============================================================================
