--------------------------- MODULE UsageReportProofs ---------------------------
(***************************************************************************)
(* What holds of UsageReport for any projects, tenants, VMs, tariffs,      *)
(* samples and periods.  Whom a block is billed to does not depend on what *)
(* it costs: Held types what that needs and Founded is what a request has  *)
(* in hand between its statements, a project that was asked for and VMs    *)
(* that were that project's.  Calm adds rates and results, for a report    *)
(* nothing is committed under.  Books says what the results add up to,     *)
(* whatever is committed: the usage of the blocks billed so far.  The      *)
(* lemmas on sums that it rests on are stated before it.                   *)
(***************************************************************************)
EXTENDS UsageReport, FiniteSetTheorems, WellFoundedInduction, TLAPS

Held ==
  /\ projects \subseteq Projects
  /\ owner \in [VMs -> Projects \cup {Nobody}]
  /\ owned \in [VMs -> SUBSET (Projects \cup {Nobody})]
  /\ samples \subseteq Sample
  /\ pass \in Passes /\ scope \subseteq Projects /\ todo \subseteq scope /\ found \subseteq VMs
  /\ billed \in [Passes -> SUBSET (Projects \X Sample)]

(* Today's owner is one of the owners since the request began. *)
OwnedNow == \A v \in VMs : owner[v] \in owned[v]

InHand ==
  /\ pc \in {"vms", "samples"} => project \in scope
  /\ pc = "samples" => \A v \in found : project \in owned[v]

NothingYet == pc = "idle" => \A ps \in Passes : billed[ps] = {}

InTheirPeriod == \A ps \in Passes : \A x \in billed[ps] : InPeriod(x[2], ps)

Founded == OwnedNow /\ InHand /\ NothingYet /\ BilledWasOwned /\ InTheirPeriod

LEMMA InitHolds == Init => Held /\ Founded
<1> SUFFICES ASSUME Init PROVE Held /\ Founded
  OBVIOUS
<1>1. Held
  BY DEF Init, Held, Passes
<1>2. OwnedNow /\ InHand
  BY DEF Init, OwnedNow, InHand
<1>3. NothingYet /\ BilledWasOwned /\ InTheirPeriod
  BY DEF Init, NothingYet, BilledWasOwned, InTheirPeriod
<1> QED BY <1>1, <1>2, <1>3 DEF Founded

(* What others commit: a VM's owners since the request began can only become *)
(* more, and the request keeps what it has in hand.                          *)
LEMMA OthersHold ==
  ASSUME Held, Founded, UNCHANGED report, projects' \subseteq projects, samples' \subseteq Sample,
         \/ UNCHANGED <<owner, owned>>
         \/ /\ owner' \in [VMs -> projects \cup {Nobody}]
            /\ owned' = [v \in VMs |-> owned[v] \cup {owner'[v]}]
  PROVE  (Held /\ Founded)'
<1>1. Held'
  BY DEF Held, report
<1>2. \A v \in VMs : owned[v] \subseteq owned'[v]
  BY DEF Held
<1>3. OwnedNow'
  BY DEF Held, Founded, OwnedNow
<1>4. InHand'
  BY <1>2 DEF Held, Founded, InHand, report
<1>5. NothingYet'
  BY DEF Founded, NothingYet, report
<1>6. BilledWasOwned'
  <2> SUFFICES ASSUME NEW ps \in Passes, NEW x \in billed[ps]
               PROVE  x[1] \in owned'[x[2].vm] /\ x[1] \in scope
    BY DEF BilledWasOwned, report
  <2>1. x[2].vm \in VMs
    BY DEF Held, Sample
  <2> QED BY <1>2, <2>1 DEF Founded, BilledWasOwned
<1>7. InTheirPeriod'
  BY DEF Founded, InTheirPeriod, InPeriod, From, To, report
<1> QED BY <1>1, <1>3, <1>4, <1>5, <1>6, <1>7 DEF Founded

(* Steps of the request that bill nothing and leave the owners alone. *)
LEMMA MovesOn ==
  ASSUME Held, Founded, UNCHANGED <<billing, ops, scope, billed, owned>>, pass' \in Passes,
         todo' \subseteq scope, found' \subseteq VMs, InHand', pc' # "idle"
  PROVE  (Held /\ Founded)'
<1>1. Held'
  BY DEF Held, billing, ops
<1>2. OwnedNow' /\ NothingYet'
  BY DEF Founded, OwnedNow, NothingYet, ops
<1>3. BilledWasOwned' /\ InTheirPeriod'
  BY DEF Founded, BilledWasOwned, InTheirPeriod, InPeriod, From, To
<1> QED BY <1>1, <1>2, <1>3 DEF Founded

LEMMA StoreSampleHolds ==
  ASSUME Held, Founded, StoreSample
  PROVE  (Held /\ Founded)'
<1>1. samples' \subseteq Sample
  BY DEF StoreSample, Held, Sample
<1> QED BY <1>1, OthersHold DEF StoreSample, billing

LEMMA AskHolds ==
  ASSUME Held, Founded, NEW S \in SUBSET Projects, Ask(S)
  PROVE  (Held /\ Founded)'
<1>1. Held'
  BY DEF Ask, Held, billing, ops
<1>2. OwnedNow' /\ InHand' /\ NothingYet'
  BY DEF Ask, Held, ops, OwnedNow, InHand, NothingYet
<1>3. \A ps \in Passes : billed'[ps] = {}
  BY DEF Ask, Founded, NothingYet
<1>4. BilledWasOwned' /\ InTheirPeriod'
  BY <1>3 DEF BilledWasOwned, InTheirPeriod
<1> QED BY <1>1, <1>2, <1>4 DEF Founded

LEMMA ReadSamplesHolds ==
  ASSUME Held, Founded, ReadSamples
  PROVE  (Held /\ Founded)'
<1> DEFINE S == SamplesOf(found, pass)
           new == {<<project, s>> : s \in Charged(S)}
<1>1. pc = "samples" /\ pc' = "next" /\ found' = {} /\ UNCHANGED <<billing, ops, scope, pass, todo, owned>>
  BY DEF ReadSamples
<1>2. billed' = [billed EXCEPT ![pass] = @ \cup new]
  BY DEF ReadSamples
<1>3. project \in scope /\ project \in Projects /\ \A v \in found : project \in owned[v]
  BY <1>1 DEF Founded, InHand, Held
<1>4. ASSUME NEW x \in new
      PROVE  /\ x \in Projects \X Sample /\ x[1] \in scope
             /\ x[1] \in owned[x[2].vm] /\ InPeriod(x[2], pass)
  <2>1. PICK s \in S : x = <<project, s>>
    BY DEF Charged
  <2>2. s \in Sample /\ s.vm \in found /\ InPeriod(s, pass)
    BY DEF SamplesOf, Held
  <2> QED BY <1>3, <2>1, <2>2
<1> HIDE DEF new
<1>5. Held'
  BY <1>1, <1>2, <1>4 DEF Held, billing, ops
<1>6. OwnedNow' /\ InHand' /\ NothingYet'
  BY <1>1 DEF Founded, OwnedNow, InHand, NothingYet, ops
<1>7. ASSUME NEW ps \in Passes, NEW x \in billed'[ps]
      PROVE  x[1] \in scope /\ x[1] \in owned[x[2].vm] /\ InPeriod(x[2], ps)
  <2>1. CASE x \in billed[ps]
    BY <2>1 DEF Founded, BilledWasOwned, InTheirPeriod
  <2>2. CASE x \notin billed[ps]
    <3>1. ps = pass /\ x \in new
      BY <1>2, <1>7, <2>2 DEF Held
    <3> QED BY <1>4, <3>1
  <2> QED BY <2>1, <2>2
<1>8. BilledWasOwned' /\ InTheirPeriod'
  BY <1>1, <1>7 DEF BilledWasOwned, InTheirPeriod, InPeriod, From, To
<1> QED BY <1>5, <1>6, <1>8 DEF Founded

LEMMA RequestHolds ==
  ASSUME Held, Founded, Request
  PROVE  (Held /\ Founded)'
<1>1. CASE StartReport
  <2>1. PICK S \in Scopes : Ask(S)
    BY <1>1 DEF StartReport
  <2>2. S \in SUBSET Projects
    BY DEF Scopes
  <2> QED BY <2>1, <2>2, AskHolds
<1>2. CASE StartUsage
  <2>1. PICK p \in projects : Ask({p})
    BY <1>2 DEF StartUsage
  <2>2. {p} \in SUBSET Projects
    BY DEF Held
  <2> QED BY <2>1, <2>2, AskHolds
<1>3. CASE ReadCard
  <2>1. PICK p \in todo : project' = p /\ todo' = todo \ {p}
    BY <1>3 DEF ReadCard
  <2>2. InHand'
    BY <1>3, <2>1 DEF ReadCard, InHand, Held
  <2> QED BY <1>3, <2>1, <2>2, MovesOn DEF ReadCard, Held
<1>4. CASE ReadVMs
  <2>1. \A v \in found' : v \in VMs /\ owner[v] = project
    BY <1>4 DEF ReadVMs, VMsOf
  <2>2. InHand'
    BY <1>4, <2>1 DEF ReadVMs, InHand, Founded, OwnedNow
  <2> QED BY <1>4, <2>1, <2>2, MovesOn DEF ReadVMs, Held
<1>5. CASE ReadSamples
  BY <1>5, ReadSamplesHolds
<1>6. CASE NextPass
  <2>1. InHand'
    BY <1>6 DEF NextPass, InHand
  <2>2. todo' \subseteq scope /\ pass' \in Passes
    BY <1>6 DEF NextPass, Compared, Passes
  <2> QED BY <1>6, <2>1, <2>2, MovesOn DEF NextPass, Held
<1>7. CASE Done
  <2>1. InHand'
    BY <1>7 DEF Done, InHand
  <2> QED BY <1>7, <2>1, MovesOn DEF Done, Held
<1> QED BY <1>1, <1>2, <1>3, <1>4, <1>5, <1>6, <1>7 DEF Request, EndOverview, EndForecast

LEMMA NextHolds ==
  ASSUME Held, Founded, [Next]_vars
  PROVE  (Held /\ Founded)'
<1>1. CASE StoreSample
  BY <1>1, StoreSampleHolds
<1>2. CASE Reassign
  BY <1>2, OthersHold DEF Reassign, Held, billing
<1>3. CASE \E p \in Projects : DeleteProject(p) \/ SetRates(p)
  BY <1>3, OthersHold DEF DeleteProject, SetRates, Held, ops
<1>4. CASE Request
  BY <1>4, RequestHolds
<1>5. CASE UNCHANGED vars
  BY <1>5, OthersHold DEF vars, Held, billing, ops
<1> QED BY <1>1, <1>2, <1>3, <1>4, <1>5 DEF Next

(* Whatever overlaps a request, a project is billed only if it was asked for *)
(* and only for VMs that were its own meanwhile (compute_project_usage,      *)
(* period_over_period_change).                                               *)
THEOREM OnlyOwnersAreBilled == Spec => []BilledWasOwned
<1>1. Held /\ Founded => BilledWasOwned
  BY DEF Founded
<1> QED BY <1>1, InitHolds, NextHolds, PTL DEF Spec

LEMMA NoCommonBlock ==
  ASSUME Held, Founded
  PROVE  PeriodsAbut
<1> SUFFICES ASSUME NEW x \in billed["current"], NEW y \in billed["previous"], x[2] = y[2]
             PROVE  FALSE
  BY DEF PeriodsAbut
<1>1. "current" \in Passes /\ "previous" \in Passes
  BY DEF Passes
<1>2. x[2] \in Sample
  BY <1>1 DEF Held
<1>3. x[2].at \in Int /\ Start \in Int
  BY <1>2, PeriodAssumption DEF Sample
<1>4. InPeriod(x[2], "current") /\ InPeriod(y[2], "previous")
  BY <1>1 DEF Founded, InTheirPeriod
<1> QED BY <1>3, <1>4 DEF InPeriod, From, To

(* No block is billed in a period and in the period it is compared with, for *)
(* any periods (compute_project_usage, period_over_period_change).           *)
THEOREM NoBlockIsComparedWithItself == Spec => []PeriodsAbut
<1>1. Held /\ Founded => PeriodsAbut
  BY NoCommonBlock
<1> QED BY <1>1, InitHolds, NextHolds, PTL DEF Spec

-----------------------------------------------------------------------------
(* A report nothing is committed under.                                     *)
(*                                                                          *)
(* No total is computed for this: two totals are the same when they are over*)
(* the same blocks at the same costs.  What a step of such a report leaves  *)
(* exact is the part of the answer it has come to, Settled.                 *)

Shaped ==
  /\ results = [ps \in Passes |-> [p \in Projects |-> results[ps][p]]]
  /\ rate = [ps \in Passes |-> [p \in Projects |-> rate[ps][p]]]

Fresh ==
  pc = "idle" =>
    /\ scope = {} /\ pass = "current"
    /\ \A ps \in Passes, p \in Projects : results[ps][p] = NoUsage

Ended == pc = "done" => todo = {}

AtHand(p) == pc \in {"vms", "samples"} /\ p = project

(* The projects whose usage over a period has been computed. *)
Settled(ps) ==
  {p \in projects \cap scope :
     \/ ps = pass /\ p \notin todo /\ ~ AtHand(p)
     \/ ps = "current" /\ pass = "previous"}

DueFrom(ps, p, v) == {x[2] : x \in {x \in Due(ps) : x[1] = p /\ x[2].vm = v}}

Charge(ps, p, v) == Total([s \in DueFrom(ps, p, v) |-> CostOfBlock(s.kind, card[p])])

ReadSoFar ==
  /\ todo \subseteq projects
  /\ \A p \in Projects : AtHand(p) => p \in projects \ todo /\ rate[pass][p] = card[p]
  /\ pc = "samples" => found = VMsOf(project)

SettledSoFar ==
  \A ps \in Passes :
    /\ billed[ps] = {x \in Due(ps) : x[1] \in Settled(ps)}
    /\ \A p \in Settled(ps) : rate[ps][p] = card[p]
    /\ \A p \in Settled(ps), v \in VMs : results[ps][p].vms[v] = Charge(ps, p, v)
    /\ \A p \in Projects \ Settled(ps) : results[ps][p] = NoUsage

Quietly == quiet /\ pc # "idle" => ReadSoFar /\ SettledSoFar

Calm == Shaped /\ Fresh /\ Ended /\ Quietly

LEMMA InitIsCalm == Init => Calm
<1> SUFFICES ASSUME Init PROVE Calm
  OBVIOUS
<1>1. Shaped
  BY DEF Init, Shaped
<1>2. Fresh /\ Ended /\ Quietly
  BY DEF Init, Fresh, Ended, Quietly
<1> QED BY <1>1, <1>2 DEF Calm

(* Whoever commits something ends the quiet of a request under way. *)
LEMMA DisturbIsCalm ==
  ASSUME Calm, UNCHANGED report, Disturb
  PROVE  Calm'
<1>1. Shaped' /\ Ended'
  BY DEF Calm, Shaped, Ended, report
<1>2. Fresh'
  BY DEF Calm, Fresh, report
<1>3. Quietly'
  BY DEF Quietly, Disturb, report
<1> QED BY <1>1, <1>2, <1>3 DEF Calm

(* Steps that leave the databases alone leave alone what is due. *)
LEMMA DueStays ==
  ASSUME UNCHANGED <<billing, ops, scope>>
  PROVE  /\ \A ps : Due(ps)' = Due(ps)
         /\ \A ps, p, v : Charge(ps, p, v)' = Charge(ps, p, v)
<1>1. \A ps : Due(ps)' = Due(ps)
  BY DEF Due, From, To, billing, ops
<1>2. \A ps, p, v : DueFrom(ps, p, v)' = DueFrom(ps, p, v)
  BY <1>1 DEF DueFrom
<1>3. card' = card
  BY DEF billing
<1>4. ASSUME NEW ps, NEW p, NEW v
      PROVE  Charge(ps, p, v)' = Charge(ps, p, v)
  <2>1. DueFrom(ps, p, v)' = DueFrom(ps, p, v)
    BY <1>2
  <2> QED BY <1>3, <2>1 DEF Charge
<1> QED BY <1>1, <1>4

(* What a project is charged for a VM and a period, if its VMs have been     *)
(* read and its tariff is today's.                                           *)
LEMMA UsageIsExact ==
  ASSUME Held, NEW p \in projects \cap scope, NEW ps \in Passes, NEW v \in VMs
  PROVE  Usage(SamplesOf(VMsOf(p), ps), card[p]).vms[v] = Charge(ps, p, v)
<1> DEFINE read == {s \in Charged(SamplesOf(VMsOf(p), ps)) : s.vm = v}
<1>1. \A s \in samples : s.vm \in VMs
  BY DEF Held, Sample
<1>2. \A s : s \in read <=> /\ s \in samples /\ owner[s.vm] = p /\ s.kind.power = "on"
                            /\ From(ps) <= s.at /\ s.at < To(ps) /\ s.vm = v
  BY <1>1 DEF SamplesOf, VMsOf, InPeriod, Charged
<1>3. \A s : s \in DueFrom(ps, p, v) <=>
               /\ s \in samples /\ owner[s.vm] = p /\ s.kind.power = "on"
               /\ From(ps) <= s.at /\ s.at < To(ps) /\ s.vm = v
  <2> SUFFICES ASSUME NEW s
               PROVE  s \in DueFrom(ps, p, v) <=>
                        /\ s \in samples /\ owner[s.vm] = p /\ s.kind.power = "on"
                        /\ From(ps) <= s.at /\ s.at < To(ps) /\ s.vm = v
    OBVIOUS
  <2>1. ASSUME s \in DueFrom(ps, p, v)
        PROVE  /\ s \in samples /\ owner[s.vm] = p /\ s.kind.power = "on"
               /\ From(ps) <= s.at /\ s.at < To(ps) /\ s.vm = v
    <3>1. PICK x \in Due(ps) : x[1] = p /\ x[2].vm = v /\ s = x[2]
      BY <2>1 DEF DueFrom
    <3> QED BY <3>1 DEF Due
  <2>2. ASSUME s \in samples, owner[s.vm] = p, s.kind.power = "on",
               From(ps) <= s.at, s.at < To(ps), s.vm = v
        PROVE  s \in DueFrom(ps, p, v)
    <3>1. <<p, s>> \in Due(ps)
      BY <2>2 DEF Due
    <3> QED BY <2>2, <3>1 DEF DueFrom
  <2> QED BY <2>1, <2>2
<1>4. read = DueFrom(ps, p, v)
  BY <1>2, <1>3
<1>5. Usage(SamplesOf(VMsOf(p), ps), card[p]).vms[v] = Total([s \in read |-> CostOfBlock(s.kind, card[p])])
  BY DEF Usage
<1> QED BY <1>4, <1>5 DEF Charge

(* What is due from a project. *)
LEMMA DueOfProject ==
  ASSUME Held, NEW p \in projects \cap scope, NEW ps \in Passes
  PROVE  {<<p, s>> : s \in Charged(SamplesOf(VMsOf(p), ps))} = {x \in Due(ps) : x[1] = p}
<1>1. \A s \in samples : s.vm \in VMs
  BY DEF Held, Sample
<1>2. \A s : s \in Charged(SamplesOf(VMsOf(p), ps)) <=>
               /\ s \in samples /\ owner[s.vm] = p /\ s.kind.power = "on"
               /\ From(ps) <= s.at /\ s.at < To(ps)
  BY <1>1 DEF SamplesOf, VMsOf, InPeriod, Charged
<1>3. ASSUME NEW x \in Due(ps), x[1] = p
      PROVE  \E s \in Charged(SamplesOf(VMsOf(p), ps)) : x = <<p, s>>
  BY <1>2, <1>3 DEF Due
<1>4. ASSUME NEW s \in Charged(SamplesOf(VMsOf(p), ps))
      PROVE  <<p, s>> \in Due(ps)
  BY <1>2, <1>4 DEF Due
<1> QED BY <1>3, <1>4

(* A project nothing is asked of is charged nothing. *)
LEMMA NothingDue ==
  ASSUME NEW p, p \notin projects \cap scope, NEW ps, NEW v \in VMs
  PROVE  NoUsage.vms[v] = Charge(ps, p, v)
<1> DEFINE none == {s \in Charged({}) : s.vm = v}
<1>1. none = {}
  BY DEF Charged
<1>2. DueFrom(ps, p, v) = {}
  BY DEF DueFrom, Due
<1>3. [s \in none |-> CostOfBlock(s.kind, FirstCard)]
        = [s \in DueFrom(ps, p, v) |-> CostOfBlock(s.kind, card[p])]
  BY <1>1, <1>2
<1>4. NoUsage.vms[v] = Total([s \in none |-> CostOfBlock(s.kind, FirstCard)])
  BY DEF NoUsage, Usage
<1> QED BY <1>3, <1>4 DEF Charge

LEMMA AskIsCalm ==
  ASSUME Held, Founded, Calm, NEW S \in SUBSET Projects, Ask(S)
  PROVE  Calm'
<1>1. /\ pc = "idle" /\ pc' = "next" /\ scope' = S /\ todo' = projects \cap S /\ projects' = projects
      /\ UNCHANGED <<billing, ops, pass, rate, results, billed, quiet>>
  BY DEF Ask, billing
<1>2. Shaped' /\ Fresh' /\ Ended'
  BY <1>1 DEF Calm, Shaped, Fresh, Ended
<1>3. pass = "current" /\ \A ps \in Passes : billed[ps] = {} /\ \A p \in Projects : results[ps][p] = NoUsage
  BY <1>1 DEF Calm, Fresh, Founded, NothingYet
<1>4. \A ps \in Passes : Settled(ps)' = {}
  BY <1>1, <1>3 DEF Settled, AtHand
<1>5. ReadSoFar'
  BY <1>1 DEF ReadSoFar, AtHand
<1>6. SettledSoFar'
  BY <1>1, <1>3, <1>4 DEF SettledSoFar
<1> QED BY <1>2, <1>5, <1>6 DEF Calm, Quietly

(* The databases, what is settled and what is known of it stay.              *)
LEMMA SettledStays ==
  ASSUME UNCHANGED <<billing, ops, scope, results, billed>>, SettledSoFar,
         \A ps \in Passes : Settled(ps)' = Settled(ps),
         \A ps \in Passes : \A p \in Settled(ps) : rate'[ps][p] = rate[ps][p]
  PROVE  SettledSoFar'
<1>1. /\ \A ps : Due(ps)' = Due(ps)
      /\ \A ps, p, v : Charge(ps, p, v)' = Charge(ps, p, v)
  BY DueStays
<1> SUFFICES ASSUME NEW ps \in Passes
             PROVE  /\ billed'[ps] = {x \in Due(ps)' : x[1] \in Settled(ps)'}
                    /\ \A p \in Settled(ps)' : rate'[ps][p] = card'[p]
                    /\ \A p \in Settled(ps)', v \in VMs : results'[ps][p].vms[v] = Charge(ps, p, v)'
                    /\ \A p \in Projects \ Settled(ps)' : results'[ps][p] = NoUsage
  BY DEF SettledSoFar
<1>2. billed'[ps] = {x \in Due(ps)' : x[1] \in Settled(ps)'}
  BY <1>1 DEF SettledSoFar
<1>3. \A p \in Settled(ps)' : rate'[ps][p] = card'[p]
  BY DEF SettledSoFar, billing
<1>4. \A p \in Settled(ps)', v \in VMs : results'[ps][p].vms[v] = Charge(ps, p, v)'
  BY <1>1 DEF SettledSoFar
<1>5. \A p \in Projects \ Settled(ps)' : results'[ps][p] = NoUsage
  BY DEF SettledSoFar
<1> QED BY <1>2, <1>3, <1>4, <1>5

(* What is left to show of a step of a request under way.                    *)
LEMMA CalmOnTheWay ==
  ASSUME Shaped', Ended', pc' # "idle", quiet' = quiet,
         quiet => (ReadSoFar /\ SettledSoFar)'
  PROVE  Calm'
BY DEF Calm, Fresh, Quietly

LEMMA ReadCardIsCalm ==
  ASSUME Held, Founded, Calm, ReadCard
  PROVE  Calm'
<1>1. PICK p \in todo :
        /\ project' = p /\ todo' = todo \ {p}
        /\ rate' \in {[rate EXCEPT ![pass][p] = c] :
                        c \in {card[p]} \cup (IF pass = "previous" THEN {rate["current"][p]} ELSE {})}
  BY DEF ReadCard
<1>2. /\ pc = "next" /\ pc' = "vms"
      /\ UNCHANGED <<billing, ops, scope, pass, found, results, billed, quiet>>
  BY DEF ReadCard
<1>3. PICK c \in {card[p]} \cup (IF pass = "previous" THEN {rate["current"][p]} ELSE {}) :
        rate' = [rate EXCEPT ![pass][p] = c]
  BY <1>1
<1>4. p \in Projects /\ p \in scope /\ pass \in Passes /\ Shaped
  BY DEF Held, Calm
<1>5. /\ rate'[pass][p] = c
      /\ \A ps \in Passes, q \in Projects : ps # pass \/ q # p => rate'[ps][q] = rate[ps][q]
  BY <1>3, <1>4 DEF Shaped
<1>6. Shaped'
  BY <1>2, <1>3, <1>4 DEF Shaped
<1>7. ASSUME quiet
      PROVE  ReadSoFar' /\ SettledSoFar'
  <2>1. ReadSoFar /\ SettledSoFar
    BY <1>2, <1>7 DEF Calm, Quietly
  <2>2. p \in projects
    BY <2>1 DEF ReadSoFar
  <2>3. ASSUME NEW ps \in Passes
        PROVE  Settled(ps)' = Settled(ps) /\ (ps = pass => p \notin Settled(ps))
    BY <1>1, <1>2 DEF Settled, AtHand, billing
  <2>4. pass = "previous" => p \in Settled("current")
    BY <1>4, <2>2 DEF Settled
  <2>5. c = card[p]
    <3>1. "current" \in Passes
      BY DEF Passes
    <3> QED BY <1>3, <2>1, <2>4, <3>1 DEF SettledSoFar
  <2>6. ReadSoFar'
    BY <1>1, <1>2, <1>5, <2>1, <2>2, <2>5 DEF ReadSoFar, AtHand, billing
  <2>7. \A ps \in Passes : \A q \in Settled(ps) : q \in Projects
    BY DEF Settled, Held
  <2>8. \A ps \in Passes : \A q \in Settled(ps) : rate'[ps][q] = rate[ps][q]
    BY <1>5, <2>3, <2>7
  <2> QED BY <1>2, <2>1, <2>3, <2>6, <2>8, SettledStays
<1> QED BY <1>2, <1>6, <1>7, CalmOnTheWay DEF Ended

LEMMA ReadVMsIsCalm ==
  ASSUME Held, Calm, ReadVMs
  PROVE  Calm'
<1>1. /\ pc = "vms" /\ pc' = "samples" /\ found' = VMsOf(project)
      /\ UNCHANGED <<billing, ops, scope, pass, todo, project, rate, results, billed, quiet>>
  BY DEF ReadVMs
<1>2. Shaped'
  BY <1>1 DEF Shaped, Calm
<1>3. ASSUME quiet
      PROVE  ReadSoFar' /\ SettledSoFar'
  <2>1. ReadSoFar /\ SettledSoFar
    BY <1>1, <1>3 DEF Calm, Quietly
  <2>2. \A ps \in Passes : Settled(ps)' = Settled(ps)
    BY <1>1 DEF Settled, AtHand, billing
  <2>3. VMsOf(project)' = VMsOf(project)
    BY <1>1 DEF VMsOf, ops
  <2>4. ReadSoFar'
    BY <1>1, <2>1, <2>3 DEF ReadSoFar, AtHand, billing
  <2> QED BY <1>1, <2>1, <2>2, <2>4, SettledStays
<1> QED BY <1>1, <1>2, <1>3, CalmOnTheWay DEF Ended

LEMMA NextPassIsCalm ==
  ASSUME Held, Calm, NextPass
  PROVE  Calm'
<1>1. /\ pc = "next" /\ todo = {} /\ pass = "current" /\ pass' = "previous" /\ todo' = projects \cap scope
      /\ UNCHANGED <<billing, ops, scope, pc, project, rate, found, results, billed, quiet>>
  BY DEF NextPass, Compared
<1>2. Shaped'
  BY <1>1 DEF Shaped, Calm
<1>3. ASSUME quiet
      PROVE  ReadSoFar' /\ SettledSoFar'
  <2>1. SettledSoFar
    BY <1>1, <1>3 DEF Calm, Quietly
  <2>2. ASSUME NEW ps \in Passes
        PROVE  Settled(ps)' = Settled(ps)
    BY <1>1 DEF Settled, AtHand, billing, Passes
  <2>3. ReadSoFar'
    BY <1>1 DEF ReadSoFar, AtHand, billing
  <2> QED BY <1>1, <2>1, <2>2, <2>3, SettledStays
<1> QED BY <1>1, <1>2, <1>3, CalmOnTheWay DEF Ended

LEMMA DoneIsCalm ==
  ASSUME Calm, Done
  PROVE  Calm'
<1>1. /\ pc = "next" /\ todo = {} /\ pc' = "done"
      /\ UNCHANGED <<billing, ops, scope, pass, todo, project, rate, found, results, billed, quiet>>
  BY DEF Done
<1>2. Shaped' /\ Ended'
  BY <1>1 DEF Shaped, Calm, Ended
<1>3. ASSUME quiet
      PROVE  ReadSoFar' /\ SettledSoFar'
  <2>1. SettledSoFar
    BY <1>1, <1>3 DEF Calm, Quietly
  <2>2. ASSUME NEW ps \in Passes
        PROVE  Settled(ps)' = Settled(ps)
    BY <1>1 DEF Settled, AtHand, billing
  <2>3. ReadSoFar'
    BY <1>1 DEF ReadSoFar, AtHand, billing
  <2> QED BY <1>1, <2>1, <2>2, <2>3, SettledStays
<1> QED BY <1>1, <1>2, <1>3, CalmOnTheWay

LEMMA ReadSamplesIsCalm ==
  ASSUME Held, Founded, Calm, ReadSamples
  PROVE  Calm'
<1> DEFINE usage == Usage(SamplesOf(found, pass), rate[pass][project])
           new   == {<<project, s>> : s \in Charged(SamplesOf(found, pass))}
<1>1. /\ pc = "samples" /\ pc' = "next"
      /\ UNCHANGED <<billing, ops, scope, pass, todo, rate, quiet>>
  BY DEF ReadSamples
<1>2. results' = [results EXCEPT ![pass][project] = usage]
  BY DEF ReadSamples
<1>3. billed' = [billed EXCEPT ![pass] = @ \cup new]
  BY DEF ReadSamples
<1>4. project \in scope /\ project \in Projects /\ pass \in Passes /\ Shaped /\ AtHand(project)
  BY <1>1 DEF Held, Founded, InHand, Calm, AtHand
<1> HIDE DEF usage, new
<1>5. /\ results'[pass][project] = usage
      /\ \A ps \in Passes, q \in Projects : ps # pass \/ q # project => results'[ps][q] = results[ps][q]
  BY <1>2, <1>4 DEF Shaped
<1>6. billed'[pass] = billed[pass] \cup new /\ \A ps \in Passes : ps # pass => billed'[ps] = billed[ps]
  BY <1>3, <1>4 DEF Held
<1>7. Shaped'
  BY <1>1, <1>2, <1>4 DEF Shaped
<1>8. ASSUME quiet
      PROVE  ReadSoFar' /\ SettledSoFar'
  <2>1. ReadSoFar /\ SettledSoFar
    BY <1>1, <1>8 DEF Calm, Quietly
  <2>2. /\ project \in projects /\ project \notin todo /\ rate[pass][project] = card[project]
        /\ found = VMsOf(project)
    BY <1>1, <1>4, <2>1 DEF ReadSoFar
  <2>3. ReadSoFar'
    BY <1>1, <2>1 DEF ReadSoFar, AtHand, billing
  <2>4. \A ps \in Passes : ps = pass => Settled(ps)' = Settled(ps) \cup {project}
    BY <1>1, <1>4, <2>2 DEF Settled, AtHand, billing
  <2>5. \A ps \in Passes : ps # pass => Settled(ps)' = Settled(ps)
    BY <1>1 DEF Settled, AtHand, billing
  <2>6. /\ \A ps : Due(ps)' = Due(ps)
        /\ \A ps, p, v : Charge(ps, p, v)' = Charge(ps, p, v)
    BY <1>1, DueStays
  <2>7. new = {x \in Due(pass) : x[1] = project}
    BY <1>4, <2>2, DueOfProject DEF new
  <2>8. \A v \in VMs : usage.vms[v] = Charge(pass, project, v)
    BY <1>4, <2>2, UsageIsExact DEF usage
  <2>9. ASSUME NEW ps \in Passes
        PROVE  /\ billed'[ps] = {x \in Due(ps)' : x[1] \in Settled(ps)'}
               /\ \A p \in Settled(ps)' : rate'[ps][p] = card'[p]
               /\ \A p \in Settled(ps)', v \in VMs : results'[ps][p].vms[v] = Charge(ps, p, v)'
               /\ \A p \in Projects \ Settled(ps)' : results'[ps][p] = NoUsage
    <3>1. \A p \in Settled(ps) : p \in Projects
      BY DEF Settled, Held
    <3>2. rate' = rate /\ card' = card
      BY <1>1 DEF billing
    <3>3. CASE ps = pass
      <4>1. billed'[ps] = {x \in Due(ps)' : x[1] \in Settled(ps)'}
        BY <1>6, <2>1, <2>4, <2>6, <2>7, <3>3 DEF SettledSoFar
      <4>2. \A p \in Settled(ps)' : rate'[ps][p] = card'[p]
        BY <2>1, <2>2, <2>4, <3>2, <3>3 DEF SettledSoFar
      <4>3. ASSUME NEW p \in Settled(ps)', NEW v \in VMs
            PROVE  results'[ps][p].vms[v] = Charge(ps, p, v)'
        <5>1. CASE p = project
          BY <1>5, <2>6, <2>8, <3>3, <5>1
        <5>2. CASE p # project
          <6>1. p \in Settled(ps) /\ p \in Projects
            BY <2>4, <3>1, <3>3, <5>2
          <6>2. results[ps][p].vms[v] = Charge(ps, p, v)
            BY <2>1, <6>1 DEF SettledSoFar
          <6> QED BY <1>5, <2>6, <5>2, <6>1, <6>2
        <5> QED BY <5>1, <5>2
      <4>4. \A p \in Projects \ Settled(ps)' : results'[ps][p] = NoUsage
        BY <1>5, <2>1, <2>4, <3>3 DEF SettledSoFar
      <4> QED BY <4>1, <4>2, <4>3, <4>4
    <3>4. CASE ps # pass
      <4>1. Settled(ps)' = Settled(ps) /\ billed'[ps] = billed[ps]
        BY <1>6, <2>5, <3>4
      <4>2. billed'[ps] = {x \in Due(ps)' : x[1] \in Settled(ps)'}
        BY <2>1, <2>6, <4>1 DEF SettledSoFar
      <4>3. \A p \in Settled(ps)' : rate'[ps][p] = card'[p]
        BY <2>1, <3>2, <4>1 DEF SettledSoFar
      <4>4. ASSUME NEW p \in Settled(ps)', NEW v \in VMs
            PROVE  results'[ps][p].vms[v] = Charge(ps, p, v)'
        <5>1. p \in Settled(ps) /\ p \in Projects
          BY <3>1, <4>1
        <5>2. results[ps][p].vms[v] = Charge(ps, p, v)
          BY <2>1, <5>1 DEF SettledSoFar
        <5> QED BY <1>5, <2>6, <3>4, <5>1, <5>2
      <4>5. \A p \in Projects \ Settled(ps)' : results'[ps][p] = NoUsage
        BY <1>5, <2>1, <3>4, <4>1 DEF SettledSoFar
      <4> QED BY <4>2, <4>3, <4>4, <4>5
    <3> QED BY <3>3, <3>4
  <2>10. SettledSoFar'
    BY <2>9 DEF SettledSoFar
  <2> QED BY <2>3, <2>10
<1> QED BY <1>1, <1>7, <1>8, CalmOnTheWay DEF Ended

LEMMA NextIsCalm ==
  ASSUME Held, Founded, Calm, [Next]_vars
  PROVE  Calm'
<1>1. CASE StoreSample
  BY <1>1, DisturbIsCalm DEF StoreSample
<1>2. CASE Reassign
  BY <1>2, DisturbIsCalm DEF Reassign
<1>3. CASE \E p \in Projects : DeleteProject(p) \/ SetRates(p)
  BY <1>3, DisturbIsCalm DEF DeleteProject, SetRates
<1>4. CASE Request
  <2>1. CASE StartReport
    <3>1. PICK S \in Scopes : Ask(S)
      BY <2>1 DEF StartReport
    <3>2. S \in SUBSET Projects
      BY DEF Scopes
    <3> QED BY <3>1, <3>2, AskIsCalm
  <2>2. CASE StartUsage
    <3>1. PICK p \in projects : Ask({p})
      BY <2>2 DEF StartUsage
    <3>2. {p} \in SUBSET Projects
      BY DEF Held
    <3> QED BY <3>1, <3>2, AskIsCalm
  <2>3. CASE ReadCard
    BY <2>3, ReadCardIsCalm
  <2>4. CASE ReadVMs
    BY <2>4, ReadVMsIsCalm
  <2>5. CASE ReadSamples
    BY <2>5, ReadSamplesIsCalm
  <2>6. CASE NextPass
    BY <2>6, NextPassIsCalm
  <2>7. CASE Done
    BY <2>7, DoneIsCalm
  <2> QED BY <1>4, <2>1, <2>2, <2>3, <2>4, <2>5, <2>6, <2>7 DEF Request, EndOverview, EndForecast
<1>5. CASE UNCHANGED vars
  <2>1. Shaped' /\ Fresh' /\ Ended'
    BY <1>5 DEF vars, report, Calm, Shaped, Fresh, Ended
  <2>2. ASSUME quiet, pc # "idle"
        PROVE  ReadSoFar' /\ SettledSoFar'
    <3>1. ReadSoFar /\ SettledSoFar
      BY <2>2 DEF Calm, Quietly
    <3>2. \A ps \in Passes : Settled(ps)' = Settled(ps)
      BY <1>5 DEF vars, report, billing, Settled, AtHand
    <3>3. ReadSoFar'
      BY <1>5, <3>1 DEF vars, report, billing, ops, ReadSoFar, AtHand, VMsOf
    <3> QED BY <1>5, <3>1, <3>2, <3>3, SettledStays DEF vars, report
  <2> QED BY <1>5, <2>1, <2>2 DEF Calm, Quietly, vars, report
<1> QED BY <1>1, <1>2, <1>3, <1>4, <1>5 DEF Next

LEMMA CalmIsExact ==
  ASSUME Held, Calm
  PROVE  QuietReportIsExact
<1> SUFFICES ASSUME pc = "done", quiet, NEW ps \in {"current", pass}
             PROVE  /\ billed[ps] = Due(ps)
                    /\ \A v \in VMs, p \in projects : results[ps][p].vms[v] = Charge(ps, p, v)
  BY DEF QuietReportIsExact, Charge, DueFrom
<1>1. SettledSoFar /\ todo = {} /\ ps \in Passes /\ projects \subseteq Projects
  BY DEF Calm, Quietly, Ended, Held, Passes
<1>2. Settled(ps) = projects \cap scope
  BY <1>1 DEF Settled, AtHand, Held, Passes
<1>3. billed[ps] = Due(ps)
  <2>1. \A x \in Due(ps) : x[1] \in projects \cap scope
    BY DEF Due
  <2> QED BY <1>1, <1>2, <2>1 DEF SettledSoFar
<1>4. ASSUME NEW v \in VMs, NEW p \in projects
      PROVE  results[ps][p].vms[v] = Charge(ps, p, v)
  <2>1. CASE p \in scope
    BY <1>1, <1>2, <2>1 DEF SettledSoFar
  <2>2. CASE p \notin scope
    BY <1>1, <1>2, <2>2, NothingDue DEF SettledSoFar
  <2> QED BY <2>1, <2>2
<1> QED BY <1>3, <1>4

(* A report that nothing is committed under bills, in both periods, exactly   *)
(* the blocks that are due and at today's tariffs, for any projects, VMs,     *)
(* samples and tariffs (compute_all_projects_usage).                          *)
THEOREM QuietReportsAreExact == Spec => []QuietReportIsExact
<1>1. Init => Held /\ Founded /\ Calm
  BY InitHolds, InitIsCalm
<1>2. Held /\ Founded /\ Calm /\ [Next]_vars => (Held /\ Founded /\ Calm)'
  BY NextHolds, NextIsCalm
<1>3. Held /\ Founded /\ Calm => QuietReportIsExact
  BY CalmIsExact
<1> QED BY <1>1, <1>2, <1>3, PTL DEF Spec

-----------------------------------------------------------------------------
(* Sums.  SumFunctionOnSet takes the members of a set one after the other,   *)
(* as CHOOSE picks them.  That its recursion has a solution, and that the    *)
(* order makes no difference, is shown here by smallest counterexamples.     *)

pick(T) == CHOOSE x \in T : TRUE

(* h is a solution of the recursion on the subsets of T. *)
IsSum(g, T, h) == h = [U \in SUBSET T |-> IF U = {} THEN 0 ELSE g[pick(U)] + h[U \ {pick(U)}]]

Sum(g, T) == SumFunctionOnSet(g, T)

LEMMA SumIs ==
  ASSUME NEW g, NEW T
  PROVE  Sum(g, T) = (CHOOSE h : IsSum(g, T, h))[T]
BY DEF Sum, SumFunctionOnSet, FoldFunctionOnSet, MapThenFoldSet, IsSum, pick

(* A nonempty family of finite sets has a smallest member: what an           *)
(* induction over the size of a set comes down to.                           *)
LEMMA SmallestExists ==
  ASSUME NEW S, IsFiniteSet(S), NEW F \in SUBSET SUBSET S, F # {}
  PROVE  \E T \in F : \A U \in F : U \subseteq T => U = T
<1>1. IsWellFoundedOn(StrictSubsetOrdering(S), SUBSET S)
  BY FS_StrictSubsetOrderingWellFounded, FS_FiniteSubsetsOfFinite
<1>2. PICK T \in F : \A U \in F : ~ (<<U, T>> \in StrictSubsetOrdering(S))
  BY <1>1, WFMin, Zenon
<1>3. \A U \in F : U \subseteq T => U = T
  BY <1>2 DEF StrictSubsetOrdering
<1> QED BY <1>3

LEMMA PickIsMember == ASSUME NEW T, T # {} PROVE pick(T) \in T
BY DEF pick

LEMMA SumOf ==
  ASSUME NEW g, NEW T, NEW h, IsSum(g, T, h), NEW U \in SUBSET T
  PROVE  h[U] = IF U = {} THEN 0 ELSE g[pick(U)] + h[U \ {pick(U)}]
<1>1. [V \in SUBSET T |-> IF V = {} THEN 0 ELSE g[pick(V)] + h[V \ {pick(V)}]][U]
        = IF U = {} THEN 0 ELSE g[pick(U)] + h[U \ {pick(U)}]
  OBVIOUS
<1> QED BY <1>1 DEF IsSum

(* Two solutions of the recursion agree where both are defined. *)
LEMMA SumsAgree ==
  ASSUME NEW g, NEW X, NEW Y, IsFiniteSet(X), NEW h, NEW k, IsSum(g, X, h), IsSum(g, Y, k),
         NEW U \in SUBSET (X \cap Y)
  PROVE  h[U] = k[U]
<1> DEFINE Bad == {V \in SUBSET (X \cap Y) : h[V] # k[V]}
<1> SUFFICES ASSUME U \in Bad PROVE FALSE
  OBVIOUS
<1>1. Bad \in SUBSET SUBSET X /\ Bad # {}
  OBVIOUS
<1>2. PICK V \in Bad : \A W \in Bad : W \subseteq V => W = V
  <2> HIDE DEF Bad
  <2> QED BY <1>1, SmallestExists
<1>3. V \in SUBSET X /\ V \in SUBSET Y /\ h[V] # k[V]
  OBVIOUS
<1>4. V # {}
  <2>1. V = {} => h[V] = 0 /\ k[V] = 0
    BY <1>3, SumOf
  <2> QED BY <1>3, <2>1
<1>5. pick(V) \in V
  BY <1>4, PickIsMember
<1>6. V \ {pick(V)} \in SUBSET (X \cap Y) /\ V \ {pick(V)} \notin Bad
  BY <1>2, <1>3, <1>5
<1>7. h[V \ {pick(V)}] = k[V \ {pick(V)}]
  BY <1>6
<1> QED BY <1>3, <1>4, <1>7, SumOf

(* It has one on every finite set: put together from those of the subsets.   *)
LEMMA SumExists ==
  ASSUME NEW g, NEW S, IsFiniteSet(S)
  PROVE  \E h : IsSum(g, S, h)
<1> DEFINE Bad == {T \in SUBSET S : ~ \E h : IsSum(g, T, h)}
<1> SUFFICES ASSUME S \in Bad PROVE FALSE
  OBVIOUS
<1>0. Bad \in SUBSET SUBSET S /\ Bad # {}
  OBVIOUS
<1>1. PICK T \in Bad : \A U \in Bad : U \subseteq T => U = T
  <2> HIDE DEF Bad
  <2> QED BY <1>0, SmallestExists
<1> DEFINE s(U) == CHOOSE h : IsSum(g, U, h)
           H == [U \in SUBSET T |-> IF U = {} THEN 0 ELSE g[pick(U)] + s(U \ {pick(U)})[U \ {pick(U)}]]
<1>2. T \in SUBSET S /\ ~ \E h : IsSum(g, T, h)
  OBVIOUS
<1>3. ASSUME NEW U \in SUBSET T, U # T
      PROVE  IsSum(g, U, s(U)) /\ IsFiniteSet(U)
  <2>1. U \in SUBSET S /\ U \notin Bad
    BY <1>1, <1>2, <1>3
  <2>2. \E h : IsSum(g, U, h)
    BY <2>1
  <2> QED BY <2>1, <2>2, FS_Subset
<1> HIDE DEF s, Bad
<1>4. ASSUME NEW U \in SUBSET T, U # T
      PROVE  H[U] = s(U)[U]
  <2>1. IsSum(g, U, s(U)) /\ IsFiniteSet(U)
    BY <1>3, <1>4
  <2>2. s(U)[U] = IF U = {} THEN 0 ELSE g[pick(U)] + s(U)[U \ {pick(U)}]
    BY <2>1, SumOf
  <2>3. CASE U = {}
    BY <2>2, <2>3
  <2>4. CASE U # {}
    <3> DEFINE W == U \ {pick(U)}
    <3>1. W \in SUBSET T /\ W # T /\ W \in SUBSET U
      BY <1>4, <2>4, PickIsMember
    <3>2. IsSum(g, W, s(W))
      BY <1>3, <3>1
    <3>3. s(U)[W] = s(W)[W]
      BY <2>1, <3>1, <3>2, SumsAgree
    <3> QED BY <2>2, <2>4, <3>3
  <2> QED BY <2>3, <2>4
<1>5. IsSum(g, T, H)
  <2>1. ASSUME NEW U \in SUBSET T
        PROVE  H[U] = IF U = {} THEN 0 ELSE g[pick(U)] + H[U \ {pick(U)}]
    <3>1. CASE U = {}
      BY <3>1
    <3>2. CASE U # {}
      <4> DEFINE W == U \ {pick(U)}
      <4>1. W \in SUBSET T /\ W # T
        BY <3>2, PickIsMember
      <4>2. H[W] = s(W)[W]
        BY <1>4, <4>1
      <4> QED BY <3>2, <4>2
    <3> QED BY <3>1, <3>2
  <2>2. H = [U \in SUBSET T |-> H[U]]
    OBVIOUS
  <2> HIDE DEF H
  <2>3. [U \in SUBSET T |-> H[U]] = [U \in SUBSET T |-> IF U = {} THEN 0 ELSE g[pick(U)] + H[U \ {pick(U)}]]
    BY <2>1, Zenon
  <2> QED BY <2>2, <2>3 DEF IsSum
<1> QED BY <1>2, <1>5

(* The sum over nothing, and the sum with and without the one picked. *)
LEMMA SumPicked ==
  ASSUME NEW g, NEW T, IsFiniteSet(T)
  PROVE  Sum(g, T) = IF T = {} THEN 0 ELSE g[pick(T)] + Sum(g, T \ {pick(T)})
<1> DEFINE s(U) == CHOOSE h : IsSum(g, U, h)
           W == T \ {pick(T)}
<1>1. ASSUME NEW U \in SUBSET T
      PROVE  IsSum(g, U, s(U)) /\ IsFiniteSet(U) /\ Sum(g, U) = s(U)[U]
  <2>1. IsFiniteSet(U)
    BY FS_Subset
  <2> QED BY <2>1, SumExists, SumIs
<1> HIDE DEF s
<1>2. s(T)[T] = IF T = {} THEN 0 ELSE g[pick(T)] + s(T)[W]
  BY <1>1, SumOf
<1>3. s(T)[W] = s(W)[W]
  BY <1>1, SumsAgree
<1> QED BY <1>1, <1>2, <1>3

LEMMA SumType ==
  ASSUME NEW g, NEW S, IsFiniteSet(S), \A x \in S : g[x] \in Nat
  PROVE  Sum(g, S) \in Nat
<1> DEFINE Bad == {T \in SUBSET S : Sum(g, T) \notin Nat}
<1> SUFFICES ASSUME S \in Bad PROVE FALSE
  OBVIOUS
<1>0. Bad \in SUBSET SUBSET S /\ Bad # {}
  OBVIOUS
<1>1. PICK T \in Bad : \A U \in Bad : U \subseteq T => U = T
  <2> HIDE DEF Bad
  <2> QED BY <1>0, SmallestExists
<1>2. T \in SUBSET S /\ Sum(g, T) \notin Nat /\ IsFiniteSet(T)
  BY FS_Subset
<1>3. T # {}
  <2>1. T = {} => Sum(g, T) = 0
    BY <1>2, SumPicked
  <2> QED BY <1>2, <2>1
<1>4. pick(T) \in T /\ T \ {pick(T)} \notin Bad
  BY <1>1, <1>3, PickIsMember
<1>5. Sum(g, T \ {pick(T)}) \in Nat /\ g[pick(T)] \in Nat
  BY <1>2, <1>4
<1> QED BY <1>2, <1>3, <1>5, SumPicked

(* The sum with and without any member. *)
LEMMA SumStep ==
  ASSUME NEW g, NEW S, IsFiniteSet(S), \A x \in S : g[x] \in Nat, NEW y \in S
  PROVE  Sum(g, S) = g[y] + Sum(g, S \ {y})
<1> DEFINE Bad == {T \in SUBSET S : \E x \in T : Sum(g, T) # g[x] + Sum(g, T \ {x})}
<1> SUFFICES ASSUME S \in Bad PROVE FALSE
  OBVIOUS
<1>0. Bad \in SUBSET SUBSET S /\ Bad # {}
  OBVIOUS
<1>1. PICK T \in Bad : \A U \in Bad : U \subseteq T => U = T
  <2> HIDE DEF Bad
  <2> QED BY <1>0, SmallestExists
<1>2. PICK x \in T : Sum(g, T) # g[x] + Sum(g, T \ {x})
  OBVIOUS
<1>3. T \in SUBSET S
  OBVIOUS
<1>4. ASSUME NEW U \in SUBSET T
      PROVE  IsFiniteSet(U) /\ Sum(g, U) \in Nat
  <2>1. IsFiniteSet(U) /\ \A u \in U : g[u] \in Nat
    BY <1>3, FS_Subset
  <2> QED BY <2>1, SumType
<1> DEFINE p == pick(T)
<1>5. p \in T /\ Sum(g, T) = g[p] + Sum(g, T \ {p}) /\ p # x
  BY <1>2, <1>4, SumPicked, PickIsMember
<1>6. g[p] \in Nat /\ g[x] \in Nat
  BY <1>3, <1>5
<1>7. T \ {p} \notin Bad /\ T \ {x} \notin Bad /\ x \in T \ {p} /\ p \in T \ {x}
  BY <1>1, <1>5
<1> HIDE DEF p
<1>8. Sum(g, T \ {p}) = g[x] + Sum(g, (T \ {p}) \ {x})
  BY <1>3, <1>7
<1>9. Sum(g, T \ {x}) = g[p] + Sum(g, (T \ {x}) \ {p})
  BY <1>3, <1>7
<1>10. (T \ {p}) \ {x} = (T \ {x}) \ {p}
  OBVIOUS
<1>11. Sum(g, (T \ {p}) \ {x}) \in Nat
  BY <1>4
<1> QED BY <1>2, <1>5, <1>6, <1>8, <1>9, <1>10, <1>11

(* Products of natural numbers keep their order. *)
LEMMA TimesMonotone ==
  ASSUME NEW a \in Nat, NEW b \in Nat, NEW q \in Nat, a <= b
  PROVE  q * a \in Nat /\ q * a <= q * b
OBVIOUS

(* Sums keep the order of what is added. *)
LEMMA SumAtMost ==
  ASSUME NEW g, NEW k, NEW S, IsFiniteSet(S), NEW a \in Nat, NEW b \in Nat,
         \A x \in S : g[x] \in Nat /\ k[x] \in Nat /\ a * g[x] <= b * k[x]
  PROVE  a * Sum(g, S) <= b * Sum(k, S)
<1> DEFINE Bad == {T \in SUBSET S : ~ (a * Sum(g, T) <= b * Sum(k, T))}
<1> SUFFICES ASSUME S \in Bad PROVE FALSE
  OBVIOUS
<1>1. Bad \in SUBSET SUBSET S /\ Bad # {}
  OBVIOUS
<1>2. PICK T \in Bad : \A U \in Bad : U \subseteq T => U = T
  <2> HIDE DEF Bad
  <2> QED BY <1>1, SmallestExists
<1>3. T \in SUBSET S /\ IsFiniteSet(T) /\ ~ (a * Sum(g, T) <= b * Sum(k, T))
  BY <1>2, FS_Subset
<1>4. T # {}
  <2>1. T = {} => Sum(g, T) = 0 /\ Sum(k, T) = 0
    BY <1>3, SumPicked
  <2> QED BY <1>3, <2>1
<1> DEFINE p == pick(T)
           U == T \ {p}
<1>5. p \in T
  BY <1>4, PickIsMember
<1>6. U \in SUBSET S /\ U \notin Bad /\ IsFiniteSet(U)
  <2>1. U # T /\ U \subseteq T
    BY <1>5
  <2>2. U \notin Bad
    <3> HIDE DEF Bad
    <3> QED BY <1>2, <2>1
  <2> QED BY <1>3, <2>1, <2>2, FS_Subset
<1>7. a * Sum(g, U) <= b * Sum(k, U)
  BY <1>6
<1>8. Sum(g, U) \in Nat /\ Sum(k, U) \in Nat
  <2>1. \A x \in U : g[x] \in Nat /\ k[x] \in Nat
    BY <1>6
  <2> QED BY <1>6, <2>1, SumType
<1>9. g[p] \in Nat /\ k[p] \in Nat /\ a * g[p] <= b * k[p]
  BY <1>3, <1>5
<1>10. Sum(g, T) = g[p] + Sum(g, U) /\ Sum(k, T) = k[p] + Sum(k, U)
  BY <1>3, <1>4, SumPicked
<1>11. \A c, m, n \in Nat : c * (m + n) = c * m + c * n /\ c * m \in Nat
  OBVIOUS
<1>12. a * Sum(g, T) = a * g[p] + a * Sum(g, U) /\ b * Sum(k, T) = b * k[p] + b * Sum(k, U)
  BY <1>8, <1>9, <1>10, <1>11
<1>13. a * g[p] \in Nat /\ a * Sum(g, U) \in Nat /\ b * k[p] \in Nat /\ b * Sum(k, U) \in Nat
  BY <1>8, <1>9, <1>11
<1> HIDE DEF p, U
<1>14. \A i, j, m, n \in Nat : i <= m /\ j <= n => i + j <= m + n
  OBVIOUS
<1>15. a * g[p] + a * Sum(g, U) <= b * k[p] + b * Sum(k, U)
  BY <1>7, <1>9, <1>13, <1>14
<1> QED BY <1>3, <1>12, <1>15

LEMMA SumAlike ==
  ASSUME NEW g, NEW k, NEW S, IsFiniteSet(S), \A x \in S : g[x] \in Nat /\ g[x] = k[x]
  PROVE  Sum(g, S) = Sum(k, S)
<1>1. \A x \in S : g[x] \in Nat /\ k[x] \in Nat /\ 1 * g[x] <= 1 * k[x] /\ 1 * k[x] <= 1 * g[x]
  OBVIOUS
<1>2. 1 * Sum(g, S) <= 1 * Sum(k, S)
  BY <1>1, SumAtMost
<1>3. 1 * Sum(k, S) <= 1 * Sum(g, S)
  BY <1>1, SumAtMost
<1>4. Sum(g, S) \in Nat /\ Sum(k, S) \in Nat
  BY <1>1, SumType
<1> QED BY <1>2, <1>3, <1>4

LEMMA SumOfZeros ==
  ASSUME NEW g, NEW S, IsFiniteSet(S), \A x \in S : g[x] = 0
  PROVE  Sum(g, S) = 0
<1>1. \A x \in S : g[x] \in Nat /\ 1 * g[x] <= 0 * g[x]
  OBVIOUS
<1>2. 1 * Sum(g, S) <= 0 * Sum(g, S)
  BY <1>1, SumAtMost
<1>3. Sum(g, S) \in Nat
  BY <1>1, SumType
<1> QED BY <1>2, <1>3

(* Adding up by group: what is added up of every group, added up.  Groups    *)
(* may be empty.                                                             *)
Group(S, key, j) == {x \in S : key[x] = j}

ByGroup(g, S, key, K) == [j \in K |-> Sum(g, Group(S, key, j))]

LEMMA GroupsAddUp ==
  ASSUME NEW g, NEW S, IsFiniteSet(S), NEW K, IsFiniteSet(K), NEW key,
         \A x \in S : g[x] \in Nat /\ key[x] \in K
  PROVE  Sum(ByGroup(g, S, key, K), K) = Sum(g, S)
<1> DEFINE h(T) == ByGroup(g, T, key, K)
           Bad == {T \in SUBSET S : Sum(h(T), K) # Sum(g, T)}
<1> SUFFICES ASSUME S \in Bad PROVE FALSE
  OBVIOUS
<1>1. Bad \in SUBSET SUBSET S /\ Bad # {}
  OBVIOUS
<1>2. PICK T \in Bad : \A U \in Bad : U \subseteq T => U = T
  <2> HIDE DEF Bad
  <2> QED BY <1>1, SmallestExists
<1>3. T \in SUBSET S /\ IsFiniteSet(T) /\ Sum(h(T), K) # Sum(g, T)
  BY <1>2, FS_Subset
<1>4. ASSUME NEW U \in SUBSET S, NEW j \in K
      PROVE  /\ h(U)[j] = Sum(g, Group(U, key, j)) /\ h(U)[j] \in Nat
             /\ Group(U, key, j) \in SUBSET S /\ IsFiniteSet(Group(U, key, j))
  <2>1. h(U)[j] = Sum(g, Group(U, key, j))
    BY DEF ByGroup
  <2>2. Group(U, key, j) \in SUBSET S
    BY DEF Group
  <2>3. IsFiniteSet(Group(U, key, j))
    BY <2>2, FS_Subset
  <2>4. \A x \in Group(U, key, j) : g[x] \in Nat
    BY <2>2
  <2>5. Sum(g, Group(U, key, j)) \in Nat
    BY <2>3, <2>4, SumType
  <2> QED BY <2>1, <2>2, <2>3, <2>5
<1>5. T # {}
  <2>1. ASSUME T = {} PROVE FALSE
    <3>1. \A j \in K : Group(T, key, j) = {}
      BY <2>1 DEF Group
    <3>2. Sum(g, {}) = 0
      BY SumPicked, FS_EmptySet
    <3> HIDE DEF h
    <3>3. \A j \in K : h(T)[j] = 0
      BY <1>4, <3>1, <3>2, <1>3
    <3>4. Sum(h(T), K) = 0
      BY <3>3, SumOfZeros
    <3> QED BY <1>3, <2>1, <3>2, <3>4
  <2> QED BY <2>1
<1> DEFINE p == pick(T)
           U == T \ {p}
           i == key[p]
<1>6. p \in T /\ p \in S /\ i \in K /\ g[p] \in Nat
  BY <1>3, <1>5, PickIsMember
<1>7. U \in SUBSET S /\ U \notin Bad
  <2>1. U # T /\ U \subseteq T
    BY <1>6
  <2>2. U \notin Bad
    <3> HIDE DEF Bad
    <3> QED BY <1>2, <2>1
  <2> QED BY <1>3, <2>1, <2>2
<1>8. Sum(h(U), K) = Sum(g, U)
  BY <1>7
<1>9. Sum(g, T) = g[p] + Sum(g, U)
  BY <1>3, <1>5, SumPicked
<1>10. \A j \in K \ {i} : Group(U, key, j) = Group(T, key, j)
  BY DEF Group
<1>11. p \in Group(T, key, i) /\ Group(T, key, i) \ {p} = Group(U, key, i)
  BY <1>6 DEF Group
<1> HIDE DEF h, p, U, i
<1>12. h(T)[i] = g[p] + h(U)[i]
  <2>1. \A x \in Group(T, key, i) : g[x] \in Nat
    BY <1>3, <1>4, <1>6
  <2>2. Sum(g, Group(T, key, i)) = g[p] + Sum(g, Group(T, key, i) \ {p})
    BY <1>3, <1>4, <1>6, <1>11, <2>1, SumStep
  <2> QED BY <1>3, <1>4, <1>6, <1>7, <1>11, <2>2
<1>13. IsFiniteSet(K \ {i})
  BY FS_Subset
<1>14. Sum(h(T), K \ {i}) = Sum(h(U), K \ {i})
  <2>1. \A j \in K \ {i} : h(T)[j] \in Nat /\ h(T)[j] = h(U)[j]
    BY <1>3, <1>4, <1>7, <1>10
  <2> QED BY <1>13, <2>1, SumAlike
<1>15. /\ Sum(h(T), K) = h(T)[i] + Sum(h(T), K \ {i})
       /\ Sum(h(U), K) = h(U)[i] + Sum(h(U), K \ {i})
  <2>1. \A j \in K : h(T)[j] \in Nat /\ h(U)[j] \in Nat
    BY <1>3, <1>4, <1>7
  <2> QED BY <1>6, <2>1, SumStep
<1>16. h(U)[i] \in Nat /\ Sum(h(U), K \ {i}) \in Nat
  <2>1. \A j \in K : h(U)[j] \in Nat
    BY <1>4, <1>7
  <2> QED BY <1>6, <1>13, <2>1, SumType
<1> QED BY <1>3, <1>6, <1>8, <1>9, <1>12, <1>14, <1>15, <1>16

-----------------------------------------------------------------------------
(* What a sample adds up to. *)

LEMMA WeightIsBounded ==
  ASSUME NEW u \in Int \cup {Unknown}, NEW r \in Card
  PROVE  /\ UsageWeight(u, r) \in Nat /\ UsageWeight(u, r) <= 10000
         /\ (IF r.weighted THEN r.floor ELSE 100) * 100 <= UsageWeight(u, r)
<1>1. r.floor \in 0 .. 100
  BY DEF Card
<1>2. CASE ~ r.weighted \/ u = Unknown
  <2>1. UsageWeight(u, r) = 10000
    BY <1>2 DEF UsageWeight
  <2> QED BY <1>1, <2>1
<1>3. CASE r.weighted /\ u # Unknown
  <2> DEFINE x == Clamp(0, u, 100)
  <2>1. x \in 0 .. 100
    BY <1>3 DEF Clamp
  <2>2. UsageWeight(u, r) = 100 * r.floor + (100 - r.floor) * x
    BY <1>3 DEF UsageWeight
  <2> HIDE DEF x
  <2>3. 100 - r.floor \in Nat
    BY <1>1
  <2>4. (100 - r.floor) * x \in Nat /\ (100 - r.floor) * x <= (100 - r.floor) * 100
    BY <2>1, <2>3, TimesMonotone
  <2> QED BY <1>1, <1>3, <2>2, <2>4
<1> QED BY <1>2, <1>3

(* The cost of a block is a number, and for vCPU between the floor's share   *)
(* of the flat price and all of it.                                          *)
LEMMA CostIsBounded ==
  ASSUME NEW k \in Kinds, NEW r \in Card
  PROVE  /\ CostOfBlock(k, r) \in Cost /\ \A c \in Parts : Flat(k, r)[c] \in Nat
         /\ CostOfBlock(k, r)["vdisk"] = Flat(k, r)["vdisk"]
         /\ 100 * CostOfBlock(k, r)["vcpu"] <= 100 * Flat(k, r)["vcpu"]
         /\ (IF r.weighted THEN r.floor ELSE 100) * Flat(k, r)["vcpu"] <= 100 * CostOfBlock(k, r)["vcpu"]
<1>1. k.cores \in Nat /\ k.disk \in Nat /\ k.usage \in Int \cup {Unknown}
  BY ValuesAssumption DEF Kind
<1>2. r.vcpu \in Nat /\ r.vdisk \in Nat /\ r.floor \in 0 .. 100
  BY DEF Card
<1> DEFINE q == k.cores * r.vcpu
           w == UsageWeight(k.usage, r)
           f == IF r.weighted THEN r.floor ELSE 100
           d == k.disk * r.vdisk
<1>3. \A m, n \in Nat : m * n \in Nat
  OBVIOUS
<1>4. q \in Nat /\ d \in Nat /\ f \in Nat
  BY <1>1, <1>2, <1>3
<1>5. w \in Nat /\ w <= 10000 /\ f * 100 <= w
  <2>1. /\ UsageWeight(k.usage, r) \in Nat /\ UsageWeight(k.usage, r) <= 10000
        /\ (IF r.weighted THEN r.floor ELSE 100) * 100 <= UsageWeight(k.usage, r)
    <3> DEFINE u == k.usage
    <3>1. u \in Int \cup {Unknown}
      BY <1>1
    <3> HIDE DEF u
    <3>2. /\ UsageWeight(u, r) \in Nat /\ UsageWeight(u, r) <= 10000
          /\ (IF r.weighted THEN r.floor ELSE 100) * 100 <= UsageWeight(u, r)
      BY <3>1, WeightIsBounded
    <3> QED BY <3>2 DEF u
  <2> QED BY <2>1
<1>6. CostOfBlock(k, r) = [c \in Parts |-> IF c = "vcpu" THEN q * w ELSE d * 10000]
  BY DEF CostOfBlock
<1>7. Flat(k, r)["vcpu"] = q * 10000 /\ Flat(k, r)["vdisk"] = d * 10000
  BY DEF Flat
<1>8. \A c \in Parts : c = "vcpu" \/ c = "vdisk"
  BY DEF Parts
<1>9. "vcpu" \in Parts /\ "vdisk" \in Parts
  BY DEF Parts
<1> HIDE DEF q, w, f, d
<1>10. q * w \in Nat /\ q * w <= q * 10000
  BY <1>4, <1>5, TimesMonotone
<1>11. q * (f * 100) \in Nat /\ q * (f * 100) <= q * w
  BY <1>4, <1>5, TimesMonotone
<1>12. f * (q * 10000) = 100 * (q * (f * 100))
  BY <1>4
<1>13. CostOfBlock(k, r)["vcpu"] = q * w /\ CostOfBlock(k, r)["vdisk"] = d * 10000
  BY <1>6, <1>9
<1>14. CostOfBlock(k, r) \in Cost
  BY <1>4, <1>6, <1>10 DEF Cost
<1>15. \A c \in Parts : Flat(k, r)[c] \in Nat
  BY <1>4, <1>7, <1>8
<1>16. 100 * (q * w) <= 100 * (q * 10000)
  BY <1>4, <1>10
<1>17. f * (q * 10000) <= 100 * (q * w)
  BY <1>10, <1>11, <1>12
<1>18. (IF r.weighted THEN r.floor ELSE 100) * Flat(k, r)["vcpu"] <= 100 * CostOfBlock(k, r)["vcpu"]
  BY <1>7, <1>13, <1>17 DEF f
<1> QED BY <1>7, <1>13, <1>14, <1>15, <1>16, <1>18

PriceOf(S, r, c) == [s \in S |-> CostOfBlock(s.kind, r)[c]]

LEMMA TotalIs ==
  ASSUME NEW T, NEW r, NEW c \in Parts
  PROVE  Total([s \in T |-> CostOfBlock(s.kind, r)])[c] = Sum(PriceOf(T, r, c), T)
<1> DEFINE cost == [s \in T |-> CostOfBlock(s.kind, r)]
           g    == [s \in DOMAIN cost |-> cost[s][c]]
<1>1. Total(cost)[c] = SumFunction(g)
  BY DEF Total
<1>2. g = PriceOf(T, r, c)
  BY DEF PriceOf
<1>3. DOMAIN g = T
  OBVIOUS
<1> QED BY <1>1, <1>2, <1>3 DEF SumFunction, Sum

LEMMA PricesAreNatural ==
  ASSUME NEW S \in SUBSET Sample, NEW r \in Card, NEW c \in Parts, NEW s \in S
  PROVE  PriceOf(S, r, c)[s] \in Nat /\ PriceOf(S, r, c)[s] = CostOfBlock(s.kind, r)[c]
<1>1. s.kind \in Kinds
  BY DEF Sample
<1>2. CostOfBlock(s.kind, r) \in Cost
  BY <1>1, CostIsBounded
<1> QED BY <1>2 DEF PriceOf, Cost

LEMMA TotalIsCost ==
  ASSUME NEW T \in SUBSET Sample, IsFiniteSet(T), NEW r \in Card
  PROVE  Total([s \in T |-> CostOfBlock(s.kind, r)]) \in Cost
<1>1. ASSUME NEW c \in Parts
      PROVE  Total([s \in T |-> CostOfBlock(s.kind, r)])[c] \in Nat
  <2>1. \A s \in T : PriceOf(T, r, c)[s] \in Nat
    BY PricesAreNatural
  <2> QED BY <2>1, TotalIs, SumType
<1>2. \A cost : Total(cost) = [c \in Parts |-> Total(cost)[c]]
  BY DEF Total
<1> HIDE DEF Cost
<1>3. Total([s \in T |-> CostOfBlock(s.kind, r)])
        = [c \in Parts |-> Total([s \in T |-> CostOfBlock(s.kind, r)])[c]]
  BY <1>2
<1> QED BY <1>1, <1>3 DEF Cost

LEMMA DaysAreFinite == IsFiniteSet(Days) /\ \A s \in Sample : DayOf(s.at) \in Days
<1>1. IsFiniteSet(Days)
  <2> DEFINE f == [t \in Time |-> (t + KST) \div Day]
  <2>1. f \in Surjection(Time, Days)
    BY DEF Days, Surjection
  <2> QED BY <2>1, FiniteAssumption, FS_Surjection
<1> QED BY <1>1 DEF DayOf, Days, Sample

(* The table by VM and the chart by day. *)
VMOf(S) == [s \in S |-> s.vm]
DayOfEach(S) == [s \in S |-> DayOf(s.at)]

LEMMA UsageIs ==
  ASSUME NEW S, NEW r
  PROVE  /\ \A v \in VMs : Usage(S, r).vms[v]
              = Total([s \in Group(Charged(S), VMOf(Charged(S)), v) |-> CostOfBlock(s.kind, r)])
         /\ \A d \in Days : Usage(S, r).daily[d]
              = Total([s \in Group(Charged(S), DayOfEach(Charged(S)), d) |-> CostOfBlock(s.kind, r)])
         /\ Usage(S, r) = [vms |-> [v \in VMs |-> Usage(S, r).vms[v]],
                           daily |-> [d \in Days |-> Usage(S, r).daily[d]]]
<1> DEFINE T == Charged(S)
           ofVM(v)  == {s \in T : s.vm = v}
           ofDay(d) == {s \in T : DayOf(s.at) = d}
<1>1. \A v : ofVM(v) = Group(T, VMOf(T), v)
  BY DEF Group, VMOf
<1>2. \A d : ofDay(d) = Group(T, DayOfEach(T), d)
  BY DEF Group, DayOfEach
<1>3. \A v \in VMs : Usage(S, r).vms[v] = Total([s \in ofVM(v) |-> CostOfBlock(s.kind, r)])
  BY DEF Usage
<1>4. \A d \in Days : Usage(S, r).daily[d] = Total([s \in ofDay(d) |-> CostOfBlock(s.kind, r)])
  BY DEF Usage, DailyCostOf
<1>5. Usage(S, r) = [vms |-> [v \in VMs |-> Usage(S, r).vms[v]],
                     daily |-> [d \in Days |-> Usage(S, r).daily[d]]]
  BY DEF Usage
<1> HIDE DEF T, ofVM, ofDay
<1>6. \A v \in VMs : Usage(S, r).vms[v] = Total([s \in Group(T, VMOf(T), v) |-> CostOfBlock(s.kind, r)])
  BY <1>1, <1>3
<1>7. \A d \in Days : Usage(S, r).daily[d] = Total([s \in Group(T, DayOfEach(T), d) |-> CostOfBlock(s.kind, r)])
  BY <1>2, <1>4
<1> QED BY <1>5, <1>6, <1>7 DEF T

LEMMA UsageType ==
  ASSUME NEW S \in SUBSET Sample, IsFiniteSet(S), NEW r \in Card
  PROVE  Usage(S, r) \in [vms : [VMs -> Cost], daily : [Days -> Cost]]
<1>1. ASSUME NEW key, NEW j
      PROVE  Total([s \in Group(Charged(S), key, j) |-> CostOfBlock(s.kind, r)]) \in Cost
  <2>1. Group(Charged(S), key, j) \in SUBSET S
    BY DEF Group, Charged
  <2>2. Group(Charged(S), key, j) \in SUBSET Sample /\ IsFiniteSet(Group(Charged(S), key, j))
    BY <2>1, FS_Subset
  <2> QED BY <2>2, TotalIsCost
<1> DEFINE T == Charged(S)
<1>2. ASSUME NEW v \in VMs
      PROVE  Usage(S, r).vms[v] \in Cost
  <2>1. Usage(S, r).vms[v] = Total([s \in Group(T, VMOf(T), v) |-> CostOfBlock(s.kind, r)])
    BY UsageIs
  <2> QED BY <1>1, <2>1
<1>4. ASSUME NEW d \in Days
      PROVE  Usage(S, r).daily[d] \in Cost
  <2>1. Usage(S, r).daily[d] = Total([s \in Group(T, DayOfEach(T), d) |-> CostOfBlock(s.kind, r)])
    BY UsageIs
  <2> QED BY <1>1, <2>1
<1>3. Usage(S, r) = [vms |-> [v \in VMs |-> Usage(S, r).vms[v]],
                     daily |-> [d \in Days |-> Usage(S, r).daily[d]]]
  BY UsageIs
<1> QED BY <1>2, <1>3, <1>4

(* Both are sums of the same costs, by group. *)
LEMMA UsageAddsUp ==
  ASSUME NEW S \in SUBSET Sample, IsFiniteSet(S), NEW r \in Card, NEW c \in Parts
  PROVE  /\ SumFunction([v \in VMs |-> Usage(S, r).vms[v][c]]) = Sum(PriceOf(Charged(S), r, c), Charged(S))
         /\ SumFunction([d \in Days |-> Usage(S, r).daily[d][c]]) = Sum(PriceOf(Charged(S), r, c), Charged(S))
<1> DEFINE T == Charged(S)
           g == PriceOf(T, r, c)
<1>1. T \in SUBSET Sample /\ IsFiniteSet(T)
  <2>1. T \in SUBSET S
    BY DEF Charged
  <2> QED BY <2>1, FS_Subset
<1>2. \A s \in T : g[s] \in Nat
  BY <1>1, PricesAreNatural
<1>3. ASSUME NEW key, NEW j
      PROVE  /\ Total([s \in Group(T, key, j) |-> CostOfBlock(s.kind, r)])[c] = Sum(g, Group(T, key, j))
             /\ Sum(g, Group(T, key, j)) \in Nat
  <2> DEFINE U == Group(T, key, j)
  <2>1. U \in SUBSET T
    BY DEF Group
  <2>2. IsFiniteSet(U) /\ U \in SUBSET Sample
    BY <1>1, <2>1, FS_Subset
  <2>3. Total([s \in U |-> CostOfBlock(s.kind, r)])[c] = Sum(PriceOf(U, r, c), U)
    BY TotalIs
  <2>4. \A s \in U : PriceOf(U, r, c)[s] \in Nat /\ PriceOf(U, r, c)[s] = g[s]
    <3> SUFFICES ASSUME NEW s \in U
                 PROVE  PriceOf(U, r, c)[s] \in Nat /\ PriceOf(U, r, c)[s] = g[s]
      OBVIOUS
    <3>1. PriceOf(U, r, c)[s] \in Nat /\ PriceOf(U, r, c)[s] = CostOfBlock(s.kind, r)[c]
      BY <2>2, PricesAreNatural
    <3>2. g[s] = CostOfBlock(s.kind, r)[c]
      BY <1>1, <2>1, PricesAreNatural
    <3> QED BY <3>1, <3>2
  <2> HIDE DEF U, g
  <2>5. Sum(PriceOf(U, r, c), U) = Sum(g, U)
    BY <2>2, <2>4, SumAlike
  <2>6. Sum(g, U) \in Nat
    BY <1>2, <2>1, <2>2, SumType
  <2> QED BY <2>3, <2>5, <2>6 DEF U
<1> HIDE DEF T, g
<1>4. SumFunction([v \in VMs |-> Usage(S, r).vms[v][c]]) = Sum(g, T)
  <2> DEFINE f == [v \in VMs |-> Usage(S, r).vms[v][c]]
  <2>1. ASSUME NEW v \in VMs PROVE f[v] = Sum(g, Group(T, VMOf(T), v))
    <3>1. Usage(S, r).vms[v] = Total([s \in Group(T, VMOf(T), v) |-> CostOfBlock(s.kind, r)])
      BY UsageIs DEF T
    <3> QED BY <1>3, <3>1
  <2>2. f = ByGroup(g, T, VMOf(T), VMs)
    BY <2>1 DEF ByGroup
  <2>3. \A s \in T : g[s] \in Nat /\ VMOf(T)[s] \in VMs
    BY <1>1, <1>2 DEF VMOf, Sample
  <2>4. Sum(ByGroup(g, T, VMOf(T), VMs), VMs) = Sum(g, T)
    BY <1>1, <2>3, FiniteAssumption, GroupsAddUp
  <2>5. DOMAIN f = VMs
    OBVIOUS
  <2> HIDE DEF f
  <2> QED BY <2>2, <2>4, <2>5 DEF SumFunction, Sum, f
<1>5. SumFunction([d \in Days |-> Usage(S, r).daily[d][c]]) = Sum(g, T)
  <2> DEFINE f == [d \in Days |-> Usage(S, r).daily[d][c]]
  <2>1. ASSUME NEW d \in Days PROVE f[d] = Sum(g, Group(T, DayOfEach(T), d))
    <3>1. Usage(S, r).daily[d] = Total([s \in Group(T, DayOfEach(T), d) |-> CostOfBlock(s.kind, r)])
      BY UsageIs DEF T
    <3> QED BY <1>3, <3>1
  <2>2. f = ByGroup(g, T, DayOfEach(T), Days)
    BY <2>1 DEF ByGroup
  <2>3. \A s \in T : g[s] \in Nat /\ DayOfEach(T)[s] \in Days
    BY <1>1, <1>2, DaysAreFinite DEF DayOfEach
  <2>4. Sum(ByGroup(g, T, DayOfEach(T), Days), Days) = Sum(g, T)
    BY <1>1, <2>3, DaysAreFinite, GroupsAddUp
  <2>5. DOMAIN f = Days
    OBVIOUS
  <2> HIDE DEF f
  <2> QED BY <2>2, <2>4, <2>5 DEF SumFunction, Sum, f
<1> QED BY <1>4, <1>5 DEF T, g

LEMMA UsageOfCharged ==
  ASSUME NEW S, NEW r
  PROVE  Usage(Charged(S), r) = Usage(S, r)
<1>1. Charged(Charged(S)) = Charged(S)
  BY DEF Charged
<1> QED BY <1>1 DEF Usage

LEMMA NothingCostsNothing ==
  ASSUME NEW r, NEW q
  PROVE  Usage({}, r) = Usage({}, q)
<1> DEFINE none == Charged({})
<1>1. ASSUME NEW key, NEW j
      PROVE  [s \in Group(none, key, j) |-> CostOfBlock(s.kind, r)]
               = [s \in Group(none, key, j) |-> CostOfBlock(s.kind, q)]
  <2>1. Group(none, key, j) = {}
    BY DEF Group, Charged
  <2> QED BY <2>1
<1>2. ASSUME NEW v \in VMs
      PROVE  Usage({}, r).vms[v] = Usage({}, q).vms[v]
  <2>1. /\ Usage({}, r).vms[v] = Total([s \in Group(none, VMOf(none), v) |-> CostOfBlock(s.kind, r)])
        /\ Usage({}, q).vms[v] = Total([s \in Group(none, VMOf(none), v) |-> CostOfBlock(s.kind, q)])
    BY UsageIs
  <2> QED BY <1>1, <2>1
<1>3. ASSUME NEW d \in Days
      PROVE  Usage({}, r).daily[d] = Usage({}, q).daily[d]
  <2>1. /\ Usage({}, r).daily[d] = Total([s \in Group(none, DayOfEach(none), d) |-> CostOfBlock(s.kind, r)])
        /\ Usage({}, q).daily[d] = Total([s \in Group(none, DayOfEach(none), d) |-> CostOfBlock(s.kind, q)])
    BY UsageIs
  <2> QED BY <1>1, <2>1
<1>4. /\ Usage({}, r) = [vms |-> [v \in VMs |-> Usage({}, r).vms[v]],
                          daily |-> [d \in Days |-> Usage({}, r).daily[d]]]
      /\ Usage({}, q) = [vms |-> [v \in VMs |-> Usage({}, q).vms[v]],
                          daily |-> [d \in Days |-> Usage({}, q).daily[d]]]
  BY UsageIs
<1>5. /\ [v \in VMs |-> Usage({}, r).vms[v]] = [v \in VMs |-> Usage({}, q).vms[v]]
      /\ [d \in Days |-> Usage({}, r).daily[d]] = [d \in Days |-> Usage({}, q).daily[d]]
  BY <1>2, <1>3
<1> QED BY <1>4, <1>5

-----------------------------------------------------------------------------
(* The books: what is billed to a project accounts for its usage.            *)

Tariffs == card \in [Projects -> Card] /\ rate \in [Passes -> [Projects -> Card]]

Steady ==
  /\ pc \in {"idle", "next", "vms", "samples", "done"} /\ project \in Projects \cup {Nobody}
  /\ commits \in 0 .. MaxCommits /\ quiet \in BOOLEAN

(* What is billed was stored, and the VM was on.  Samples are never lost. *)
Evidenced ==
  IsFiniteSet(samples) /\ \A ps \in Passes : \A x \in billed[ps] : x[2] \in Charged(samples)

Booked(ps, p) == {x[2] : x \in {x \in billed[ps] : x[1] = p}}

(* No project is come to twice in a pass. *)
Unbooked ==
  /\ pass = "current" => billed["previous"] = {}
  /\ pc \in {"vms", "samples"} => project \notin todo
  /\ \A p \in Projects : p \in todo \/ AtHand(p) => Booked(pass, p) = {}

Accounted ==
  \A ps \in Passes, p \in Projects : results[ps][p] = Usage(Booked(ps, p), rate[ps][p])

Books == Tariffs /\ Steady /\ Evidenced /\ Unbooked /\ Accounted

(* What Booked holds can be added up. *)
LEMMA BookedIs ==
  ASSUME Held, Books, NEW ps \in Passes, NEW p
  PROVE  /\ Booked(ps, p) \in SUBSET Sample /\ IsFiniteSet(Booked(ps, p))
         /\ Charged(Booked(ps, p)) = Booked(ps, p)
<1>1. IsFiniteSet(samples) /\ \A x \in billed[ps] : x[2] \in Charged(samples)
  BY DEF Books, Evidenced
<1>2. Booked(ps, p) \in SUBSET Charged(samples)
  BY <1>1 DEF Booked
<1>3. Booked(ps, p) \in SUBSET samples /\ Charged(Booked(ps, p)) = Booked(ps, p)
  BY <1>2 DEF Charged
<1> QED BY <1>1, <1>3, FS_Subset DEF Held

(* A deleted project is billed at nothing. *)
LEMMA ZeroIsACard == ZeroCard \in Card
BY DEF ZeroCard, Card

LEMMA InitBooks == Init => Books
<1> SUFFICES ASSUME Init PROVE Books
  OBVIOUS
<1>1. Tariffs
  BY ValuesAssumption, ZeroIsACard DEF Init, Tariffs
<1>2. Steady
  BY BoundsAssumption DEF Init, Steady
<1>3. \A ps \in Passes : billed[ps] = {}
  BY DEF Init
<1>4. Evidenced
  BY <1>3, FS_EmptySet DEF Init, Evidenced
<1>5. \A ps \in Passes : \A p : Booked(ps, p) = {}
  BY <1>3 DEF Booked
<1>6. Unbooked
  BY <1>3, <1>5 DEF Init, Unbooked, AtHand, Passes
<1>7. Accounted
  <2> SUFFICES ASSUME NEW ps \in Passes, NEW p \in Projects
               PROVE  results[ps][p] = Usage(Booked(ps, p), rate[ps][p])
    BY DEF Accounted
  <2>1. results[ps][p] = Usage({}, FirstCard)
    BY DEF Init, NoUsage
  <2> QED BY <1>5, <2>1, NothingCostsNothing
<1> QED BY <1>1, <1>2, <1>4, <1>6, <1>7 DEF Books

(* Others leave the books of a request alone. *)
LEMMA OthersKeepBooks ==
  ASSUME Books, UNCHANGED report, samples \subseteq samples', IsFiniteSet(samples'),
         card' \in [Projects -> Card], commits' \in 0 .. MaxCommits, quiet' \in BOOLEAN
  PROVE  Books'
<1>1. Tariffs' /\ Steady'
  BY DEF Books, Tariffs, Steady, report
<1>2. Evidenced'
  BY DEF Books, Evidenced, Charged, report
<1>3. \A ps, p : Booked(ps, p)' = Booked(ps, p)
  BY DEF Booked, report
<1>4. Unbooked'
  BY <1>3 DEF Books, Unbooked, AtHand, report
<1>5. Accounted'
  BY <1>3 DEF Books, Accounted, report
<1> QED BY <1>1, <1>2, <1>4, <1>5 DEF Books

(* So do the steps that neither read a rate card nor bill. *)
LEMMA MovesKeepBooks ==
  ASSUME Books, UNCHANGED <<billing, ops, rate, results, billed, commits, quiet>>,
         Steady', Unbooked'
  PROVE  Books'
<1>1. Tariffs'
  BY DEF Books, Tariffs, billing
<1>2. Evidenced'
  BY DEF Books, Evidenced, Charged, ops
<1>3. \A ps, p : Booked(ps, p)' = Booked(ps, p)
  BY DEF Booked
<1>4. Accounted'
  BY <1>3 DEF Books, Accounted
<1> QED BY <1>1, <1>2, <1>4 DEF Books

LEMMA AskKeepsBooks ==
  ASSUME Held, Founded, Books, NEW S, Ask(S)
  PROVE  Books'
<1>1. /\ pc = "idle" /\ pc' = "next"
      /\ UNCHANGED <<billing, ops, pass, project, rate, found, results, billed, commits, quiet>>
  BY DEF Ask
<1>2. \A ps \in Passes : billed[ps] = {}
  BY <1>1 DEF Founded, NothingYet
<1>3. \A p : Booked(pass, p) = {}
  BY <1>2 DEF Booked, Held
<1>4. Unbooked'
  BY <1>1, <1>2, <1>3 DEF Unbooked, AtHand, Passes, Booked
<1>5. Steady'
  BY <1>1 DEF Books, Steady
<1> QED BY <1>1, <1>4, <1>5, MovesKeepBooks

LEMMA ReadCardKeepsBooks ==
  ASSUME Held, Calm, Books, ReadCard
  PROVE  Books'
<1>1. PICK p \in todo :
        /\ project' = p /\ todo' = todo \ {p}
        /\ rate' \in {[rate EXCEPT ![pass][p] = c] :
                        c \in {card[p]} \cup (IF pass = "previous" THEN {rate["current"][p]} ELSE {})}
  BY DEF ReadCard
<1>2. /\ pc = "next" /\ pc' = "vms"
      /\ UNCHANGED <<billing, ops, pass, results, billed, commits, quiet>>
  BY DEF ReadCard
<1>3. PICK c \in {card[p]} \cup (IF pass = "previous" THEN {rate["current"][p]} ELSE {}) :
        rate' = [rate EXCEPT ![pass][p] = c]
  BY <1>1
<1>4. p \in Projects /\ pass \in Passes /\ Tariffs
  BY DEF Held, Books
<1>5. c \in Card
  BY <1>3, <1>4 DEF Tariffs, Passes
<1>6. Tariffs'
  BY <1>2, <1>3, <1>4, <1>5 DEF Tariffs, billing
<1>7. Steady'
  BY <1>1, <1>2, <1>4 DEF Books, Steady
<1>8. Evidenced'
  BY <1>2 DEF Books, Evidenced, Charged, ops
<1>9. \A ps, q : Booked(ps, q)' = Booked(ps, q)
  BY <1>2 DEF Booked
<1>10. Unbooked'
  BY <1>1, <1>2, <1>9 DEF Books, Unbooked, AtHand
<1>11. \A ps \in Passes, q \in Projects : ps # pass \/ q # p => rate'[ps][q] = rate[ps][q]
  BY <1>3, <1>4 DEF Tariffs
<1>12. Booked(pass, p) = {}
  BY <1>4 DEF Books, Unbooked
<1>13. Accounted'
  <2> SUFFICES ASSUME NEW ps \in Passes, NEW q \in Projects
               PROVE  results[ps][q] = Usage(Booked(ps, q), rate'[ps][q])
    BY <1>2, <1>9 DEF Accounted
  <2>1. results[ps][q] = Usage(Booked(ps, q), rate[ps][q])
    BY DEF Books, Accounted
  <2>2. CASE ps = pass /\ q = p
    BY <1>12, <2>1, <2>2, NothingCostsNothing
  <2>3. CASE ps # pass \/ q # p
    BY <1>11, <2>1, <2>3
  <2> QED BY <2>2, <2>3
<1> QED BY <1>6, <1>7, <1>8, <1>10, <1>13 DEF Books

LEMMA ReadSamplesKeepsBooks ==
  ASSUME Held, Founded, Calm, Books, ReadSamples
  PROVE  Books'
<1> DEFINE S     == SamplesOf(found, pass)
           usage == Usage(S, rate[pass][project])
           new   == {<<project, s>> : s \in Charged(S)}
<1>1. /\ pc = "samples" /\ pc' = "next" /\ project' = Nobody
      /\ UNCHANGED <<billing, ops, pass, todo, rate, commits, quiet>>
  BY DEF ReadSamples
<1>2. results' = [results EXCEPT ![pass][project] = usage]
  BY DEF ReadSamples
<1>3. billed' = [billed EXCEPT ![pass] = @ \cup new]
  BY DEF ReadSamples
<1>4. project \in Projects /\ pass \in Passes /\ Shaped
  BY <1>1 DEF Held, Founded, InHand, Calm
<1>5. Booked(pass, project) = {} /\ project \notin todo
  BY <1>1, <1>4 DEF Books, Unbooked, AtHand
<1>6. Charged(S) \subseteq Charged(samples)
  BY DEF Charged, SamplesOf
<1>7. \A x \in new : x[1] = project /\ x[2] \in Charged(S)
  OBVIOUS
<1>8. {x[2] : x \in new} = Charged(S)
  <2>1. \A s \in Charged(S) : <<project, s>> \in new /\ <<project, s>>[2] = s
    OBVIOUS
  <2> HIDE DEF new
  <2> QED BY <1>7, <2>1
<1> HIDE DEF S, new, usage
<1>9. /\ results'[pass][project] = usage
      /\ \A ps \in Passes, q \in Projects : ps # pass \/ q # project => results'[ps][q] = results[ps][q]
  BY <1>2, <1>4 DEF Shaped
<1>10. billed'[pass] = billed[pass] \cup new /\ \A ps \in Passes : ps # pass => billed'[ps] = billed[ps]
  BY <1>3, <1>4 DEF Held
<1>11. /\ \A ps \in Passes : \A q : ps # pass \/ q # project => Booked(ps, q)' = Booked(ps, q)
       /\ \A ps \in Passes : \A q : ps = pass /\ q = project => Booked(ps, q)' = Charged(S)
  <2>1. \A ps \in Passes : \A q : ps # pass \/ q # project =>
          {x \in billed'[ps] : x[1] = q} = {x \in billed[ps] : x[1] = q}
    BY <1>7, <1>10
  <2>2. {x \in billed[pass] : x[1] = project} = {}
    BY <1>5 DEF Booked
  <2>3. {x \in billed'[pass] : x[1] = project} = new
    BY <1>7, <1>10, <2>2
  <2>4. /\ \A ps \in Passes : \A q : ps # pass \/ q # project => Booked(ps, q)' = Booked(ps, q)
    BY <2>1 DEF Booked
  <2>5. \A ps, q : ps = pass /\ q = project => Booked(ps, q)' = {x[2] : x \in new}
    BY <2>3 DEF Booked
  <2> QED BY <1>8, <2>4, <2>5
<1>12. Tariffs' /\ Steady'
  BY <1>1 DEF Books, Tariffs, Steady, billing
<1>13. Evidenced'
  BY <1>1, <1>6, <1>7, <1>10 DEF Books, Evidenced, Charged, ops
<1>14. Unbooked'
  BY <1>1, <1>4, <1>5, <1>10, <1>11 DEF Books, Unbooked, AtHand, Passes
<1>15. Accounted'
  <2> SUFFICES ASSUME NEW ps \in Passes, NEW q \in Projects
               PROVE  results'[ps][q] = Usage(Booked(ps, q)', rate[ps][q])
    BY <1>1 DEF Accounted
  <2>1. CASE ps = pass /\ q = project
    <3>1. results'[ps][q] = Usage(S, rate[ps][q])
      BY <1>9, <2>1 DEF usage
    <3>2. Booked(ps, q)' = Charged(S)
      BY <1>11, <2>1
    <3> QED BY <3>1, <3>2, UsageOfCharged
  <2>2. CASE ps # pass \/ q # project
    BY <1>9, <1>11, <2>2 DEF Books, Accounted
  <2> QED BY <2>1, <2>2
<1> QED BY <1>12, <1>13, <1>14, <1>15 DEF Books

LEMMA NextKeepsBooks ==
  ASSUME Held, Founded, Calm, Books, [Next]_vars
  PROVE  Books'
<1>1. Tariffs /\ Steady /\ IsFiniteSet(samples)
  BY DEF Books, Evidenced
<1>2. CASE StoreSample
  <2>1. PICK s : samples' = samples \cup {s}
    BY <1>2 DEF StoreSample
  <2>2. IsFiniteSet(samples')
    BY <1>1, <2>1, FS_AddElement
  <2>3. UNCHANGED <<report, card, commits>> /\ quiet' \in BOOLEAN
    BY <1>2 DEF StoreSample, Disturb, billing
  <2> QED BY <1>1, <2>1, <2>2, <2>3, OthersKeepBooks DEF Tariffs, Steady
<1>3. CASE Reassign
  <2>1. UNCHANGED <<report, samples, card>> /\ quiet' \in BOOLEAN /\ commits' = commits + 1 /\ commits < MaxCommits
    BY <1>3 DEF Reassign, Disturb, billing
  <2>2. commits' \in 0 .. MaxCommits
    BY <1>1, <2>1, BoundsAssumption DEF Steady
  <2> QED BY <1>1, <2>1, <2>2, OthersKeepBooks DEF Tariffs
<1>4. CASE \E p \in Projects : DeleteProject(p) \/ SetRates(p)
  <2>1. PICK p \in Projects : DeleteProject(p) \/ SetRates(p)
    BY <1>4
  <2>2. UNCHANGED <<report, samples>> /\ quiet' \in BOOLEAN /\ commits' = commits + 1 /\ commits < MaxCommits
    BY <2>1 DEF DeleteProject, SetRates, Disturb, ops
  <2>3. commits' \in 0 .. MaxCommits
    BY <1>1, <2>2, BoundsAssumption DEF Steady
  <2>4. \E c \in Card : card' = [card EXCEPT ![p] = c]
    BY <2>1, ZeroIsACard, ValuesAssumption DEF DeleteProject, SetRates
  <2>5. card' \in [Projects -> Card]
    BY <1>1, <2>4 DEF Tariffs
  <2> QED BY <1>1, <2>2, <2>3, <2>5, OthersKeepBooks
<1>5. CASE Request
  <2>1. CASE StartReport \/ StartUsage
    <3>1. PICK S : Ask(S)
      BY <2>1 DEF StartReport, StartUsage
    <3> QED BY <3>1, AskKeepsBooks
  <2>2. CASE ReadCard
    BY <2>2, ReadCardKeepsBooks
  <2>3. CASE ReadVMs
    <3>1. Steady' /\ Unbooked'
      BY <2>3 DEF ReadVMs, Books, Steady, Unbooked, AtHand, Booked
    <3> QED BY <2>3, <3>1, MovesKeepBooks DEF ReadVMs
  <2>4. CASE ReadSamples
    BY <2>4, ReadSamplesKeepsBooks
  <2>5. CASE NextPass
    <3>1. /\ pc = "next" /\ pass = "current" /\ pass' = "previous"
          /\ UNCHANGED <<billing, ops, pc, project, rate, results, billed, commits, quiet>>
      BY <2>5 DEF NextPass
    <3>2. billed["previous"] = {}
      BY <3>1 DEF Books, Unbooked
    <3>3. \A p : Booked("previous", p) = {}
      BY <3>2 DEF Booked
    <3>4. Steady' /\ Unbooked'
      BY <3>1, <3>3 DEF Books, Steady, Unbooked, AtHand, Booked
    <3> QED BY <3>1, <3>4, MovesKeepBooks
  <2>6. CASE Done
    <3>1. /\ pc = "next" /\ pc' = "done"
          /\ UNCHANGED <<billing, ops, pass, todo, project, rate, results, billed, commits, quiet>>
      BY <2>6 DEF Done
    <3>2. Steady' /\ Unbooked'
      BY <3>1 DEF Books, Steady, Unbooked, AtHand, Booked
    <3> QED BY <3>1, <3>2, MovesKeepBooks
  <2> QED BY <1>5, <2>1, <2>2, <2>3, <2>4, <2>5, <2>6 DEF Request, EndOverview, EndForecast
<1>6. CASE UNCHANGED vars
  BY <1>1, <1>6, OthersKeepBooks DEF vars, billing, ops, Tariffs, Steady
<1> QED BY <1>2, <1>3, <1>4, <1>5, <1>6 DEF Next

Balanced == Held /\ Founded /\ Calm /\ Books

LEMMA SpecIsBalanced == Spec => []Balanced
<1>1. Init => Balanced
  BY InitHolds, InitIsCalm, InitBooks DEF Balanced
<1>2. Balanced /\ [Next]_vars => Balanced'
  BY NextHolds, NextIsCalm, NextKeepsBooks DEF Balanced
<1> QED BY <1>1, <1>2, PTL DEF Spec

(* Every variable has its type at all times, the amounts of a report among   *)
(* them: they are natural numbers, whatever a sample says (engine.py).       *)
THEOREM TypeCorrect == Spec => []TypeOK
<1>1. ASSUME Balanced PROVE TypeOK
  <2>1. Held /\ Shaped /\ Books /\ Tariffs /\ Steady
    BY <1>1 DEF Balanced, Calm, Books
  <2> DEFINE U == [vms : [VMs -> Cost], daily : [Days -> Cost]]
  <2>2. ASSUME NEW ps \in Passes, NEW p \in Projects
        PROVE  results[ps][p] \in U
    <3>1. Booked(ps, p) \in SUBSET Sample /\ IsFiniteSet(Booked(ps, p)) /\ rate[ps][p] \in Card
      BY <2>1, BookedIs DEF Tariffs
    <3>2. results[ps][p] = Usage(Booked(ps, p), rate[ps][p])
      BY <2>1 DEF Books, Accounted
    <3> QED BY <3>1, <3>2, UsageType
  <2> HIDE DEF U
  <2>3. results \in [Passes -> [Projects -> U]]
    BY <2>1, <2>2 DEF Shaped
  <2>4. todo \subseteq Projects
    BY <2>1 DEF Held
  <2> QED BY <2>1, <2>3, <2>4 DEF TypeOK, Held, Tariffs, Steady, U
<1> QED BY <1>1, SpecIsBalanced, PTL

(* The chart by day and the table by VM show the same money, for any samples *)
(* and whatever was committed while they were read (compute_project_usage).  *)
THEOREM DaysAndVMsAgree == Spec => []DailyAddsUp
<1>1. ASSUME Balanced PROVE DailyAddsUp
  <2> SUFFICES ASSUME NEW ps \in Passes, NEW p \in Projects, NEW c \in Parts
               PROVE  SumFunction([v \in VMs |-> results[ps][p].vms[v][c]])
                        = SumFunction([d \in Days |-> results[ps][p].daily[d][c]])
    BY DEF DailyAddsUp
  <2>1. Held /\ Books /\ Tariffs
    BY <1>1 DEF Balanced, Books
  <2>2. Booked(ps, p) \in SUBSET Sample /\ IsFiniteSet(Booked(ps, p)) /\ rate[ps][p] \in Card
    BY <2>1, BookedIs DEF Tariffs
  <2>3. results[ps][p] = Usage(Booked(ps, p), rate[ps][p])
    BY <2>1 DEF Books, Accounted
  <2> QED BY <2>2, <2>3, UsageAddsUp
<1> QED BY <1>1, SpecIsBalanced, PTL

(* A project pays for vCPUs between the floor's share of the flat tariff and *)
(* all of it, and all of it for storage, for any samples, any usage the      *)
(* appliance reports and any rate card (engine.py: _usage_weight).           *)
THEOREM WeightsStayBounded == Spec => []WeightsAreBounded
<1>1. ASSUME Balanced PROVE WeightsAreBounded
  <2> SUFFICES ASSUME NEW ps \in Passes, NEW p \in Projects
               PROVE  LET r == rate[ps][p]
                          on == Booked(ps, p)
                          flat(c) == SumFunction([s \in on |-> Flat(s.kind, r)[c]])
                          got(c)  == SumFunction([v \in VMs |-> results[ps][p].vms[v][c]])
                      IN  /\ got("vdisk") = flat("vdisk")
                          /\ 100 * got("vcpu") <= 100 * flat("vcpu")
                          /\ 100 * got("vcpu") >= (IF r.weighted THEN r.floor ELSE 100) * flat("vcpu")
    BY DEF WeightsAreBounded, Booked
  <2> DEFINE r == rate[ps][p]
             on == Booked(ps, p)
             flat(c) == SumFunction([s \in on |-> Flat(s.kind, r)[c]])
             got(c)  == SumFunction([v \in VMs |-> results[ps][p].vms[v][c]])
             f(c)    == [s \in on |-> Flat(s.kind, r)[c]]
             g(c)    == PriceOf(on, r, c)
             low     == IF r.weighted THEN r.floor ELSE 100
  <2>1. Held /\ Books /\ Tariffs
    BY <1>1 DEF Balanced, Books
  <2>2. /\ on \in SUBSET Sample /\ IsFiniteSet(on) /\ r \in Card /\ Charged(on) = on
    BY <2>1, BookedIs DEF Tariffs
  <2>3. results[ps][p] = Usage(on, r)
    BY <2>1 DEF Books, Accounted
  <2>4. low \in Nat
    BY <2>2 DEF Card
  <2>5. \A c : flat(c) = Sum(f(c), on)
    BY DEF SumFunction, Sum
  <2> HIDE DEF r, on, low
  <2>6. \A c \in Parts : got(c) = Sum(g(c), on)
    BY <2>2, <2>3, UsageAddsUp
  <2>7. "vcpu" \in Parts /\ "vdisk" \in Parts
    BY DEF Parts
  <2>8. ASSUME NEW s \in on
        PROVE  /\ \A c \in Parts : f(c)[s] \in Nat /\ g(c)[s] \in Nat
               /\ g("vdisk")[s] = f("vdisk")[s]
               /\ 100 * g("vcpu")[s] <= 100 * f("vcpu")[s]
               /\ low * f("vcpu")[s] <= 100 * g("vcpu")[s]
    <3>1. s.kind \in Kinds
      BY <2>2 DEF Sample
    <3>2. \A c \in Parts : g(c)[s] \in Nat /\ g(c)[s] = CostOfBlock(s.kind, r)[c]
      BY <2>2, PricesAreNatural
    <3>3. \A c : f(c)[s] = Flat(s.kind, r)[c]
      OBVIOUS
    <3>4. /\ \A c \in Parts : Flat(s.kind, r)[c] \in Nat
          /\ CostOfBlock(s.kind, r)["vdisk"] = Flat(s.kind, r)["vdisk"]
          /\ 100 * CostOfBlock(s.kind, r)["vcpu"] <= 100 * Flat(s.kind, r)["vcpu"]
          /\ low * Flat(s.kind, r)["vcpu"] <= 100 * CostOfBlock(s.kind, r)["vcpu"]
      BY <2>2, <3>1, CostIsBounded DEF low
    <3> HIDE DEF f, g
    <3> QED BY <2>7, <3>2, <3>3, <3>4
  <2> HIDE DEF f, g, flat, got
  <2>9. Sum(g("vdisk"), on) = Sum(f("vdisk"), on)
    BY <2>2, <2>7, <2>8, SumAlike
  <2>10. 100 * Sum(g("vcpu"), on) <= 100 * Sum(f("vcpu"), on)
    BY <2>2, <2>7, <2>8, SumAtMost
  <2>11. low * Sum(f("vcpu"), on) <= 100 * Sum(g("vcpu"), on)
    BY <2>2, <2>4, <2>7, <2>8, SumAtMost
  <2>12. /\ got("vdisk") = flat("vdisk")
         /\ 100 * got("vcpu") <= 100 * flat("vcpu")
         /\ 100 * got("vcpu") >= low * flat("vcpu")
    <3>1. got("vdisk") = Sum(g("vdisk"), on) /\ got("vcpu") = Sum(g("vcpu"), on)
      BY <2>6, <2>7
    <3>2. flat("vdisk") = Sum(f("vdisk"), on) /\ flat("vcpu") = Sum(f("vcpu"), on)
      BY <2>5
    <3>3. /\ Sum(g("vcpu"), on) \in Nat /\ Sum(f("vcpu"), on) \in Nat
      BY <2>2, <2>7, <2>8, SumType
    <3>4. \A x, y \in Nat : low * x <= 100 * y => 100 * y >= low * x
      BY <2>4
    <3> QED BY <2>9, <2>10, <2>11, <3>1, <3>2, <3>3, <3>4
  <2> QED BY <2>12 DEF got, flat, low, r, on
<1> QED BY <1>1, SpecIsBalanced, PTL
=============================================================================
