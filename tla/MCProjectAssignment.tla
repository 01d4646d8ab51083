----------------------- MODULE MCProjectAssignment -----------------------
(* Instances of ProjectAssignment for TLC. *)
EXTENDS ProjectAssignment, TLC

CONSTANTS h1, h2, t1, t2, a1, a2, v1, v2, c1, c2, f1, g1, g2

(* One account: every VM and criterion belongs to it. *)
OneAccount == [x \in VMs \cup Criteria |-> a1]

HandlerSymmetry == Permutations(Handlers)
VMSymmetry == HandlerSymmetry \cup Permutations(VMs)

(* What requests, races and faults may leave behind: two projects, one of    *)
(* them perhaps deleted again, any criteria, any VM, any owner, an account   *)
(* as it should be, restored or without its password, and in h1 a recompute  *)
(* from before that is still to write its result.                            *)
Aftermath ==
  /\ tenants = Tenants /\ nextProject = 3
  /\ projects \in {{1, 2}, {2}}
  /\ tenantOf = [p \in ProjectId |-> t1]
  /\ inventory = Criteria /\ vms = {v1}
  /\ \E S1, S2 \in {S \in SUBSET Criteria : Cardinality(S) \in {1, 2}} :
       links = [p \in ProjectId |-> IF p \notin projects THEN {} ELSE IF p = 1 THEN S1 ELSE S2]
  /\ account \in [Accounts -> Registered]
  /\ carried \in [VMs -> Placements(v1)]
  /\ owner \in [VMs -> {Nobody, 1, 2}]
  /\ req = [h \in Procs |-> NoRequest]
  /\ todo = {}
  /\ pc = [h \in Procs |-> IF h = h1 THEN "write" ELSE "idle"]
  /\ \E new \in [VMs -> {Nobody, 1, 2}] :
       work = [h \in Procs |-> IF h = h1
                THEN [NoWork EXCEPT !.ids = {1, 2}, !.loaded = VMs, !.new = new,
                        !.old = [v \in VMs |-> IF new[v] = 2 THEN 1 ELSE 2]]
                ELSE NoWork]
  /\ IF \A a \in Accounts : account[a] = "live"
     THEN requests = MaxRequests /\ faults = 0
     ELSE requests = MaxRequests - 1 /\ faults = MaxFaults
  /\ moves = 0
  /\ selected = {1, 2} \X Criteria
  /\ borne = VMs \X Criteria
  /\ disturbed = {h1}

(* What is still to come is a fault, or an edit of an account that needs it. *)
AftermathNext ==
  \/ \E h \in Handlers : EditAccount(h) \/ Serve(h)
  \/ Collect
  \/ \E h \in Procs : Fault(h)

(* run_forever never stops; h1 may never come to its write. *)
AftermathSpec == Aftermath /\ [][AftermathNext]_vars /\ WF_vars(Collect)
=============================================================================
