----------------------------- MODULE VMOwnership -----------------------------
(***************************************************************************)
(* What the assignment of VMs to projects promises to whoever reads the    *)
(* bill, without databases, statements or processes: a VM has one owner or *)
(* none; ownership passes only to a project that is known to some running  *)
(* recomputation and that is entitled to the VM; a project becomes known   *)
(* only while it exists, so a deleted project that nobody knows any more   *)
(* gets no VM again.  ProjectAssignment implements this module.            *)
(***************************************************************************)
EXTENDS Integers

CONSTANTS VMs, ProjectId, Nobody

VARIABLES
  created,    \* the projects that were ever created
  alive,      \* those that exist
  known,      \* those some running recomputation has read
  entitled,   \* <<v, p>> : p has selected something v has carried
  owner       \* the project each VM is billed to

vars == <<created, alive, known, entitled, owner>>

Init ==
  /\ created = {} /\ alive = {} /\ known = {} /\ entitled = {}
  /\ owner = [v \in VMs |-> Nobody]

(* A project is created or its criteria change. *)
Offer ==
  /\ \/ UNCHANGED <<created, alive>>
     \/ \E p \in ProjectId \ created :
          created' = created \cup {p} /\ alive' = alive \cup {p}
  /\ entitled \subseteq entitled'
  /\ entitled' \subseteq VMs \X ProjectId
  /\ UNCHANGED <<known, owner>>

Withdraw ==
  /\ alive' \subseteq alive
  /\ known' \subseteq known
  /\ UNCHANGED <<created, entitled, owner>>

Learn ==
  /\ known' = known \cup alive
  /\ UNCHANGED <<created, alive, entitled, owner>>

Assign ==
  /\ owner' \in [VMs -> ProjectId \cup {Nobody}]
  /\ \A v \in VMs :
       \/ owner'[v] \in {owner[v], Nobody}
       \/ owner'[v] \in known /\ <<v, owner'[v]>> \in entitled
  /\ known' \subseteq known
  /\ UNCHANGED <<created, alive, entitled>>

Next == Offer \/ Withdraw \/ Learn \/ Assign

Spec == Init /\ [][Next]_vars
=============================================================================
