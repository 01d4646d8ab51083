--------------------------- MODULE MCUsageReport ---------------------------
(* Instances of UsageReport for TLC. *)
EXTENDS UsageReport, TLC

CONSTANTS p1, p2, v1, v2, t1, t2

FlatCard     == [vcpu |-> 2, vdisk |-> 1, weighted |-> FALSE, floor |-> 30]
WeightedCard == [vcpu |-> 3, vdisk |-> 1, weighted |-> TRUE, floor |-> 30]

(* Usage that is unknown, partial, and beyond what a percentage can be. *)
SomeKinds ==
  {[power |-> "on", cores |-> 2, disk |-> 1, usage |-> Unknown],
   [power |-> "on", cores |-> 1, disk |-> 2, usage |-> 50],
   [power |-> "on", cores |-> 1, disk |-> 1, usage |-> 120],
   [power |-> "on", cores |-> 1, disk |-> 1, usage |-> -50],
   [power |-> "off", cores |-> 2, disk |-> 1, usage |-> Unknown]}

ReportCards == {FlatCard, WeightedCard}
Blocks == 1 .. 4

TwoTenants == [p \in Projects |-> IF p = p1 THEN t1 ELSE t2]

(* Each tenant has one project, and the state names no tenant: projects may  *)
(* be exchanged.                                                             *)
ReportSymmetry == Permutations(Projects) \cup Permutations(VMs)
=============================================================================
