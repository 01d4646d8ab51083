--------------------------- MODULE MCCollection ---------------------------
(* Instances of Collection for TLC. *)
EXTENDS Collection, TLC

CONSTANTS h1, h2, a1, a2, v1, v2

(* Every VM runs in the first account. *)
BothInFirst == [v \in VMs |-> a1]

VMSymmetry == Permutations(VMs)
=============================================================================
