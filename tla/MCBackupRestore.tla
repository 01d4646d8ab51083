--------------------------- MODULE MCBackupRestore ---------------------------
(* An instance of BackupRestore for TLC. *)
EXTENDS BackupRestore, TLC

CONSTANTS h1, h2

(* A file of another deployment: a project 1 whose criterion is cluster 2.   *)
Earlier ==
  [parents |-> [d \in Databases |-> [n \in 1 .. MaxId |->
      IF d = Billing /\ n = 1 THEN 3 ELSE IF d = Operations /\ n = 2 THEN 4 ELSE 0]],
   children |-> [d \in Databases |->
      IF d = Billing THEN {[of |-> 1, to |-> 2, meant |-> 4]} ELSE {}],
   meanwhile |-> {}]

HandlerSymmetry == Permutations(Handlers)
=============================================================================
