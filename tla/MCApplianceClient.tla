--------------------------- MODULE MCApplianceClient ---------------------------
(* An instance of ApplianceClient for TLC. *)
EXTENDS ApplianceClient

CONSTANTS v1, v2, v3, h1, h2, c1, c2, f1, f2

(* Two VMs to begin with; a third, the appliance itself, that may be created. *)
MCInit ==
  /\ Init
  /\ order = <<v1, v2>>
  /\ folderOf = [v \in VMs |-> f1]
  /\ clusterOf = [h \in Hosts |-> IF h = h1 THEN c1 ELSE c2]
  /\ hostOf[v1] = h1 /\ hostOf[v3] = h1
  /\ known \in {{}, VMs}

MCSpec == MCInit /\ [][Next]_vars
MCFairSpec == MCSpec /\ WF_vars(Client)
=============================================================================
