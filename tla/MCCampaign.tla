---------------------------- MODULE MCCampaign ----------------------------
(***************************************************************************)
(* Two clients, two directories whose rows carry five labels and one, two  *)
(* launches that share the executions and the heartbeats.                  *)
(***************************************************************************)
EXTENDS PostProcess

MCLabels == [d \in Dirs |-> IF d = CHOOSE e \in Dirs : TRUE THEN 5 ELSE 1]
Symmetry == Permutations(Clients)

=============================================================================
