----------------------------- MODULE MCRevenue -----------------------------
(* Values for the model-checking runs of Revenue. *)
EXTENDS Revenue, TLC

MCServes == [t \in Triggers |-> CHOOSE i \in Instances : TRUE]
Rows == Permutations(RevIds)

=============================================================================
