------------------------- MODULE MCFraudMemberships -------------------------
(* Symmetry for the model-checking runs of FraudMemberships. *)
EXTENDS FraudMemberships, TLC

Same == Permutations(JoinSubs) \cup Permutations(Users)

=============================================================================
