---------------------------- MODULE MCScoreFlow ----------------------------
(* Symmetry for the model-checking run of ScoreFlow. *)
EXTENDS ScoreFlow, TLC

Same == Permutations(Instances)

=============================================================================
