-------------------------- MODULE MCMemberActivity --------------------------
(* Values for the model-checking run of MemberActivity. *)
EXTENDS MemberActivity, TLC

MCBatches == {[messages |-> 1,  replies |-> 0,  reactions |-> 0],
              [messages |-> 7,  replies |-> 3,  reactions |-> 2],
              [messages |-> 25, replies |-> 12, reactions |-> 20]}
MCPools   == {99999, 300000, 1000001, 8000000}
Users     == Permutations(Members)

=============================================================================
