---------------------------- MODULE MCFraudUsers ----------------------------
(* Documents for the model-checking run of FraudUsers.                     *)
EXTENDS FraudUsers

CONSTANT c1

MCImported ==
  {[joins |-> 0, leaves |-> 0, campaigns |-> 3, completions |-> 2, username |-> "n",
    first |-> "n", photo |-> TRUE, bot |-> FALSE, trust |-> 0]}

(* Two memberships that are both open since a leave was lost.              *)
Since(d) == [comm |-> c1, day |-> d, left |-> -1, duration |-> -1]
MCPast == {<<Since(20), Since(40)>>}

(* A page and a short page, one full page, a user without a profile.       *)
MCHolders == {{1, 2, 3}, {1, 2}, {2}}

MCRenamings == {[username |-> "", first |-> ""]}

=============================================================================
