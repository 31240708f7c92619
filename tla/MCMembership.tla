---------------------------- MODULE MCMembership ----------------------------
(* The instance that TLC checks. *)
EXTENDS Membership

=============================================================================
