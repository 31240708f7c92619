---------------------------- MODULE MCNatsRetry ----------------------------
(* The instance that TLC checks. *)
EXTENDS NatsRetry

=============================================================================
