--------------------------- MODULE RevenueLedger ---------------------------
(***************************************************************************)
(* What community-service promises about one booked revenue: it is booked  *)
(* once, the owner is paid at most once, the platform at most once and     *)
(* after the owner, and it is settled with both shares sent or with none;  *)
(* nothing happens to a settled row.  A row may stay open for ever.        *)
(***************************************************************************)
CONSTANT RevIds
VARIABLES row, ownerPaid, platformPaid

vars == <<row, ownerPaid, platformPaid>>

Init ==
  /\ row = [r \in RevIds |-> "absent"]
  /\ ownerPaid = [r \in RevIds |-> 0]
  /\ platformPaid = [r \in RevIds |-> 0]

Book(r) ==
  /\ row[r] = "absent"
  /\ row' = [row EXCEPT ![r] = "pending"]
  /\ UNCHANGED <<ownerPaid, platformPaid>>

PayOwner(r) ==
  /\ row[r] = "pending" /\ ownerPaid[r] = 0
  /\ ownerPaid' = [ownerPaid EXCEPT ![r] = 1]
  /\ UNCHANGED <<row, platformPaid>>

PayPlatform(r) ==
  /\ row[r] = "pending" /\ ownerPaid[r] = 1 /\ platformPaid[r] = 0
  /\ platformPaid' = [platformPaid EXCEPT ![r] = 1]
  /\ UNCHANGED <<row, ownerPaid>>

Settle(r) ==
  /\ row[r] = "pending" /\ ownerPaid[r] = platformPaid[r]
  /\ row' = [row EXCEPT ![r] = "distributed"]
  /\ UNCHANGED <<ownerPaid, platformPaid>>

Next == \E r \in RevIds : Book(r) \/ PayOwner(r) \/ PayPlatform(r) \/ Settle(r)

Spec == Init /\ [][Next]_vars

=============================================================================
