--------------------------- MODULE MemberActivity ---------------------------
(***************************************************************************)
(* The community_activity documents of one group, and the shares that      *)
(* distributeMemberRewards would send from them if a revenue were paid out *)
(* now.  This is the service with a Mongo database; without one (main.go)  *)
(* there are no documents and no shares.                                   *)
(***************************************************************************)
EXTENDS Integers, RevenueSplit

CONSTANTS
  Members,    \* Telegram users of the group
  Batches,    \* [messages, replies, reactions] of a community.activity.updated
  Pools,      \* pools of member shares, in nano-TON
  MaxBatches, \* bound: messages handled
  Strides,    \* bound: the numbers of days the clock advances by
  MaxDay      \* bound: days the model covers

RewardDays == 30

ASSUME BoundsAssumption == MaxBatches \in Nat /\ MaxDay \in Nat /\ Strides \subseteq Nat
ASSUME AmountsAssumption ==
  Batches \subseteq [messages : Nat, replies : Nat, reactions : Nat] /\ Pools \subseteq Nat

VARIABLES
  docs,     \* the documents: counters and day of updated_at
  today,
  handled   \* messages handled so far

vars == <<docs, today, handled>>

MemberDoc == [messages : Nat, replies : Nat, reactions : Nat, activeDays : {0}, updated : Nat]

Init == docs = <<>> /\ today = 0 /\ handled = 0

(* An upsert: $inc on the counters, $set on updated_at.  No statement of    *)
(* the repository writes active_days or activity_score.                     *)
NewDoc == [messages |-> 0, replies |-> 0, reactions |-> 0, activeDays |-> 0, updated |-> 0]

(* Mutant: every batch of an active member counts an active day. *)
CountActiveDay(m, b) ==
  /\ handled < MaxBatches
  /\ handled' = handled + 1
  /\ LET old == IF m \in DOMAIN docs THEN docs[m] ELSE NewDoc
         new == [old EXCEPT !.messages = @ + b.messages, !.replies = @ + b.replies,
                            !.reactions = @ + b.reactions, !.activeDays = @ + 1,
                            !.updated = today]
     IN  docs' = [x \in DOMAIN docs \cup {m} |-> IF x = m THEN new ELSE docs[x]]
  /\ UNCHANGED today

UpdateMemberActivity(m, b) ==
  /\ handled < MaxBatches
  /\ handled' = handled + 1
  /\ LET old == IF m \in DOMAIN docs THEN docs[m] ELSE NewDoc
         new == [old EXCEPT !.messages = @ + b.messages, !.replies = @ + b.replies,
                            !.reactions = @ + b.reactions, !.updated = today]
     IN  docs' = [x \in DOMAIN docs \cup {m} |-> IF x = m THEN new ELSE docs[x]]
  /\ UNCHANGED today

DaysPass(n) ==
  /\ today + n <= MaxDay
  /\ today' = today + n
  /\ UNCHANGED <<docs, handled>>

Next ==
  \/ \E m \in Members, b \in Batches : UpdateMemberActivity(m, b)
  \/ \E n \in Strides : DaysPass(n)

Spec == Init /\ [][Next]_vars

(* Mutant: the members quiet for 30 days, and not the others. *)
GetQuietMembers == {m \in DOMAIN docs : docs[m].updated < today - RewardDays}

(* The documents of the last 30 days, scored, and what each would be sent. *)
GetActiveMembers == {m \in DOMAIN docs : docs[m].updated >= today - RewardDays}
ScoresNow == [m \in GetActiveMembers |-> CalcActivityScore(docs[m])]
SharesNow(pool) == MemberShares(pool, ScoresNow)
PaidNow(pool) == SumFunction(SharesNow(pool))

-----------------------------------------------------------------------------
TypeOK ==
  /\ DOMAIN docs \subseteq Members
  /\ \A m \in DOMAIN docs : docs[m] \in MemberDoc
  /\ today \in 0..MaxDay /\ handled \in 0..MaxBatches

(* The shares of distributeMemberRewards never add up to more than the      *)
(* pool, in spite of the truncation of each to whole nano-TON, and what is  *)
(* kept back is dust: under one nano-TON for each member paid and under     *)
(* 0.0001 TON for each member skipped.                                      *)
PoolIsSpent ==
  \A pool \in Pools :
    LET paid    == DOMAIN SharesNow(pool)
        skipped == Scored(ScoresNow) \ paid
        kept    == pool - PaidNow(pool)
    IN  /\ kept >= 0
        /\ Scored(ScoresNow) # {} => kept <= Cardinality(paid) + UnitNano * Cardinality(skipped)

(* A member is never paid less than one with a lower score. *)
MoreActivityMorePay ==
  \A pool \in Pools : \A m, n \in GetActiveMembers :
    LET shares == SharesNow(pool)
    IN  n \in DOMAIN shares /\ ScoresNow[m] >= ScoresNow[n] =>
          m \in DOMAIN shares /\ shares[m] >= shares[n]

(* When a member drops out after 30 quiet days, nobody who is still active  *)
(* is sent less of the same pool than before.                               *)
QuietMembersMakeRoom ==
  [][docs' = docs =>
       \A pool \in Pools, m \in GetActiveMembers' :
         m \in DOMAIN SharesNow(pool) =>
           m \in DOMAIN SharesNow(pool)' /\ SharesNow(pool)'[m] >= SharesNow(pool)[m]]_vars

=============================================================================
