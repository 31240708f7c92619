---------------------------- MODULE RevenueSplit ----------------------------
(***************************************************************************)
(* The arithmetic of community-service: how one campaign revenue is split  *)
(* between the owner, the active members and the platform.                 *)
(*                                                                         *)
(* The code computes in float64 TON.  Here a revenue total counts units of *)
(* 0.0001 TON (the smallest share the code pays) and every payout counts   *)
(* nano-TON, so that total * percent * multiplier is exact; the rounding   *)
(* of float64 itself is abstracted, the truncation to int64 nano is kept.  *)
(***************************************************************************)
EXTENDS Integers, FiniteSets, Functions

UnitNano == 100000                       \* 0.0001 TON in nano-TON

(* engine.go: the payout multiplier of a quality score, in tenths. *)
revenueMultiplier(score) ==
  CASE score >= 80      -> 10
    [] score \in 50..79 -> 8
    [] score \in 30..49 -> 5
    [] OTHER            -> 0

Split(o, m, p) == [owner |-> o, members |-> m, platform |-> p]
NoOverride     == Split(0, 0, 0)

(* models.go: the percentages paid.  An override counts when its owner     *)
(* percentage is positive; no statement of the repository writes one.      *)
RevenuePercentages(type, override) ==
  IF override.owner > 0 THEN override
  ELSE CASE type = "group"   -> Split(50, 40, 10)
         [] type = "channel" -> Split(90, 0, 10)
         [] OTHER            -> Split(80, 0, 20)

(* total * (pct / 100) * multiplier, in nano-TON. *)
Part(total, pct, score) == total * pct * revenueMultiplier(score) * 100

(* Mutant: the pool of the members is the whole revenue. *)
AmountsOfTotal(type, score, total) ==
  Split(Part(total, 50, score), Part(total, 100, score), Part(total, 10, score))

(* The three amounts of DistributeRevenue. *)
Amounts(type, score, total) ==
  LET pct == RevenuePercentages(type, NoOverride)
  IN  Split(Part(total, pct.owner, score),
            Part(total, pct.members, score),
            Part(total, pct.platform, score))

-----------------------------------------------------------------------------
AtMost(a, b) == IF a < b THEN a ELSE b

(* store.go: the activity score of a member's counters. *)
CalcActivityScore(m) ==
  AtMost(AtMost(m.messages * 2, 40) + AtMost(m.replies * 3, 30)
         + AtMost(m.reactions, 15) + AtMost(m.activeDays * 5, 15), 100)

(* engine.go distributeMemberRewards: the members with a positive score    *)
(* whose share of the pool reaches 0.0001 TON, and what each is sent.      *)
Scored(scores)     == {m \in DOMAIN scores : scores[m] > 0}
TotalScore(scores) == SumFunctionOnSet(scores, Scored(scores))

(* Mutants: shares rounded up; averaged over a fixed 100 points; and with  *)
(* the test for dust the wrong way round.                                  *)
SharesRoundedUp(pool, scores) ==
  [m \in Scored(scores) |-> 1 + (scores[m] * pool) \div TotalScore(scores)]

SharesOfHundred(pool, scores) ==
  [m \in Scored(scores) |-> (scores[m] * pool) \div (100 * Cardinality(Scored(scores)))]

SharesOfDust(pool, scores) ==
  [m \in {m \in Scored(scores) : scores[m] * pool <= UnitNano * TotalScore(scores)}
     |-> (scores[m] * pool) \div TotalScore(scores)]

MemberShares(pool, scores) ==
  LET total  == TotalScore(scores)
      earned == {m \in Scored(scores) : /\ total \in Nat \ {0}
                                        /\ scores[m] * pool >= UnitNano * total}
  IN  [m \in earned |-> (scores[m] * pool) \div total]

=============================================================================
