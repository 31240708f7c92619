----------------------------- MODULE TrustScore -----------------------------
(***************************************************************************)
(* UserScorer.Calculate of fraud-engine as a function of what it reads:    *)
(* the profile, the memberships that began in the last 90 days and the     *)
(* number of activity documents of the last 30.  The memberships keep the  *)
(* places they have in the collection; nothing depends on those.           *)
(*                                                                         *)
(* Times are whole days.  The code adds float64 factors and truncates; the *)
(* factors with a fraction are added here over their common denominator,   *)
(* so that the sum is exact before the truncation.                         *)
(***************************************************************************)
EXTENDS Integers, FiniteSetsExt

RecentDays == 90      \* GetRecentMemberships
ActiveDays == 30      \* GetActivityDays

Unknown == 50         \* the score without a profile

Stays(m) == m.left = -1
DurationDays(m, now) == IF m.duration < 0 THEN now - m.day ELSE m.duration

(* Mutant: memberships of the last 60 days only. *)
RecentSixty(ms, now) == [n \in {n \in DOMAIN ms : ms[n].day >= now - 60} |-> ms[n]]

GetRecentMemberships(ms, now) ==
  [n \in {n \in DOMAIN ms : ms[n].day >= now - RecentDays} |-> ms[n]]

(* 1: five points for each step the average length of a membership reaches. *)
DurationScore(ms, now) ==
  LET total == SumFunctionOnSet([n \in DOMAIN ms |-> DurationDays(ms[n], now)], DOMAIN ms)
  IN  IF DOMAIN ms = {} THEN 0
      ELSE 5 * Cardinality({days \in {1, 3, 7, 14, 30} : total >= days * Cardinality(DOMAIN ms)})

(* 2: five points for each share of leaves in joins that is not exceeded.  *)
JoinLeaveScore(p) ==
  IF p.joins = 0 THEN 10
  ELSE 5 * Cardinality({percent \in {30, 50, 70, 90} : 100 * p.leaves <= percent * p.joins})

(* 5: the number of communities, up to 10; more than 20 are suspicious. *)
DiversityScore(ms) ==
  LET communities == Cardinality({ms[n].comm : n \in DOMAIN ms})
  IN  CASE communities = 0       -> 0
        [] communities \in 1..2  -> 3
        [] communities \in 3..5  -> 7
        [] communities \in 6..20 -> 10
        [] OTHER                 -> 3

(* 3, 4 and 6, in hundredths times n * c: activity documents at 0.67, up   *)
(* to 20; the share of the n memberships that last, up to 20 (10 without   *)
(* any); the share of the c campaigns the user stayed after, up to 5.      *)
Fractions(p, ms, active, n, c) ==
  (IF active < ActiveDays THEN 67 * active ELSE 2000) * n * c
  + (IF DOMAIN ms = {} THEN 1000 * n * c
     ELSE 2000 * Cardinality({k \in DOMAIN ms : Stays(ms[k])}) * c)
  + (IF p.campaigns = 0 THEN 0 ELSE 500 * p.completions * n)

Factors(p, ms, active, now) ==
  LET n == IF DOMAIN ms = {} THEN 1 ELSE Cardinality(DOMAIN ms)
      c == IF p.campaigns = 0 THEN 1 ELSE p.campaigns
  IN  (100 * n * c * (DurationScore(ms, now) + JoinLeaveScore(p) + DiversityScore(ms))
       + Fractions(p, ms, active, n, c)) \div (100 * n * c)

Cap(score) == IF score > 100 THEN 100 ELSE score

(* Without photo and user name a profile counts 85%, that of a bot half.   *)
(* No factor is negative, so that the lower bound of the code is met.      *)
Trust(p, ms, active, now) ==
  LET named == IF ~p.photo /\ p.username = "" THEN 85 ELSE 100
  IN  ((Cap(Factors(p, ms, active, now)) * named) \div 100) \div (IF p.bot THEN 2 ELSE 1)

=============================================================================
