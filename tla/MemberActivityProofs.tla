------------------------ MODULE MemberActivityProofs ------------------------
(***************************************************************************)
(* Theorems about MemberActivity, for any group of members and any         *)
(* activity: the shares of a pool fit into it, keep back nothing but dust, *)
(* follow the activity, and grow when members drop out.                    *)
(***************************************************************************)
EXTENDS MemberActivity, SumProofs

LEMMA TypeInit == Init => TypeOK
  BY BoundsAssumption DEF Init, TypeOK

LEMMA DocTyped ==
  ASSUME NEW old \in MemberDoc, NEW x \in Nat, NEW y \in Nat, NEW z \in Nat, NEW day \in Nat
  PROVE  [old EXCEPT !.messages = x, !.replies = y, !.reactions = z, !.updated = day] \in MemberDoc
  BY DEF MemberDoc

LEMMA DocUpdated ==
  ASSUME NEW old \in MemberDoc, NEW b \in [messages : Nat, replies : Nat, reactions : Nat],
         NEW day \in Nat
  PROVE  [old EXCEPT !.messages = @ + b.messages, !.replies = @ + b.replies,
                     !.reactions = @ + b.reactions, !.updated = day] \in MemberDoc
<1>1. /\ old.messages + b.messages \in Nat /\ old.replies + b.replies \in Nat
      /\ old.reactions + b.reactions \in Nat
  BY DEF MemberDoc
<1> QED
  BY <1>1, DocTyped

LEMMA TypeStep == TypeOK /\ [Next]_vars => TypeOK'
<1> SUFFICES ASSUME TypeOK, [Next]_vars
             PROVE  TypeOK'
  OBVIOUS
<1> USE BoundsAssumption DEF TypeOK
<1>1. ASSUME NEW m \in Members, NEW b \in Batches, UpdateMemberActivity(m, b)
      PROVE  TypeOK'
  <2> DEFINE old == IF m \in DOMAIN docs THEN docs[m] ELSE NewDoc
             new == [old EXCEPT !.messages = @ + b.messages, !.replies = @ + b.replies,
                                !.reactions = @ + b.reactions, !.updated = today]
  <2>1. docs' = [x \in DOMAIN docs \cup {m} |-> IF x = m THEN new ELSE docs[x]]
    BY <1>1 DEF UpdateMemberActivity
  <2>2. old \in MemberDoc
    BY DEF NewDoc, MemberDoc
  <2>3. b \in [messages : Nat, replies : Nat, reactions : Nat] /\ today \in Nat
    BY AmountsAssumption
  <2>4. new \in MemberDoc
    <3> HIDE DEF old, TypeOK
    <3> QED
      BY <2>2, <2>3, DocUpdated
  <2>5. handled' \in 0..MaxBatches /\ today' \in 0..MaxDay
    BY <1>1 DEF UpdateMemberActivity
  <2> HIDE DEF new
  <2> QED
    BY <2>1, <2>4, <2>5
<1>2. ASSUME NEW n \in Strides, DaysPass(n)
      PROVE  TypeOK'
  BY <1>2 DEF DaysPass
<1>3. CASE UNCHANGED vars
  BY <1>3 DEF vars
<1> QED
  BY <1>1, <1>2, <1>3 DEF Next

(* The documents of a group and the counters are well formed; among it,    *)
(* that nothing ever counts an active day.                                 *)
THEOREM TypeCorrect == Spec => []TypeOK
  BY TypeInit, TypeStep, PTL DEF Spec

-----------------------------------------------------------------------------
LEMMA ScoreRange ==
  ASSUME NEW doc \in MemberDoc
  PROVE  CalcActivityScore(doc) \in Nat
<1>1. /\ doc.messages \in Nat /\ doc.replies \in Nat /\ doc.reactions \in Nat
      /\ doc.activeDays \in Nat
  BY DEF MemberDoc
<1> QED
  BY <1>1 DEF CalcActivityScore, AtMost

LEMMA ScoresNowOK ==
  ASSUME IsFiniteSet(Members), TypeOK
  PROVE  ScoresOK(ScoresNow)
<1>1. GetActiveMembers \subseteq DOMAIN docs /\ DOMAIN docs \subseteq Members
  BY DEF GetActiveMembers, TypeOK
<1>2. IsFiniteSet(GetActiveMembers)
  BY <1>1, FS_Subset
<1>3. \A m \in GetActiveMembers : docs[m] \in MemberDoc
  BY <1>1 DEF TypeOK
<1>4. \A m \in GetActiveMembers : CalcActivityScore(docs[m]) \in Nat
  BY <1>3, ScoreRange
<1> QED
  BY <1>2, <1>4 DEF ScoresOK, ScoresNow

(* The shares of distributeMemberRewards never add up to more than the     *)
(* pool and keep back no more than dust, for any number of members, any    *)
(* counters and any pool.                                                  *)
THEOREM PoolSpent ==
  ASSUME IsFiniteSet(Members)
  PROVE  Spec => []PoolIsSpent
<1>1. TypeOK => PoolIsSpent
  <2> SUFFICES ASSUME TypeOK, NEW pool \in Pools
               PROVE  LET paid    == DOMAIN SharesNow(pool)
                          skipped == Scored(ScoresNow) \ paid
                          kept    == pool - PaidNow(pool)
                      IN  /\ kept >= 0
                          /\ Scored(ScoresNow) # {} =>
                               kept <= Cardinality(paid) + UnitNano * Cardinality(skipped)
    BY DEF PoolIsSpent
  <2>1. pool \in Nat /\ ScoresOK(ScoresNow)
    BY AmountsAssumption, ScoresNowOK
  <2>2. PaidNow(pool) \in Nat /\ PaidNow(pool) <= pool
    BY <2>1, SharesFit DEF PaidNow, SharesNow
  <2>3. pool - PaidNow(pool) >= 0
    BY <2>1, <2>2
  <2>4. Scored(ScoresNow) # {} =>
          pool - PaidNow(pool) <= Cardinality(DOMAIN SharesNow(pool))
            + UnitNano * Cardinality(Scored(ScoresNow) \ DOMAIN SharesNow(pool))
    BY <2>1, DustIsSmall DEF PaidNow, SharesNow
  <2> QED
    BY <2>3, <2>4
<1> QED
  BY <1>1, TypeCorrect, PTL

(* A member is never paid less than one with a lower score. *)
THEOREM ActivityPays ==
  ASSUME IsFiniteSet(Members)
  PROVE  Spec => []MoreActivityMorePay
<1>1. TypeOK => MoreActivityMorePay
  <2> SUFFICES ASSUME TypeOK, NEW pool \in Pools, NEW m \in GetActiveMembers,
                      NEW n \in GetActiveMembers, n \in DOMAIN SharesNow(pool),
                      ScoresNow[m] >= ScoresNow[n]
               PROVE  m \in DOMAIN SharesNow(pool) /\ SharesNow(pool)[m] >= SharesNow(pool)[n]
    BY DEF MoreActivityMorePay
  <2>1. pool \in Nat /\ ScoresOK(ScoresNow) /\ m \in DOMAIN ScoresNow
    BY AmountsAssumption, ScoresNowOK DEF ScoresNow
  <2> QED
    BY <2>1, SharesFollowScores DEF SharesNow
<1> QED
  BY <1>1, TypeCorrect, PTL

(* When members drop out after 30 quiet days, nobody who is still active   *)
(* is sent less of the same pool.                                          *)
THEOREM QuietMakesRoom ==
  ASSUME IsFiniteSet(Members)
  PROVE  Spec => QuietMembersMakeRoom
<1>1. TypeOK /\ TypeOK' /\ [Next]_vars =>
        [docs' = docs =>
           \A pool \in Pools, m \in GetActiveMembers' :
             m \in DOMAIN SharesNow(pool) =>
               m \in DOMAIN SharesNow(pool)' /\ SharesNow(pool)'[m] >= SharesNow(pool)[m]]_vars
  <2> SUFFICES ASSUME TypeOK, TypeOK', [Next]_vars, docs' = docs,
                      NEW pool \in Pools, NEW m \in GetActiveMembers',
                      m \in DOMAIN SharesNow(pool)
               PROVE  m \in DOMAIN SharesNow(pool)' /\ SharesNow(pool)'[m] >= SharesNow(pool)[m]
    OBVIOUS
  <2>1. today' >= today /\ today \in Nat /\ today' \in Nat
    <3>1. today \in Nat /\ today' \in Nat
      BY BoundsAssumption DEF TypeOK
    <3>2. ASSUME NEW x \in Members, NEW b \in Batches, UpdateMemberActivity(x, b)
          PROVE  today' = today
      BY <3>2 DEF UpdateMemberActivity
    <3>3. ASSUME NEW n \in Strides, DaysPass(n)
          PROVE  today' >= today
      BY <3>1, <3>3, BoundsAssumption DEF DaysPass
    <3>4. today' = today \/ today' >= today
      BY <3>2, <3>3 DEF Next, vars
    <3> QED
      BY <3>1, <3>4
  <2>2. pool \in Nat /\ ScoresOK(ScoresNow) /\ ScoresOK(ScoresNow')
    <3>1. ScoresOK(ScoresNow)'
      BY ScoresNowOK, PTL
    <3> QED
      BY <3>1, AmountsAssumption, ScoresNowOK DEF ScoresOK
  <2>3. GetActiveMembers' \subseteq GetActiveMembers
    <3>1. \A x \in DOMAIN docs : docs[x].updated \in Nat
      BY DEF TypeOK, MemberDoc
    <3> QED
      BY <2>1, <3>1 DEF GetActiveMembers, RewardDays
  <2>4. /\ DOMAIN ScoresNow' \subseteq DOMAIN ScoresNow /\ m \in DOMAIN ScoresNow'
        /\ \A x \in DOMAIN ScoresNow' : ScoresNow'[x] = ScoresNow[x]
    BY <2>3 DEF ScoresNow
  <2> DEFINE before == ScoresNow
             after  == ScoresNow'
  <2>5. /\ m \in DOMAIN MemberShares(pool, after)
        /\ MemberShares(pool, after)[m] >= MemberShares(pool, before)[m]
    <3>1. m \in DOMAIN MemberShares(pool, before)
      BY DEF SharesNow
    <3> HIDE DEF before, after
    <3> QED
      BY <2>2, <2>4, <3>1, RoomIsMade DEF before, after
  <2> QED
    BY <2>5 DEF SharesNow
<1> QED
  BY <1>1, TypeCorrect, PTL DEF Spec, QuietMembersMakeRoom
=============================================================================
