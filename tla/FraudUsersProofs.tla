-------------------------- MODULE FraudUsersProofs --------------------------
(***************************************************************************)
(* Theorems about FraudUsers, for any number of users, subscriptions and   *)
(* requests, failing calls and shutdown at any point: documents and scores *)
(* keep their range, a batch recalculates every profile once, and neither  *)
(* leaving nor staying changes a trust score in the wrong direction.       *)
(***************************************************************************)
EXTENDS FraudUsers, SumProofs

(* A subset of few numbers is finite, and a larger one counts for more. *)
LEMMA SmallSets ==
  ASSUME NEW S \in SUBSET (0..100), NEW T \in SUBSET S
  PROVE  Cardinality(S) \in Nat /\ Cardinality(T) \in Nat /\ Cardinality(T) <= Cardinality(S)
<1>1. IsFiniteSet(S)
  <2>1. IsFiniteSet(0..100)
    <3>1. 0 \in Int /\ 100 \in Int
      OBVIOUS
    <3> QED
      BY ONLY <3>1, FS_Interval
  <2> QED
    BY <2>1, FS_Subset
<1> QED
  BY <1>1, FS_Subset, FS_CardinalityType

LEMMA ProductNat == \A a, b \in Nat : a * b \in Nat
  OBVIOUS

LEMMA ProductPositive == \A a, b \in Nat \ {0} : a * b \in Nat \ {0}
  OBVIOUS

LEMMA FactorsNat ==
  ASSUME NEW p, NEW ms, NEW now
  PROVE  DurationScore(ms, now) \in Nat /\ JoinLeaveScore(p) \in Nat /\ DiversityScore(ms) \in Nat
<1>1. DurationScore(ms, now) \in Nat
  <2> DEFINE total == SumFunctionOnSet([n \in DOMAIN ms |-> DurationDays(ms[n], now)], DOMAIN ms)
             S == {days \in {1, 3, 7, 14, 30} : total >= days * Cardinality(DOMAIN ms)}
  <2>1. S \in SUBSET (0..100)
    OBVIOUS
  <2> HIDE DEF S
  <2>2. Cardinality(S) \in Nat
    BY <2>1, SmallSets
  <2>3. 5 * Cardinality(S) \in Nat
    BY <2>2
  <2> QED
    BY <2>3 DEF DurationScore, S
<1>2. JoinLeaveScore(p) \in Nat
  <2> DEFINE S == {percent \in {30, 50, 70, 90} : 100 * p.leaves <= percent * p.joins}
  <2>1. S \in SUBSET (0..100)
    OBVIOUS
  <2> HIDE DEF S
  <2>2. Cardinality(S) \in Nat
    BY <2>1, SmallSets
  <2>3. 5 * Cardinality(S) \in Nat
    BY <2>2
  <2> QED
    BY <2>3 DEF JoinLeaveScore, S
<1>3. DiversityScore(ms) \in Nat
  BY DEF DiversityScore
<1> QED
  BY <1>1, <1>2, <1>3

(* The numbers of memberships and campaigns Factors divides by. *)
Divisor(ms)  == IF DOMAIN ms = {} THEN 1 ELSE Cardinality(DOMAIN ms)
Campaigns(p) == IF p.campaigns = 0 THEN 1 ELSE p.campaigns

LEMMA DivisorsPositive ==
  ASSUME NEW p \in UserProfile, NEW ms, IsFiniteSet(DOMAIN ms)
  PROVE  Divisor(ms) \in Nat \ {0} /\ Campaigns(p) \in Nat \ {0}
<1>1. Divisor(ms) \in Nat \ {0}
  BY FS_CardinalityType, FS_EmptySet DEF Divisor
<1>2. Campaigns(p) \in Nat \ {0}
  BY DEF Campaigns, UserProfile
<1> QED
  BY <1>1, <1>2

Staying(ms) == Cardinality({k \in DOMAIN ms : Stays(ms[k])})

(* The dividend of Factors. *)
Points(p, ms, active, now) ==
  100 * Divisor(ms) * Campaigns(p) * (DurationScore(ms, now) + JoinLeaveScore(p) + DiversityScore(ms))
  + Fractions(p, ms, active, Divisor(ms), Campaigns(p))

LEMMA FactorsAre ==
  ASSUME NEW p, NEW ms, NEW active, NEW now
  PROVE  Factors(p, ms, active, now) = Points(p, ms, active, now) \div (100 * Divisor(ms) * Campaigns(p))
  BY DEF Factors, Points, Divisor, Campaigns

LEMMA FractionsNat ==
  ASSUME NEW p \in UserProfile, NEW ms, IsFiniteSet(DOMAIN ms), NEW active \in Nat,
         NEW n \in Nat, NEW c \in Nat
  PROVE  Fractions(p, ms, active, n, c) \in Nat
<1> DEFINE a == IF active < ActiveDays THEN 67 * active ELSE 2000
           k == Staying(ms)
<1>1. a \in Nat
  BY DEF ActiveDays
<1>2. k \in Nat
  BY FS_Subset, FS_CardinalityType DEF Staying
<1>3. p.campaigns \in Nat /\ p.completions \in Nat
  BY DEF UserProfile
<1>4. a * n * c \in Nat /\ 1000 * n * c \in Nat /\ 2000 * k * c \in Nat /\ 500 * p.completions * n \in Nat
  <2> HIDE DEF a, k
  <2> QED
    BY <1>1, <1>2, <1>3, ProductNat
<1> QED
  <2> DEFINE x == a * n * c
             y == IF DOMAIN ms = {} THEN 1000 * n * c ELSE 2000 * k * c
             z == IF p.campaigns = 0 THEN 0 ELSE 500 * p.completions * n
  <2>1. x \in Nat /\ y \in Nat /\ z \in Nat
    BY <1>4
  <2>2. Fractions(p, ms, active, n, c) = x + y + z
    BY DEF Fractions, Staying
  <2> HIDE DEF x, y, z
  <2> QED
    BY <2>1, <2>2

LEMMA PointsNat ==
  ASSUME NEW p \in UserProfile, NEW ms, IsFiniteSet(DOMAIN ms), NEW active \in Nat, NEW now
  PROVE  /\ Points(p, ms, active, now) \in Nat
         /\ 100 * Divisor(ms) * Campaigns(p) \in Nat \ {0}
<1> DEFINE n == Divisor(ms)
           c == Campaigns(p)
           whole == DurationScore(ms, now) + JoinLeaveScore(p) + DiversityScore(ms)
           fractions == Fractions(p, ms, active, n, c)
<1>1. n \in Nat \ {0} /\ c \in Nat \ {0}
  BY DivisorsPositive
<1>2. whole \in Nat
  BY FactorsNat
<1>3. fractions \in Nat
  BY <1>1, FractionsNat
<1>4. Points(p, ms, active, now) = 100 * n * c * whole + fractions
  BY DEF Points
<1> HIDE DEF n, c, whole, fractions
<1>5. 100 * n * c \in Nat \ {0}
  BY <1>1, ProductPositive
<1>6. 100 * n * c * whole \in Nat
  BY <1>2, <1>5, ProductNat
<1> QED
  BY <1>3, <1>4, <1>5, <1>6 DEF n, c

LEMMA FactorsTyped ==
  ASSUME NEW p \in UserProfile, NEW ms, IsFiniteSet(DOMAIN ms), NEW active \in Nat, NEW now
  PROVE  Factors(p, ms, active, now) \in Nat
  BY PointsNat, FactorsAre, DivFacts

(* What is left of the points for a profile without a face, and for a bot. *)
Rated(p, points) ==
  ((Cap(points) * (IF ~p.photo /\ p.username = "" THEN 85 ELSE 100)) \div 100)
    \div (IF p.bot THEN 2 ELSE 1)

LEMMA RatedRange ==
  ASSUME NEW p, NEW points \in Nat
  PROVE  Rated(p, points) \in 0..100
<1>1. Cap(points) \in 0..100
  BY DEF Cap
<1>2. \A x \in 0..100 : (x * 85) \div 100 \in 0..100 /\ (x * 100) \div 100 \in 0..100
  OBVIOUS
<1>3. \A x \in 0..100 : x \div 2 \in 0..100 /\ x \div 1 \in 0..100
  OBVIOUS
<1> QED
  BY <1>1, <1>2, <1>3 DEF Rated

LEMMA RatedMonotone ==
  ASSUME NEW p, NEW a \in Nat, NEW b \in Nat, a <= b
  PROVE  Rated(p, a) <= Rated(p, b)
<1>1. Cap(a) \in 0..100 /\ Cap(b) \in 0..100 /\ Cap(a) <= Cap(b)
  BY DEF Cap
<1>2. \A x, y \in 0..100 : x <= y => (x * 85) \div 100 <= (y * 85) \div 100
                                  /\ (x * 100) \div 100 <= (y * 100) \div 100
  OBVIOUS
<1>3. \A x \in 0..100 : (x * 85) \div 100 \in 0..100 /\ (x * 100) \div 100 \in 0..100
  OBVIOUS
<1>4. \A x, y \in 0..100 : x <= y => x \div 2 <= y \div 2 /\ x \div 1 <= y \div 1
  OBVIOUS
<1> DEFINE share == IF ~p.photo /\ p.username = "" THEN 85 ELSE 100
           x == (Cap(a) * share) \div 100
           y == (Cap(b) * share) \div 100
<1>5. x \in 0..100 /\ y \in 0..100 /\ x <= y
  <2>1. share = 85 \/ share = 100
    OBVIOUS
  <2> HIDE DEF share
  <2> QED
    BY <1>1, <1>2, <1>3, <2>1
<1>6. Rated(p, a) = x \div (IF p.bot THEN 2 ELSE 1) /\ Rated(p, b) = y \div (IF p.bot THEN 2 ELSE 1)
  BY DEF Rated
<1> HIDE DEF x, y
<1> QED
  BY <1>4, <1>5, <1>6

LEMMA TrustIs ==
  ASSUME NEW p, NEW ms, NEW active, NEW now
  PROVE  Trust(p, ms, active, now) = Rated(p, Factors(p, ms, active, now))
  BY DEF Trust, Rated

(* A trust score lies between 0 and 100, whatever it is computed from. *)
LEMMA TrustRange ==
  ASSUME NEW p \in UserProfile, NEW ms, IsFiniteSet(DOMAIN ms), NEW active \in Nat, NEW now
  PROVE  Trust(p, ms, active, now) \in 0..100
  BY TrustIs, FactorsTyped, RatedRange

-----------------------------------------------------------------------------
(* Each factor goes with the user: longer memberships, more of them that   *)
(* last, and fewer leaves never make a score lower.                        *)

Better(ms, now, mt, later) ==
  /\ DOMAIN mt = DOMAIN ms
  /\ \A n \in DOMAIN ms :
       /\ DurationDays(ms[n], now) \in Int /\ DurationDays(mt[n], later) \in Int
       /\ DurationDays(ms[n], now) <= DurationDays(mt[n], later)
       /\ Stays(ms[n]) => Stays(mt[n])
       /\ ms[n].comm = mt[n].comm

LEMMA DurationGrows ==
  ASSUME NEW ms, NEW mt, NEW now, NEW later, IsFiniteSet(DOMAIN ms), Better(ms, now, mt, later)
  PROVE  DurationScore(ms, now) <= DurationScore(mt, later)
<1> DEFINE f == [n \in DOMAIN ms |-> DurationDays(ms[n], now)]
           g == [n \in DOMAIN mt |-> DurationDays(mt[n], later)]
           D == DOMAIN ms
           size == Cardinality(D)
           x == SumFunctionOnSet(f, D)
           y == SumFunctionOnSet(g, D)
           S == {days \in {1, 3, 7, 14, 30} : x >= days * size}
           T == {days \in {1, 3, 7, 14, 30} : y >= days * size}
<1>1. DOMAIN mt = D
  BY DEF Better
<1>2. \A n \in D : f[n] \in Int /\ g[n] \in Int /\ f[n] <= g[n]
  BY <1>1 DEF Better
<1>3. x \in Int /\ y \in Int /\ x <= y
  <2> HIDE DEF f, g
  <2> QED
    BY <1>2, SumInt, SumMonotone
<1>4. size \in Nat
  BY FS_CardinalityType
<1>5. /\ DurationScore(ms, now) = IF D = {} THEN 0 ELSE 5 * Cardinality(S)
      /\ DurationScore(mt, later) = IF D = {} THEN 0 ELSE 5 * Cardinality(T)
  BY <1>1 DEF DurationScore
<1>6. T \in SUBSET (0..100) /\ S \in SUBSET T
  <2> HIDE DEF x, y, size
  <2> QED
    BY <1>3, <1>4
<1> HIDE DEF S, T
<1>7. Cardinality(S) \in Nat /\ Cardinality(T) \in Nat /\ Cardinality(S) <= Cardinality(T)
  BY <1>6, SmallSets
<1> QED
  BY <1>5, <1>7

LEMMA JoinLeaveGrows ==
  ASSUME NEW p \in UserProfile, NEW q \in UserProfile, q.joins = p.joins, q.leaves <= p.leaves
  PROVE  JoinLeaveScore(p) <= JoinLeaveScore(q)
<1> DEFINE S == {percent \in {30, 50, 70, 90} : 100 * p.leaves <= percent * p.joins}
           T == {percent \in {30, 50, 70, 90} : 100 * q.leaves <= percent * q.joins}
<1>1. p.joins \in Nat /\ p.leaves \in Nat /\ q.leaves \in Nat
  BY DEF UserProfile
<1>2. T \in SUBSET (0..100) /\ S \in SUBSET T
  BY <1>1
<1>3. /\ JoinLeaveScore(p) = IF p.joins = 0 THEN 10 ELSE 5 * Cardinality(S)
      /\ JoinLeaveScore(q) = IF p.joins = 0 THEN 10 ELSE 5 * Cardinality(T)
  BY DEF JoinLeaveScore
<1> HIDE DEF S, T
<1>4. Cardinality(S) \in Nat /\ Cardinality(T) \in Nat /\ Cardinality(S) <= Cardinality(T)
  BY <1>2, SmallSets
<1> QED
  BY <1>3, <1>4

LEMMA DiversitySame ==
  ASSUME NEW ms, NEW mt, DOMAIN mt = DOMAIN ms, \A n \in DOMAIN ms : ms[n].comm = mt[n].comm
  PROVE  DiversityScore(ms) = DiversityScore(mt)
<1>1. {ms[n].comm : n \in DOMAIN ms} = {mt[n].comm : n \in DOMAIN mt}
  OBVIOUS
<1> QED
  BY <1>1 DEF DiversityScore

LEMMA FractionsGrow ==
  ASSUME NEW p \in UserProfile, NEW q \in UserProfile, NEW ms, NEW mt, NEW active \in Nat,
         NEW n \in Nat, NEW c \in Nat, IsFiniteSet(DOMAIN ms), DOMAIN mt = DOMAIN ms,
         \A k \in DOMAIN ms : Stays(ms[k]) => Stays(mt[k]),
         q.campaigns = p.campaigns, q.completions = p.completions
  PROVE  Fractions(p, ms, active, n, c) <= Fractions(q, mt, active, n, c)
<1> DEFINE x == (IF active < ActiveDays THEN 67 * active ELSE 2000) * n * c
           y(k) == IF DOMAIN ms = {} THEN 1000 * n * c ELSE 2000 * k * c
           z == IF p.campaigns = 0 THEN 0 ELSE 500 * p.completions * n
<1>1. Staying(ms) \in Nat /\ Staying(mt) \in Nat /\ Staying(ms) <= Staying(mt)
  <2> DEFINE S == {k \in DOMAIN ms : Stays(ms[k])}
             T == {k \in DOMAIN mt : Stays(mt[k])}
  <2>1. S \in SUBSET T /\ T \in SUBSET (DOMAIN ms)
    OBVIOUS
  <2> HIDE DEF S, T
  <2>2. IsFiniteSet(T)
    BY <2>1, FS_Subset
  <2>3. Cardinality(S) \in Nat /\ Cardinality(T) \in Nat /\ Cardinality(S) <= Cardinality(T)
    BY <2>1, <2>2, FS_Subset, FS_CardinalityType
  <2> QED
    BY <2>3 DEF Staying, S, T
<1>2. /\ Fractions(p, ms, active, n, c) = x + y(Staying(ms)) + z
      /\ Fractions(q, mt, active, n, c) = x + y(Staying(mt)) + z
  BY DEF Fractions, Staying
<1>3. x \in Int /\ z \in Int
  BY DEF ActiveDays, UserProfile
<1>4. \A a, b \in Nat : a <= b => y(a) \in Int /\ y(b) \in Int /\ y(a) <= y(b)
  <2>1. SUFFICES ASSUME NEW a \in Nat, NEW b \in Nat, a <= b
                 PROVE  /\ 2000 * a * c \in Int /\ 2000 * b * c \in Int
                        /\ 2000 * a * c <= 2000 * b * c
    OBVIOUS
  <2>2. 2000 * a \in Int /\ 2000 * b \in Int /\ 2000 * a <= 2000 * b
    BY <2>1
  <2> QED
    BY <2>1, <2>2, TimesMonotone
<1> HIDE DEF x, y, z
<1> QED
  BY <1>1, <1>2, <1>3, <1>4

LEMMA TrustGrows ==
  ASSUME NEW p \in UserProfile, NEW q \in UserProfile, NEW ms, NEW mt, NEW active \in Nat,
         NEW now, NEW later, IsFiniteSet(DOMAIN ms), Better(ms, now, mt, later),
         q.joins = p.joins, q.leaves <= p.leaves,
         q.campaigns = p.campaigns, q.completions = p.completions,
         q.username = p.username, q.photo = p.photo, q.bot = p.bot
  PROVE  Trust(p, ms, active, now) <= Trust(q, mt, active, later)
<1> DEFINE n == Divisor(ms)
           c == Campaigns(p)
           d == 100 * n * c
           x == DurationScore(ms, now) + JoinLeaveScore(p) + DiversityScore(ms)
           y == DurationScore(mt, later) + JoinLeaveScore(q) + DiversityScore(mt)
           e == Fractions(p, ms, active, n, c)
           f == Fractions(q, mt, active, n, c)
<1>1. Divisor(mt) = n /\ Campaigns(q) = c /\ IsFiniteSet(DOMAIN mt)
  BY DEF Better, Divisor, Campaigns
<1>2. n \in Nat \ {0} /\ c \in Nat \ {0}
  BY DivisorsPositive
<1>3. x \in Nat /\ y \in Nat /\ x <= y
  <2>1. DurationScore(ms, now) <= DurationScore(mt, later)
    BY DurationGrows
  <2>2. JoinLeaveScore(p) <= JoinLeaveScore(q)
    BY JoinLeaveGrows
  <2>3. DiversityScore(ms) = DiversityScore(mt)
    BY DiversitySame DEF Better
  <2>4. DurationScore(ms, now) \in Nat /\ JoinLeaveScore(p) \in Nat /\ DiversityScore(ms) \in Nat
    BY FactorsNat
  <2>5. DurationScore(mt, later) \in Nat /\ JoinLeaveScore(q) \in Nat /\ DiversityScore(mt) \in Nat
    BY FactorsNat
  <2> QED
    BY <2>1, <2>2, <2>3, <2>4, <2>5
<1>4. e \in Nat /\ f \in Nat /\ e <= f
  <2>1. n \in Nat /\ c \in Nat
    BY <1>2
  <2>2. \A k \in DOMAIN ms : Stays(ms[k]) => Stays(mt[k])
    BY DEF Better
  <2>3. DOMAIN mt = DOMAIN ms
    BY DEF Better
  <2> HIDE DEF n, c
  <2>4. e <= f
    BY <2>1, <2>2, <2>3, FractionsGrow
  <2>5. e \in Nat /\ f \in Nat
    BY <1>1, <2>1, FractionsNat
  <2> QED
    BY <2>4, <2>5
<1>5. Points(p, ms, active, now) = d * x + e /\ Points(q, mt, active, later) = d * y + f
  BY <1>1 DEF Points
<1>6. d \in Nat \ {0}
  <2> HIDE DEF n, c
  <2> QED
    BY <1>2, ProductPositive
<1>7. /\ Factors(p, ms, active, now) = (d * x + e) \div d
      /\ Factors(q, mt, active, later) = (d * y + f) \div d
  BY <1>1, <1>5, FactorsAre
<1>8. (d * x + e) \div d <= (d * y + f) \div d
  <2> HIDE DEF d, e, f, x, y
  <2>1. d * x <= d * y /\ d * x \in Nat /\ d * y \in Nat
    BY <1>3, <1>6, TimesMonotone, ProductNat
  <2>2. d * x + e \in Nat /\ d * y + f \in Nat /\ d * x + e <= d * y + f
    BY <1>4, <2>1
  <2> QED
    BY <1>6, <2>2, DivMonotone
<1>9. Factors(p, ms, active, now) <= Factors(q, mt, active, later)
  BY <1>7, <1>8
<1>10. Factors(p, ms, active, now) \in Nat /\ Factors(q, mt, active, later) \in Nat
  BY <1>1, FactorsTyped
<1>11. Rated(q, Factors(p, ms, active, now)) <= Rated(q, Factors(q, mt, active, later))
  BY <1>9, <1>10, RatedMonotone
<1>12. Rated(q, Factors(p, ms, active, now)) = Rated(p, Factors(p, ms, active, now))
  BY DEF Rated
<1> QED
  BY <1>11, <1>12, TrustIs

(* What the messages of a subscription are. *)
Kind(s) ==
  CASE s \in ProfileSubs  -> Renaming
    [] s \in CampaignSubs -> Campaign
    [] OTHER              -> Membership

CommunityStages == {"joins", "insert", "find", "close", "leaves", "day", "newday"}
NameStages      == {"names", "history"}
ScoreStages     == {"profile", "memberships", "activity", "store"}

WorldOK ==
  /\ inside \subseteq Membership /\ today \in Nat
  /\ DOMAIN queue = Subs /\ \A s \in Subs : queue[s] \in Seq(Kind(s))

ProfilesOK == DOMAIN profile \subseteq Users /\ \A u \in DOMAIN profile : profile[u] \in UserProfile

DocsOK ==
  /\ docs \in [Users -> Seq(UserMembership)]
  /\ \A u \in Users : \A n \in DOMAIN docs[u] :
       docs[u][n].day <= today /\ (Stays(docs[u][n]) => docs[u][n].duration = -1)

RecordsOK ==
  /\ activity \in [Users -> Seq([comm : Communities, date : Nat])]
  /\ changes \in [Users -> Nat]

BatchOK ==
  /\ page \subseteq DOMAIN profile /\ lastID \in Users \cup {0} /\ isShort \in BOOLEAN
  /\ visited \in [Users -> Nat] /\ complete \in BOOLEAN /\ stopped \in BOOLEAN

(* A thread at a stage has the message, the reading and the view it needs. *)
JobOK(s) ==
  /\ pc[s] \in CommunityStages => job[s] \in Membership
  /\ pc[s] \in NameStages => job[s] \in Renaming
  /\ pc[s] = "campaign" => job[s] \in Campaign
  /\ pc[s] \in ScoreStages => User(s) \in Users

ReadOK(s) ==
  /\ read[s] \in Nat
  /\ pc[s] = "close" => read[s] \in DOMAIN docs[User(s)]
  /\ pc[s] = "history" => read[s] > 0
  /\ pc[s] = "store" => read[s] \in 0..100

ViewOK(s) ==
  /\ view[s] = [profile |-> view[s].profile, ms |-> view[s].ms]
  /\ view[s].profile \in UserProfile /\ IsFiniteSet(DOMAIN view[s].ms)

ThreadOK(s) == pc[s] \in Labels /\ JobOK(s) /\ ReadOK(s) /\ ViewOK(s)

ThreadsOK ==
  /\ pc \in [Threads -> Labels] /\ read \in [Threads -> Nat]
  /\ DOMAIN job = Threads /\ DOMAIN view = Threads
  /\ \A s \in Threads : ThreadOK(s)

TypeInv == WorldOK /\ ProfilesOK /\ DocsOK /\ RecordsOK /\ BatchOK /\ ThreadsOK

LEMMA TypeInvSuffices == TypeInv => TypeOK
<1>1. \A s \in Subs : Kind(s) \subseteq Membership \cup Renaming \cup Campaign
  BY DEF Kind
<1>2. \A S, T : S \subseteq T => Seq(S) \subseteq Seq(T)
  OBVIOUS
<1> QED
  BY <1>1, <1>2 DEF TypeInv, TypeOK, WorldOK, ProfilesOK, DocsOK, RecordsOK, BatchOK, ThreadsOK

-----------------------------------------------------------------------------
LEMMA Apart ==
  /\ Batch \notin Subs \cup Recalcs
  /\ JoinSubs \cap LeaveSubs = {} /\ (JoinSubs \cup LeaveSubs) \cap ActivitySubs = {}
  /\ (JoinSubs \cup LeaveSubs \cup ActivitySubs) \cap (ProfileSubs \cup CampaignSubs) = {}
  /\ ProfileSubs \cap CampaignSubs = {}
<1> DEFINE kinds == <<JoinSubs, LeaveSubs, ActivitySubs, ProfileSubs, CampaignSubs, Recalcs, {Batch}>>
<1>1. \A i, j \in 1..7 : i # j => kinds[i] \cap kinds[j] = {}
  BY ThreadsAssumption
<1>2. /\ Batch \notin kinds[1] /\ Batch \notin kinds[2] /\ Batch \notin kinds[3]
      /\ Batch \notin kinds[4] /\ Batch \notin kinds[5] /\ Batch \notin kinds[6]
  BY <1>1
<1>3. /\ kinds[1] \cap kinds[2] = {} /\ kinds[1] \cap kinds[3] = {} /\ kinds[2] \cap kinds[3] = {}
      /\ kinds[1] \cap kinds[4] = {} /\ kinds[1] \cap kinds[5] = {}
      /\ kinds[2] \cap kinds[4] = {} /\ kinds[2] \cap kinds[5] = {}
      /\ kinds[3] \cap kinds[4] = {} /\ kinds[3] \cap kinds[5] = {}
      /\ kinds[4] \cap kinds[5] = {}
  BY <1>1
<1> QED
  BY <1>2, <1>3 DEF Subs

(* The first stage of a subscription is one for its kind of messages. *)
LEMMA FirstStage ==
  ASSUME NEW s \in Subs
  PROVE  \/ FirstCall(s) \in {"joins", "find", "day"} /\ Kind(s) = Membership
         \/ FirstCall(s) = "names" /\ Kind(s) = Renaming
         \/ FirstCall(s) = "campaign" /\ Kind(s) = Campaign
<1>1. CASE s \in JoinSubs
  BY <1>1, Apart DEF FirstCall, Kind
<1>2. CASE s \in LeaveSubs
  BY <1>2, Apart DEF FirstCall, Kind
<1>3. CASE s \in ActivitySubs
  BY <1>3, Apart DEF FirstCall, Kind
<1>4. CASE s \in ProfileSubs
  BY <1>4, Apart DEF FirstCall, Kind
<1>5. CASE s \in CampaignSubs
  BY <1>5, Apart DEF FirstCall, Kind
<1> QED
  BY <1>1, <1>2, <1>3, <1>4, <1>5 DEF Subs

LEMMA MessageUsers ==
  \A m \in Membership \cup Renaming \cup Campaign : m.user \in Users
  BY UsersAssumption DEF Membership, Renaming, Campaign

LEMMA ZeroProfileTyped == ZeroProfile \in UserProfile
<1>1. 0 \in Nat /\ 0 \in 0..100 /\ FALSE \in BOOLEAN
  OBVIOUS
<1>2. "" \in Names
  BY ProfilesAssumption
<1> QED
  BY ONLY <1>1, <1>2 DEF ZeroProfile, UserProfile

LEMMA NoViewTyped ==
  /\ NoView = [profile |-> NoView.profile, ms |-> NoView.ms]
  /\ NoView.profile \in UserProfile /\ IsFiniteSet(DOMAIN NoView.ms)
<1>1. DOMAIN (<<>>) = {}
  OBVIOUS
<1> QED
  BY <1>1, ZeroProfileTyped, FS_EmptySet DEF NoView

LEMMA TypeInit == Init => TypeInv
<1> SUFFICES ASSUME Init
             PROVE  TypeInv
  OBVIOUS
<1>1. WorldOK
  BY BoundsAssumption DEF Init, WorldOK
<1>2. ProfilesOK
  BY ProfilesAssumption DEF Init, ProfilesOK
<1>3. DocsOK
  <2>1. PICK past \in [Movers -> Past] : docs = [u \in Users |-> IF u \in Movers THEN past[u] ELSE <<>>]
    BY DEF Init
  <2>2. \A u \in Movers :
         past[u] \in Seq(UserMembership) /\ \A n \in DOMAIN past[u] :
         past[u][n].day <= FirstDay /\ (Stays(past[u][n]) => past[u][n].duration = -1)
    BY ProfilesAssumption
  <2>3. \A u \in Users : docs[u] = <<>> \/ (u \in Movers /\ docs[u] = past[u])
    BY <2>1
  <2>4. \A u \in Users : docs[u] \in Seq(UserMembership)
    <3>1. <<>> \in Seq(UserMembership)
      OBVIOUS
    <3> QED
      BY <2>2, <2>3, <3>1
  <2>5. \A u \in Users : \A n \in DOMAIN docs[u] :
         docs[u][n].day <= FirstDay /\ (Stays(docs[u][n]) => docs[u][n].duration = -1)
    BY <2>2, <2>3
  <2>6. docs \in [Users -> Seq(UserMembership)]
    BY <2>1, <2>4
  <2> QED
    BY <2>5, <2>6 DEF DocsOK, Init
<1>4. RecordsOK
  BY DEF Init, RecordsOK
<1>5. BatchOK
  BY DEF Init, BatchOK
<1>6. ThreadsOK
  BY NoViewTyped DEF Init, ThreadsOK, ThreadOK, JobOK, ReadOK, ViewOK, Labels, CommunityStages,
                     NameStages, ScoreStages
<1> QED
  BY <1>1, <1>2, <1>3, <1>4, <1>5, <1>6 DEF TypeInv

LEMMA DocTyped ==
  ASSUME TypeInv, NEW u \in Users, NEW n \in DOMAIN docs[u]
  PROVE  /\ docs[u][n] \in UserMembership
         /\ docs[u][n].comm \in Communities /\ docs[u][n].day \in Nat
         /\ docs[u][n].left \in Nat \cup {-1} /\ docs[u][n].duration \in Nat \cup {-1}
         /\ docs[u][n].day <= today /\ (Stays(docs[u][n]) => docs[u][n].duration = -1)
<1>1. /\ docs[u] \in Seq(UserMembership)
      /\ docs[u][n].day <= today /\ (Stays(docs[u][n]) => docs[u][n].duration = -1)
  BY DEF TypeInv, DocsOK
<1>2. docs[u][n] \in UserMembership
  BY <1>1
<1> QED
  BY <1>1, <1>2 DEF UserMembership

(* A step of thread s that may add memberships, and concerns no other thread. *)
OthersRest(s) ==
  /\ pc' \in [Threads -> Labels] /\ read' \in [Threads -> Nat]
  /\ DOMAIN job' = Threads /\ DOMAIN view' = Threads
  /\ \A t \in Threads \ {s} :
       pc'[t] = pc[t] /\ job'[t] = job[t] /\ view'[t] = view[t] /\ read'[t] = read[t]
  /\ \A u \in Users : DOMAIN docs[u] \subseteq DOMAIN docs'[u]

LEMMA ThreadsStep ==
  ASSUME TypeInv, NEW s \in Threads, OthersRest(s), ThreadOK(s)'
  PROVE  ThreadsOK'
<1>1. ASSUME NEW t \in Threads, t # s
      PROVE  ThreadOK(t)'
  <2>1. pc'[t] = pc[t] /\ job'[t] = job[t] /\ view'[t] = view[t] /\ read'[t] = read[t]
    BY <1>1 DEF OthersRest
  <2>2. pc[t] \in Labels /\ JobOK(t) /\ ReadOK(t) /\ ViewOK(t)
    BY DEF TypeInv, ThreadsOK, ThreadOK
  <2>3. JobOK(t)' /\ ViewOK(t)'
    BY <2>1, <2>2 DEF JobOK, ViewOK, User
  <2>4. ReadOK(t)'
    <3>1. pc[t] = "close" => read[t] \in DOMAIN docs'[User(t)]
      <4>1. ASSUME pc[t] = "close" PROVE User(t) \in Users
        BY <2>2, <4>1, MessageUsers DEF JobOK, CommunityStages, User
      <4> QED
        BY <2>2, <4>1 DEF ReadOK, OthersRest
    <3> QED
      BY <2>1, <2>2, <3>1 DEF ReadOK, User
  <2> QED
    BY <2>1, <2>2, <2>3, <2>4 DEF ThreadOK
<1> QED
  BY <1>1 DEF ThreadsOK, OthersRest

-----------------------------------------------------------------------------
(* The environment. *)

LEMMA SendType ==
  ASSUME TypeInv, NEW m, NEW S \in SUBSET Subs, \A s \in S : m \in Kind(s),
         Send(m, S), inside' \subseteq Membership
  PROVE  TypeInv'
<1>1. WorldOK'
  <2>1. \A s \in S : Append(queue[s], m) \in Seq(Kind(s))
    BY DEF TypeInv, WorldOK
  <2> QED
    BY <2>1 DEF Send, TypeInv, WorldOK
<1>2. ProfilesOK' /\ DocsOK' /\ RecordsOK' /\ BatchOK'
  BY DEF Send, data, batch, TypeInv, ProfilesOK, DocsOK, RecordsOK, BatchOK
<1>3. ThreadsOK'
  BY DEF Send, data, thread, TypeInv, ThreadsOK, ThreadOK, JobOK, ReadOK, ViewOK, User
<1> QED
  BY <1>1, <1>2, <1>3 DEF TypeInv

LEMMA MessagesType ==
  ASSUME TypeInv, NEW m \in Membership, NEW S,
         \/ S \in SUBSET JoinSubs /\ Join(m, S)
         \/ S \in SUBSET LeaveSubs /\ Leave(m, S)
         \/ S \in SUBSET ActivitySubs /\ Talk(m, S)
  PROVE  TypeInv'
<1>1. S \in SUBSET Subs /\ \A s \in S : m \in Kind(s)
  BY Apart DEF Subs, Kind
<1>2. Send(m, S) /\ inside' \subseteq Membership
  BY DEF Join, Leave, Talk, TypeInv, WorldOK
<1> QED
  BY <1>1, <1>2, SendType

LEMMA RenameType ==
  ASSUME TypeInv, NEW u \in Movers, NEW names \in Renamings, NEW S \in SUBSET ProfileSubs,
         Rename(Renamed(u, names), S)
  PROVE  TypeInv'
<1>1. Renamed(u, names) \in Renaming
  BY ProfilesAssumption DEF Renamed, Renaming
<1>2. S \in SUBSET Subs /\ \A s \in S : Renamed(u, names) \in Kind(s)
  BY <1>1, Apart DEF Subs, Kind
<1>3. Send(Renamed(u, names), S) /\ inside' \subseteq Membership
  BY DEF Rename, TypeInv, WorldOK
<1> QED
  BY <1>2, <1>3, SendType

LEMMA CompleteType ==
  ASSUME TypeInv, NEW m \in Campaign, NEW S \in SUBSET CampaignSubs, Complete(m, S)
  PROVE  TypeInv'
<1>1. S \in SUBSET Subs /\ \A s \in S : m \in Kind(s)
  BY Apart DEF Subs, Kind
<1>2. Send(m, S) /\ inside' \subseteq Membership
  BY DEF Complete, TypeInv, WorldOK
<1> QED
  BY <1>1, <1>2, SendType

LEMMA DaysPassType ==
  ASSUME TypeInv, NEW n \in Strides, DaysPass(n)
  PROVE  TypeInv'
<1>1. today' \in Nat /\ today' >= today
  BY BoundsAssumption DEF DaysPass, TypeInv, WorldOK
<1>2. WorldOK' /\ ProfilesOK' /\ RecordsOK' /\ BatchOK'
  BY <1>1 DEF DaysPass, data, batch, limits, TypeInv, WorldOK, ProfilesOK, RecordsOK, BatchOK
<1>3. DocsOK'
  <2>1. \A u \in Users : \A k \in DOMAIN docs[u] : docs[u][k].day \in Nat
    BY DocTyped
  <2>2. docs' = docs /\ today \in Nat
    BY DEF DaysPass, data, TypeInv, WorldOK
  <2>3. docs \in [Users -> Seq(UserMembership)]
    BY DEF TypeInv, DocsOK
  <2>4. \A u \in Users : \A k \in DOMAIN docs[u] :
         docs[u][k].day <= today /\ (Stays(docs[u][k]) => docs[u][k].duration = -1)
    BY DEF TypeInv, DocsOK
  <2> QED
    BY <1>1, <2>1, <2>2, <2>3, <2>4 DEF DocsOK
<1>4. ThreadsOK'
  BY DEF DaysPass, data, thread, TypeInv, ThreadsOK, ThreadOK, JobOK, ReadOK, ViewOK, User
<1> QED
  BY <1>2, <1>3, <1>4 DEF TypeInv

LEMMA ShutdownType ==
  ASSUME TypeInv, Shutdown
  PROVE  TypeInv'
<1>1. WorldOK' /\ ProfilesOK' /\ RecordsOK' /\ BatchOK' /\ DocsOK'
  BY DEF Shutdown, world, data, batch, TypeInv, WorldOK, ProfilesOK, RecordsOK, BatchOK, DocsOK
<1>2. ThreadsOK'
  BY DEF Shutdown, data, thread, TypeInv, ThreadsOK, ThreadOK, JobOK, ReadOK, ViewOK, User
<1> QED
  BY <1>1, <1>2 DEF TypeInv

LEMMA ReceiveType ==
  ASSUME TypeInv, NEW s \in Subs, Receive(s)
  PROVE  TypeInv'
<1>1. queue[s] \in Seq(Kind(s)) /\ queue[s] # <<>>
  BY DEF Receive, TypeInv, WorldOK
<1>2. Head(queue[s]) \in Kind(s) /\ Tail(queue[s]) \in Seq(Kind(s))
  BY <1>1
<1>3. s \in Threads /\ pc' = [pc EXCEPT ![s] = FirstCall(s)] /\ job' = [job EXCEPT ![s] = Head(queue[s])]
  BY DEF Receive, Begin, Goto, Threads
<1>4. WorldOK'
  BY <1>2 DEF Receive, TypeInv, WorldOK
<1>5. ProfilesOK' /\ DocsOK' /\ RecordsOK' /\ BatchOK'
  BY DEF Receive, data, batch, limits, TypeInv, ProfilesOK, DocsOK, RecordsOK, BatchOK
<1>6. ThreadOK(s) /\ pc \in [Threads -> Labels] /\ read \in [Threads -> Nat]
      /\ DOMAIN job = Threads /\ DOMAIN view = Threads
  BY <1>3 DEF TypeInv, ThreadsOK
<1>7. FirstCall(s) \in Labels
  BY FirstStage DEF Labels
<1>8. OthersRest(s)
  BY <1>3, <1>6, <1>7 DEF OthersRest, Receive, data
<1>9. ThreadOK(s)'
  <2>1. pc'[s] = FirstCall(s) /\ job'[s] = Head(queue[s]) /\ read'[s] = read[s] /\ view'[s] = view[s]
    BY <1>3, <1>6 DEF Receive
  <2>2. JobOK(s)'
    BY <1>2, <2>1, FirstStage DEF JobOK, CommunityStages, NameStages, ScoreStages
  <2>3. ReadOK(s)' /\ ViewOK(s)'
    BY <1>6, <2>1, FirstStage DEF ReadOK, ViewOK, ThreadOK
  <2> QED
    BY <1>7, <2>1, <2>2, <2>3 DEF ThreadOK
<1>10. ThreadsOK'
  BY <1>3, <1>8, <1>9, ThreadsStep
<1> QED
  BY <1>4, <1>5, <1>10 DEF TypeInv

LEMMA recalcUserType ==
  ASSUME TypeInv, NEW s \in Recalcs, NEW u \in Users, recalcUser(s, u)
  PROVE  TypeInv'
<1>1. s \in Threads /\ pc' = [pc EXCEPT ![s] = "profile"] /\ job' = [job EXCEPT ![s] = [user |-> u]]
  BY DEF recalcUser, Begin, Goto, Threads
<1>2. WorldOK' /\ ProfilesOK' /\ DocsOK' /\ RecordsOK' /\ BatchOK'
  BY DEF recalcUser, world, data, batch, TypeInv, WorldOK, ProfilesOK, DocsOK, RecordsOK, BatchOK
<1>3. ThreadOK(s) /\ pc \in [Threads -> Labels] /\ read \in [Threads -> Nat]
      /\ DOMAIN job = Threads /\ DOMAIN view = Threads
  BY <1>1 DEF TypeInv, ThreadsOK
<1>4. OthersRest(s)
  BY <1>1, <1>3 DEF OthersRest, recalcUser, data, Labels
<1>5. ThreadOK(s)'
  <2>1. pc'[s] = "profile" /\ job'[s] = [user |-> u] /\ read'[s] = read[s] /\ view'[s] = view[s]
    BY <1>1, <1>3 DEF recalcUser
  <2>2. JobOK(s)'
    BY <2>1 DEF JobOK, CommunityStages, NameStages, ScoreStages, User
  <2> QED
    BY <1>3, <2>1, <2>2 DEF ThreadOK, ReadOK, ViewOK, Labels
<1>6. ThreadsOK'
  BY <1>1, <1>4, <1>5, ThreadsStep
<1> QED
  BY <1>2, <1>6 DEF TypeInv

-----------------------------------------------------------------------------
(* The handlers. *)

LEMMA ThreadFacts ==
  ASSUME TypeInv, NEW s \in Threads
  PROVE  /\ ThreadOK(s) /\ pc \in [Threads -> Labels] /\ read \in [Threads -> Nat]
         /\ DOMAIN job = Threads /\ DOMAIN view = Threads
  BY DEF TypeInv, ThreadsOK

LEMMA ProfileUpdated ==
  ASSUME TypeInv, NEW u \in DOMAIN profile, NEW p \in UserProfile, profile' = [profile EXCEPT ![u] = p]
  PROVE  ProfilesOK' /\ DOMAIN profile' = DOMAIN profile
  BY DEF TypeInv, ProfilesOK

LEMMA CountedProfile ==
  ASSUME NEW p \in UserProfile
  PROVE  /\ [p EXCEPT !.joins = @ + 1] \in UserProfile
         /\ [p EXCEPT !.leaves = @ + 1] \in UserProfile
         /\ [p EXCEPT !.trust = 0] \in UserProfile
         /\ \A n \in 0..100 : [p EXCEPT !.trust = n] \in UserProfile
<1>1. p.joins + 1 \in Nat /\ p.leaves + 1 \in Nat /\ 0 \in 0..100
  BY DEF UserProfile
<1> QED
  BY <1>1 DEF UserProfile

(* A step of a handler that changes a profile, or none, and moves on. *)
LEMMA CountingType ==
  ASSUME TypeInv, NEW s \in Threads, NEW label \in {"insert", "profile"},
         pc[s] \in CommunityStages, pc' = [pc EXCEPT ![s] = label],
         label = "insert" => pc[s] = "joins",
         \/ profile' = profile
         \/ \E u \in DOMAIN profile, p \in UserProfile : profile' = [profile EXCEPT ![u] = p],
         UNCHANGED <<world, docs, activity, changes, job, view, read, batch, stopped>>
  PROVE  TypeInv'
<1>1. ProfilesOK' /\ DOMAIN profile' = DOMAIN profile
  BY ProfileUpdated DEF TypeInv, ProfilesOK
<1>2. WorldOK' /\ DocsOK' /\ RecordsOK'
  BY DEF world, TypeInv, WorldOK, DocsOK, RecordsOK
<1>3. BatchOK'
  BY <1>1 DEF batch, TypeInv, BatchOK
<1>4. OthersRest(s)
  BY ThreadFacts DEF OthersRest, Labels
<1>5. ThreadOK(s)'
  <2>1. pc'[s] = label /\ job'[s] = job[s] /\ read'[s] = read[s] /\ view'[s] = view[s]
    BY ThreadFacts
  <2>2. job[s] \in Membership
    BY ThreadFacts DEF ThreadOK, JobOK
  <2>3. JobOK(s)'
    BY <2>1, <2>2, MessageUsers DEF JobOK, NameStages, ScoreStages, User
  <2> QED
    BY <2>1, <2>3, ThreadFacts DEF ThreadOK, ReadOK, ViewOK, Labels
<1> QED
  BY <1>1, <1>2, <1>3, <1>4, <1>5, ThreadsStep DEF TypeInv

LEMMA CountJoinType ==
  ASSUME TypeInv, NEW s \in Threads, CountJoin(s)
  PROVE  TypeInv'
<1>1. \/ profile' = profile
      \/ \E u \in DOMAIN profile, p \in UserProfile : profile' = [profile EXCEPT ![u] = p]
  <2>1. SUFFICES ASSUME Known(s), profile' = [profile EXCEPT ![User(s)].joins = @ + 1]
                 PROVE  \E u \in DOMAIN profile, p \in UserProfile : profile' = [profile EXCEPT ![u] = p]
    BY DEF CountJoin
  <2>2. [profile[User(s)] EXCEPT !.joins = @ + 1] \in UserProfile /\ User(s) \in DOMAIN profile
    BY <2>1, CountedProfile DEF Known, TypeInv, ProfilesOK
  <2> QED
    BY <2>1, <2>2
<1>2. pc[s] = "joins" /\ pc' = [pc EXCEPT ![s] = "insert"]
  BY DEF CountJoin, Goto
<1>3. UNCHANGED <<world, docs, activity, changes, job, view, read, batch, stopped>>
  BY DEF CountJoin
<1> QED
  BY <1>1, <1>2, <1>3, CountingType DEF CommunityStages

LEMMA CountLeaveType ==
  ASSUME TypeInv, NEW s \in Threads, CountLeave(s)
  PROVE  TypeInv'
<1>1. \/ profile' = profile
      \/ \E u \in DOMAIN profile, p \in UserProfile : profile' = [profile EXCEPT ![u] = p]
  <2>1. SUFFICES ASSUME Known(s), profile' = [profile EXCEPT ![User(s)].leaves = @ + 1]
                 PROVE  \E u \in DOMAIN profile, p \in UserProfile : profile' = [profile EXCEPT ![u] = p]
    BY DEF CountLeave
  <2>2. [profile[User(s)] EXCEPT !.leaves = @ + 1] \in UserProfile /\ User(s) \in DOMAIN profile
    BY <2>1, CountedProfile DEF Known, TypeInv, ProfilesOK
  <2> QED
    BY <2>1, <2>2
<1>2. pc[s] = "leaves" /\ pc' = [pc EXCEPT ![s] = "profile"]
  BY DEF CountLeave, Goto
<1>3. UNCHANGED <<world, docs, activity, changes, job, view, read, batch, stopped>>
  BY DEF CountLeave
<1> QED
  BY <1>1, <1>2, <1>3, CountingType DEF CommunityStages

(* A step that changes the memberships of one user, or none. *)
LEMMA DocsStepType ==
  ASSUME TypeInv, NEW s \in Threads, NEW label \in {"profile", "leaves"},
         pc[s] \in CommunityStages, pc' = [pc EXCEPT ![s] = label],
         DocsOK', \A u \in Users : DOMAIN docs[u] \subseteq DOMAIN docs'[u],
         UNCHANGED <<world, profile, activity, changes, job, view, read, batch, stopped>>
  PROVE  TypeInv'
<1>1. WorldOK' /\ ProfilesOK' /\ RecordsOK' /\ BatchOK'
  BY DEF world, batch, TypeInv, WorldOK, ProfilesOK, RecordsOK, BatchOK
<1>2. OthersRest(s)
  BY ThreadFacts DEF OthersRest, Labels
<1>3. ThreadOK(s)'
  <2>1. pc'[s] = label /\ job'[s] = job[s] /\ read'[s] = read[s] /\ view'[s] = view[s]
    BY ThreadFacts
  <2>2. job[s] \in Membership
    BY ThreadFacts DEF ThreadOK, JobOK
  <2>3. JobOK(s)'
    BY <2>1, <2>2, MessageUsers DEF JobOK, NameStages, ScoreStages, User
  <2> QED
    BY <2>1, <2>3, ThreadFacts DEF ThreadOK, ReadOK, ViewOK, Labels
<1> QED
  BY <1>1, <1>2, <1>3, ThreadsStep DEF TypeInv

LEMMA CommunityJob ==
  ASSUME TypeInv, NEW s \in Threads, pc[s] \in CommunityStages
  PROVE  job[s] \in Membership /\ User(s) \in Users /\ job[s].comm \in Communities
<1>1. job[s] \in Membership
  BY ThreadFacts DEF ThreadOK, JobOK
<1> QED
  BY <1>1, MessageUsers DEF User, Membership

LEMMA InsertMembershipType ==
  ASSUME TypeInv, NEW s \in Threads, InsertMembership(s)
  PROVE  TypeInv'
<1> DEFINE u == User(s)
           doc == [comm |-> job[s].comm, day |-> today, left |-> Open, duration |-> -1]
<1>1. pc[s] = "insert" /\ pc' = [pc EXCEPT ![s] = "profile"]
  BY DEF InsertMembership, Goto
<1>2. UNCHANGED <<world, profile, activity, changes, job, view, read, batch, stopped>>
  BY DEF InsertMembership
<1>3. u \in Users /\ doc \in UserMembership /\ doc.day = today /\ doc.duration = -1
  BY <1>1, CommunityJob DEF CommunityStages, UserMembership, Open, TypeInv, WorldOK
<1>4. docs \in [Users -> Seq(UserMembership)] /\ today' = today
  BY <1>2 DEF world, TypeInv, DocsOK
<1>5. docs' = docs \/ docs' = [docs EXCEPT ![u] = Append(docs[u], doc)]
  BY DEF InsertMembership
<1>6. DocsOK' /\ \A v \in Users : DOMAIN docs[v] \subseteq DOMAIN docs'[v]
  <2>1. CASE docs' = docs
    BY <1>4, <2>1 DEF TypeInv, DocsOK
  <2>2. CASE docs' = [docs EXCEPT ![u] = Append(docs[u], doc)]
    <3> HIDE DEF u, doc
    <3>1. Append(docs[u], doc) \in Seq(UserMembership) /\ DOMAIN docs[u] \subseteq DOMAIN Append(docs[u], doc)
      BY <1>3, <1>4
    <3>2. \A n \in DOMAIN Append(docs[u], doc) :
           /\ Append(docs[u], doc)[n].day <= today
           /\ Stays(Append(docs[u], doc)[n]) => Append(docs[u], doc)[n].duration = -1
      <4>1. \A n \in DOMAIN docs[u] :
             docs[u][n].day <= today /\ (Stays(docs[u][n]) => docs[u][n].duration = -1)
        BY <1>3 DEF TypeInv, DocsOK
      <4>2. today <= today
        BY DEF TypeInv, WorldOK
      <4> QED
        BY <1>3, <1>4, <4>1, <4>2
    <3>3. docs'[u] = Append(docs[u], doc) /\ \A v \in Users : v # u => docs'[v] = docs[v]
      BY <1>3, <1>4, <2>2
    <3>4. docs' \in [Users -> Seq(UserMembership)]
      BY <1>4, <2>2, <3>1
    <3>5. \A v \in Users : \A n \in DOMAIN docs[v] :
           docs[v][n].day <= today /\ (Stays(docs[v][n]) => docs[v][n].duration = -1)
      BY DEF TypeInv, DocsOK
    <3> QED
      BY <1>4, <3>1, <3>2, <3>3, <3>4, <3>5 DEF DocsOK
  <2> QED
    BY <1>5, <2>1, <2>2
<1> QED
  BY <1>1, <1>2, <1>6, DocsStepType DEF CommunityStages

LEMMA CloseMembershipType ==
  ASSUME TypeInv, NEW s \in Threads, CloseMembership(s)
  PROVE  TypeInv'
<1> DEFINE u == User(s)
           length == today - docs[u][read[s]].day
<1>1. pc[s] = "close" /\ pc' = [pc EXCEPT ![s] = "leaves"]
  BY DEF CloseMembership, Goto
<1>2. UNCHANGED <<world, profile, activity, changes, job, view, read, batch, stopped>>
  BY DEF CloseMembership
<1>3. u \in Users /\ read[s] \in DOMAIN docs[u]
  BY <1>1, CommunityJob, ThreadFacts DEF CommunityStages, ThreadOK, ReadOK
<1>4. docs \in [Users -> Seq(UserMembership)] /\ today' = today /\ today \in Nat
  BY <1>2 DEF world, TypeInv, DocsOK, WorldOK
<1>5. length \in Nat
  BY <1>3, <1>4, DocTyped
<1>6. DocsOK' /\ \A v \in Users : DOMAIN docs[v] \subseteq DOMAIN docs'[v]
  <2>1. CASE docs' = docs
    BY <1>4, <2>1 DEF TypeInv, DocsOK
  <2>2. ASSUME NEW n \in DOMAIN docs[u],
               docs' = [docs EXCEPT ![u][n].left = today, ![u][n].duration = length]
        PROVE  DocsOK' /\ \A v \in Users : DOMAIN docs[v] \subseteq DOMAIN docs'[v]
    <3> DEFINE doc == [docs[u][n] EXCEPT !.left = today, !.duration = length]
    <3>1. docs[u][n] \in UserMembership /\ docs[u][n].day <= today
      BY <1>3, DocTyped
    <3>2. doc \in UserMembership /\ doc.day = docs[u][n].day /\ ~Stays(doc)
      <4> DEFINE d == docs[u][n]
                 e == [d EXCEPT !.left = today, !.duration = length]
      <4>1. d \in UserMembership /\ length \in Nat /\ today \in Nat
        BY <1>4, <1>5, <3>1
      <4> HIDE DEF d, length, u
      <4>2. e \in UserMembership /\ e.day = d.day
        BY <4>1 DEF UserMembership
      <4>3. e.left = today /\ today # -1
        BY <4>1 DEF UserMembership
      <4> QED
        BY <4>2, <4>3 DEF Stays, d
    <3> HIDE DEF length
    <3>3. docs' = [docs EXCEPT ![u] = [docs[u] EXCEPT ![n] = doc]]
      BY <1>3, <1>4, <2>2
    <3>4. docs[u] \in Seq(UserMembership)
      BY <1>3, <1>4
    <3> HIDE DEF u, doc
    <3>5. [docs[u] EXCEPT ![n] = doc] \in Seq(UserMembership) /\ DOMAIN [docs[u] EXCEPT ![n] = doc] = DOMAIN docs[u]
      BY <2>2, <3>2, <3>4
    <3>6. docs' \in [Users -> Seq(UserMembership)] /\ docs'[u] = [docs[u] EXCEPT ![n] = doc]
          /\ \A v \in Users : v # u => docs'[v] = docs[v]
      BY <1>3, <1>4, <3>3, <3>5
    <3>7. \A v \in Users : \A k \in DOMAIN docs[v] :
           docs[v][k].day <= today /\ (Stays(docs[v][k]) => docs[v][k].duration = -1)
      BY DEF TypeInv, DocsOK
    <3>8. \A v \in Users : DOMAIN docs'[v] = DOMAIN docs[v]
      BY <3>5, <3>6
    <3>9. \A v \in Users : \A k \in DOMAIN docs'[v] :
           docs'[v][k].day <= today /\ (Stays(docs'[v][k]) => docs'[v][k].duration = -1)
      <4>1. \A k \in DOMAIN docs[u] : k # n => docs'[u][k] = docs[u][k]
        BY <3>6
      <4>2. docs'[u][n] = doc
        BY <2>2, <3>6
      <4> QED
        BY <3>1, <3>2, <3>6, <3>7, <3>8, <4>1, <4>2
    <3> QED
      BY <1>4, <3>6, <3>8, <3>9 DEF DocsOK
  <2> QED
    BY <2>1, <2>2 DEF CloseMembership, OpenDocs
<1> QED
  BY <1>1, <1>2, <1>6, DocsStepType DEF CommunityStages

(* A step that only moves thread s and what it holds. *)
LEMMA ThreadStepType ==
  ASSUME TypeInv, NEW s \in Threads, OthersRest(s), ThreadOK(s)', BatchOK',
         UNCHANGED <<world, data>>
  PROVE  TypeInv'
<1>1. WorldOK' /\ ProfilesOK' /\ DocsOK' /\ RecordsOK'
  BY DEF world, data, TypeInv, WorldOK, ProfilesOK, DocsOK, RecordsOK
<1> QED
  BY <1>1, ThreadsStep DEF TypeInv

LEMMA BatchKept ==
  ASSUME TypeInv, UNCHANGED <<data, batch, stopped>>
  PROVE  BatchOK'
  BY DEF data, batch, TypeInv, BatchOK

LEMMA FindLastJoinType ==
  ASSUME TypeInv, NEW s \in Threads, FindLastJoin(s)
  PROVE  TypeInv'
<1>1. pc[s] = "find" /\ UNCHANGED <<world, data, job, view, batch, stopped>>
  BY DEF FindLastJoin
<1>2. ThreadOK(s) /\ pc \in [Threads -> Labels] /\ read \in [Threads -> Nat]
      /\ DOMAIN job = Threads /\ DOMAIN view = Threads
  BY ThreadFacts
<1>3. job[s] \in Membership /\ User(s) \in Users
  BY <1>1, CommunityJob DEF CommunityStages
<1>4. docs[User(s)] \in Seq(UserMembership)
  BY <1>3 DEF TypeInv, DocsOK
<1>5. \/ \E n \in DOMAIN docs[User(s)] : read' = [read EXCEPT ![s] = n] /\ pc' = [pc EXCEPT ![s] = "close"]
      \/ read' = read /\ pc' = [pc EXCEPT ![s] = "leaves"]
  BY DEF FindLastJoin, OpenDocs, Goto
<1>6. \A n \in DOMAIN docs[User(s)] : n \in Nat
  BY <1>4
<1>7. OthersRest(s)
  BY <1>1, <1>2, <1>5, <1>6 DEF OthersRest, Labels, data
<1>8. ThreadOK(s)'
  <2>1. job'[s] = job[s] /\ view'[s] = view[s] /\ docs' = docs
    BY <1>1 DEF data
  <2>2. \/ pc'[s] = "close" /\ read'[s] \in DOMAIN docs[User(s)] /\ read'[s] \in Nat
        \/ pc'[s] = "leaves" /\ read'[s] \in Nat
    BY <1>2, <1>5, <1>6
  <2>3. JobOK(s)'
    BY <1>3, <2>1, <2>2 DEF JobOK, NameStages, ScoreStages, User
  <2>4. ReadOK(s)'
    BY <2>1, <2>2 DEF ReadOK, User
  <2> QED
    BY <1>2, <2>1, <2>2, <2>3, <2>4 DEF ThreadOK, ViewOK, Labels
<1> QED
  BY <1>1, <1>7, <1>8, BatchKept, ThreadStepType

LEMMA FindDayType ==
  ASSUME TypeInv, NEW s \in Threads, FindDay(s)
  PROVE  TypeInv'
<1>1. pc[s] = "day" /\ UNCHANGED <<world, data, job, view, read, batch, stopped>>
  BY DEF FindDay
<1>2. PICK label \in {"newday", "profile"} : pc' = [pc EXCEPT ![s] = label]
  BY DEF FindDay, Goto
<1>3. ThreadOK(s) /\ pc \in [Threads -> Labels] /\ read \in [Threads -> Nat]
      /\ DOMAIN job = Threads /\ DOMAIN view = Threads
  BY ThreadFacts
<1>4. job[s] \in Membership /\ User(s) \in Users
  BY <1>1, CommunityJob DEF CommunityStages
<1>5. OthersRest(s)
  BY <1>1, <1>2, <1>3 DEF OthersRest, Labels, data
<1>6. ThreadOK(s)'
  <2>1. pc'[s] = label /\ job'[s] = job[s] /\ view'[s] = view[s] /\ read'[s] = read[s]
    BY <1>1, <1>2, <1>3
  <2>2. JobOK(s)'
    BY <1>4, <2>1 DEF JobOK, NameStages, ScoreStages, User
  <2> QED
    BY <1>3, <2>1, <2>2 DEF ThreadOK, ReadOK, ViewOK, Labels
<1> QED
  BY <1>1, <1>5, <1>6, BatchKept, ThreadStepType

LEMMA InsertDayType ==
  ASSUME TypeInv, NEW s \in Threads, InsertDay(s)
  PROVE  TypeInv'
<1>1. /\ pc[s] = "newday" /\ pc' = [pc EXCEPT ![s] = "profile"]
      /\ UNCHANGED <<world, profile, docs, changes, job, view, read, batch, limits>>
  BY DEF InsertDay, Goto
<1>2. ThreadOK(s) /\ pc \in [Threads -> Labels] /\ read \in [Threads -> Nat]
      /\ DOMAIN job = Threads /\ DOMAIN view = Threads
  BY ThreadFacts
<1>3. User(s) \in Users /\ job[s].comm \in Communities
  BY <1>1, CommunityJob DEF CommunityStages
<1>4. RecordsOK'
  <2>1. Day(s) \in [comm : Communities, date : Nat]
    BY <1>3 DEF Day, TypeInv, WorldOK
  <2>2. activity \in [Users -> Seq([comm : Communities, date : Nat])] /\ changes \in [Users -> Nat]
    BY DEF TypeInv, RecordsOK
  <2>3. Append(activity[User(s)], Day(s)) \in Seq([comm : Communities, date : Nat])
    <3>1. activity[User(s)] \in Seq([comm : Communities, date : Nat])
      BY <1>3, <2>2
    <3>2. \A R, a, d : a \in Seq(R) /\ d \in R => Append(a, d) \in Seq(R)
      OBVIOUS
    <3> QED
      BY ONLY <2>1, <3>1, <3>2
  <2>4. activity' = [activity EXCEPT ![User(s)] = Append(activity[User(s)], Day(s))] /\ changes' = changes
    BY DEF InsertDay
  <2> HIDE DEF Day, User
  <2> QED
    BY <2>2, <2>3, <2>4 DEF RecordsOK
<1>5. WorldOK' /\ ProfilesOK' /\ DocsOK' /\ BatchOK'
  BY <1>1 DEF world, batch, limits, TypeInv, WorldOK, ProfilesOK, DocsOK, BatchOK
<1>6. OthersRest(s)
  BY <1>1, <1>2 DEF OthersRest, Labels
<1>7. ThreadOK(s)'
  <2>1. pc'[s] = "profile" /\ job'[s] = job[s] /\ view'[s] = view[s] /\ read'[s] = read[s]
    BY <1>1, <1>2
  <2>2. JobOK(s)'
    BY <1>3, <2>1 DEF JobOK, CommunityStages, NameStages, ScoreStages, User
  <2> QED
    BY <1>2, <2>1, <2>2 DEF ThreadOK, ReadOK, ViewOK, Labels
<1> QED
  BY <1>4, <1>5, <1>6, <1>7, ThreadsStep DEF TypeInv

LEMMA CompareNamesType ==
  ASSUME TypeInv, NEW s \in Threads, CompareNames(s)
  PROVE  TypeInv'
<1>1. pc[s] = "names" /\ UNCHANGED <<world, data, job, view, batch, stopped>>
  BY DEF CompareNames
<1>2. ThreadOK(s) /\ pc \in [Threads -> Labels] /\ read \in [Threads -> Nat]
      /\ DOMAIN job = Threads /\ DOMAIN view = Threads
  BY ThreadFacts
<1>3. job[s] \in Renaming /\ User(s) \in Users
  BY <1>1, <1>2, MessageUsers DEF ThreadOK, JobOK, NameStages, User
<1>4. PICK n \in Nat : read' = [read EXCEPT ![s] = n]
  <2>1. \A p, m : Differing(p, m) \in Nat
    BY DEF Differing
  <2> QED
    BY <2>1 DEF CompareNames
<1>5. read'[s] = n
  BY <1>2, <1>4
<1>6. \/ n = 0 /\ pc' = [pc EXCEPT ![s] = "profile"]
      \/ n > 0 /\ pc' = [pc EXCEPT ![s] = "history"]
  <2>1. pc' = [pc EXCEPT ![s] = IF read'[s] = 0 THEN "profile" ELSE "history"]
    BY DEF CompareNames, Goto
  <2>2. n = 0 \/ n > 0
    OBVIOUS
  <2> QED
    BY <1>5, <2>1, <2>2
<1>7. OthersRest(s)
  BY <1>1, <1>2, <1>4, <1>6 DEF OthersRest, Labels, data
<1>8. ThreadOK(s)'
  <2>1. job'[s] = job[s] /\ view'[s] = view[s]
    BY <1>1
  <2>2. pc'[s] = "profile" \/ (pc'[s] = "history" /\ n > 0)
    BY <1>2, <1>6
  <2>3. JobOK(s)'
    BY <1>3, <2>1, <2>2 DEF JobOK, CommunityStages, ScoreStages, User
  <2>4. ReadOK(s)'
    BY <1>5, <2>2 DEF ReadOK
  <2> QED
    BY <1>2, <2>1, <2>2, <2>3, <2>4 DEF ThreadOK, ViewOK, Labels
<1> QED
  BY <1>1, <1>7, <1>8, BatchKept, ThreadStepType

LEMMA RecordProfileChangeType ==
  ASSUME TypeInv, NEW s \in Threads, RecordProfileChange(s)
  PROVE  TypeInv'
<1>1. pc[s] = "history" /\ UNCHANGED <<world, profile, docs, activity, job, view, batch, stopped>>
  BY DEF RecordProfileChange
<1>2. ThreadOK(s) /\ pc \in [Threads -> Labels] /\ read \in [Threads -> Nat]
      /\ DOMAIN job = Threads /\ DOMAIN view = Threads
  BY ThreadFacts
<1>3. job[s] \in Renaming /\ User(s) \in Users /\ read[s] > 0
  BY <1>1, <1>2, MessageUsers DEF ThreadOK, JobOK, ReadOK, NameStages, User
<1>4. read' = [read EXCEPT ![s] = read[s] - 1] /\ read[s] - 1 \in Nat
  BY <1>2, <1>3 DEF RecordProfileChange
<1>5. \/ pc' = [pc EXCEPT ![s] = "profile"]
      \/ pc' = [pc EXCEPT ![s] = "history"] /\ read[s] - 1 > 0
  <2>1. read[s] = 1 \/ read[s] - 1 > 0
    BY <1>2, <1>3
  <2> QED
    BY <2>1 DEF RecordProfileChange, Goto
<1>6. RecordsOK'
  <2>1. changes' = changes \/ changes' = [changes EXCEPT ![User(s)] = changes[User(s)] + 1]
    BY DEF RecordProfileChange
  <2>2. changes \in [Users -> Nat] /\ activity' = activity
    BY <1>1 DEF TypeInv, RecordsOK
  <2>3. changes' \in [Users -> Nat]
    BY <1>3, <2>1, <2>2
  <2> QED
    BY <2>2, <2>3 DEF TypeInv, RecordsOK
<1>7. WorldOK' /\ ProfilesOK' /\ DocsOK' /\ BatchOK'
  BY <1>1 DEF world, batch, TypeInv, WorldOK, ProfilesOK, DocsOK, BatchOK
<1>8. OthersRest(s)
  BY <1>1, <1>2, <1>4, <1>5 DEF OthersRest, Labels
<1>9. ThreadOK(s)'
  <2>1. job'[s] = job[s] /\ view'[s] = view[s] /\ read'[s] = read[s] - 1
    BY <1>1, <1>2, <1>4
  <2>2. pc'[s] = "profile" \/ (pc'[s] = "history" /\ read[s] - 1 > 0)
    BY <1>2, <1>5
  <2>3. JobOK(s)'
    BY <1>3, <2>1, <2>2 DEF JobOK, CommunityStages, ScoreStages, User
  <2>4. ReadOK(s)'
    BY <1>4, <2>1, <2>2 DEF ReadOK
  <2> QED
    BY <1>2, <2>1, <2>2, <2>3, <2>4 DEF ThreadOK, ViewOK, Labels
<1> QED
  BY <1>6, <1>7, <1>8, <1>9, ThreadsStep DEF TypeInv

(* The thread is done with a user. *)
LEMMA ReturnType ==
  ASSUME TypeInv, NEW s \in Threads, Return(s), s = Batch => User(s) \in Users,
         ProfilesOK', DOMAIN profile' = DOMAIN profile, UNCHANGED <<world, docs, activity, changes, stopped>>
  PROVE  TypeInv'
<1>1. ThreadOK(s) /\ pc \in [Threads -> Labels] /\ read \in [Threads -> Nat]
      /\ DOMAIN job = Threads /\ DOMAIN view = Threads
  BY ThreadFacts
<1>2. PICK label \in {"idle", "page"} : pc' = [pc EXCEPT ![s] = label]
  BY DEF Return, Goto
<1>3. read' = [read EXCEPT ![s] = 0] /\ view' = [view EXCEPT ![s] = NoView] /\ job' = [job EXCEPT ![s] = NoJob]
  BY DEF Return
<1>4. WorldOK' /\ DocsOK' /\ RecordsOK'
  BY DEF world, TypeInv, WorldOK, DocsOK, RecordsOK
<1>5. BatchOK'
  BY DEF Return, batch, TypeInv, BatchOK
<1>6. OthersRest(s)
  BY <1>1, <1>2, <1>3 DEF OthersRest, Labels
<1>7. ThreadOK(s)'
  <2>1. pc'[s] = label /\ read'[s] = 0 /\ view'[s] = NoView
    BY <1>1, <1>2, <1>3
  <2>2. ViewOK(s)'
    BY <2>1, NoViewTyped DEF ViewOK
  <2> QED
    BY <2>1, <2>2 DEF ThreadOK, JobOK, ReadOK, CommunityStages, NameStages, ScoreStages, Labels
<1> QED
  BY <1>4, <1>5, <1>6, <1>7, ThreadsStep DEF TypeInv

LEMMA CampaignCompleteType ==
  ASSUME TypeInv, NEW s \in Subs, handleCampaignComplete(s)
  PROVE  TypeInv'
<1>1. pc[s] = "campaign" /\ s \in Threads /\ s # Batch /\ UNCHANGED <<world, data, stopped>>
  BY Apart DEF handleCampaignComplete, Threads
<1>2. CASE Return(s)
  BY <1>1, <1>2, ReturnType DEF data, TypeInv, ProfilesOK
<1>3. CASE Goto(s, "profile") /\ UNCHANGED <<job, view, read, batch>>
  <2>1. ThreadOK(s) /\ pc \in [Threads -> Labels] /\ read \in [Threads -> Nat]
        /\ DOMAIN job = Threads /\ DOMAIN view = Threads
    BY <1>1, ThreadFacts
  <2>2. User(s) \in Users
    BY <1>1, <2>1, MessageUsers DEF ThreadOK, JobOK, User
  <2>3. pc' = [pc EXCEPT ![s] = "profile"]
    BY <1>3 DEF Goto
  <2>4. OthersRest(s)
    BY <1>1, <1>3, <2>1, <2>3 DEF OthersRest, Labels, data
  <2>5. ThreadOK(s)'
    <3>1. pc'[s] = "profile" /\ job'[s] = job[s] /\ view'[s] = view[s] /\ read'[s] = read[s]
      BY <1>1, <1>3, <2>1, <2>3
    <3>2. JobOK(s)'
      BY <2>2, <3>1 DEF JobOK, CommunityStages, NameStages, ScoreStages, User
    <3> QED
      BY <2>1, <3>1, <3>2 DEF ThreadOK, ReadOK, ViewOK, Labels
  <2> QED
    BY <1>1, <1>3, <2>4, <2>5, BatchKept, ThreadStepType
<1> QED
  BY <1>2, <1>3 DEF handleCampaignComplete

-----------------------------------------------------------------------------
(* The recalculation of a score. *)

LEMMA ScoreUser ==
  ASSUME TypeInv, NEW s \in Threads, pc[s] \in ScoreStages
  PROVE  User(s) \in Users
  BY ThreadFacts DEF ThreadOK, JobOK

(* The thread stays with its user and moves on to another reading. *)
LEMMA ScoreStepType ==
  ASSUME TypeInv, NEW s \in Threads, NEW label \in ScoreStages, pc[s] \in ScoreStages,
         pc' = [pc EXCEPT ![s] = label],
         NEW n \in Nat, read' = [read EXCEPT ![s] = n], label = "store" => n \in 0..100,
         DOMAIN view' = Threads, \A t \in Threads \ {s} : view'[t] = view[t], ViewOK(s)',
         UNCHANGED <<world, data, job, batch, stopped>>
  PROVE  TypeInv'
<1>1. ThreadOK(s) /\ pc \in [Threads -> Labels] /\ read \in [Threads -> Nat]
      /\ DOMAIN job = Threads /\ DOMAIN view = Threads
  BY ThreadFacts
<1>2. label \in Labels
  BY DEF ScoreStages, Labels
<1>3. OthersRest(s)
  BY <1>1, <1>2 DEF OthersRest, data
<1>4. ThreadOK(s)'
  <2>1. pc'[s] = label /\ job'[s] = job[s] /\ read'[s] = n
    BY <1>1
  <2>2. JobOK(s)' /\ ReadOK(s)'
    BY <2>1, ScoreUser DEF JobOK, ReadOK, CommunityStages, NameStages, ScoreStages, User
  <2> QED
    BY <1>2, <2>1, <2>2 DEF ThreadOK
<1> QED
  BY <1>3, <1>4, BatchKept, ThreadStepType

LEMMA ViewStep ==
  ASSUME TypeInv, NEW s \in Threads, NEW p \in UserProfile,
         view' = view \/ view' = [view EXCEPT ![s].profile = p]
  PROVE  DOMAIN view' = Threads /\ (\A t \in Threads \ {s} : view'[t] = view[t]) /\ ViewOK(s)'
<1>1. DOMAIN view = Threads /\ ViewOK(s)
  BY ThreadFacts DEF ThreadOK
<1>2. view'[s] = view[s] \/ view'[s] = [profile |-> p, ms |-> view[s].ms]
  BY <1>1 DEF ViewOK
<1>3. ViewOK(s)'
  BY <1>1, <1>2 DEF ViewOK
<1> QED
  BY <1>1, <1>3

LEMMA GetProfileType ==
  ASSUME TypeInv, NEW s \in Threads, GetProfile(s)
  PROVE  TypeInv'
<1>1. pc[s] = "profile" /\ UNCHANGED <<world, data, job, batch, stopped>>
  BY DEF GetProfile
<1>2. \E p \in UserProfile : view' = view \/ view' = [view EXCEPT ![s].profile = p]
  <2>1. Known(s) => Facts(User(s)) \in UserProfile
    BY CountedProfile DEF Known, Facts, TypeInv, ProfilesOK
  <2> QED
    BY <2>1, ZeroProfileTyped DEF GetProfile
<1>3. \E label \in ScoreStages : \E n \in Nat :
        /\ pc' = [pc EXCEPT ![s] = label] /\ read' = [read EXCEPT ![s] = n]
        /\ label = "store" => n \in 0..100
  <2>1. "store" \in ScoreStages /\ "memberships" \in ScoreStages /\ Unknown \in 0..100 /\ 0 \in Nat
    BY DEF ScoreStages, Unknown
  <2> QED
    BY <2>1 DEF GetProfile, Goto
<1> QED
  BY <1>1, <1>2, <1>3, ViewStep, ScoreStepType DEF ScoreStages

LEMMA RecentFinite ==
  ASSUME NEW ms, NEW R, ms \in Seq(R), NEW now
  PROVE  IsFiniteSet(DOMAIN GetRecentMemberships(ms, now))
<1>1. DOMAIN GetRecentMemberships(ms, now) \in SUBSET (1..Len(ms))
  BY DEF GetRecentMemberships
<1>2. IsFiniteSet(1..Len(ms))
  BY FS_Interval
<1> QED
  BY <1>1, <1>2, FS_Subset

LEMMA ReadMembershipsType ==
  ASSUME TypeInv, NEW s \in Threads, ReadMemberships(s)
  PROVE  TypeInv'
<1> DEFINE recent == GetRecentMemberships(docs[User(s)], today)
<1>1. pc[s] = "memberships" /\ UNCHANGED <<world, data, job, read, batch, stopped>>
  BY DEF ReadMemberships
<1>2. DOMAIN view = Threads /\ ViewOK(s) /\ read \in [Threads -> Nat]
  BY ThreadFacts DEF ThreadOK
<1>3. pc' = [pc EXCEPT ![s] = "activity"]
  BY DEF ReadMemberships, Goto
<1>4. read' = [read EXCEPT ![s] = read[s]] /\ read[s] \in Nat
  BY <1>1, <1>2
<1>5. view' = view \/ view' = [view EXCEPT ![s].ms = recent]
  BY DEF ReadMemberships
<1>6. IsFiniteSet(DOMAIN recent)
  <2>1. docs[User(s)] \in Seq(UserMembership)
    BY <1>1, ScoreUser DEF ScoreStages, TypeInv, DocsOK
  <2> QED
    BY <2>1, RecentFinite
<1>7. ViewOK(s)'
  <2> HIDE DEF recent
  <2>1. view'[s] = view[s] \/ view'[s] = [profile |-> view[s].profile, ms |-> recent]
    BY <1>2, <1>5 DEF ViewOK
  <2> QED
    BY <1>2, <1>6, <2>1 DEF ViewOK
<1>8. DOMAIN view' = Threads /\ \A t \in Threads \ {s} : view'[t] = view[t]
  BY <1>2, <1>5
<1>9. "memberships" \in ScoreStages /\ "activity" \in ScoreStages
  BY DEF ScoreStages
<1> QED
  BY <1>1, <1>3, <1>4, <1>7, <1>8, <1>9, ScoreStepType

LEMMA ActiveDaysTyped ==
  ASSUME TypeInv, NEW u \in Users
  PROVE  GetActivityDays(u) \in Nat
<1>1. activity[u] \in Seq([comm : Communities, date : Nat])
  BY DEF TypeInv, RecordsOK
<1>2. IsFiniteSet(1..Len(activity[u]))
  BY <1>1, FS_Interval
<1>3. {n \in DOMAIN activity[u] : activity[u][n].date >= today - ActiveDays} \in SUBSET (1..Len(activity[u]))
  BY <1>1
<1> QED
  BY <1>2, <1>3, FS_Subset, FS_CardinalityType DEF GetActivityDays

LEMMA CalculateType ==
  ASSUME TypeInv, NEW s \in Threads, Calculate(s)
  PROVE  TypeInv'
<1>1. pc[s] = "activity" /\ UNCHANGED <<world, data, job, batch, stopped>>
  BY DEF Calculate
<1>2. DOMAIN view = Threads /\ ViewOK(s)
  BY ThreadFacts DEF ThreadOK
<1>3. pc' = [pc EXCEPT ![s] = "store"] /\ view' = [view EXCEPT ![s] = NoView]
  BY DEF Calculate, Goto
<1>4. PICK n \in 0..100 : read' = [read EXCEPT ![s] = n]
  <2>1. GetActivityDays(User(s)) \in Nat
    BY <1>1, ScoreUser, ActiveDaysTyped DEF ScoreStages
  <2>2. \A active \in Nat : Trust(view[s].profile, view[s].ms, active, today) \in 0..100
    BY <1>2, TrustRange DEF ViewOK
  <2> QED
    BY <2>1, <2>2 DEF Calculate
<1>5. ViewOK(s)' /\ DOMAIN view' = Threads /\ \A t \in Threads \ {s} : view'[t] = view[t]
  <2>1. view'[s] = NoView
    BY <1>2, <1>3
  <2> QED
    BY <1>2, <1>3, <2>1, NoViewTyped DEF ViewOK
<1>6. "activity" \in ScoreStages /\ "store" \in ScoreStages /\ n \in Nat
  BY DEF ScoreStages
<1> QED
  BY <1>1, <1>3, <1>4, <1>5, <1>6, ScoreStepType

LEMMA UpdateTrustScoreType ==
  ASSUME TypeInv, NEW s \in Threads, UpdateTrustScore(s)
  PROVE  TypeInv'
<1>1. pc[s] = "store" /\ Return(s) /\ UNCHANGED <<world, docs, activity, changes, stopped>>
  BY DEF UpdateTrustScore
<1>2. User(s) \in Users /\ read[s] \in 0..100
  BY <1>1, ScoreUser, ThreadFacts DEF ScoreStages, ThreadOK, ReadOK
<1>3. ProfilesOK' /\ DOMAIN profile' = DOMAIN profile
  <2>1. CASE profile' = profile
    BY <2>1 DEF TypeInv, ProfilesOK
  <2>2. CASE Known(s) /\ profile' = [profile EXCEPT ![User(s)].trust = read[s]]
    <3>1. [profile[User(s)] EXCEPT !.trust = read[s]] \in UserProfile /\ User(s) \in DOMAIN profile
      BY <1>2, <2>2, CountedProfile DEF Known, TypeInv, ProfilesOK
    <3> QED
      BY <2>2, <3>1, ProfileUpdated
  <2> QED
    BY <2>1, <2>2 DEF UpdateTrustScore
<1> QED
  BY <1>1, <1>2, <1>3, ReturnType

-----------------------------------------------------------------------------
(* The periodic batch. *)

(* A set of numbers has a smallest one. *)
Below == {pair \in Nat \X Nat : pair[1] < pair[2]}

LEMMA BelowWellFounded == IsWellFoundedOn(Below, Nat)
  BY NatLessThanWellFounded DEF OpToRel, Below

LEMMA MinIs ==
  ASSUME NEW S \in SUBSET Nat, S # {}
  PROVE  Min(S) \in S /\ \A u \in S : Min(S) <= u
<1>1. PICK m \in S : \A u \in S : <<u, m>> \notin Below
  <2>1. S \subseteq Nat
    OBVIOUS
  <2> QED
    BY ONLY <2>1, S # {}, BelowWellFounded, WFMin
<1>2. ASSUME NEW u \in S
      PROVE  m <= u
  <2>1. <<u, m>> \in Nat \X Nat /\ <<u, m>>[1] = u /\ <<u, m>>[2] = m
    OBVIOUS
  <2>2. ~(u < m)
    BY <1>1, <2>1 DEF Below
  <2> QED
    BY <2>2
<1> QED
  BY <1>2 DEF Min

LEMMA ProfileUsers ==
  ASSUME TypeInv
  PROVE  /\ DOMAIN profile \in SUBSET Nat /\ 0 \notin DOMAIN profile
         /\ page \in SUBSET Nat /\ lastID \in Nat
         /\ page # {} => Min(page) \in page /\ Min(page) \in Users /\ \A u \in page : Min(page) <= u
<1>1. DOMAIN profile \subseteq Users /\ page \subseteq DOMAIN profile /\ lastID \in Users \cup {0}
  BY DEF TypeInv, ProfilesOK, BatchOK
<1>2. page \in SUBSET Nat
  BY <1>1, UsersAssumption
<1>3. page # {} => Min(page) \in page /\ \A u \in page : Min(page) <= u
  BY <1>2, MinIs
<1>4. page # {} => Min(page) \in Users
  BY <1>1, <1>3
<1>5. DOMAIN profile \in SUBSET Nat /\ 0 \notin DOMAIN profile /\ lastID \in Nat
  <2>1. Users \subseteq Nat /\ 0 \notin Users
    BY UsersAssumption
  <2>2. DOMAIN profile \subseteq Nat /\ 0 \notin DOMAIN profile
    BY <1>1, <2>1
  <2>3. lastID \in Nat
    BY <1>1, <2>1
  <2> QED
    BY <2>2, <2>3
<1> QED
  BY <1>2, <1>3, <1>4, <1>5

LEMMA BatchThread == Batch \in Threads
  BY DEF Threads

LEMMA BatchMoves ==
  ASSUME TypeInv, NEW label \in {"idle", "list", "page"}, pc' = [pc EXCEPT ![Batch] = label],
         UNCHANGED <<world, data, job, view, read>>, BatchOK'
  PROVE  TypeInv'
<1>1. ThreadOK(Batch) /\ pc \in [Threads -> Labels] /\ read \in [Threads -> Nat]
      /\ DOMAIN job = Threads /\ DOMAIN view = Threads
  BY BatchThread, ThreadFacts
<1>2. OthersRest(Batch)
  BY <1>1 DEF OthersRest, Labels, data
<1>3. ThreadOK(Batch)'
  <2>1. pc'[Batch] = label /\ read'[Batch] = read[Batch] /\ view'[Batch] = view[Batch]
    BY <1>1, BatchThread
  <2> QED
    BY <1>1, <2>1 DEF ThreadOK, JobOK, ReadOK, ViewOK, CommunityStages, NameStages, ScoreStages, Labels
<1> QED
  BY <1>2, <1>3, BatchThread, ThreadStepType

LEMMA TickType ==
  ASSUME TypeInv, Tick
  PROVE  TypeInv'
<1>1. BatchOK'
  BY DEF Tick, data, limits, TypeInv, BatchOK
<1> QED
  BY <1>1, BatchMoves DEF Tick, Begin, Goto

LEMMA ListPageType ==
  ASSUME TypeInv, ListPage
  PROVE  TypeInv'
<1>1. BatchOK'
  <2>1. ListUsersForRecalc(lastID) \subseteq DOMAIN profile
    BY DEF ListUsersForRecalc
  <2>2. profile' = profile /\ visited' = visited /\ stopped' = stopped
    BY DEF ListPage, data
  <2>3. page' \subseteq DOMAIN profile /\ lastID' \in Users \cup {0} /\ isShort' \in BOOLEAN /\ complete' \in BOOLEAN
    <3>1. CASE /\ page' = ListUsersForRecalc(lastID) /\ isShort' = (Cardinality(page') < BatchSize)
               /\ UNCHANGED <<lastID, complete>>
      BY <2>1, <3>1 DEF TypeInv, BatchOK
    <3>2. CASE EndBatch(TRUE) \/ EndBatch(FALSE)
      BY <3>2 DEF EndBatch
    <3> QED
      BY <3>1, <3>2 DEF ListPage
  <2> QED
    BY <2>2, <2>3 DEF TypeInv, BatchOK
<1>2. \E label \in {"idle", "list", "page"} : pc' = [pc EXCEPT ![Batch] = label]
  BY DEF ListPage, EndBatch, Goto
<1> QED
  BY <1>1, <1>2, BatchMoves DEF ListPage

LEMMA NextUserType ==
  ASSUME TypeInv, NextUser
  PROVE  TypeInv'
<1> DEFINE u == Min(page)
<1>1. UNCHANGED <<world, data, view, read, limits>>
  BY DEF NextUser
<1>2. profile' = profile /\ stopped' = stopped /\ visited \in [Users -> Nat]
  BY <1>1 DEF data, limits, TypeInv, BatchOK
<1>3. CASE /\ page # {}
           /\ job' = [job EXCEPT ![Batch] = [user |-> u]] /\ page' = page \ {u}
           /\ visited' = [visited EXCEPT ![u] = @ + 1]
           /\ Goto(Batch, "profile") /\ UNCHANGED <<lastID, isShort, complete>>
  <2>1. u \in Users
    BY <1>3, ProfileUsers
  <2> HIDE DEF u
  <2>2. visited' \in [Users -> Nat]
    BY <1>2, <1>3, <2>1
  <2>3. BatchOK'
    BY <1>2, <1>3, <2>2 DEF TypeInv, BatchOK
  <2>4. ThreadOK(Batch) /\ pc \in [Threads -> Labels] /\ read \in [Threads -> Nat]
        /\ DOMAIN job = Threads /\ DOMAIN view = Threads
    BY BatchThread, ThreadFacts
  <2>5. pc' = [pc EXCEPT ![Batch] = "profile"]
    BY <1>3 DEF Goto
  <2>6. OthersRest(Batch)
    BY <1>1, <1>3, <2>4, <2>5 DEF OthersRest, Labels, data
  <2>7. ThreadOK(Batch)'
    <3>1. /\ pc'[Batch] = "profile" /\ job'[Batch] = [user |-> u]
          /\ read'[Batch] = read[Batch] /\ view'[Batch] = view[Batch]
      BY <1>1, <1>3, <2>4, <2>5, BatchThread
    <3>2. JobOK(Batch)'
      BY <2>1, <3>1 DEF JobOK, CommunityStages, NameStages, ScoreStages, User
    <3> QED
      BY <2>4, <3>1, <3>2 DEF ThreadOK, ReadOK, ViewOK, Labels
  <2> QED
    BY <1>1, <2>3, <2>6, <2>7, BatchThread, ThreadStepType
<1>4. CASE (EndBatch(FALSE) \/ EndBatch(TRUE)) /\ UNCHANGED <<job, visited>>
  <2>1. BatchOK'
    BY <1>2, <1>4 DEF EndBatch, TypeInv, BatchOK
  <2> QED
    BY <1>1, <1>4, <2>1, BatchMoves DEF EndBatch, Goto
<1>5. CASE Goto(Batch, "list") /\ UNCHANGED <<job, batch>>
  <2>1. BatchOK'
    BY <1>2, <1>5 DEF batch, TypeInv, BatchOK
  <2> QED
    BY <1>1, <1>5, <2>1, BatchMoves DEF Goto
<1> QED
  BY <1>3, <1>4, <1>5 DEF NextUser

-----------------------------------------------------------------------------
LEMMA ScoreType ==
  ASSUME TypeInv, NEW s \in Threads, recalcUserScore(s)
  PROVE  TypeInv'
  BY GetProfileType, ReadMembershipsType, CalculateType, UpdateTrustScoreType DEF recalcUserScore

LEMMA HandleType ==
  ASSUME TypeInv, NEW s \in Subs, Handle(s)
  PROVE  TypeInv'
<1>1. s \in Threads
  BY DEF Threads
<1> QED
  BY <1>1, ReceiveType, CountJoinType, InsertMembershipType, FindLastJoinType, CloseMembershipType,
     CountLeaveType, FindDayType, InsertDayType, CompareNamesType, RecordProfileChangeType,
     CampaignCompleteType DEF Handle

LEMMA WorkType == TypeInv /\ Work => TypeInv'
<1> SUFFICES ASSUME TypeInv, Work
             PROVE  TypeInv'
  OBVIOUS
<1>1. CASE \E s \in Subs : Handle(s)
  BY <1>1, HandleType
<1>2. CASE \E s \in Subs \cup Recalcs : recalcUserScore(s)
  BY <1>2, ScoreType DEF Threads
<1> QED
  BY <1>1, <1>2 DEF Work

LEMMA StutterType == TypeInv /\ UNCHANGED vars => TypeInv'
<1> SUFFICES ASSUME TypeInv, UNCHANGED vars
             PROVE  TypeInv'
  OBVIOUS
<1>1. WorldOK' /\ ProfilesOK' /\ RecordsOK' /\ BatchOK' /\ DocsOK'
  BY DEF vars, world, data, batch, limits, TypeInv, WorldOK, ProfilesOK, RecordsOK, BatchOK, DocsOK
<1>2. ThreadsOK'
  BY DEF vars, data, thread, TypeInv, ThreadsOK, ThreadOK, JobOK, ReadOK, ViewOK, User
<1> QED
  BY <1>1, <1>2 DEF TypeInv

LEMMA TypeStep == TypeInv /\ [Next]_vars => TypeInv'
<1> SUFFICES ASSUME TypeInv, [Next]_vars
             PROVE  TypeInv'
  OBVIOUS
<1>1. ASSUME NEW m \in Membership,
             \/ \E S \in SUBSET JoinSubs : Join(m, S)
             \/ \E S \in SUBSET LeaveSubs : Leave(m, S)
             \/ \E S \in SUBSET ActivitySubs : Talk(m, S)
      PROVE  TypeInv'
  BY <1>1, MessagesType
<1>2. ASSUME NEW u \in Movers, NEW names \in Renamings, NEW S \in SUBSET ProfileSubs,
             Rename(Renamed(u, names), S)
      PROVE  TypeInv'
  BY <1>2, RenameType
<1>3. ASSUME NEW m \in Campaign, NEW S \in SUBSET CampaignSubs, Complete(m, S)
      PROVE  TypeInv'
  BY <1>3, CompleteType
<1>4. ASSUME NEW n \in Strides, DaysPass(n)
      PROVE  TypeInv'
  BY <1>4, DaysPassType
<1>5. ASSUME NEW s \in Recalcs, NEW u \in Users, recalcUser(s, u)
      PROVE  TypeInv'
  BY <1>5, recalcUserType
<1>6. CASE batchRecalcUsers
  BY <1>6, TickType, ListPageType, NextUserType, ScoreType, BatchThread DEF batchRecalcUsers
<1>7. CASE Shutdown
  BY <1>7, ShutdownType
<1>8. CASE Work
  BY <1>8, WorkType
<1>9. CASE UNCHANGED vars
  BY <1>9, StutterType
<1> QED
  BY <1>1, <1>2, <1>3, <1>4, <1>5, <1>6, <1>7, <1>8, <1>9 DEF Next

LEMMA TypeInvariant == Spec => []TypeInv
  BY TypeInit, TypeStep, PTL DEF Spec

(* Every document, message and cursor is well formed at every point of     *)
(* every handler; among it that a leave finds the membership it has read,  *)
(* no length of a membership is negative, and every trust score that is    *)
(* stored lies between 0 and 100.                                          *)
THEOREM TypeCorrect == Spec => []TypeOK
  BY TypeInvariant, TypeInvSuffices, PTL

-----------------------------------------------------------------------------
(* Each profile is visited by a batch as soon as its cursor is there.      *)

Working == pc[Batch] \in ScoreStages
Cursor  == IF Working THEN User(Batch) ELSE lastID
Later   == {u \in DOMAIN profile : u > Cursor}

(* What the batch has still to visit of its page is the beginning of what  *)
(* comes after the cursor, and all of it if the page was not full.         *)
PageOK ==
  /\ page \subseteq Later
  /\ \A v \in page, u \in Later : u < v => u \in page
  /\ isShort => Later \subseteq page

BatchInv ==
  /\ pc[Batch] \in {"idle", "list", "page"} \cup ScoreStages
  /\ pc[Batch] = "idle" => lastID = 0 /\ BatchVisitsEachOnce
  /\ pc[Batch] # "idle" =>
       ~complete /\ \A u \in DOMAIN profile : visited[u] = IF u <= Cursor THEN 1 ELSE 0
  /\ pc[Batch] = "page" \/ Working => PageOK

LEMMA BatchInvSuffices == BatchInv => BatchVisitsEachOnce
  BY DEF BatchInv, BatchVisitsEachOnce
LEMMA BatchInit == Init => BatchInv
<1> SUFFICES ASSUME Init
             PROVE  BatchInv
  OBVIOUS
<1>1. pc[Batch] = "idle" /\ lastID = 0 /\ complete = FALSE
  BY BatchThread DEF Init
<1>2. DOMAIN profile \subseteq Users
  BY TypeInit DEF TypeInv, ProfilesOK
<1>3. \A u \in DOMAIN profile : visited[u] = 0
  BY <1>2 DEF Init
<1>4. ~Working
  BY <1>1 DEF Working, ScoreStages
<1> QED
  BY <1>1, <1>3, <1>4 DEF BatchInv, BatchVisitsEachOnce

(* A step that neither moves the batch nor adds a profile. *)
BatchRests ==
  /\ DOMAIN profile' = DOMAIN profile /\ UNCHANGED batch
  /\ pc'[Batch] = pc[Batch] /\ job'[Batch] = job[Batch]

LEMMA RestStep ==
  ASSUME BatchInv, BatchRests
  PROVE  BatchInv'
<1>1. Working' = Working /\ Cursor' = Cursor
  BY DEF BatchRests, Working, Cursor, User, batch
<1>2. Later' = Later
  BY <1>1 DEF Later, BatchRests
<1> QED
  BY <1>1, <1>2 DEF BatchInv, BatchRests, BatchVisitsEachOnce, PageOK, batch

LEMMA HandleRests ==
  ASSUME TypeInv, NEW s \in Subs, Handle(s)
  PROVE  BatchRests
<1>1. s # Batch /\ s \in Threads
  BY Apart DEF Threads
<1>2. DOMAIN pc = Threads /\ DOMAIN job = Threads
  BY <1>1, ThreadFacts
<1>3. CASE Receive(s)
  BY <1>1, <1>2, <1>3, BatchThread DEF Receive, Begin, Goto, data, BatchRests
<1>4. CASE CountJoin(s) \/ CountLeave(s)
  BY <1>1, <1>2, <1>4, BatchThread DEF CountJoin, CountLeave, Goto, BatchRests
<1>5. CASE InsertMembership(s) \/ CloseMembership(s)
  BY <1>1, <1>2, <1>5, BatchThread DEF InsertMembership, CloseMembership, Goto, BatchRests
<1>6. CASE FindLastJoin(s) \/ FindDay(s) \/ CompareNames(s)
  BY <1>1, <1>2, <1>6, BatchThread DEF FindLastJoin, FindDay, CompareNames, Goto, data, BatchRests
<1>7. CASE InsertDay(s) \/ RecordProfileChange(s)
  BY <1>1, <1>2, <1>7, BatchThread DEF InsertDay, RecordProfileChange, Goto, BatchRests
<1>8. CASE handleCampaignComplete(s)
  <2>1. \E label \in {"idle", "profile"} : pc' = [pc EXCEPT ![s] = label]
    BY <1>1, <1>8 DEF handleCampaignComplete, Return, Goto
  <2>2. UNCHANGED <<data, batch>> /\ (job' = job \/ job' = [job EXCEPT ![s] = NoJob])
    BY <1>1, <1>8 DEF handleCampaignComplete, Return
  <2> QED
    BY <1>1, <1>2, <2>1, <2>2, BatchThread DEF data, BatchRests
<1> QED
  BY <1>3, <1>4, <1>5, <1>6, <1>7, <1>8 DEF Handle

LEMMA ScoreRests ==
  ASSUME TypeInv, NEW s \in Subs \cup Recalcs, recalcUserScore(s)
  PROVE  BatchRests
<1>1. s # Batch /\ s \in Threads
  BY Apart DEF Threads
<1>2. DOMAIN pc = Threads /\ DOMAIN job = Threads
  BY <1>1, ThreadFacts
<1>3. CASE GetProfile(s)
  BY <1>1, <1>2, <1>3, BatchThread DEF GetProfile, Goto, data, BatchRests
<1>4. CASE ReadMemberships(s) \/ Calculate(s)
  BY <1>1, <1>2, <1>4, BatchThread DEF ReadMemberships, Calculate, Goto, data, BatchRests
<1>5. CASE UpdateTrustScore(s)
  <2>1. /\ pc' = [pc EXCEPT ![s] = "idle"] /\ job' = [job EXCEPT ![s] = NoJob]
        /\ UNCHANGED batch
    BY <1>1, <1>5 DEF UpdateTrustScore, Return, Goto
  <2>2. DOMAIN profile' = DOMAIN profile
    BY <1>5 DEF UpdateTrustScore
  <2> QED
    BY <1>1, <1>2, <2>1, <2>2, BatchThread DEF BatchRests
<1> QED
  BY <1>3, <1>4, <1>5 DEF recalcUserScore

LEMMA WorkRests ==
  ASSUME TypeInv, Work
  PROVE  BatchRests
  BY HandleRests, ScoreRests DEF Work

LEMMA WorldRests ==
  ASSUME TypeInv,
         \/ \E m, S : Join(m, S) \/ Leave(m, S) \/ Talk(m, S) \/ Rename(m, S) \/ Complete(m, S)
         \/ \E n \in Strides : DaysPass(n)
         \/ Shutdown \/ UNCHANGED vars
         \/ \E s \in Recalcs, u \in Users : recalcUser(s, u)
  PROVE  BatchRests
<1>1. DOMAIN pc = Threads /\ DOMAIN job = Threads
  BY BatchThread, ThreadFacts
<1>2. CASE \E m, S : Join(m, S) \/ Leave(m, S) \/ Talk(m, S) \/ Rename(m, S) \/ Complete(m, S)
  BY <1>2 DEF Join, Leave, Talk, Rename, Complete, Send, data, thread, BatchRests
<1>3. CASE (\E n \in Strides : DaysPass(n)) \/ Shutdown \/ UNCHANGED vars
  BY <1>3 DEF DaysPass, Shutdown, vars, data, thread, BatchRests
<1>4. ASSUME NEW s \in Recalcs, NEW u \in Users, recalcUser(s, u)
      PROVE  BatchRests
  <2>1. s # Batch
    BY Apart
  <2> QED
    BY <1>1, <1>4, <2>1, BatchThread DEF recalcUser, Begin, Goto, data, BatchRests
<1> QED
  BY <1>2, <1>3, <1>4

(* The batch reads what the score of its user depends on. *)
LEMMA ReadingStep ==
  ASSUME TypeInv, BatchInv, GetProfile(Batch) \/ ReadMemberships(Batch) \/ Calculate(Batch)
  PROVE  BatchInv'
<1>1. DOMAIN pc = Threads /\ DOMAIN job = Threads
  BY BatchThread, ThreadFacts
<1>2. pc[Batch] \in ScoreStages /\ UNCHANGED <<data, job, batch>>
  BY DEF GetProfile, ReadMemberships, Calculate, ScoreStages
<1>3. pc'[Batch] \in ScoreStages
  <2>1. \E label \in ScoreStages : pc' = [pc EXCEPT ![Batch] = label]
    BY DEF GetProfile, ReadMemberships, Calculate, ScoreStages, Goto
  <2> QED
    BY <1>1, <2>1, BatchThread
<1>4. Working /\ Working' /\ Cursor' = Cursor
  BY <1>2, <1>3 DEF Working, Cursor, User
<1>5. Later' = Later /\ DOMAIN profile' = DOMAIN profile
  BY <1>2, <1>4 DEF Later, data
<1>6. pc[Batch] # "idle" /\ pc'[Batch] # "idle" /\ pc'[Batch] # "page"
  BY <1>2, <1>3 DEF ScoreStages
<1> QED
  BY <1>2, <1>3, <1>4, <1>5, <1>6 DEF BatchInv, PageOK, batch

LEMMA StoringStep ==
  ASSUME TypeInv, BatchInv, UpdateTrustScore(Batch)
  PROVE  BatchInv'
<1>1. DOMAIN pc = Threads /\ DOMAIN job = Threads
  BY BatchThread, ThreadFacts
<1>2. /\ pc[Batch] = "store" /\ pc' = [pc EXCEPT ![Batch] = "page"] /\ lastID' = User(Batch)
      /\ UNCHANGED <<page, isShort, visited, complete>>
  BY DEF UpdateTrustScore, Return, Goto
<1>3. DOMAIN profile' = DOMAIN profile
  BY DEF UpdateTrustScore
<1>4. pc'[Batch] = "page"
  BY <1>1, <1>2, BatchThread
<1>5. Working /\ ~Working' /\ Cursor' = Cursor
  BY <1>2, <1>4 DEF Working, Cursor, ScoreStages
<1>6. Later' = Later
  BY <1>3, <1>5 DEF Later
<1> QED
  BY <1>2, <1>3, <1>4, <1>5, <1>6 DEF BatchInv, PageOK

LEMMA TickStep ==
  ASSUME TypeInv, BatchInv, Tick
  PROVE  BatchInv'
<1>1. DOMAIN pc = Threads /\ pc' = [pc EXCEPT ![Batch] = "list"] /\ pc[Batch] = "idle"
  BY BatchThread, ThreadFacts DEF Tick, Begin, Goto
<1>2. pc'[Batch] = "list" /\ ~Working'
  BY <1>1, BatchThread DEF Working, ScoreStages
<1>3. Cursor' = 0 /\ complete' = FALSE /\ profile' = profile
  BY <1>1, <1>2 DEF Tick, BatchInv, Cursor, data
<1>4. \A u \in DOMAIN profile : ~(u <= 0) /\ visited'[u] = 0
  <2>1. \A u \in DOMAIN profile : u \in Nat /\ u # 0 /\ u \in Users
    BY ProfileUsers DEF TypeInv, ProfilesOK
  <2> QED
    BY <2>1 DEF Tick
<1> QED
  BY <1>2, <1>3, <1>4 DEF BatchInv

(* A page holds the first of those that come after the cursor. *)
LEMMA PageIs ==
  ASSUME TypeInv, IsFiniteSet(Users), NEW after \in Nat
  PROVE  LET later == {u \in DOMAIN profile : u > after}
             listed == ListUsersForRecalc(after)
         IN  /\ listed \subseteq later
             /\ listed = {} => later = {}
             /\ \A v \in listed, u \in later : u < v => u \in listed
             /\ Cardinality(listed) < BatchSize => later \subseteq listed
<1> DEFINE later == {u \in DOMAIN profile : u > after}
           before(u) == {v \in later : v < u}
           listed == {u \in later : Cardinality(before(u)) < BatchSize}
<1>1. later \in SUBSET Nat
  BY ProfileUsers
<1>2. IsFiniteSet(later)
  <2>1. later \in SUBSET Users
    BY DEF TypeInv, ProfilesOK
  <2> QED
    BY <2>1, FS_Subset
<1>3. ListUsersForRecalc(after) = listed
  BY DEF ListUsersForRecalc
<1> HIDE DEF later
<1>4. BatchSize \in Nat /\ BatchSize > 0
  BY UsersAssumption
<1>5. \A u \in later : IsFiniteSet(before(u)) /\ Cardinality(before(u)) \in Nat
  <2>1. \A u \in later : before(u) \in SUBSET later
    OBVIOUS
  <2> HIDE DEF before
  <2> QED
    BY <1>2, <2>1, FS_Subset, FS_CardinalityType
<1>6. ASSUME listed = {}, later # {}
      PROVE  FALSE
  <2>1. Min(later) \in later /\ \A u \in later : Min(later) <= u
    BY <1>1, <1>6, MinIs
  <2>2. before(Min(later)) = {}
    <3>1. \A v \in later : v \in Nat /\ Min(later) \in Nat /\ Min(later) <= v
      BY <1>1, <2>1
    <3>2. \A v \in later : ~(v < Min(later))
      BY <3>1
    <3> QED
      BY <3>2
  <2>3. Cardinality(before(Min(later))) = 0
    BY <2>2, FS_EmptySet
  <2> QED
    BY <1>4, <1>6, <2>1, <2>3
<1>7. ASSUME NEW v \in listed, NEW u \in later, u < v
      PROVE  u \in listed
  <2>1. before(u) \in SUBSET before(v)
    <3>1. v \in later /\ \A w \in later : w \in Nat
      BY <1>1
    <3>2. \A w \in later : w < u => w < v
      BY <1>7, <3>1
    <3> QED
      BY <3>2
  <2>2. IsFiniteSet(before(v)) /\ Cardinality(before(v)) \in Nat /\ Cardinality(before(u)) \in Nat
    BY <1>5
  <2>3. Cardinality(before(u)) <= Cardinality(before(v))
    <3> HIDE DEF before
    <3> QED
      BY <2>1, <2>2, FS_Subset
  <2> QED
    BY <1>4, <2>2, <2>3
<1>8. ASSUME Cardinality(listed) < BatchSize, ~(later \subseteq listed)
      PROVE  FALSE
  <2> DEFINE rest == later \ listed
             m == Min(rest)
  <2>1. m \in rest /\ \A u \in rest : m <= u
    BY <1>1, <1>8, MinIs
  <2>2. before(m) \in SUBSET listed
    <3>1. m \in Nat /\ \A v \in later : v \in Nat
      BY <1>1, <2>1
    <3> HIDE DEF listed, m
    <3>2. \A v \in later : v < m => v \in listed
      BY <2>1, <3>1
    <3> QED
      BY <3>2
  <2>3. IsFiniteSet(listed)
    <3>1. listed \in SUBSET later
      OBVIOUS
    <3> HIDE DEF listed
    <3> QED
      BY <1>2, <3>1, FS_Subset
  <2>4. Cardinality(before(m)) <= Cardinality(listed) /\ Cardinality(listed) \in Nat
    <3> HIDE DEF before, listed, m
    <3> QED
      BY <2>2, <2>3, FS_Subset, FS_CardinalityType
  <2>5. Cardinality(before(m)) \in Nat /\ m \in later
    BY <1>5, <2>1
  <2>6. Cardinality(before(m)) < BatchSize
    <3> HIDE DEF before, listed, m
    <3> QED
      BY <1>4, <1>8, <2>4, <2>5
  <2> QED
    BY <2>1, <2>5, <2>6
<1> QED
  BY <1>3, <1>6, <1>7, <1>8 DEF later

LEMMA EndStep ==
  ASSUME TypeInv, BatchInv, NEW done \in BOOLEAN, EndBatch(done), UNCHANGED <<data, visited>>,
         pc[Batch] \in {"list", "page"}, done => Later = {}
  PROVE  BatchInv'
<1>1. DOMAIN pc = Threads /\ pc' = [pc EXCEPT ![Batch] = "idle"]
  BY BatchThread, ThreadFacts DEF EndBatch, Goto
<1>2. pc'[Batch] = "idle" /\ ~Working'
  BY <1>1, BatchThread DEF Working, ScoreStages
<1>3. lastID' = 0 /\ complete' = done /\ profile' = profile /\ visited' = visited
  BY DEF EndBatch, data
<1>4. \A u \in DOMAIN profile : visited[u] = IF u <= Cursor THEN 1 ELSE 0
  BY DEF BatchInv
<1>5. Cursor \in Nat
  BY ProfileUsers DEF Cursor, Working, ScoreStages
<1>6. \A u \in DOMAIN profile : u \in Nat
  BY ProfileUsers
<1>7. BatchVisitsEachOnce'
  <2>1. ASSUME NEW u \in DOMAIN profile
        PROVE  visited[u] <= 1 /\ (done => visited[u] = 1)
    <3>1. done => u <= Cursor
      BY <1>5, <1>6 DEF Later
    <3> QED
      BY <1>4, <3>1
  <2> QED
    BY <1>3, <2>1 DEF BatchVisitsEachOnce
<1> QED
  BY <1>2, <1>3, <1>7 DEF BatchInv

LEMMA ListStep ==
  ASSUME TypeInv, BatchInv, IsFiniteSet(Users), ListPage
  PROVE  BatchInv'
<1>1. pc[Batch] = "list" /\ ~Working /\ Cursor = lastID
  BY DEF ListPage, Working, Cursor, ScoreStages
<1>2. UNCHANGED <<data, visited>> /\ lastID \in Nat
  BY ProfileUsers DEF ListPage
<1>3. CASE /\ page' = ListUsersForRecalc(lastID) /\ isShort' = (Cardinality(page') < BatchSize)
           /\ Goto(Batch, "page") /\ UNCHANGED <<lastID, complete>>
  <2>1. DOMAIN pc = Threads /\ pc' = [pc EXCEPT ![Batch] = "page"]
    BY <1>3, BatchThread, ThreadFacts DEF Goto
  <2>2. pc'[Batch] = "page" /\ ~Working'
    BY <2>1, BatchThread DEF Working, ScoreStages
  <2>3. Cursor' = Cursor /\ profile' = profile /\ visited' = visited
    BY <1>1, <1>2, <1>3, <2>2 DEF Cursor, data
  <2>4. Later' = Later
    BY <2>3 DEF Later
  <2>5. PageOK'
    <3>1. /\ page' \subseteq Later
          /\ \A v \in page', u \in Later : u < v => u \in page'
          /\ isShort' => Later \subseteq page'
      BY <1>1, <1>2, <1>3, PageIs DEF Later
    <3> QED
      BY <2>4, <3>1 DEF PageOK
  <2> QED
    BY <1>1, <1>3, <2>2, <2>3, <2>5 DEF BatchInv
<1>4. CASE ListUsersForRecalc(lastID) = {} /\ EndBatch(TRUE)
  <2>1. Later = {}
    BY <1>1, <1>2, <1>4, PageIs DEF Later
  <2> QED
    BY <1>1, <1>2, <1>4, <2>1, EndStep
<1>5. CASE EndBatch(FALSE)
  BY <1>1, <1>2, <1>5, EndStep
<1> QED
  BY <1>3, <1>4, <1>5 DEF ListPage

LEMMA NextUserStep ==
  ASSUME TypeInv, BatchInv, NextUser
  PROVE  BatchInv'
<1> DEFINE u == Min(page)
<1>1. pc[Batch] = "page" /\ ~Working /\ Cursor = lastID /\ PageOK
  BY DEF NextUser, Working, Cursor, ScoreStages, BatchInv
<1>2. UNCHANGED data /\ profile' = profile /\ lastID \in Nat
  BY ProfileUsers DEF NextUser, data
<1>3. DOMAIN pc = Threads /\ DOMAIN job = Threads
  BY BatchThread, ThreadFacts
<1>4. CASE /\ page # {}
           /\ job' = [job EXCEPT ![Batch] = [user |-> u]] /\ page' = page \ {u}
           /\ visited' = [visited EXCEPT ![u] = @ + 1]
           /\ Goto(Batch, "profile") /\ UNCHANGED <<lastID, isShort, complete>>
  <2>1. u \in page /\ u \in Users /\ \A v \in page : u <= v
    BY <1>4, ProfileUsers
  <2>2. u \in Nat /\ DOMAIN profile \subseteq Nat
    BY <2>1, ProfileUsers
  <2> HIDE DEF u
  <2>3. pc'[Batch] = "profile" /\ job'[Batch] = [user |-> u]
    BY <1>3, <1>4, BatchThread DEF Goto
  <2>4. Working' /\ Cursor' = u
    BY <2>3 DEF Working, Cursor, ScoreStages, User
  <2>5. u \in Later /\ u > lastID
    BY <1>1, <2>1 DEF PageOK, Later
  <2>6. Later' = {v \in DOMAIN profile : v > u}
    BY <1>2, <2>4 DEF Later
  <2>7. Later' \subseteq Later
    BY <1>1, <1>2, <2>2, <2>5, <2>6 DEF Later
  <2>8. PageOK'
    <3>1. \A v \in page \ {u} : v > u /\ v \in DOMAIN profile
      BY <1>1, <2>1, <2>2 DEF PageOK, Later
    <3>2. page' \subseteq Later'
      BY <1>4, <2>6, <3>1
    <3>3. \A v \in page', w \in Later' : w < v => w \in page'
      BY <1>1, <1>4, <2>2, <2>6, <2>7 DEF PageOK
    <3>4. isShort' => Later' \subseteq page'
      BY <1>1, <1>4, <2>2, <2>6, <2>7 DEF PageOK
    <3> QED
      BY <3>2, <3>3, <3>4 DEF PageOK
  <2>9. \A v \in DOMAIN profile : visited'[v] = IF v <= u THEN 1 ELSE 0
    <3>1. \A v \in DOMAIN profile : visited[v] = IF v <= lastID THEN 1 ELSE 0
      BY <1>1 DEF BatchInv
    <3>2. visited \in [Users -> Nat] /\ DOMAIN profile \subseteq Users
      BY DEF TypeInv, BatchOK, ProfilesOK
    <3>3. \A v \in DOMAIN profile : v < u => v <= lastID
      <4>1. SUFFICES ASSUME NEW v \in DOMAIN profile, v < u, ~(v <= lastID)
                     PROVE  FALSE
        OBVIOUS
      <4>2. v \in Later
        BY <1>1, <1>2, <2>2, <4>1 DEF Later
      <4>3. v \in page
        BY <1>1, <2>1, <4>1, <4>2 DEF PageOK
      <4> QED
        BY <2>1, <2>2, <4>1, <4>3
    <3>4. u \in DOMAIN profile
      BY <2>5 DEF Later
    <3>5. visited'[u] = 1
      BY <1>2, <1>4, <2>1, <2>2, <2>5, <3>1, <3>2, <3>4
    <3>6. \A v \in DOMAIN profile : v # u => visited'[v] = visited[v]
      BY <1>4, <3>2
    <3> QED
      BY <1>2, <2>2, <2>5, <3>1, <3>3, <3>5, <3>6
  <2>10. ~complete' /\ pc'[Batch] \in ScoreStages /\ pc'[Batch] # "idle" /\ pc'[Batch] # "page"
    BY <1>1, <1>4, <2>3 DEF BatchInv, ScoreStages
  <2> QED
    BY <1>2, <2>4, <2>8, <2>9, <2>10 DEF BatchInv
<1>5. CASE EndBatch(FALSE) /\ UNCHANGED visited
  BY <1>1, <1>2, <1>5, EndStep
<1>6. CASE page = {} /\ isShort /\ EndBatch(TRUE) /\ UNCHANGED visited
  <2>1. Later = {}
    BY <1>1, <1>6 DEF PageOK
  <2> QED
    BY <1>1, <1>2, <1>6, <2>1, EndStep
<1>7. CASE Goto(Batch, "list") /\ UNCHANGED batch
  <2>1. pc'[Batch] = "list" /\ ~Working'
    BY <1>3, <1>7, BatchThread DEF Goto, Working, ScoreStages
  <2>2. Cursor' = Cursor /\ complete' = complete /\ visited' = visited
    BY <1>1, <1>7, <2>1 DEF Cursor, batch
  <2> QED
    BY <1>1, <1>2, <2>1, <2>2 DEF BatchInv
<1> QED
  BY <1>4, <1>5, <1>6, <1>7 DEF NextUser

LEMMA BatchStep == IsFiniteSet(Users) /\ TypeInv /\ BatchInv /\ [Next]_vars => BatchInv'
<1> SUFFICES ASSUME IsFiniteSet(Users), TypeInv, BatchInv, [Next]_vars
             PROVE  BatchInv'
  OBVIOUS
<1>1. CASE Work
  BY <1>1, WorkRests, RestStep
<1>2. CASE batchRecalcUsers
  BY <1>2, TickStep, ListStep, NextUserStep, ReadingStep, StoringStep DEF batchRecalcUsers, recalcUserScore
<1>3. CASE \/ \E m, S : Join(m, S) \/ Leave(m, S) \/ Talk(m, S) \/ Rename(m, S) \/ Complete(m, S)
           \/ \E n \in Strides : DaysPass(n)
           \/ Shutdown \/ UNCHANGED vars
           \/ \E s \in Recalcs, u \in Users : recalcUser(s, u)
  BY <1>3, WorldRests, RestStep
<1> QED
  BY <1>1, <1>2, <1>3 DEF Next

(* A batch never recalculates a profile twice, and one that comes to its   *)
(* end has recalculated every profile, for any number of profiles and any  *)
(* size of a page, whatever the handlers do meanwhile (the cursor of       *)
(* batchRecalcUsers).                                                      *)
THEOREM BatchVisitsAll ==
  ASSUME IsFiniteSet(Users)
  PROVE  Spec => []BatchVisitsEachOnce
<1>1. TypeInv /\ BatchInv /\ [Next]_vars => BatchInv'
  BY BatchStep
<1> QED
  BY <1>1, TypeInvariant, BatchInit, BatchInvSuffices, PTL DEF Spec

-----------------------------------------------------------------------------
(* Steps that leave and days that pass. *)

(* From close and leaves a thread is only moved by its own handler. *)
LEMMA LeaveSteps ==
  ASSUME TypeInv, [Next]_vars, NEW s \in LeaveSubs, pc[s] \in {"close", "leaves"}, pc'[s] # pc[s]
  PROVE  CloseMembership(s) \/ CountLeave(s)
<1>1. s \in Subs /\ s \in Threads /\ s # Batch
  BY Apart DEF Subs, Threads
<1>2. DOMAIN pc = Threads
  BY <1>1, ThreadFacts
<1>3. pc[s] \notin ScoreStages \cup {"idle", "joins", "insert", "find", "day", "newday", "names", "history", "campaign"}
  BY DEF ScoreStages
<1>4. ASSUME NEW t \in Threads \ {s}, \E label : Goto(t, label)
      PROVE  FALSE
  BY <1>1, <1>2, <1>4 DEF Goto
<1>5. ASSUME NEW t \in Threads, recalcUserScore(t)
      PROVE  FALSE
  <2>1. t # s
    BY <1>3, <1>5 DEF recalcUserScore, GetProfile, ReadMemberships, Calculate, UpdateTrustScore, ScoreStages
  <2>2. \E label : Goto(t, label)
    BY <1>5 DEF recalcUserScore, GetProfile, ReadMemberships, Calculate, UpdateTrustScore, Return
  <2> QED
    BY <1>4, <2>1, <2>2
<1>6. ASSUME NEW t \in Subs, Handle(t)
      PROVE  CloseMembership(s) \/ CountLeave(s)
  <2>1. \E label : Goto(t, label)
    BY <1>6 DEF Handle, Receive, Begin, CountJoin, InsertMembership, FindLastJoin, CloseMembership,
                CountLeave, FindDay, InsertDay, CompareNames, RecordProfileChange,
                handleCampaignComplete, Return
  <2>2. t = s
    BY <1>4, <2>1 DEF Threads
  <2> QED
    BY <1>3, <1>6, <2>2 DEF Handle, Receive, Begin, CountJoin, InsertMembership, FindLastJoin,
                FindDay, InsertDay, CompareNames, RecordProfileChange, handleCampaignComplete
<1>7. CASE Work
  BY <1>5, <1>6, <1>7 DEF Work, Threads
<1>8. CASE batchRecalcUsers
  <2>1. CASE Tick \/ ListPage \/ NextUser
    <3>1. \E label : Goto(Batch, label)
      BY <2>1 DEF Tick, Begin, ListPage, NextUser, EndBatch
    <3> QED
      BY <1>1, <1>4, <3>1, BatchThread
  <2> QED
    BY <1>5, <1>8, <2>1, BatchThread DEF batchRecalcUsers
<1>9. ASSUME NEW t \in Recalcs, NEW u \in Users, recalcUser(t, u)
      PROVE  FALSE
  <2>1. t # s /\ \E label : Goto(t, label)
    BY <1>3, <1>9 DEF recalcUser, Begin
  <2> QED
    BY <1>4, <2>1 DEF Threads
<1>10. CASE \E m, S : Join(m, S) \/ Leave(m, S) \/ Talk(m, S) \/ Rename(m, S) \/ Complete(m, S)
  BY <1>10 DEF Join, Leave, Talk, Rename, Complete, Send, thread
<1>11. CASE (\E n \in Strides : DaysPass(n)) \/ Shutdown \/ UNCHANGED vars
  BY <1>11 DEF DaysPass, Shutdown, vars, thread
<1> QED
  BY <1>7, <1>8, <1>9, <1>10, <1>11 DEF Next

LEMMA RecentTyped ==
  ASSUME TypeInv, NEW u \in Users, NEW now
  PROVE  IsFiniteSet(DOMAIN GetRecentMemberships(docs[u], now))
<1>1. docs[u] \in Seq(UserMembership)
  BY DEF TypeInv, DocsOK
<1> QED
  BY <1>1, RecentFinite

LEMMA LengthTyped ==
  ASSUME TypeInv, NEW u \in Users, NEW n \in DOMAIN docs[u], NEW now \in Nat
  PROVE  DurationDays(docs[u][n], now) \in Int
<1>1. docs[u][n].day \in Nat /\ docs[u][n].duration \in Int
  BY DocTyped
<1> QED
  BY <1>1 DEF DurationDays

LEMMA CloseLowers ==
  ASSUME TypeInv, NEW s \in LeaveSubs, CloseMembership(s), Known(s),
         \A n \in OpenDocs(s) : docs[User(s)][n].day <= docs[User(s)][read[s]].day
  PROVE  \A u \in {User(s)} : TrustNow(u)' <= TrustNow(u)
<1> DEFINE u == User(s)
           length == today - docs[u][read[s]].day
           old == GetRecentMemberships(docs[u], today)
           new == GetRecentMemberships(docs'[u], today)
           days == GetActivityDays(u)
<1>1. s \in Threads /\ pc[s] = "close" /\ UNCHANGED <<world, profile, activity>>
  BY DEF CloseMembership, Threads, Subs
<1>2. u \in Users /\ read[s] \in DOMAIN docs[u] /\ u \in DOMAIN profile
  BY <1>1, CommunityJob, ThreadFacts DEF CommunityStages, ThreadOK, ReadOK, Known
<1>3. Facts(u) \in UserProfile /\ days \in Nat
  BY <1>2, CountedProfile, ActiveDaysTyped DEF Facts, TypeInv, ProfilesOK
<1>4. \A v : /\ TrustNow(v) = Trust(Facts(v), GetRecentMemberships(docs[v], today), GetActivityDays(v), today)
             /\ TrustNow(v)' = Trust(Facts(v), GetRecentMemberships(docs'[v], today), GetActivityDays(v), today)
  BY <1>1 DEF TrustNow, Facts, GetActivityDays, world
<1>5. IsFiniteSet(DOMAIN old) /\ today \in Nat
  BY <1>2, RecentTyped DEF TypeInv, WorldOK
<1>6. Better(new, today, old, today)
  <2>1. CASE docs' = docs
    <3>1. \A n \in DOMAIN old : n \in DOMAIN docs[u] /\ old[n] = docs[u][n]
      BY DEF GetRecentMemberships
    <3>2. \A n \in DOMAIN old : DurationDays(old[n], today) \in Int
      BY <1>2, <1>5, <3>1, LengthTyped
    <3>3. new = old
      BY <2>1
    <3> HIDE DEF new, old
    <3> QED
      BY <3>2, <3>3 DEF Better
  <2>2. ASSUME NEW n \in OpenDocs(s),
               docs' = [docs EXCEPT ![u][n].left = today, ![u][n].duration = length]
        PROVE  Better(new, today, old, today)
    <3> DEFINE doc == [docs[u][n] EXCEPT !.left = today, !.duration = length]
    <3>1. n \in DOMAIN docs[u] /\ Stays(docs[u][n]) /\ docs[u][n].day <= docs[u][read[s]].day
      BY <2>2 DEF OpenDocs
    <3>2. /\ docs[u][n] \in UserMembership /\ docs[u][n].day \in Nat
          /\ docs[u][n].duration = -1 /\ docs[u][read[s]].day \in Nat /\ docs[u][read[s]].day <= today
      BY <1>2, <3>1, DocTyped
    <3>3. length \in Nat /\ length <= today - docs[u][n].day
      BY <1>5, <3>1, <3>2
    <3>4. doc.day = docs[u][n].day /\ doc.comm = docs[u][n].comm /\ doc.left = today /\ doc.duration = length
      BY <3>2 DEF UserMembership
    <3>5. docs[u] \in Seq(UserMembership) /\ docs \in [Users -> Seq(UserMembership)]
      BY <1>2 DEF TypeInv, DocsOK
    <3> HIDE DEF length
    <3>6. docs'[u] = [docs[u] EXCEPT ![n] = doc]
      BY <1>2, <2>2, <3>5
    <3> HIDE DEF doc, u
    <3>7. DOMAIN docs'[u] = DOMAIN docs[u] /\ docs'[u][n] = doc
          /\ \A k \in DOMAIN docs[u] : k # n => docs'[u][k] = docs[u][k]
      BY <3>1, <3>6
    <3>8. \A k \in DOMAIN docs[u] :
            /\ docs'[u][k].day = docs[u][k].day /\ docs'[u][k].comm = docs[u][k].comm
            /\ DurationDays(docs'[u][k], today) \in Int /\ DurationDays(docs[u][k], today) \in Int
            /\ DurationDays(docs'[u][k], today) <= DurationDays(docs[u][k], today)
            /\ Stays(docs'[u][k]) => Stays(docs[u][k])
      <4>1. ASSUME NEW k \in DOMAIN docs[u], k # n
            PROVE  docs'[u][k] = docs[u][k] /\ DurationDays(docs[u][k], today) \in Int
        BY <1>2, <1>5, <3>7, <4>1, LengthTyped DEF u
      <4>2. DurationDays(doc, today) = length /\ DurationDays(docs[u][n], today) = today - docs[u][n].day
        BY <3>2, <3>3, <3>4 DEF DurationDays, u
      <4>3. docs[u][n].day \in Nat /\ length \in Nat /\ length <= today - docs[u][n].day /\ Stays(docs[u][n])
        BY <3>1, <3>2, <3>3 DEF u
      <4>4. doc.day = docs[u][n].day /\ doc.comm = docs[u][n].comm
        BY <3>4 DEF u
      <4> QED
        BY <1>5, <3>7, <4>1, <4>2, <4>3, <4>4
    <3>9. DOMAIN new = DOMAIN old /\ \A k \in DOMAIN old :
            k \in DOMAIN docs[u] /\ old[k] = docs[u][k] /\ new[k] = docs'[u][k]
      BY <3>7, <3>8 DEF GetRecentMemberships
    <3> HIDE DEF old, new
    <3> QED
      BY <3>8, <3>9 DEF Better
  <2> QED
    BY <2>1, <2>2 DEF CloseMembership
<1>7. IsFiniteSet(DOMAIN new)
  BY <1>5, <1>6 DEF Better
<1>8. Trust(Facts(u), new, days, today) <= Trust(Facts(u), old, days, today)
  <2>1. Facts(u).leaves <= Facts(u).leaves
    BY <1>3 DEF UserProfile
  <2> HIDE DEF u, new, old, days
  <2> QED
    BY <1>3, <1>6, <1>7, <2>1, TrustGrows
<1> QED
  BY <1>4, <1>8

LEMMA CountLowers ==
  ASSUME TypeInv, NEW s \in LeaveSubs, CountLeave(s), Known(s)
  PROVE  \A u \in {User(s)} : TrustNow(u)' <= TrustNow(u)
<1> DEFINE u == User(s)
           ms == GetRecentMemberships(docs[u], today)
           days == GetActivityDays(u)
           more == [Facts(u) EXCEPT !.leaves = @ + 1]
<1>1. s \in Threads /\ pc[s] = "leaves" /\ UNCHANGED <<world, docs, activity>>
  BY DEF CountLeave, Threads, Subs
<1>2. u \in Users /\ u \in DOMAIN profile
  BY <1>1, CommunityJob DEF CommunityStages, Known
<1>3. Facts(u) \in UserProfile /\ days \in Nat /\ profile[u] \in UserProfile
  BY <1>2, CountedProfile, ActiveDaysTyped DEF Facts, TypeInv, ProfilesOK
<1>4. \A v : /\ TrustNow(v) = Trust(Facts(v), GetRecentMemberships(docs[v], today), GetActivityDays(v), today)
             /\ TrustNow(v)' = Trust(Facts(v)', GetRecentMemberships(docs[v], today), GetActivityDays(v), today)
  BY <1>1 DEF TrustNow, Facts, GetActivityDays, world
<1>5. \A v \in {u} : Facts(v)' = Facts(v) \/ Facts(v)' = more
  <2>1. profile' = profile \/ profile' = [profile EXCEPT ![u] = [profile[u] EXCEPT !.leaves = @ + 1]]
    BY DEF CountLeave
  <2>2. profile'[u] = profile[u] \/ profile'[u] = [profile[u] EXCEPT !.leaves = @ + 1]
    BY <1>2, <2>1
  <2>3. \A v : Facts(v)' = [profile'[v] EXCEPT !.trust = 0]
    BY DEF Facts
  <2>4. [[profile[u] EXCEPT !.leaves = @ + 1] EXCEPT !.trust = 0] = more
    BY <1>3 DEF Facts, UserProfile
  <2> QED
    BY <2>2, <2>3, <2>4 DEF Facts
<1>6. IsFiniteSet(DOMAIN ms) /\ today \in Nat
  BY <1>2, RecentTyped DEF TypeInv, WorldOK
<1>7. Better(ms, today, ms, today)
  <2>1. \A n \in DOMAIN ms : n \in DOMAIN docs[u] /\ ms[n] = docs[u][n]
    BY DEF GetRecentMemberships
  <2>2. \A n \in DOMAIN ms : DurationDays(ms[n], today) \in Int
    BY <1>2, <1>6, <2>1, LengthTyped
  <2> HIDE DEF ms
  <2> QED
    BY <2>2 DEF Better
<1>8. ASSUME NEW p \in UserProfile, p = Facts(u) \/ p = more
      PROVE  Trust(p, ms, days, today) <= Trust(Facts(u), ms, days, today)
  <2>1. /\ p.joins = Facts(u).joins /\ Facts(u).leaves <= p.leaves
        /\ p.campaigns = Facts(u).campaigns /\ p.completions = Facts(u).completions
        /\ p.username = Facts(u).username /\ p.photo = Facts(u).photo /\ p.bot = Facts(u).bot
    <3> HIDE DEF u
    <3>1. Facts(u) \in UserProfile
      BY <1>3
    <3> DEFINE f == Facts(u)
    <3> HIDE DEF f
    <3>2. f \in UserProfile /\ (p = f \/ p = [f EXCEPT !.leaves = @ + 1])
      BY <1>8, <3>1 DEF f
    <3>3. f.leaves \in Nat
      BY <3>2 DEF UserProfile
    <3> QED
      BY <3>2, <3>3 DEF UserProfile, f
  <2> HIDE DEF ms, days, u, more
  <2> QED
    BY <1>3, <1>6, <1>7, <2>1, TrustGrows
<1>9. more \in UserProfile
  BY <1>3, CountedProfile
<1> QED
  BY <1>3, <1>4, <1>5, <1>8, <1>9

(* Recording a leave never raises the trust score of the user, neither by  *)
(* the membership it closes nor by the counter, unless a later membership  *)
(* was recorded after the one it has read (RecordLeave).                   *)
THEOREM LeavingCosts == Spec => LeavingNeverHelps
<1>1. TypeInv /\ [Next]_vars =>
        [\A s \in LeaveSubs :
           /\ pc[s] \in {"close", "leaves"} /\ pc'[s] # pc[s] /\ Known(s)
           /\ pc[s] = "close" =>
                \A n \in OpenDocs(s) : docs[User(s)][n].day <= docs[User(s)][read[s]].day
           => \A u \in {User(s)} : TrustNow(u)' <= TrustNow(u)]_vars
  <2>1. SUFFICES ASSUME TypeInv, [Next]_vars, NEW s \in LeaveSubs,
                        pc[s] \in {"close", "leaves"}, pc'[s] # pc[s], Known(s),
                        pc[s] = "close" =>
                          \A n \in OpenDocs(s) : docs[User(s)][n].day <= docs[User(s)][read[s]].day
                 PROVE  \A u \in {User(s)} : TrustNow(u)' <= TrustNow(u)
    OBVIOUS
  <2>2. CASE CloseMembership(s)
    BY <2>1, <2>2, CloseLowers DEF CloseMembership
  <2>3. CASE CountLeave(s)
    BY <2>1, <2>3, CountLowers
  <2> QED
    BY <2>1, <2>2, <2>3, LeaveSteps
<1> QED
  BY <1>1, TypeInvariant, PTL DEF Spec, LeavingNeverHelps

LEMMA DaysOnly ==
  ASSUME [Next]_vars, today' # today
  PROVE  \E n \in Strides : DaysPass(n)
<1>1. ASSUME NEW s, recalcUserScore(s)
      PROVE  today' = today
  BY <1>1 DEF recalcUserScore, GetProfile, ReadMemberships, Calculate, UpdateTrustScore, world
<1>2. ASSUME NEW s, Handle(s)
      PROVE  today' = today
  BY <1>2 DEF Handle, Receive, CountJoin, InsertMembership, FindLastJoin, CloseMembership,
              CountLeave, FindDay, InsertDay, CompareNames, RecordProfileChange,
              handleCampaignComplete, world
<1>3. ASSUME batchRecalcUsers
      PROVE  today' = today
  BY <1>1, <1>3 DEF batchRecalcUsers, Tick, ListPage, NextUser, world
<1>4. ASSUME \E m, S : Join(m, S) \/ Leave(m, S) \/ Talk(m, S) \/ Rename(m, S) \/ Complete(m, S)
      PROVE  today' = today
  BY <1>4 DEF Join, Leave, Talk, Rename, Complete, Send
<1>5. ASSUME Shutdown \/ UNCHANGED vars \/ \E s \in Recalcs, u \in Users : recalcUser(s, u)
      PROVE  today' = today
  BY <1>5 DEF Shutdown, vars, recalcUser, world
<1> QED
  BY <1>1, <1>2, <1>3, <1>4, <1>5 DEF Next, Work

LEMMA DaysRaise ==
  ASSUME TypeInv, today' > today, NEW k \in Strides, DaysPass(k), NEW u \in DOMAIN profile,
         activity[u] = <<>>,
         \A n \in DOMAIN docs[u] : Stays(docs[u][n]) /\ docs[u][n].day >= today' - RecentDays
  PROVE  TrustNow(u) <= TrustNow(u)'
<1> DEFINE ms == GetRecentMemberships(docs[u], today)
           mt == GetRecentMemberships(docs[u], today')
<1>1. u \in Users /\ UNCHANGED data /\ today \in Nat /\ today' \in Nat
  BY BoundsAssumption DEF TypeInv, ProfilesOK, WorldOK, DaysPass
<1>2. GetActivityDays(u) = 0 /\ GetActivityDays(u)' = 0
  <2>1. DOMAIN (<<>>) = {} /\ activity'[u] = <<>>
    BY <1>1 DEF data
  <2> QED
    BY <2>1, FS_EmptySet DEF GetActivityDays
<1>3. /\ TrustNow(u) = Trust(Facts(u), ms, 0, today)
      /\ TrustNow(u)' = Trust(Facts(u), mt, 0, today')
  BY <1>1, <1>2 DEF TrustNow, Facts, data
<1>4. Facts(u) \in UserProfile
  BY CountedProfile DEF Facts, TypeInv, ProfilesOK
<1>5. IsFiniteSet(DOMAIN ms)
  BY <1>1, RecentTyped
<1>6. DOMAIN mt = DOMAIN docs[u] /\ DOMAIN ms = DOMAIN docs[u]
  <2>1. \A n \in DOMAIN docs[u] : docs[u][n].day \in Nat
    BY <1>1, DocTyped
  <2>2. \A n \in DOMAIN docs[u] : docs[u][n].day >= today - RecentDays
    BY <1>1, <2>1 DEF RecentDays
  <2> QED
    BY <2>2 DEF GetRecentMemberships
<1>7. Better(ms, today, mt, today')
  <2>1. \A n \in DOMAIN ms : ms[n] = docs[u][n] /\ mt[n] = docs[u][n]
    BY <1>6 DEF GetRecentMemberships
  <2>2. \A n \in DOMAIN docs[u] :
          /\ DurationDays(docs[u][n], today) \in Int /\ DurationDays(docs[u][n], today') \in Int
          /\ DurationDays(docs[u][n], today) <= DurationDays(docs[u][n], today')
    <3>1. \A n \in DOMAIN docs[u] : docs[u][n].day \in Nat /\ docs[u][n].duration \in Int
      BY <1>1, DocTyped
    <3> QED
      BY <1>1, <3>1 DEF DurationDays
  <2> HIDE DEF ms, mt
  <2> QED
    BY <1>6, <2>1, <2>2 DEF Better
<1>8. Trust(Facts(u), ms, 0, today) <= Trust(Facts(u), mt, 0, today')
  <2>1. Facts(u).leaves <= Facts(u).leaves
    BY <1>4 DEF UserProfile
  <2> HIDE DEF ms, mt
  <2> QED
    BY <1>4, <1>5, <1>7, <2>1, TrustGrows
<1> QED
  BY <1>3, <1>8

(* When days pass, a user who stays where he is does not lose points       *)
(* (UserScorer.Calculate), within the 90 days that count.                  *)
THEOREM StayingPays == Spec => StayingIsTrusted
<1>1. TypeInv /\ [Next]_vars =>
        [today' > today =>
           \A u \in DOMAIN profile :
             (/\ activity[u] = <<>>
              /\ \A n \in DOMAIN docs[u] : Stays(docs[u][n]) /\ docs[u][n].day >= today' - RecentDays)
             => TrustNow(u)' >= TrustNow(u)]_vars
  <2>1. SUFFICES ASSUME TypeInv, [Next]_vars, today' > today, NEW u \in DOMAIN profile,
                        activity[u] = <<>>,
                        \A n \in DOMAIN docs[u] :
                          Stays(docs[u][n]) /\ docs[u][n].day >= today' - RecentDays
                 PROVE  TrustNow(u)' >= TrustNow(u)
    OBVIOUS
  <2>2. today' # today
    BY <2>1 DEF TypeInv, WorldOK
  <2>3. PICK k \in Strides : DaysPass(k)
    BY <2>1, <2>2, DaysOnly
  <2>4. TrustNow(u) <= TrustNow(u)'
    BY <2>1, <2>3, DaysRaise
  <2> QED
    BY <2>4
<1> QED
  BY <1>1, TypeInvariant, PTL DEF Spec, StayingIsTrusted


=============================================================================
