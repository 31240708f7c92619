-------------------------- MODULE ScoreFlowProofs --------------------------
(***************************************************************************)
(* Theorems about FraudMemberships, for any number of subscriptions,       *)
(* requests, users and communities, any strides of the clock, and whatever *)
(* is announced, lost or fails.                                            *)
(***************************************************************************)
EXTENDS ScoreFlow, FiniteSetTheorems, TLAPS

-----------------------------------------------------------------------------
(* Type correctness.  A thread is at the calls of its own handler, has a   *)
(* message while it works, closes with a document in hand that exists, and *)
(* stores and publishes a score.  No membership begins in the future.      *)
JoinStages  == {"count", "joins", "insert", "detect"}
LeaveStages == {"find", "close", "leaves"}
SaveStages  == {"save", "publish"}
Stages      == {"idle", "score"} \cup JoinStages \cup LeaveStages \cup SaveStages

ThreadOK(s) ==
  /\ pc[s] # "idle" => job[s] \in Message
  /\ pc[s] \in JoinStages => s \in JoinSubs
  /\ pc[s] \in LeaveStages => s \in LeaveSubs
  /\ pc[s] = "close" => read[s] \in DOMAIN docs
  /\ pc[s] \in SaveStages => read[s] \in 0..100

DocsOK == /\ docs \in Seq(UserMembership)
          /\ \A n \in DOMAIN docs : docs[n].day <= today

TypeInv == /\ TypeOK /\ DocsOK
           /\ today \in 0..MaxDay /\ faults \in Nat
           /\ \A s \in Threads : ThreadOK(s)


(* The quality score is one of 0..100, whatever the counters say.  They    *)
(* may say that more members left than joined.                             *)
LEMMA DivAtMost ==
  ASSUME NEW a \in Int, NEW b \in Nat \ {0}, NEW q \in Nat, a <= q * b
  PROVE  a \div b \in Int /\ a \div b <= q
<1> DEFINE d == a \div b
<1>1. d \in Int /\ d * b <= a
  OBVIOUS
<1>2. SUFFICES ASSUME d >= q + 1
               PROVE  FALSE
  BY <1>1
<1> HIDE DEF d
<1>3. d * b >= (q + 1) * b
  BY <1>1, <1>2
<1>4. (q + 1) * b = q * b + b
  OBVIOUS
<1> QED
  BY <1>1, <1>3, <1>4

LEMMA BalanceRange == ASSUME NEW st \in CommunityStatistics PROVE Balance(st) \in 0..10
  BY DEF Balance, CommunityStatistics

LEMMA QualityRange ==
  ASSUME NEW st \in CommunityStatistics
  PROVE  Quality(st) \in 0..100
<1>1. st.joins \in Nat /\ st.leaves \in Nat /\ st.members \in Int
  BY DEF CommunityStatistics
<1>2. CASE st.joins = 0 \/ st.members = 0
  BY <1>2 DEF Quality
<1>3. CASE ~(st.joins = 0 \/ st.members = 0)
  <2>1. st.joins \in Nat \ {0} /\ Retained(st) \in Int /\ Retained(st) <= st.joins
    BY <1>1, <1>3 DEF Retained
  <2>2. 30 * Retained(st) \in Int /\ 30 * Retained(st) <= 30 * st.joins
    BY <2>1
  <2>3. (30 * Retained(st)) \div st.joins \in Int /\ (30 * Retained(st)) \div st.joins <= 30
    BY <2>1, <2>2, DivAtMost
  <2>4. (30 * AvgTrust) \div 100 = 15
    BY DEF AvgTrust
  <2>5. Points(st) \in Int /\ Points(st) <= 60
    BY <2>3, <2>4, BalanceRange DEF Points
  <2> QED
    BY <2>5, <1>3 DEF Quality
<1> QED
  BY <1>2, <1>3

LEMMA TypeInit == Init => TypeInv
  BY BoundsAssumption
     DEF Init, TypeInv, TypeOK, DocsOK, ThreadOK, Stages, JoinStages, LeaveStages, SaveStages,
         NoJob, CommunityStatistics, Score, NoScore, Message, Threads

(* A step of thread s leaves the others where they are. *)
Alone(s) ==
  /\ pc' \in [Threads -> Stages] /\ job' \in [Threads -> Message \cup {NoJob}]
  /\ read' \in [Threads -> Nat]
  /\ \A t \in Threads \ {s} : pc'[t] = pc[t] /\ job'[t] = job[t] /\ read'[t] = read[t]

AllStages == /\ Stages = {"idle", "count", "joins", "insert", "detect", "find", "close", "leaves",
                          "score", "save", "publish"}
             /\ pc \in [Threads -> Stages]

LEMMA StagesType == TypeInv => AllStages
  BY DEF TypeInv, TypeOK, AllStages, Stages, JoinStages, LeaveStages, SaveStages

(* Every membership is still there, and who inserted it, when and after    *)
(* how many others; only the end of a membership is filled in.             *)
SameDoc(d, e) == /\ e.user = d.user /\ e.comm = d.comm /\ e.day = d.day
                 /\ e.rejoin = d.rejoin /\ e.by = d.by

HistoryKept == /\ docs' \in Seq(UserMembership) /\ DOMAIN docs' = DOMAIN docs
               /\ \A n \in DOMAIN docs : SameDoc(docs[n], docs'[n])

LEMMA SetEnd ==
  ASSUME NEW d \in UserMembership, NEW l \in 0..MaxDay, NEW u \in 0..MaxDay
  PROVE  LET e == [[d EXCEPT !.left = l] EXCEPT !.duration = u]
         IN  e \in UserMembership /\ SameDoc(d, e)
<1> DEFINE L == 0..MaxDay \cup {Open}
           D == -1..MaxDay
<1>1. l \in L /\ u \in D
  BY BoundsAssumption
<1>2. UserMembership = [user : Users, comm : Communities, day : 0..MaxDay, rejoin : Nat,
                        left : L, duration : D, by : JoinSubs]
  BY DEF UserMembership
<1> HIDE DEF L, D
<1> QED
  BY <1>1, <1>2 DEF SameDoc

LEMMA CloseKeeps ==
  ASSUME TypeInv, NEW s \in Threads, CloseMembership(s)
  PROVE  HistoryKept
<1>1. docs \in Seq(UserMembership)
  BY DEF TypeInv, DocsOK
<1>2. CASE UNCHANGED docs
  BY <1>1, <1>2 DEF HistoryKept, SameDoc
<1>3. CASE \E n \in OpenDocs(job[s]) :
             docs' = [docs EXCEPT ![n].left = today, ![n].duration = today - docs[read[s]].day]
  <2>1. PICK n \in DOMAIN docs :
          docs' = [docs EXCEPT ![n].left = today, ![n].duration = today - docs[read[s]].day]
    BY <1>3 DEF OpenDocs, History
  <2>2. read[s] \in DOMAIN docs /\ docs[read[s]].day <= today /\ today \in 0..MaxDay
    BY DEF CloseMembership, TypeInv, DocsOK, ThreadOK
  <2> DEFINE l == today
             u == today - docs[read[s]].day
  <2>3. u \in 0..MaxDay
    <3>1. docs[read[s]] \in UserMembership
      BY <1>1, <2>2
    <3> QED
      BY <3>1, <2>2, BoundsAssumption DEF UserMembership
  <2>4. l \in 0..MaxDay /\ docs' = [docs EXCEPT ![n].left = l, ![n].duration = u]
    BY <2>1, <2>2
  <2> HIDE DEF l, u
  <2> DEFINE e == [[docs[n] EXCEPT !.left = l] EXCEPT !.duration = u]
  <2>5. docs' = [docs EXCEPT ![n] = e]
    BY <2>4
  <2>6. docs[n] \in UserMembership
    BY <1>1, <2>1
  <2>7. e \in UserMembership /\ SameDoc(docs[n], e)
    BY <2>3, <2>4, <2>6, SetEnd
  <2> HIDE DEF e
  <2>8. docs' \in Seq(UserMembership) /\ DOMAIN docs' = DOMAIN docs
    BY <1>1, <2>5, <2>7
  <2>9. \A k \in DOMAIN docs : SameDoc(docs[k], docs'[k])
    <3>1. \A k \in DOMAIN docs : k # n => docs'[k] = docs[k]
      BY <1>1, <2>5
    <3>2. docs'[n] = e
      BY <1>1, <2>1, <2>5
    <3> QED
      BY <3>1, <3>2, <2>7 DEF SameDoc
  <2> QED
    BY <2>8, <2>9 DEF HistoryKept
<1> QED
  BY <1>2, <1>3 DEF CloseMembership

(* A membership is inserted: the new document is the last one. *)
LEMMA InsertAppends ==
  ASSUME TypeInv, NEW s \in Threads, InsertMembership(s), faults' = faults
  PROVE  /\ s \in JoinSubs /\ Len(docs) \in Nat /\ DOMAIN docs = 1..Len(docs)
         /\ docs' \in Seq(UserMembership) /\ DOMAIN docs' = 1..(Len(docs) + 1)
         /\ \A n \in DOMAIN docs : docs'[n] = docs[n]
         /\ docs'[Len(docs) + 1].user = job[s].user /\ docs'[Len(docs) + 1].comm = job[s].comm
         /\ docs'[Len(docs) + 1].day = today /\ docs'[Len(docs) + 1].rejoin = read[s]
         /\ docs'[Len(docs) + 1].by = s
<1> DEFINE d == [user |-> job[s].user, comm |-> job[s].comm, day |-> today,
                 left |-> Open, duration |-> -1, rejoin |-> read[s], by |-> s]
<1>1. docs \in Seq(UserMembership) /\ s \in JoinSubs /\ job[s] \in Message
  BY DEF TypeInv, DocsOK, ThreadOK, InsertMembership, JoinStages
<1>2. d \in UserMembership
  <2>1. read[s] \in Nat /\ today \in 0..MaxDay /\ -1 \in -1..MaxDay
    BY BoundsAssumption DEF TypeInv, TypeOK
  <2> QED
    BY <1>1, <2>1 DEF UserMembership, Message, Open
<1>3. docs' = Append(docs, d)
  BY DEF InsertMembership, Failed, TypeInv
<1>5. /\ d.user = job[s].user /\ d.comm = job[s].comm /\ d.day = today
      /\ d.rejoin = read[s] /\ d.by = s
  OBVIOUS
<1> HIDE DEF d
<1>4. /\ docs' \in Seq(UserMembership) /\ Len(docs) \in Nat /\ DOMAIN docs = 1..Len(docs)
      /\ DOMAIN docs' = 1..(Len(docs) + 1)
      /\ \A n \in DOMAIN docs : docs'[n] = docs[n]
      /\ docs'[Len(docs) + 1] = d
  BY <1>1, <1>2, <1>3
<1> QED
  BY <1>1, <1>4, <1>5

(* What a step does to the documents, and what the type invariant needs of *)
(* the rest.                                                               *)
DocsTyped == DocsOK' /\ DOMAIN docs \subseteq DOMAIN docs'

LEMMA KeptTyped ==
  ASSUME TypeInv, HistoryKept, today' \in Nat, today <= today'
  PROVE  DocsTyped
<1>1. docs \in Seq(UserMembership) /\ today \in Nat /\ \A n \in DOMAIN docs : docs[n].day <= today
  BY DEF TypeInv, DocsOK
<1>2. \A n \in DOMAIN docs : docs[n] \in UserMembership /\ docs'[n].day = docs[n].day
  BY <1>1 DEF HistoryKept, SameDoc
<1>3. \A n \in DOMAIN docs : docs[n].day \in Nat
  BY <1>2 DEF UserMembership
<1>4. \A n \in DOMAIN docs : docs'[n].day <= today'
  BY <1>1, <1>2, <1>3
<1> QED
  BY <1>4 DEF DocsTyped, DocsOK, HistoryKept

LEMMA SameKept == TypeInv /\ UNCHANGED docs => HistoryKept
  BY DEF TypeInv, DocsOK, HistoryKept, SameDoc

LEMMA InsertTyped ==
  ASSUME TypeInv, NEW s \in Threads, InsertMembership(s), faults' = faults, today' = today
  PROVE  DocsTyped
<1>1. docs \in Seq(UserMembership) /\ today \in Nat /\ \A n \in DOMAIN docs : docs[n].day <= today
  BY DEF TypeInv, DocsOK
<1>2. docs'[Len(docs) + 1].day = today
  BY InsertAppends
<1>3. /\ Len(docs) \in Nat /\ DOMAIN docs = 1..Len(docs) /\ DOMAIN docs' = 1..(Len(docs) + 1)
      /\ docs' \in Seq(UserMembership) /\ \A n \in DOMAIN docs : docs'[n] = docs[n]
  BY InsertAppends
<1>4. \A n \in DOMAIN docs' : n \in DOMAIN docs \/ n = Len(docs) + 1
  BY <1>3
<1>5. \A n \in DOMAIN docs' : docs'[n].day <= today'
  BY <1>1, <1>2, <1>3, <1>4
<1> QED
  BY <1>3, <1>5 DEF DocsTyped, DocsOK

LEMMA TypeFrame ==
  ASSUME TypeInv, DocsTyped,
         inside' \subseteq Message, arrivals' \in [Message -> 0..MaxArrivals],
         queue' \in [JoinSubs \cup LeaveSubs -> Seq(Message)],
         stats' \in [Communities -> CommunityStatistics],
         snapshot' \in [Communities -> Score], told' \in [Communities -> Score],
         alarms' \subseteq Message, today' \in 0..MaxDay, faults' \in Nat,
         job' \in [Threads -> Message \cup {NoJob}], read' \in [Threads -> Nat],
         pc' \in [Threads -> Stages], \A s \in Threads : ThreadOK(s)'
  PROVE  TypeInv'
  BY DEF TypeInv, TypeOK, DocsTyped, DocsOK, Stages, JoinStages, LeaveStages, SaveStages

(* The same for a step of one thread. *)
LEMMA ThreadFrame ==
  ASSUME TypeInv, DocsTyped, NEW s \in Threads, Alone(s), ThreadOK(s)',
         UNCHANGED <<inside, arrivals, today>>,
         queue' \in [JoinSubs \cup LeaveSubs -> Seq(Message)],
         stats' \in [Communities -> CommunityStatistics],
         snapshot' \in [Communities -> Score], told' \in [Communities -> Score],
         alarms' \subseteq Message, faults' \in Nat
  PROVE  TypeInv'
<1>1. \A t \in Threads : ThreadOK(t)'
  BY DEF Alone, ThreadOK, DocsTyped, TypeInv
<1> QED
  BY <1>1, TypeFrame DEF Alone, TypeInv, TypeOK

LEMMA AnnounceType ==
  ASSUME TypeInv, NEW m \in Message, NEW S \in SUBSET (JoinSubs \cup LeaveSubs), Announced(m, S)
  PROVE  queue' \in [JoinSubs \cup LeaveSubs -> Seq(Message)]
<1>1. queue \in [JoinSubs \cup LeaveSubs -> Seq(Message)]
  BY DEF TypeInv, TypeOK
<1>2. \A s \in JoinSubs \cup LeaveSubs :
        queue[s] \in Seq(Message) /\ Append(queue[s], m) \in Seq(Message)
  BY <1>1
<1> QED
  BY <1>1, <1>2 DEF Announced

LEMMA WorldType ==
  ASSUME TypeInv,
         \/ \E m \in Message, S \in SUBSET JoinSubs : Arrive(m, S)
         \/ \E m \in Message, S \in SUBSET LeaveSubs : Depart(m, S)
         \/ \E n \in Strides : DaysPass(n)
  PROVE  TypeInv'
<1>1. CASE \E m \in Message, S \in SUBSET JoinSubs : Arrive(m, S)
  <2>1. PICK m \in Message, S \in SUBSET JoinSubs : Arrive(m, S)
    BY <1>1
  <2>2. queue' \in [JoinSubs \cup LeaveSubs -> Seq(Message)]
    BY <2>1, AnnounceType DEF Arrive
  <2>3. arrivals' \in [Message -> 0..MaxArrivals] /\ inside' \subseteq Message
    BY <2>1, BoundsAssumption DEF Arrive, TypeInv, TypeOK
  <2>4. DocsTyped /\ \A s \in Threads : ThreadOK(s)'
    BY <2>1, SameKept, KeptTyped DEF Arrive, TypeInv, ThreadOK, scores
  <2> QED
    BY <2>1, <2>2, <2>3, <2>4, TypeFrame, StagesType DEF Arrive, TypeInv, TypeOK, scores, AllStages
<1>2. CASE \E m \in Message, S \in SUBSET LeaveSubs : Depart(m, S)
  <2>1. PICK m \in Message, S \in SUBSET LeaveSubs : Depart(m, S)
    BY <1>2
  <2>2. queue' \in [JoinSubs \cup LeaveSubs -> Seq(Message)]
    BY <2>1, AnnounceType DEF Depart
  <2>3. inside' \subseteq Message
    BY <2>1 DEF Depart, TypeInv, TypeOK
  <2>4. DocsTyped /\ \A s \in Threads : ThreadOK(s)'
    BY <2>1, SameKept, KeptTyped DEF Depart, TypeInv, ThreadOK, scores
  <2> QED
    BY <2>1, <2>2, <2>3, <2>4, TypeFrame, StagesType DEF Depart, TypeInv, TypeOK, scores, AllStages
<1>3. CASE \E n \in Strides : DaysPass(n)
  <2>1. PICK n \in Strides : DaysPass(n)
    BY <1>3
  <2>2. today' \in 0..MaxDay /\ today <= today'
    BY <2>1, BoundsAssumption DEF DaysPass, TypeInv
  <2>3. DocsTyped /\ \A s \in Threads : ThreadOK(s)'
    BY <2>1, <2>2, SameKept, KeptTyped DEF DaysPass, TypeInv, ThreadOK, scores
  <2> QED
    BY <2>1, <2>2, <2>3, TypeFrame, StagesType DEF DaysPass, TypeInv, TypeOK, scores, AllStages
<1> QED
  BY <1>1, <1>2, <1>3

LEMMA FaultsType == TypeInv /\ (UNCHANGED faults \/ Failed) => faults' \in Nat
  BY DEF Failed, TypeInv

LEMMA StatsType ==
  ASSUME TypeInv, NEW s \in Threads, pc[s] # "idle"
  PROVE  /\ job[s] \in Message /\ job[s].comm \in Communities
         /\ stats \in [Communities -> CommunityStatistics]
         /\ stats[job[s].comm].joins \in Nat /\ stats[job[s].comm].leaves \in Nat
         /\ stats[job[s].comm].members \in Int
<1>1. job[s] \in Message /\ stats \in [Communities -> CommunityStatistics]
  BY DEF TypeInv, TypeOK, ThreadOK
<1>2. job[s].comm \in Communities
  BY <1>1 DEF Message
<1> QED
  BY <1>1, <1>2 DEF CommunityStatistics

(* The counters a join and a leave raise. *)
LEMMA Raised ==
  ASSUME NEW st \in CommunityStatistics
  PROVE  /\ LET r == [[st EXCEPT !.joins = @ + 1] EXCEPT !.members = @ + 1]
            IN  /\ r \in CommunityStatistics
                /\ r.joins = st.joins + 1 /\ r.leaves = st.leaves /\ r.members = st.members + 1
         /\ LET r == [[st EXCEPT !.leaves = @ + 1] EXCEPT !.members = @ - 1]
            IN  /\ r \in CommunityStatistics
                /\ r.joins = st.joins /\ r.leaves = st.leaves + 1 /\ r.members = st.members - 1
<1>1. st.joins + 1 \in Nat /\ st.leaves + 1 \in Nat
      /\ st.members + 1 \in Int /\ st.members - 1 \in Int
  BY DEF CommunityStatistics
<1>2. \A j \in Nat, m \in Int :
        LET r == [[st EXCEPT !.joins = j] EXCEPT !.members = m]
        IN  r \in CommunityStatistics /\ r.joins = j /\ r.leaves = st.leaves /\ r.members = m
  BY DEF CommunityStatistics
<1>3. \A l \in Nat, m \in Int :
        LET r == [[st EXCEPT !.leaves = l] EXCEPT !.members = m]
        IN  r \in CommunityStatistics /\ r.joins = st.joins /\ r.leaves = l /\ r.members = m
  BY DEF CommunityStatistics
<1>4. /\ [st EXCEPT !.joins = @ + 1].members = st.members
      /\ [st EXCEPT !.leaves = @ + 1].members = st.members
  BY DEF CommunityStatistics
<1>5. LET r == [[st EXCEPT !.joins = st.joins + 1] EXCEPT !.members = st.members + 1]
      IN  /\ r \in CommunityStatistics
          /\ r.joins = st.joins + 1 /\ r.leaves = st.leaves /\ r.members = st.members + 1
  BY <1>1, <1>2
<1>6. LET r == [[st EXCEPT !.leaves = st.leaves + 1] EXCEPT !.members = st.members - 1]
      IN  /\ r \in CommunityStatistics
          /\ r.joins = st.joins /\ r.leaves = st.leaves + 1 /\ r.members = st.members - 1
  BY <1>1, <1>3
<1> QED
  BY <1>4, <1>5, <1>6

LEMMA JoinCounts ==
  ASSUME TypeInv, NEW s \in Threads, pc[s] = "joins", IncrementJoins(s), faults' = faults
  PROVE  \E r \in CommunityStatistics :
           LET c == job[s].comm
           IN  /\ stats' = [stats EXCEPT ![c] = r] /\ r.joins = stats[c].joins + 1
               /\ r.leaves = stats[c].leaves /\ r.members = stats[c].members + 1
<1> DEFINE c == job[s].comm
           st == stats[c]
           r == [[st EXCEPT !.joins = @ + 1] EXCEPT !.members = @ + 1]
<1>1. st \in CommunityStatistics /\ stats \in [Communities -> CommunityStatistics]
      /\ c \in Communities
  BY StatsType
<1>2. stats' = [stats EXCEPT ![c].joins = @ + 1, ![c].members = @ + 1]
  BY DEF IncrementJoins, Failed, TypeInv
<1>3. stats' = [stats EXCEPT ![c] = r]
  BY <1>1, <1>2
<1>4. r \in CommunityStatistics /\ r.joins = st.joins + 1 /\ r.leaves = st.leaves
      /\ r.members = st.members + 1
  BY <1>1, Raised
<1> QED
  BY <1>3, <1>4

LEMMA LeaveCounts ==
  ASSUME TypeInv, NEW s \in Threads, pc[s] = "leaves", IncrementLeaves(s), stats' # stats
  PROVE  \E r \in CommunityStatistics :
           LET c == job[s].comm
           IN  /\ stats' = [stats EXCEPT ![c] = r] /\ r.joins = stats[c].joins
               /\ r.leaves = stats[c].leaves + 1 /\ r.members = stats[c].members - 1
<1> DEFINE c == job[s].comm
           st == stats[c]
           r == [[st EXCEPT !.leaves = @ + 1] EXCEPT !.members = @ - 1]
<1>1. st \in CommunityStatistics /\ stats \in [Communities -> CommunityStatistics]
      /\ c \in Communities
  BY StatsType
<1>2. stats' = [stats EXCEPT ![c].leaves = @ + 1, ![c].members = @ - 1]
  BY DEF IncrementLeaves
<1>3. stats' = [stats EXCEPT ![c] = r]
  BY <1>1, <1>2
<1>4. r \in CommunityStatistics /\ r.joins = st.joins /\ r.leaves = st.leaves + 1
      /\ r.members = st.members - 1
  BY <1>1, Raised
<1> QED
  BY <1>3, <1>4

(* Every step of a thread is its own. *)
LEMMA HandleAlone ==
  ASSUME TypeInv, NEW s \in Threads, Handle(s)
  PROVE  Alone(s)
<1>1. /\ pc \in [Threads -> Stages] /\ job \in [Threads -> Message \cup {NoJob}]
      /\ read \in [Threads -> Nat] /\ AllStages
  BY StagesType DEF TypeInv, TypeOK, AllStages
<1>2. CASE s \in DOMAIN queue /\ Receive(s)
  <2>1. queue \in [JoinSubs \cup LeaveSubs -> Seq(Message)]
    BY DEF TypeInv, TypeOK
  <2>2. Head(queue[s]) \in Message
    BY <2>1, <1>2 DEF Receive
  <2>3. job' \in [Threads -> Message \cup {NoJob}]
    BY <1>1, <1>2, <2>2 DEF Receive
  <2>4. pc' \in [Threads -> Stages]
    BY <1>1, <1>2 DEF Receive, Goto, AllStages
  <2> QED
    BY <1>1, <1>2, <2>3, <2>4 DEF Receive, Goto, Alone
<1>3. CASE CountRejoins(s)
  <2>1. Cardinality(History(job[s])) \in Nat
    <3>1. IsFiniteSet(DOMAIN docs)
      <4>1. docs \in Seq(UserMembership)
        BY DEF TypeInv, DocsOK
      <4>2. DOMAIN docs = 1..Len(docs) /\ Len(docs) \in Int
        BY <4>1
      <4> QED
        BY <4>2, FS_Interval
    <3> QED
      BY <3>1, FS_Subset, FS_CardinalityType DEF History
  <2> HIDE DEF History
  <2> QED
    BY <1>1, <1>3, <2>1 DEF CountRejoins, Goto, Alone, AllStages
<1>4. CASE IncrementJoins(s) \/ InsertMembership(s) \/ detectJoinLoopFraud(s)
  BY <1>1, <1>4 DEF IncrementJoins, InsertMembership, detectJoinLoopFraud, Goto, Alone, AllStages
<1>5. CASE FindLastJoin(s)
  <2>1. \A n \in OpenDocs(job[s]) : n \in Nat
    BY DEF OpenDocs, History, TypeInv, DocsOK
  <2> QED
    BY <1>1, <1>5, <2>1 DEF FindLastJoin, Goto, Alone, AllStages
<1>6. CASE CloseMembership(s) \/ IncrementLeaves(s)
  BY <1>1, <1>6 DEF CloseMembership, IncrementLeaves, Goto, Alone, AllStages
<1>7. CASE Calculate(s)
  <2>1. Quality(stats[job[s].comm]) \in Nat
    BY <1>7, StatsType, QualityRange DEF Calculate
  <2> QED
    BY <1>1, <1>7, <2>1 DEF Calculate, Goto, Alone, AllStages
<1>8. CASE UpdateCommunityScore(s)
  <2>1. CASE s \in Recalcs
    BY <1>1, <1>8, <2>1 DEF UpdateCommunityScore, Return, Goto, Alone, AllStages
  <2>2. CASE s \notin Recalcs
    BY <1>1, <1>8, <2>2 DEF UpdateCommunityScore, Goto, Alone, AllStages
  <2> QED
    BY <2>1, <2>2
<1>9. CASE PublishScore(s)
  BY <1>1, <1>9 DEF PublishScore, Return, Goto, Alone, AllStages
<1> QED
  BY <1>2, <1>3, <1>4, <1>5, <1>6, <1>7, <1>8, <1>9 DEF Handle

LEMMA HandleDocs ==
  ASSUME TypeInv, NEW s \in Threads, Handle(s)
  PROVE  /\ UNCHANGED <<inside, arrivals, today>>
         /\ UNCHANGED faults \/ Failed
         /\ DocsTyped
         /\ (InsertMembership(s) /\ faults' = faults) \/ HistoryKept
<1>1. UNCHANGED <<inside, arrivals, today>> /\ (UNCHANGED faults \/ Failed)
  BY DEF Handle, Receive, CountRejoins, IncrementJoins, InsertMembership, detectJoinLoopFraud,
         FindLastJoin, CloseMembership, IncrementLeaves, Calculate, UpdateCommunityScore,
         PublishScore, Answered, world
<1>2. (InsertMembership(s) /\ faults' = faults) \/ HistoryKept
  <2>1. CASE CloseMembership(s)
    BY <2>1, CloseKeeps
  <2>2. CASE InsertMembership(s)
    BY <2>2, SameKept DEF InsertMembership, Answered
  <2>3. CASE ~CloseMembership(s) /\ ~InsertMembership(s)
    <3>1. UNCHANGED docs
      BY <2>3 DEF Handle, Receive, CountRejoins, IncrementJoins, detectJoinLoopFraud,
                  FindLastJoin, IncrementLeaves, Calculate, UpdateCommunityScore, PublishScore
    <3> QED
      BY <3>1, SameKept
  <2> QED
    BY <2>1, <2>2, <2>3
<1>3. DocsTyped
  <2>1. today' = today /\ today \in Nat
    BY <1>1 DEF TypeInv
  <2> QED
    BY <2>1, <1>2, KeptTyped, InsertTyped
<1> QED
  BY <1>1, <1>2, <1>3

LEMMA HandleType ==
  ASSUME TypeInv, NEW s \in Threads, Handle(s)
  PROVE  TypeInv'
<1>0. /\ Alone(s) /\ DocsTyped /\ UNCHANGED <<inside, arrivals, today>> /\ faults' \in Nat
      /\ pc \in [Threads -> Stages] /\ job \in [Threads -> Message \cup {NoJob}]
      /\ read \in [Threads -> Nat] /\ AllStages
  BY HandleAlone, HandleDocs, FaultsType, StagesType DEF TypeInv, TypeOK, AllStages
<1>1. /\ queue \in [JoinSubs \cup LeaveSubs -> Seq(Message)]
      /\ stats \in [Communities -> CommunityStatistics] /\ alarms \subseteq Message
      /\ snapshot \in [Communities -> Score] /\ told \in [Communities -> Score]
  BY DEF TypeInv, TypeOK
<1>2. CASE s \in DOMAIN queue /\ Receive(s)
  <2>1. Head(queue[s]) \in Message /\ Tail(queue[s]) \in Seq(Message)
    BY <1>1, <1>2 DEF Receive
  <2>2. queue' \in [JoinSubs \cup LeaveSubs -> Seq(Message)]
    BY <1>1, <1>2, <2>1 DEF Receive
  <2>3. ThreadOK(s)'
    BY <1>0, <1>1, <1>2, <2>1
       DEF Receive, Goto, ThreadOK, JoinStages, LeaveStages, SaveStages
  <2> QED
    BY <1>0, <1>1, <1>2, <2>2, <2>3, ThreadFrame DEF Receive, scores
<1>3. CASE CountRejoins(s)
  <2>1. ThreadOK(s)'
    BY <1>0, <1>3 DEF CountRejoins, Goto, ThreadOK, JoinStages, LeaveStages, SaveStages, TypeInv
  <2> QED
    BY <1>0, <1>1, <1>3, <2>1, ThreadFrame DEF CountRejoins, scores, world
<1>4. CASE IncrementJoins(s)
  <2>1. ThreadOK(s)'
    BY <1>0, <1>4 DEF IncrementJoins, Goto, ThreadOK, JoinStages, LeaveStages, SaveStages, TypeInv
  <2>2. stats' \in [Communities -> CommunityStatistics]
    <3>1. CASE UNCHANGED stats
      BY <1>1, <3>1
    <3>2. CASE stats' # stats
      BY <1>1, <1>4, <3>2, JoinCounts DEF IncrementJoins, Answered
    <3> QED
      BY <3>1, <3>2
  <2> QED
    BY <1>0, <1>1, <1>4, <2>1, <2>2, ThreadFrame DEF IncrementJoins, scores, world
<1>5. CASE InsertMembership(s)
  <2>1. ThreadOK(s)'
    BY <1>0, <1>5
       DEF InsertMembership, Goto, ThreadOK, JoinStages, LeaveStages, SaveStages, TypeInv
  <2> QED
    BY <1>0, <1>1, <1>5, <2>1, ThreadFrame DEF InsertMembership, scores, world
<1>6. CASE detectJoinLoopFraud(s)
  <2>1. ThreadOK(s)'
    BY <1>0, <1>6
       DEF detectJoinLoopFraud, Goto, ThreadOK, JoinStages, LeaveStages, SaveStages, TypeInv
  <2>2. alarms' \subseteq Message
    BY <1>1, <1>6 DEF detectJoinLoopFraud, TypeInv, ThreadOK
  <2> QED
    BY <1>0, <1>1, <1>6, <2>1, <2>2, ThreadFrame DEF detectJoinLoopFraud, scores, world
<1>7. CASE FindLastJoin(s)
  <2>1. ThreadOK(s)'
    <3>1. \A n \in OpenDocs(job[s]) : n \in DOMAIN docs'
      BY <1>0 DEF OpenDocs, History, DocsTyped
    <3> HIDE DEF OpenDocs
    <3> QED
      BY <1>0, <1>7, <3>1
         DEF FindLastJoin, Goto, ThreadOK, JoinStages, LeaveStages, SaveStages, TypeInv
  <2> QED
    BY <1>0, <1>1, <1>7, <2>1, ThreadFrame DEF FindLastJoin, scores, world
<1>8. CASE CloseMembership(s)
  <2>1. ThreadOK(s)'
    BY <1>0, <1>8
       DEF CloseMembership, Goto, ThreadOK, JoinStages, LeaveStages, SaveStages, TypeInv
  <2> QED
    BY <1>0, <1>1, <1>8, <2>1, ThreadFrame DEF CloseMembership, scores, world
<1>9. CASE IncrementLeaves(s)
  <2>1. ThreadOK(s)'
    BY <1>0, <1>9
       DEF IncrementLeaves, Goto, ThreadOK, JoinStages, LeaveStages, SaveStages, TypeInv
  <2>2. stats' \in [Communities -> CommunityStatistics]
    <3>1. CASE UNCHANGED stats
      BY <1>1, <3>1
    <3>2. CASE stats' # stats
      BY <1>1, <1>9, <3>2, LeaveCounts DEF IncrementLeaves
    <3> QED
      BY <3>1, <3>2
  <2> QED
    BY <1>0, <1>1, <1>9, <2>1, <2>2, ThreadFrame DEF IncrementLeaves, scores, world
<1>10. CASE Calculate(s)
  <2>1. ThreadOK(s)'
    <3>1. Quality(stats[job[s].comm]) \in 0..100
      BY <1>10, StatsType, QualityRange DEF Calculate
    <3> QED
      BY <1>0, <1>10, <3>1
         DEF Calculate, Goto, ThreadOK, JoinStages, LeaveStages, SaveStages, TypeInv
  <2> QED
    BY <1>0, <1>1, <1>10, <2>1, ThreadFrame DEF Calculate, scores, world
<1>11. CASE UpdateCommunityScore(s)
  <2>1. ThreadOK(s)'
    <3>1. CASE s \in Recalcs
      BY <1>0, <1>11, <3>1
         DEF UpdateCommunityScore, Return, Goto, ThreadOK, JoinStages, LeaveStages, SaveStages
    <3>2. CASE s \notin Recalcs
      BY <1>0, <1>11, <3>2
         DEF UpdateCommunityScore, Goto, ThreadOK, JoinStages, LeaveStages, SaveStages, TypeInv
    <3> QED
      BY <3>1, <3>2
  <2>2. snapshot' \in [Communities -> Score]
    <3>1. read[s] \in Score
      BY <1>11 DEF UpdateCommunityScore, TypeInv, ThreadOK, SaveStages, Score
    <3> QED
      BY <1>1, <1>11, <3>1 DEF UpdateCommunityScore
  <2> QED
    BY <1>0, <1>1, <1>11, <2>1, <2>2, ThreadFrame DEF UpdateCommunityScore, world
<1>12. CASE PublishScore(s)
  <2>1. ThreadOK(s)'
    BY <1>0, <1>12 DEF PublishScore, Return, Goto, ThreadOK, JoinStages, LeaveStages, SaveStages
  <2>2. told' \in [Communities -> Score]
    <3>1. read[s] \in Score
      BY <1>12 DEF PublishScore, TypeInv, ThreadOK, SaveStages, Score
    <3> QED
      BY <1>1, <1>12, <3>1 DEF PublishScore
  <2> QED
    BY <1>0, <1>1, <1>12, <2>1, <2>2, ThreadFrame DEF PublishScore, world
<1> QED
  BY <1>2, <1>3, <1>4, <1>5, <1>6, <1>7, <1>8, <1>9, <1>10, <1>11, <1>12 DEF Handle

LEMMA RecalcAlone ==
  ASSUME TypeInv, NEW s \in Recalcs, NEW m \in Message, recalcCommunity(s, m)
  PROVE  /\ s \in Threads /\ Alone(s) /\ pc[s] = "idle" /\ pc'[s] = "score" /\ job'[s] = m
         /\ UNCHANGED <<docs, stats, alarms, today, faults>>
  BY StagesType DEF recalcCommunity, Goto, Alone, AllStages, TypeInv, TypeOK, Threads, world

LEMMA RecalcType ==
  ASSUME TypeInv, NEW s \in Recalcs, NEW m \in Message, recalcCommunity(s, m)
  PROVE  TypeInv'
<1>1. s \in Threads /\ Alone(s) /\ ThreadOK(s)'
  BY RecalcAlone DEF ThreadOK, JoinStages, LeaveStages, SaveStages
<1>2. DocsTyped
  BY SameKept, KeptTyped DEF recalcCommunity, TypeInv, world
<1> QED
  BY <1>1, <1>2, ThreadFrame DEF recalcCommunity, TypeInv, TypeOK, world, scores

LEMMA TypeStep == TypeInv /\ [Next]_vars => TypeInv'
<1>1. ASSUME TypeInv, UNCHANGED vars
      PROVE  TypeInv'
  BY <1>1 DEF vars, world, scores, TypeInv, TypeOK, DocsOK, ThreadOK
<1>2. ASSUME TypeInv, Next
      PROVE  TypeInv'
  BY <1>2, WorldType, HandleType, RecalcType DEF Next
<1> QED
  BY <1>1, <1>2

LEMMA AlwaysTypeInv == Spec => []TypeInv
  BY TypeInit, TypeStep, PTL DEF Spec

(* Scores stay between 0 and 100, dates and counts are those of real       *)
(* memberships, and no handler closes a membership that does not exist,    *)
(* whatever interleaves, is lost or fails.                                 *)
THEOREM TypeCorrect == Spec => []TypeOK
<1>1. TypeInv => TypeOK
  BY DEF TypeInv
<1> QED
  BY AlwaysTypeInv, <1>1, PTL

-----------------------------------------------------------------------------
(* The memberships of a user in a community, and what a step does to them. *)
LEMMA DocsFinite ==
  ASSUME TypeInv
  PROVE  /\ IsFiniteSet(DOMAIN docs)
         /\ \A S \in SUBSET DOMAIN docs : IsFiniteSet(S) /\ Cardinality(S) \in Nat
<1>1. docs \in Seq(UserMembership)
  BY DEF TypeInv, DocsOK
<1>2. DOMAIN docs = 1..Len(docs) /\ Len(docs) \in Int
  BY <1>1
<1>3. IsFiniteSet(DOMAIN docs)
  BY <1>2, FS_Interval
<1> QED
  BY <1>3, FS_Subset, FS_CardinalityType

LEMMA DocNumbers ==
  ASSUME TypeInv, NEW n \in DOMAIN docs
  PROVE  /\ n \in Nat /\ docs[n].day \in Nat /\ docs[n].rejoin \in Nat /\ docs[n].day <= today
         /\ today \in Nat /\ docs[n].user \in Users /\ docs[n].comm \in Communities
<1>1. docs \in Seq(UserMembership) /\ today \in Nat /\ docs[n].day <= today
  BY DEF TypeInv, DocsOK
<1>2. docs[n] \in UserMembership /\ n \in Nat
  BY <1>1
<1> QED
  BY <1>1, <1>2 DEF UserMembership

(* Memberships of user and community, those of them that one subscription  *)
(* inserted, and those before the n-th.                                    *)
OwnHistory(m, s) == {k \in History(m) : docs[k].by = s}
Earlier(n)       == {k \in History(docs[n]) : k < n}
OwnEarlier(n)    == {k \in Earlier(n) : docs[k].by = docs[n].by}
WeekBefore(m, last) ==
  {n \in History(m) : docs[n].day \in docs[last].day - 6..docs[last].day}
Recorded(c)      == {n \in DOMAIN docs : docs[n].comm = c}

LEMMA Kept ==
  ASSUME TypeInv, HistoryKept
  PROVE  /\ \A c \in Communities : Recorded(c)' = Recorded(c)
         /\ \A m \in Message : History(m)' = History(m)
         /\ \A m \in Message, s \in JoinSubs : OwnHistory(m, s)' = OwnHistory(m, s)
         /\ \A n \in DOMAIN docs : Earlier(n)' = Earlier(n) /\ OwnEarlier(n)' = OwnEarlier(n)
         /\ \A m \in Message : \A last \in History(m) :
              WeekBefore(m, last)' = WeekBefore(m, last) /\ docs'[last].day = docs[last].day
<1>1. DOMAIN docs' = DOMAIN docs /\ \A n \in DOMAIN docs : SameDoc(docs[n], docs'[n])
  BY DEF HistoryKept
<1>2. \A n \in DOMAIN docs :
        /\ docs'[n].user = docs[n].user /\ docs'[n].comm = docs[n].comm
        /\ docs'[n].day = docs[n].day /\ docs'[n].by = docs[n].by
  BY <1>1 DEF SameDoc
<1>3. \A c \in Communities : Recorded(c)' = Recorded(c)
  BY <1>1, <1>2 DEF Recorded
<1>4. \A m \in Message : History(m)' = History(m)
  BY <1>1, <1>2 DEF History
<1>5. \A m \in Message, s \in JoinSubs : OwnHistory(m, s)' = OwnHistory(m, s)
  <2> SUFFICES ASSUME NEW m \in Message, NEW s \in JoinSubs
               PROVE  OwnHistory(m, s)' = OwnHistory(m, s)
    OBVIOUS
  <2>1. History(m)' = History(m) /\ History(m) \subseteq DOMAIN docs
    BY <1>4 DEF History
  <2> HIDE DEF History
  <2> QED
    BY <1>2, <2>1 DEF OwnHistory
<1>6. \A n \in DOMAIN docs : Earlier(n)' = Earlier(n)
  BY <1>1, <1>2 DEF Earlier, History
<1>7. \A n \in DOMAIN docs : OwnEarlier(n)' = OwnEarlier(n)
  <2> SUFFICES ASSUME NEW n \in DOMAIN docs
               PROVE  OwnEarlier(n)' = OwnEarlier(n)
    OBVIOUS
  <2>1. Earlier(n)' = Earlier(n) /\ Earlier(n) \subseteq DOMAIN docs
    BY <1>6 DEF Earlier, History
  <2> HIDE DEF Earlier
  <2> QED
    BY <1>2, <2>1 DEF OwnEarlier
<1>8. \A m \in Message : \A last \in History(m) :
        WeekBefore(m, last)' = WeekBefore(m, last) /\ docs'[last].day = docs[last].day
  <2> SUFFICES ASSUME NEW m \in Message, NEW last \in History(m)
               PROVE  WeekBefore(m, last)' = WeekBefore(m, last)
                      /\ docs'[last].day = docs[last].day
    OBVIOUS
  <2>1. History(m)' = History(m) /\ History(m) \subseteq DOMAIN docs
    BY <1>4 DEF History
  <2> HIDE DEF History
  <2> QED
    BY <1>2, <2>1 DEF WeekBefore
<1> QED
  BY <1>3, <1>4, <1>5, <1>6, <1>7, <1>8

(* The same when thread s inserts the next one. *)
Added == Len(docs) + 1

LEMMA Inserted ==
  ASSUME TypeInv, NEW s \in Threads, InsertMembership(s), faults' = faults
  PROVE  /\ Added \in DOMAIN docs' /\ Added \notin DOMAIN docs /\ Added \in Nat
         /\ \A n \in DOMAIN docs : n < Added
         /\ \A c \in Communities :
              Recorded(c)' = IF c = job[s].comm THEN Recorded(c) \cup {Added} ELSE Recorded(c)
         /\ \A m \in Message :
              History(m)' = IF m = job[s] THEN History(m) \cup {Added} ELSE History(m)
         /\ \A m \in Message, t \in JoinSubs \ {s} : OwnHistory(m, t)' = OwnHistory(m, t)
         /\ \A n \in DOMAIN docs : Earlier(n)' = Earlier(n) /\ OwnEarlier(n)' = OwnEarlier(n)
<1>1. /\ s \in JoinSubs /\ Len(docs) \in Nat /\ DOMAIN docs = 1..Len(docs)
      /\ DOMAIN docs' = 1..Added /\ \A n \in DOMAIN docs : docs'[n] = docs[n]
      /\ docs'[Added].user = job[s].user /\ docs'[Added].comm = job[s].comm
      /\ docs'[Added].by = s
  BY InsertAppends DEF Added
<1>2. /\ Added \in DOMAIN docs' /\ Added \notin DOMAIN docs /\ Added \in Nat
      /\ \A n \in DOMAIN docs : n < Added /\ n \in DOMAIN docs' /\ n \in Nat
      /\ DOMAIN docs' = DOMAIN docs \cup {Added}
  BY <1>1 DEF Added
<1> HIDE DEF Added
<1>3. \A c \in Communities :
        Recorded(c)' = IF c = job[s].comm THEN Recorded(c) \cup {Added} ELSE Recorded(c)
  BY <1>1, <1>2 DEF Recorded
<1>4. \A m \in Message :
        History(m)' = IF m = job[s] THEN History(m) \cup {Added} ELSE History(m)
  <2>1. job[s] \in Message
    BY DEF InsertMembership, TypeInv, ThreadOK
  <2>2. \A m \in Message : m = job[s] <=> (m.user = job[s].user /\ m.comm = job[s].comm)
    BY <2>1 DEF Message
  <2> SUFFICES ASSUME NEW m \in Message
               PROVE  History(m)' = IF m = job[s] THEN History(m) \cup {Added} ELSE History(m)
    OBVIOUS
  <2>3. CASE m = job[s]
    BY <1>1, <1>2, <2>3 DEF History
  <2>4. CASE m # job[s]
    <3>1. ~(docs'[Added].user = m.user /\ docs'[Added].comm = m.comm)
      BY <1>1, <2>2, <2>4
    <3> QED
      BY <1>1, <1>2, <2>4, <3>1 DEF History
  <2> QED
    BY <2>3, <2>4
<1>5. \A m \in Message, t \in JoinSubs \ {s} : OwnHistory(m, t)' = OwnHistory(m, t)
  <2> SUFFICES ASSUME NEW m \in Message, NEW t \in JoinSubs \ {s}
               PROVE  OwnHistory(m, t)' = OwnHistory(m, t)
    OBVIOUS
  <2>1. /\ History(m)' \ {Added} = History(m) \ {Added} /\ History(m) \subseteq DOMAIN docs
    BY <1>4 DEF History
  <2> HIDE DEF History
  <2> QED
    BY <1>1, <1>2, <2>1 DEF OwnHistory
<1>6. \A n \in DOMAIN docs : Earlier(n)' = Earlier(n)
  <2> SUFFICES ASSUME NEW n \in DOMAIN docs
               PROVE  Earlier(n)' = Earlier(n)
    OBVIOUS
  <2>1. \A k \in DOMAIN docs' : k < n => k \in DOMAIN docs
    BY <1>2
  <2> QED
    BY <1>1, <1>2, <2>1 DEF Earlier, History
<1>7. \A n \in DOMAIN docs : OwnEarlier(n)' = OwnEarlier(n)
  <2> SUFFICES ASSUME NEW n \in DOMAIN docs
               PROVE  OwnEarlier(n)' = OwnEarlier(n)
    OBVIOUS
  <2>1. Earlier(n)' = Earlier(n) /\ Earlier(n) \subseteq DOMAIN docs
    BY <1>6 DEF Earlier, History
  <2> HIDE DEF Earlier
  <2> QED
    BY <1>1, <2>1 DEF OwnEarlier
<1> QED
  BY <1>2, <1>3, <1>4, <1>5, <1>6, <1>7

LEMMA NoFault ==
  ASSUME TypeInv, UNCHANGED faults \/ Failed, faults' = 0
  PROVE  faults = 0 /\ faults' = faults
  BY DEF TypeInv, Failed

-----------------------------------------------------------------------------
(* Counters and documents.  A counted join has its document, or its        *)
(* handler is between the two calls.                                       *)
Inserting(c) == {s \in JoinSubs : pc[s] = "insert" /\ job[s].comm = c}

Balanced(c) == stats[c].members = stats[c].joins - stats[c].leaves
Backed(c)   == stats[c].joins = Cardinality(Recorded(c)) + Cardinality(Inserting(c))

CountInv == /\ \A c \in Communities : Balanced(c)
            /\ faults = 0 => \A c \in Communities : Backed(c)

(* Which subscriptions are about to insert, after a step of thread s. *)
LEMMA InsertingMoves ==
  ASSUME NEW s \in Threads, Alone(s), NEW c \in Communities
  PROVE  Inserting(c)' =
           IF s \in JoinSubs /\ pc'[s] = "insert" /\ job'[s].comm = c
           THEN Inserting(c) \cup {s} ELSE Inserting(c) \ {s}
  BY DEF Inserting, Alone, Threads

(* A step that leaves the counters, the documents and who is about to      *)
(* insert alone.                                                           *)
LEMMA CountFrame ==
  ASSUME TypeInv, CountInv, HistoryKept, UNCHANGED stats, faults' = 0 => faults = 0,
         \A c \in Communities : Inserting(c)' = Inserting(c)
  PROVE  CountInv'
  BY Kept DEF CountInv, Balanced, Backed

LEMMA CountInit == Init => CountInv
<1> SUFFICES ASSUME Init
             PROVE  CountInv
  OBVIOUS
<1>1. \A c \in Communities : Recorded(c) = {} /\ Inserting(c) = {}
  BY DEF Init, Recorded, Inserting, Threads
<1>2. Cardinality({}) = 0
  BY FS_EmptySet
<1>3. \A c \in Communities : stats[c].joins = 0 /\ stats[c].leaves = 0 /\ stats[c].members = 0
  BY DEF Init
<1>4. \A c \in Communities : Cardinality(Recorded(c)) = 0 /\ Cardinality(Inserting(c)) = 0
  BY <1>1, <1>2
<1>5. \A c \in Communities : Balanced(c)
  BY <1>3 DEF Balanced
<1>6. \A c \in Communities : Backed(c)
  BY <1>3, <1>4 DEF Backed
<1> QED
  BY <1>5, <1>6 DEF CountInv

LEMMA CountJoin ==
  ASSUME IsFiniteSet(JoinSubs), TypeInv, CountInv, NEW s \in Threads, IncrementJoins(s)
  PROVE  CountInv'
<1>1. /\ pc[s] = "joins" /\ Alone(s) /\ HistoryKept /\ pc'[s] = "insert" /\ job' = job
      /\ s \in JoinSubs /\ (UNCHANGED faults \/ Failed)
      /\ job[s].comm \in Communities /\ stats \in [Communities -> CommunityStatistics]
  BY HandleAlone, StatsType, SameKept
     DEF Handle, IncrementJoins, Goto, TypeInv, TypeOK, ThreadOK, JoinStages, Answered
<1>2. \A c \in Communities : Balanced(c)'
  <2>1. CASE UNCHANGED stats
    BY <2>1 DEF CountInv, Balanced
  <2>2. CASE stats' # stats
    <3>1. PICK c \in Communities : c = job[s].comm
      BY <1>1
    <3>2. PICK r \in CommunityStatistics :
            /\ stats' = [stats EXCEPT ![c] = r] /\ r.joins = stats[c].joins + 1
            /\ r.leaves = stats[c].leaves /\ r.members = stats[c].members + 1
      BY <1>1, <2>2, <3>1, JoinCounts DEF IncrementJoins, Answered
    <3>3. stats[c].joins \in Nat /\ stats[c].leaves \in Nat /\ stats[c].members \in Int
      BY <1>1 DEF CommunityStatistics
    <3>4. stats[c].members = stats[c].joins - stats[c].leaves
      BY DEF CountInv, Balanced
    <3>5. stats'[c].members = stats'[c].joins - stats'[c].leaves
      BY <1>1, <3>2, <3>3, <3>4
    <3>6. \A d \in Communities \ {c} : stats'[d] = stats[d]
      BY <1>1, <3>2
    <3> QED
      BY <3>5, <3>6 DEF CountInv, Balanced
  <2> QED
    BY <2>1, <2>2
<1>3. ASSUME faults' = 0, NEW d \in Communities
      PROVE  Backed(d)'
  <2>1. faults = 0 /\ faults' = faults /\ Backed(d) /\ Recorded(d)' = Recorded(d)
    BY <1>1, <1>3, NoFault, Kept DEF CountInv
  <2>2. PICK c \in Communities : c = job[s].comm
    BY <1>1
  <2>3. PICK r \in CommunityStatistics :
          stats' = [stats EXCEPT ![c] = r] /\ r.joins = stats[c].joins + 1
    BY <1>1, <2>1, <2>2, JoinCounts
  <2>4. CASE d = c
    <3>1. Inserting(d)' = Inserting(d) \cup {s} /\ s \notin Inserting(d)
      BY <1>1, <2>2, <2>4, InsertingMoves DEF Inserting
    <3>2. IsFiniteSet(Inserting(d)) /\ Cardinality(Inserting(d)) \in Nat
      BY FS_Subset, FS_CardinalityType DEF Inserting
    <3>3. Cardinality(Inserting(d)') = Cardinality(Inserting(d)) + 1
      BY <3>1, <3>2, FS_AddElement
    <3>4. Cardinality(Recorded(d)) \in Nat
      BY DocsFinite DEF Recorded
    <3>5. stats'[d].joins = stats[d].joins + 1
      BY <1>1, <2>3, <2>4
    <3> QED
      BY <2>1, <3>2, <3>3, <3>4, <3>5 DEF Backed
  <2>5. CASE d # c
    <3>1. Inserting(d)' = Inserting(d)
      BY <1>1, <2>2, <2>5, InsertingMoves DEF Inserting
    <3>2. stats'[d] = stats[d]
      BY <1>1, <2>3, <2>5
    <3> QED
      BY <2>1, <3>1, <3>2 DEF Backed
  <2> QED
    BY <2>4, <2>5
<1> QED
  BY <1>2, <1>3 DEF CountInv

LEMMA CountInsert ==
  ASSUME IsFiniteSet(JoinSubs), TypeInv, CountInv, NEW s \in Threads, InsertMembership(s)
  PROVE  CountInv'
<1>1. /\ pc[s] = "insert" /\ Alone(s) /\ pc'[s] = "detect" /\ UNCHANGED stats
      /\ s \in JoinSubs /\ (UNCHANGED faults \/ Failed) /\ job[s].comm \in Communities
  BY HandleAlone, StatsType
     DEF Handle, InsertMembership, Goto, TypeInv, TypeOK, ThreadOK, JoinStages, Answered
<1>2. \A c \in Communities : Balanced(c)'
  BY <1>1 DEF CountInv, Balanced
<1>3. ASSUME faults' = 0, NEW d \in Communities
      PROVE  Backed(d)'
  <2>1. faults = 0 /\ faults' = faults /\ Backed(d)
    BY <1>1, <1>3, NoFault DEF CountInv
  <2>2. PICK c \in Communities : c = job[s].comm
    BY <1>1
  <2>3. Inserting(d)' = Inserting(d) \ {s}
    BY <1>1, InsertingMoves
  <2>4. /\ IsFiniteSet(Recorded(d)) /\ Cardinality(Recorded(d)) \in Nat
        /\ IsFiniteSet(Inserting(d)) /\ Cardinality(Inserting(d)) \in Nat
    BY DocsFinite, FS_Subset, FS_CardinalityType DEF Recorded, Inserting
  <2>5. /\ Recorded(d)' = IF d = c THEN Recorded(d) \cup {Added} ELSE Recorded(d)
        /\ Added \notin Recorded(d)
    BY <2>1, <2>2, Inserted DEF Recorded
  <2>6. CASE d = c
    <3>1. s \in Inserting(d)
      BY <1>1, <2>2, <2>6 DEF Inserting
    <3>2. Cardinality(Inserting(d)') = Cardinality(Inserting(d)) - 1
      BY <2>3, <2>4, <3>1, FS_RemoveElement
    <3>3. Cardinality(Recorded(d)') = Cardinality(Recorded(d)) + 1
      BY <2>4, <2>5, <2>6, FS_AddElement
    <3> QED
      BY <1>1, <2>1, <2>4, <3>2, <3>3 DEF Backed
  <2>7. CASE d # c
    <3>1. Inserting(d)' = Inserting(d)
      BY <2>2, <2>3, <2>7 DEF Inserting
    <3> QED
      BY <1>1, <2>1, <2>5, <2>7, <3>1 DEF Backed
  <2> QED
    BY <2>6, <2>7
<1> QED
  BY <1>2, <1>3 DEF CountInv

LEMMA CountLeave ==
  ASSUME TypeInv, CountInv, NEW s \in Threads, IncrementLeaves(s)
  PROVE  CountInv'
<1>1. /\ pc[s] = "leaves" /\ Alone(s) /\ HistoryKept /\ pc'[s] = "score"
      /\ (UNCHANGED faults \/ Failed)
      /\ job[s].comm \in Communities /\ stats \in [Communities -> CommunityStatistics]
  BY HandleAlone, StatsType, SameKept
     DEF Handle, IncrementLeaves, Goto, TypeInv, TypeOK, Answered
<1>2. \A c \in Communities : Inserting(c)' = Inserting(c)
  BY <1>1, InsertingMoves DEF Inserting
<1>3. CASE UNCHANGED stats
  BY <1>1, <1>2, <1>3, CountFrame, NoFault
<1>4. CASE stats' # stats
  <2>1. PICK c \in Communities : c = job[s].comm
    BY <1>1
  <2>2. PICK r \in CommunityStatistics :
          /\ stats' = [stats EXCEPT ![c] = r] /\ r.joins = stats[c].joins
          /\ r.leaves = stats[c].leaves + 1 /\ r.members = stats[c].members - 1
    BY <1>1, <1>4, <2>1, LeaveCounts
  <2>3. stats[c].joins \in Nat /\ stats[c].leaves \in Nat /\ stats[c].members \in Int
    BY <1>1 DEF CommunityStatistics
  <2>4. stats[c].members = stats[c].joins - stats[c].leaves
    BY DEF CountInv, Balanced
  <2>5. stats'[c].members = stats'[c].joins - stats'[c].leaves
    BY <1>1, <2>2, <2>3, <2>4
  <2>6. \A d \in Communities \ {c} : stats'[d] = stats[d]
    BY <1>1, <2>2
  <2>7. \A d \in Communities : Balanced(d)' /\ stats'[d].joins = stats[d].joins
    BY <1>1, <2>2, <2>5, <2>6 DEF CountInv, Balanced
  <2>8. ASSUME faults' = 0, NEW d \in Communities
        PROVE  Backed(d)'
    <3>1. Backed(d) /\ Recorded(d)' = Recorded(d) /\ Inserting(d)' = Inserting(d)
      BY <1>1, <1>2, <2>8, NoFault, Kept DEF CountInv
    <3> QED
      BY <2>7, <3>1 DEF Backed
  <2> QED
    BY <2>7, <2>8 DEF CountInv
<1> QED
  BY <1>3, <1>4

LEMMA CountStep ==
  ASSUME IsFiniteSet(JoinSubs), TypeInv, CountInv, [Next]_vars
  PROVE  CountInv'
<1>1. CASE UNCHANGED <<docs, stats, pc, job>> /\ faults' = faults
  <2>1. HistoryKept /\ \A c \in Communities : Inserting(c)' = Inserting(c)
    BY <1>1, SameKept DEF Inserting
  <2> QED
    BY <1>1, <2>1, CountFrame
<1>2. ASSUME NEW s \in Threads, Handle(s)
      PROVE  CountInv'
  <2>1. CASE IncrementJoins(s) \/ InsertMembership(s) \/ IncrementLeaves(s)
    BY <2>1, CountJoin, CountInsert, CountLeave
  <2>2. CASE ~(IncrementJoins(s) \/ InsertMembership(s) \/ IncrementLeaves(s))
    <3>1. /\ Alone(s) /\ HistoryKept /\ (UNCHANGED faults \/ Failed)
      BY <1>2, <2>2, HandleAlone, HandleDocs
    <3>2. UNCHANGED stats /\ pc[s] # "insert" /\ pc'[s] # "insert"
      <4>1. pc \in [Threads -> Stages]
        BY StagesType DEF AllStages
      <4> QED
        BY <1>2, <2>2, <4>1
           DEF Handle, Receive, CountRejoins, detectJoinLoopFraud, FindLastJoin,
               CloseMembership, Calculate, UpdateCommunityScore, PublishScore, Goto, Return
    <3>3. \A c \in Communities : Inserting(c)' = Inserting(c)
      BY <3>1, <3>2, InsertingMoves DEF Inserting
    <3> QED
      BY <3>1, <3>2, <3>3, CountFrame, NoFault
  <2> QED
    BY <2>1, <2>2
<1>3. ASSUME NEW s \in Recalcs, NEW m \in Message, recalcCommunity(s, m)
      PROVE  CountInv'
  <2>1. s \in Threads /\ Alone(s) /\ pc[s] = "idle" /\ pc'[s] = "score"
        /\ UNCHANGED <<docs, stats, faults>>
    BY <1>3, RecalcAlone
  <2>2. HistoryKept /\ \A c \in Communities : Inserting(c)' = Inserting(c)
    BY <2>1, SameKept, InsertingMoves DEF Inserting
  <2> QED
    BY <2>1, <2>2, CountFrame
<1> QED
  BY <1>1, <1>2, <1>3 DEF Next, Arrive, Depart, DaysPass, vars, world, scores

(* Whatever interleaves, is lost or fails, the member count of a community *)
(* is its joins less its leaves; and while no call fails, every counted    *)
(* join has its membership document as soon as no handler is at work for   *)
(* the community.                                                          *)
THEOREM CountersAndDocuments ==
  ASSUME IsFiniteSet(JoinSubs)
  PROVE  Spec => []CountersAgree
<1>1. TypeInv /\ CountInv => CountersAgree
  <2> SUFFICES ASSUME TypeInv, CountInv, NEW c \in Communities, Quiet(c), faults = 0
               PROVE  Cardinality({n \in DOMAIN docs : docs[n].comm = c}) = stats[c].joins
    BY DEF CountersAgree, CountInv, Balanced
  <2>1. Inserting(c) = {}
    BY DEF Inserting, Quiet, Threads
  <2>2. Cardinality(Inserting(c)) = 0 /\ Cardinality(Recorded(c)) \in Nat
    BY <2>1, FS_EmptySet, DocsFinite DEF Recorded
  <2>3. stats[c].joins = Cardinality(Recorded(c)) + Cardinality(Inserting(c))
    BY DEF CountInv, Backed
  <2> QED
    BY <2>2, <2>3 DEF Recorded
<1>2. TypeInv /\ CountInv /\ [Next]_vars => CountInv'
  BY CountStep
<1> QED
  BY AlwaysTypeInv, CountInit, <1>1, <1>2, PTL DEF Spec

-----------------------------------------------------------------------------
(* The rejoin count.  What a handler has counted and not yet stored lies   *)
(* between the memberships it inserted itself and all there are by now.    *)
HasCounted(s, m) == /\ read[s] <= Cardinality(History(m))
                    /\ read[s] >= Cardinality(OwnHistory(m, s))
HasStored(n)     == /\ docs[n].rejoin <= Cardinality(Earlier(n))
                    /\ docs[n].rejoin >= Cardinality(OwnEarlier(n))

Counting(s, m) == pc[s] \in {"joins", "insert"} /\ job[s] = m

CountedOK == \A s \in JoinSubs, m \in Message : Counting(s, m) => HasCounted(s, m)
StoredOK  == \A n \in DOMAIN docs : HasStored(n)

RejoinInv == faults = 0 => CountedOK /\ StoredOK

LEMMA RejoinFrame ==
  ASSUME TypeInv, RejoinInv, HistoryKept, faults' = 0 => faults = 0,
         \A t \in JoinSubs, m \in Message :
           Counting(t, m)' => Counting(t, m) /\ read'[t] = read[t]
  PROVE  RejoinInv'
<1> SUFFICES ASSUME faults' = 0
             PROVE  CountedOK' /\ StoredOK'
  BY DEF RejoinInv
<1>1. CountedOK'
  BY Kept DEF RejoinInv, CountedOK, HasCounted
<1>2. StoredOK'
  <2>1. \A n \in DOMAIN docs : docs'[n].rejoin = docs[n].rejoin
    BY DEF HistoryKept, SameDoc
  <2> QED
    BY <2>1, Kept DEF RejoinInv, StoredOK, HasStored, HistoryKept
<1> QED
  BY <1>1, <1>2

LEMMA RejoinCount ==
  ASSUME TypeInv, RejoinInv, NEW s \in Threads, CountRejoins(s)
  PROVE  RejoinInv'
<1> SUFFICES ASSUME faults' = 0
             PROVE  CountedOK' /\ StoredOK'
  BY DEF RejoinInv
<1>1. /\ Alone(s) /\ HistoryKept /\ faults = 0 /\ faults' = faults /\ s \in Threads
      /\ read \in [Threads -> Nat] /\ job[s] \in Message /\ job' = job
      /\ CountedOK /\ StoredOK /\ DOMAIN docs' = DOMAIN docs
  BY HandleAlone, SameKept, NoFault
     DEF Handle, CountRejoins, RejoinInv, TypeInv, TypeOK, ThreadOK, Answered
<1>2. PICK m \in Message : m = job[s]
  BY <1>1
<1>3. read'[s] = Cardinality(History(m))
  BY <1>1, <1>2 DEF CountRejoins, Failed, TypeInv
<1>4. HasCounted(s, m)' \/ s \notin JoinSubs
  <2> SUFFICES ASSUME s \in JoinSubs
               PROVE  HasCounted(s, m)'
    OBVIOUS
  <2>1. History(m)' = History(m) /\ OwnHistory(m, s)' = OwnHistory(m, s)
    BY <1>1, Kept
  <2>2. /\ IsFiniteSet(History(m)) /\ Cardinality(History(m)) \in Nat
        /\ Cardinality(OwnHistory(m, s)) \in Nat
    BY DocsFinite DEF History, OwnHistory
  <2>3. Cardinality(OwnHistory(m, s)) <= Cardinality(History(m))
    BY <2>2, FS_Subset DEF OwnHistory
  <2> QED
    BY <1>3, <2>1, <2>2, <2>3 DEF HasCounted
<1>5. \A t \in JoinSubs \ {s}, k \in Message : Counting(t, k)' => HasCounted(t, k)'
  <2>1. \A t \in JoinSubs \ {s} : pc'[t] = pc[t] /\ job'[t] = job[t] /\ read'[t] = read[t]
    BY <1>1 DEF Alone, Threads
  <2> QED
    BY <1>1, <2>1, Kept DEF CountedOK, Counting, HasCounted
<1>6. CountedOK'
  BY <1>1, <1>2, <1>4, <1>5 DEF CountedOK, Counting
<1>7. StoredOK'
  <2>1. \A n \in DOMAIN docs : docs'[n].rejoin = docs[n].rejoin
    BY <1>1 DEF HistoryKept, SameDoc
  <2> QED
    BY <1>1, <2>1, Kept DEF StoredOK, HasStored
<1> QED
  BY <1>6, <1>7

LEMMA RejoinInsert ==
  ASSUME TypeInv, TypeInv', RejoinInv, NEW s \in Threads, InsertMembership(s)
  PROVE  RejoinInv'
<1> SUFFICES ASSUME faults' = 0
             PROVE  CountedOK' /\ StoredOK'
  BY DEF RejoinInv
<1>1. /\ Alone(s) /\ faults = 0 /\ faults' = faults /\ pc[s] = "insert" /\ pc'[s] = "detect"
      /\ job[s] \in Message /\ s \in JoinSubs /\ CountedOK /\ StoredOK
  BY HandleAlone, NoFault
     DEF Handle, InsertMembership, Goto, RejoinInv, TypeInv, TypeOK, ThreadOK, JoinStages, Answered
<1>2. PICK m \in Message : m = job[s]
  BY <1>1
<1>3. CountedOK'
  <2> SUFFICES ASSUME NEW t \in JoinSubs, NEW k \in Message, Counting(t, k)'
               PROVE  HasCounted(t, k)'
    BY DEF CountedOK
  <2>1. t # s /\ t \in Threads
    BY <1>1 DEF Counting, Threads
  <2>2. HasCounted(t, k) /\ read'[t] = read[t] /\ read[t] \in Nat
    BY <1>1, <2>1 DEF Alone, CountedOK, Counting, TypeInv, TypeOK
  <2>3. OwnHistory(k, t)' = OwnHistory(k, t) /\ History(k) \subseteq History(k)'
    BY <1>1, <2>1, Inserted
  <2>4. /\ Cardinality(History(k)) \in Nat /\ Cardinality(History(k)') \in Nat
        /\ IsFiniteSet(History(k)')
    <3>1. History(k) \subseteq DOMAIN docs /\ History(k)' \subseteq DOMAIN docs'
      BY DEF History
    <3>2. \A S \in SUBSET DOMAIN docs' : IsFiniteSet(S) /\ Cardinality(S) \in Nat
      <4>1. docs' \in Seq(UserMembership)
        BY DEF TypeInv, DocsOK
      <4>2. IsFiniteSet(DOMAIN docs')
        BY <4>1, FS_Interval
      <4> QED
        BY <4>2, FS_Subset, FS_CardinalityType
    <3> QED
      BY <3>1, <3>2, DocsFinite
  <2>5. Cardinality(History(k)) <= Cardinality(History(k)')
    BY <2>3, <2>4, FS_Subset
  <2> QED
    BY <2>2, <2>3, <2>4, <2>5 DEF HasCounted
<1>4. PICK n \in Nat : n = Added
  BY <1>1, Inserted
<1>5. HasStored(n)'
  <2>1. /\ docs'[n].user = m.user /\ docs'[n].comm = m.comm
        /\ docs'[n].rejoin = read[s] /\ docs'[n].by = s
    BY <1>1, <1>2, <1>4, InsertAppends DEF Added
  <2>2. \A k \in DOMAIN docs : docs'[k] = docs[k] /\ k < n /\ k \in DOMAIN docs'
    BY <1>1, <1>4, InsertAppends, Inserted
  <2>3. \A k \in DOMAIN docs' : k < n => k \in DOMAIN docs
    BY <1>1, <1>4, InsertAppends DEF Added
  <2>4. Earlier(n)' = History(m)
    BY <2>1, <2>2, <2>3 DEF Earlier, History
  <2>5. OwnEarlier(n)' = OwnHistory(m, s)
    <3>1. History(m) \subseteq DOMAIN docs
      BY DEF History
    <3> HIDE DEF Earlier, History
    <3> QED
      BY <2>1, <2>2, <2>4, <3>1 DEF OwnEarlier, OwnHistory
  <2>6. HasCounted(s, m)
    BY <1>1, <1>2 DEF CountedOK, Counting
  <2> QED
    BY <2>1, <2>4, <2>5, <2>6 DEF HasStored, HasCounted
<1>6. StoredOK'
  <2>1. \A k \in DOMAIN docs' : k \in DOMAIN docs \/ k = n
    BY <1>1, <1>4, InsertAppends DEF Added
  <2>2. \A k \in DOMAIN docs : HasStored(k)'
    BY <1>1, InsertAppends, Inserted DEF StoredOK, HasStored
  <2> QED
    BY <1>5, <2>1, <2>2 DEF StoredOK
<1> QED
  BY <1>3, <1>6

LEMMA RejoinStep ==
  ASSUME TypeInv, TypeInv', RejoinInv, [Next]_vars
  PROVE  RejoinInv'
<1>1. CASE UNCHANGED <<docs, pc, job, read>> /\ faults' = faults
  BY <1>1, SameKept, RejoinFrame DEF Counting
<1>2. ASSUME NEW s \in Threads, Handle(s)
      PROVE  RejoinInv'
  <2>1. CASE CountRejoins(s) \/ InsertMembership(s)
    BY <2>1, RejoinCount, RejoinInsert
  <2>2. CASE ~(CountRejoins(s) \/ InsertMembership(s))
    <3>1. /\ Alone(s) /\ HistoryKept /\ (UNCHANGED faults \/ Failed)
      BY <1>2, <2>2, HandleAlone, HandleDocs
    <3>2. \/ pc'[s] \notin {"joins", "insert"}
          \/ pc[s] = "joins" /\ job'[s] = job[s] /\ read'[s] = read[s]
      <4>1. pc \in [Threads -> Stages]
        BY StagesType DEF AllStages
      <4> QED
        BY <1>2, <2>2, <4>1
           DEF Handle, Receive, IncrementJoins, detectJoinLoopFraud, FindLastJoin,
               CloseMembership, IncrementLeaves, Calculate, UpdateCommunityScore, PublishScore,
               Goto, Return
    <3>3. \A t \in JoinSubs, m \in Message :
            Counting(t, m)' => Counting(t, m) /\ read'[t] = read[t]
      BY <3>1, <3>2 DEF Counting, Alone, Threads
    <3> QED
      BY <3>1, <3>3, RejoinFrame, NoFault
  <2> QED
    BY <2>1, <2>2
<1>3. ASSUME NEW s \in Recalcs, NEW m \in Message, recalcCommunity(s, m)
      PROVE  RejoinInv'
  <2>1. s \in Threads /\ Alone(s) /\ pc'[s] = "score" /\ UNCHANGED <<docs, faults>>
    BY <1>3, RecalcAlone
  <2>2. \A t \in JoinSubs, k \in Message :
          Counting(t, k)' => Counting(t, k) /\ read'[t] = read[t]
    BY <2>1 DEF Counting, Alone, Threads
  <2> QED
    BY <2>1, <2>2, SameKept, RejoinFrame
<1> QED
  BY <1>1, <1>2, <1>3 DEF Next, Arrive, Depart, DaysPass, vars, world, scores

(* While no call fails, the rejoin_count of a membership never exceeds the *)
(* number of earlier memberships of the user in the community, and misses  *)
(* none of those its own subscription inserted.                            *)
THEOREM RejoinsCounted == Spec => []RejoinsAreCounted
<1>1. Init => RejoinInv
  BY DEF Init, RejoinInv, CountedOK, StoredOK, Counting, Threads
<1>2. TypeInv /\ TypeInv' /\ RejoinInv /\ [Next]_vars => RejoinInv'
  BY RejoinStep
<1>3. RejoinInv => RejoinsAreCounted
  BY DEF RejoinInv, StoredOK, HasStored, RejoinsAreCounted, Earlier, OwnEarlier
<1> QED
  BY AlwaysTypeInv, <1>1, <1>2, <1>3, PTL DEF Spec

-----------------------------------------------------------------------------
(* The alarm.  Three joins within a week are reported, or the last of them *)
(* is of today and one of the handlers has yet to look.                    *)
Looking(m) == \E s \in JoinSubs : pc[s] = "detect" /\ job[s] = m

Reported(m, last) ==
  Cardinality(WeekBefore(m, last)) >= 3 =>
    m \in alarms \/ (docs[last].day = today /\ Looking(m))

LoopInv == faults = 0 => \A m \in Message : \A last \in History(m) : Reported(m, last)

LEMMA LoopFrame ==
  ASSUME TypeInv, LoopInv, HistoryKept, faults' = 0 => faults = 0,
         alarms \subseteq alarms', today' = today,
         \A m \in Message : Looking(m) => Looking(m)'
  PROVE  LoopInv'
<1> SUFFICES ASSUME faults' = 0, NEW m \in Message, NEW last \in History(m)'
             PROVE  Reported(m, last)'
  BY DEF LoopInv
<1>1. last \in History(m) /\ WeekBefore(m, last)' = WeekBefore(m, last)
      /\ docs'[last].day = docs[last].day
  BY Kept
<1>2. Reported(m, last)
  BY <1>1 DEF LoopInv
<1> QED
  BY <1>1, <1>2 DEF Reported

(* Days pass while nobody is looking. *)
LEMMA LoopDays ==
  ASSUME TypeInv, LoopInv, NEW n \in Strides, DaysPass(n)
  PROVE  LoopInv'
<1> SUFFICES ASSUME faults' = 0, NEW m \in Message, NEW last \in History(m)'
             PROVE  Reported(m, last)'
  BY DEF LoopInv
<1>1. HistoryKept /\ faults = 0 /\ UNCHANGED alarms /\ ~Looking(m)
  BY SameKept DEF DaysPass, Looking, Threads
<1>2. last \in History(m) /\ WeekBefore(m, last)' = WeekBefore(m, last)
  BY <1>1, Kept
<1>3. Reported(m, last)
  BY <1>1, <1>2 DEF LoopInv
<1> QED
  BY <1>1, <1>2, <1>3 DEF Reported

(* The handler that inserted the last of the three has yet to look. *)
LEMMA LoopInsert ==
  ASSUME TypeInv, TypeInv', LoopInv, NEW s \in Threads, InsertMembership(s)
  PROVE  LoopInv'
<1> SUFFICES ASSUME faults' = 0, NEW m \in Message, NEW last \in History(m)'
             PROVE  Reported(m, last)'
  BY DEF LoopInv
<1>1. /\ Alone(s) /\ faults = 0 /\ faults' = faults /\ pc[s] = "insert" /\ pc'[s] = "detect"
      /\ job' = job /\ s \in JoinSubs /\ UNCHANGED alarms /\ today' = today
  BY HandleAlone, NoFault
     DEF Handle, InsertMembership, Goto, TypeInv, TypeOK, ThreadOK, JoinStages, Answered, world
<1>2. \A k \in Message : Looking(k) => Looking(k)'
  BY <1>1 DEF Looking, Alone, Threads
<1>3. CASE m = job[s] /\ docs'[last].day = today
  <2>1. Looking(m)'
    BY <1>1, <1>3 DEF Looking
  <2> QED
    BY <1>1, <1>3, <2>1 DEF Reported
<1>4. CASE m # job[s] \/ docs'[last].day # today
  <2>1. PICK n \in Nat : n = Added
    BY <1>1, Inserted
  <2>2. /\ docs'[n].day = today /\ n \notin DOMAIN docs
        /\ \A k \in DOMAIN docs : docs'[k] = docs[k]
        /\ History(m)' = IF m = job[s] THEN History(m) \cup {n} ELSE History(m)
    BY <1>1, <2>1, InsertAppends, Inserted DEF Added
  <2>3. last \in History(m) /\ last \in DOMAIN docs /\ docs'[last] = docs[last]
    BY <1>4, <2>2 DEF History
  <2>4. WeekBefore(m, last)' = WeekBefore(m, last)
    <3>1. History(m) \subseteq DOMAIN docs
      BY DEF History
    <3>2. m = job[s] => ~(docs'[n].day <= docs'[last].day)
      BY <1>4, <2>2, <2>3, DocNumbers
    <3>3. n \notin WeekBefore(m, last)'
      <4>1. CASE m = job[s]
        <5>1. docs[last].day \in Nat /\ today \in Nat
          BY <2>3, DocNumbers
        <5> QED
          BY <2>2, <2>3, <3>2, <4>1, <5>1 DEF WeekBefore
      <4>2. CASE m # job[s]
        BY <2>2, <3>1, <4>2 DEF WeekBefore
      <4> QED
        BY <4>1, <4>2
    <3> HIDE DEF History
    <3> QED
      BY <2>2, <2>3, <3>1, <3>3 DEF WeekBefore
  <2>5. Reported(m, last)
    BY <1>1, <2>3 DEF LoopInv
  <2>6. CASE m # job[s]
    BY <1>1, <1>2, <2>3, <2>4, <2>5 DEF Reported
  <2>7. CASE docs'[last].day # today
    BY <1>1, <1>2, <2>3, <2>4, <2>5, <2>7 DEF Reported
  <2> QED
    BY <1>4, <2>6, <2>7
<1> QED
  BY <1>3, <1>4

(* A handler that looks sees all three: those within the week before a     *)
(* join of today are those of the last seven days.                         *)
LEMMA LoopDetect ==
  ASSUME TypeInv, LoopInv, NEW s \in Threads, detectJoinLoopFraud(s)
  PROVE  LoopInv'
<1> SUFFICES ASSUME faults' = 0, NEW m \in Message, NEW last \in History(m)'
             PROVE  Reported(m, last)'
  BY DEF LoopInv
<1>1. /\ Alone(s) /\ faults = 0 /\ faults' = faults /\ HistoryKept /\ today' = today
      /\ pc[s] = "detect" /\ job' = job /\ s \in JoinSubs /\ job[s] \in Message
  BY HandleAlone, NoFault, SameKept
     DEF Handle, detectJoinLoopFraud, Goto, TypeInv, TypeOK, ThreadOK, JoinStages, Answered, world
<1>2. alarms' = alarms \cup IF Cardinality(RecentJoins(job[s])) >= 3 THEN {job[s]} ELSE {}
  BY <1>1 DEF detectJoinLoopFraud, Failed, TypeInv
<1>3. last \in History(m) /\ WeekBefore(m, last)' = WeekBefore(m, last)
      /\ docs'[last].day = docs[last].day
  BY <1>1, Kept
<1>4. Reported(m, last)
  BY <1>1, <1>3 DEF LoopInv
<1>5. SUFFICES ASSUME Cardinality(WeekBefore(m, last)) >= 3, m \notin alarms
               PROVE  m \in alarms' \/ (docs'[last].day = today' /\ Looking(m)')
  BY <1>2, <1>3 DEF Reported
<1>6. docs[last].day = today /\ Looking(m)
  BY <1>4, <1>5 DEF Reported
<1>7. CASE m = job[s]
  <2>1. WeekBefore(m, last) \subseteq RecentJoins(m)
    <3>1. \A n \in DOMAIN docs : docs[n].day \in Nat /\ today \in Nat
      BY DocNumbers
    <3>2. \A n \in History(m) :
            docs[n].day \in docs[last].day - 6..docs[last].day => docs[n].day > today - 7
      BY <1>6, <3>1 DEF History
    <3> HIDE DEF History
    <3> QED
      BY <3>2 DEF WeekBefore, RecentJoins
  <2>2. /\ IsFiniteSet(RecentJoins(m)) /\ Cardinality(RecentJoins(m)) \in Nat
        /\ Cardinality(WeekBefore(m, last)) \in Nat
    BY DocsFinite DEF RecentJoins, WeekBefore, History
  <2>3. Cardinality(RecentJoins(m)) >= 3
    BY <1>5, <2>1, <2>2, FS_Subset
  <2> QED
    BY <1>2, <1>7, <2>3
<1>8. CASE m # job[s]
  <2>1. Looking(m)'
    BY <1>1, <1>6, <1>8 DEF Looking, Alone, Threads
  <2> QED
    BY <1>1, <1>3, <1>6, <2>1
<1> QED
  BY <1>7, <1>8

LEMMA LoopStep ==
  ASSUME TypeInv, TypeInv', LoopInv, [Next]_vars
  PROVE  LoopInv'
<1>1. CASE UNCHANGED <<docs, alarms, pc, job, today>> /\ faults' = faults
  BY <1>1, SameKept, LoopFrame DEF Looking
<1>2. CASE \E n \in Strides : DaysPass(n)
  BY <1>2, LoopDays
<1>3. ASSUME NEW s \in Threads, Handle(s)
      PROVE  LoopInv'
  <2>1. CASE InsertMembership(s) \/ detectJoinLoopFraud(s)
    BY <2>1, LoopInsert, LoopDetect
  <2>2. CASE ~(InsertMembership(s) \/ detectJoinLoopFraud(s))
    <3>1. /\ Alone(s) /\ HistoryKept /\ (UNCHANGED faults \/ Failed) /\ today' = today
      BY <1>3, <2>2, HandleAlone, HandleDocs
    <3>2. pc[s] # "detect" /\ UNCHANGED alarms
      BY <1>3, <2>2
         DEF Handle, Receive, CountRejoins, IncrementJoins, FindLastJoin, CloseMembership,
             IncrementLeaves, Calculate, UpdateCommunityScore, PublishScore
    <3>3. \A m \in Message : Looking(m) => Looking(m)'
      BY <3>1, <3>2 DEF Looking, Alone, Threads
    <3> QED
      BY <3>1, <3>2, <3>3, LoopFrame, NoFault
  <2> QED
    BY <2>1, <2>2
<1>4. ASSUME NEW s \in Recalcs, NEW m \in Message, recalcCommunity(s, m)
      PROVE  LoopInv'
  <2>1. /\ s \in Threads /\ Alone(s) /\ pc[s] = "idle"
        /\ UNCHANGED <<docs, alarms, today, faults>>
    BY <1>4, RecalcAlone
  <2>2. \A k \in Message : Looking(k) => Looking(k)'
    BY <2>1 DEF Looking, Alone, Threads
  <2> QED
    BY <2>1, <2>2, SameKept, LoopFrame
<1> QED
  BY <1>1, <1>2, <1>3, <1>4 DEF Next, Arrive, Depart, vars, world, scores

(* A join loop is never missed: while no call fails, three joins within    *)
(* seven days are reported once the handlers that recorded them have       *)
(* looked, on whichever subscriptions they ran.                            *)
THEOREM LoopsReported == Spec => []LoopIsReported
<1>1. Init => LoopInv
  BY DEF Init, LoopInv, History
<1>2. TypeInv /\ TypeInv' /\ LoopInv /\ [Next]_vars => LoopInv'
  BY LoopStep
<1>3. LoopInv => LoopIsReported
  <2> SUFFICES ASSUME LoopInv, faults = 0, NEW m \in Message,
                      \A s \in Threads : ~(pc[s] = "detect" /\ job[s] = m),
                      NEW last \in History(m), Cardinality(WeekBefore(m, last)) >= 3
               PROVE  m \in alarms
    BY DEF LoopIsReported, WeekBefore
  <2>1. ~Looking(m)
    BY DEF Looking, Threads
  <2> QED
    BY <2>1 DEF LoopInv, Reported
<1> QED
  BY AlwaysTypeInv, <1>1, <1>2, <1>3, PTL DEF Spec

-----------------------------------------------------------------------------
(***************************************************************************)
(* Theorems about ScoreFlow, for any number of instances of                *)
(* community-service and of callers, and everything FraudMemberships       *)
(* leaves open.                                                            *)
(***************************************************************************)

flow == <<engine, payout, calls>>

-----------------------------------------------------------------------------
(* Type correctness: the types of both modules, and what keeps the threads *)
(* of fraud-engine in step.                                                *)
FlowTypeInv == TypeInv /\ FlowTypeOK

Update == [comm : Communities, score : 0..100]

LEMMA FlowTypes ==
  ASSUME FlowTypeInv
  PROVE  /\ wire \in [Instances -> Seq(Update)] /\ quality \in [Communities -> 0..100]
         /\ lost \in 0..MaxLost /\ ask \in [Callers -> Question] /\ heard \in [Callers -> BOOLEAN]
         /\ answer \in [Callers -> Answer] /\ requests \in Seq(Request)
         /\ serving \in [to : Request \cup {NoRequest}, says : Answer]
         /\ snapshot \in [Communities -> Score] /\ told \in [Communities -> Score]
         /\ faults \in Nat /\ TypeInv
  BY DEF FlowTypeInv, FlowTypeOK, TypeInv, TypeOK, Update

LEMMA EngineSame == TypeInv /\ UNCHANGED engine => TypeInv'
  BY TypeStep DEF engine, vars

(* A read of fraud-engine's own answers: it may fail. *)
LEMMA EngineRead ==
  ASSUME TypeInv, UNCHANGED <<world, docs, stats, scores, alarms, pc, job, read, recalcs>>,
         UNCHANGED faults \/ Failed
  PROVE  TypeInv' /\ UNCHANGED <<told, snapshot, pc, job>>
  BY DEF Failed, world, scores, TypeInv, TypeOK, DocsOK, ThreadOK

(* The one update a step of fraud-engine may publish. *)
Tells(s) ==
  /\ pc[s] = "publish" /\ job[s].comm \in Communities /\ read[s] \in 0..100
  /\ told' = [told EXCEPT ![job[s].comm] = read[s]]
  /\ wire' = [i \in Instances |-> Append(wire[i], [comm |-> job[s].comm, score |-> read[s]])]
  /\ UNCHANGED <<snapshot, faults>>

LEMMA TellsOrNot ==
  ASSUME FlowTypeInv, FraudEngine
  PROVE  UNCHANGED <<wire, told>> \/ \E s \in Threads : Tells(s)
<1>1. ASSUME NEW s \in Threads, PublishScore(s)
      PROVE  Tells(s)
  <2>1. Handle(s) /\ Alone(s)
    BY <1>1, HandleAlone DEF Handle, FlowTypeInv
  <2>2. pc[s] = "publish" /\ pc'[s] = "idle" /\ job[s] \in Message /\ read[s] \in 0..100
    BY <1>1 DEF PublishScore, Return, Goto, FlowTypeInv, TypeInv, TypeOK, ThreadOK, SaveStages
  <2> DEFINE u == [comm |-> job[s].comm, score |-> read[s]]
  <2>3. {t \in Threads : Publishing(t)} = {s}
    BY <2>1, <2>2 DEF Publishing, Alone
  <2>4. Updates = {u}
    BY <2>3 DEF Updates
  <2> HIDE DEF u
  <2>5. (CHOOSE x \in {u} : TRUE) = u
    OBVIOUS
  <2>6. wire' = [i \in Instances |-> Append(wire[i], u)]
    BY <2>4, <2>5 DEF FraudEngine, Deliver
  <2> QED
    BY <1>1, <2>2, <2>6 DEF Tells, PublishScore, Message, u
<1>2. ASSUME \A s \in Threads : ~PublishScore(s)
      PROVE  UNCHANGED <<wire, told>>
  <2>1. Next
    BY DEF FraudEngine
  <2>2. UNCHANGED told /\ \A t \in Threads : ~Publishing(t)
    <3>1. CASE UNCHANGED <<told, pc>>
      BY <3>1 DEF Publishing
    <3>2. ASSUME NEW s \in Threads, Handle(s)
          PROVE  UNCHANGED told /\ \A t \in Threads : ~Publishing(t)
      <4>1. Alone(s) /\ ~PublishScore(s)
        BY <1>2, <3>2, HandleAlone DEF FlowTypeInv
      <4>2. pc[s] # "publish" /\ UNCHANGED told
        BY <3>2, <4>1
           DEF Handle, Receive, CountRejoins, IncrementJoins, InsertMembership,
               detectJoinLoopFraud, FindLastJoin, CloseMembership, IncrementLeaves, Calculate,
               UpdateCommunityScore, scores
      <4> QED
        BY <4>1, <4>2 DEF Publishing, Alone
    <3>3. ASSUME NEW s \in Recalcs, NEW m \in Message, recalcCommunity(s, m)
          PROVE  UNCHANGED told /\ \A t \in Threads : ~Publishing(t)
      <4>1. Alone(s) /\ pc[s] = "idle" /\ UNCHANGED told
        BY <3>3, RecalcAlone DEF FlowTypeInv, recalcCommunity, scores
      <4> QED
        BY <4>1 DEF Publishing, Alone
    <3> QED
      BY <2>1, <3>1, <3>2, <3>3 DEF Next, Arrive, Depart, DaysPass, scores
  <2>3. Updates = {}
    BY <2>2 DEF Updates
  <2> QED
    BY <2>2, <2>3 DEF FraudEngine, Deliver
<1> QED
  BY <1>1, <1>2

LEMMA FlowTypeInit == FlowInit => FlowTypeInv
<1> SUFFICES ASSUME FlowInit
             PROVE  FlowTypeInv
  OBVIOUS
<1>1. TypeInv
  BY TypeInit DEF FlowInit
<1>2. NoAnswer \in Answer
  BY DEF NoAnswer, Said, Answer
<1>3. serving \in [to : Request \cup {NoRequest}, says : Answer] /\ answer \in [Callers -> Answer]
  BY <1>2 DEF FlowInit
<1>4. ask \in [Callers -> Question]
  BY FlowAssumption DEF FlowInit, Question
<1>5. requests \in Seq(Request) /\ heard \in [Callers -> BOOLEAN] /\ lost \in 0..MaxLost
  BY FlowAssumption DEF FlowInit
<1>6. wire \in [Instances -> Seq(Update)] /\ quality \in [Communities -> 0..100]
  BY DEF FlowInit, DefaultQuality
<1> QED
  BY <1>1, <1>3, <1>4, <1>5, <1>6 DEF FlowTypeInv, FlowTypeOK, TypeInv, Update

(* The answers are answers: a stored score is between 0 and 100, and the   *)
(* three tables agree on it.                                               *)
LEMMA Tables ==
  ASSUME NEW v \in Score
  PROVE  /\ revenueMultiplierFromScore(v) = Engine!revenueMultiplier(v)
         /\ RevenueMultiplier(v) = Engine!revenueMultiplier(v)
         /\ Engine!revenueMultiplier(v) \in {0, 5, 8, 10}
  BY DEF revenueMultiplierFromScore, RevenueMultiplier, Engine!revenueMultiplier, Score, NoScore

LEMMA LatestAnswers ==
  ASSUME FlowTypeInv, NEW c \in Communities, NEW v \in 0..100
  PROVE  /\ Latest(c, Said(FALSE, v, 8), RevenueMultiplier(snapshot[c])) \in Answer
         /\ Latest(c, Said(FALSE, v, 8), revenueMultiplierFromScore(snapshot[c])) \in Answer
<1>1. snapshot[c] \in Score
  BY FlowTypes
<1>2. snapshot[c] # NoScore => snapshot[c] \in 0..100
  BY <1>1 DEF Score
<1>3. /\ RevenueMultiplier(snapshot[c]) \in {0, 5, 8, 10}
      /\ revenueMultiplierFromScore(snapshot[c]) \in {0, 5, 8, 10}
  BY <1>1, Tables
<1> QED
  BY <1>2, <1>3 DEF Latest, Said, Answer

LEMMA FlowTypeFrame ==
  ASSUME FlowTypeInv, TypeInv',
         wire' \in [Instances -> Seq(Update)], quality' \in [Communities -> 0..100],
         lost' \in 0..MaxLost, ask' \in [Callers -> Question], heard' \in [Callers -> BOOLEAN],
         answer' \in [Callers -> Answer], requests' \in Seq(Request),
         serving' \in [to : Request \cup {NoRequest}, says : Answer]
  PROVE  FlowTypeInv'
  BY DEF FlowTypeInv, FlowTypeOK, TypeInv, Update

LEMMA EngineType ==
  ASSUME FlowTypeInv, FraudEngine
  PROVE  FlowTypeInv'
<1>1. TypeInv'
  BY TypeStep DEF FraudEngine, FlowTypeInv
<1>2. wire' \in [Instances -> Seq(Update)]
  <2>1. ASSUME NEW s \in Threads, Tells(s)
        PROVE  wire' \in [Instances -> Seq(Update)]
    <3> DEFINE u == [comm |-> job[s].comm, score |-> read[s]]
    <3>1. u \in Update /\ wire' = [i \in Instances |-> Append(wire[i], u)]
      BY <2>1 DEF Tells, Update
    <3> HIDE DEF u
    <3>2. \A i \in Instances : Append(wire[i], u) \in Seq(Update)
      BY <3>1, FlowTypes
    <3> QED
      BY <3>1, <3>2
  <2> QED
    BY <2>1, TellsOrNot, FlowTypes
<1> QED
  BY <1>1, <1>2, FlowTypes, FlowTypeFrame DEF FraudEngine, calls

LEMMA QualityType ==
  ASSUME FlowTypeInv, NEW i \in Instances, UpdateQualityScore(i)
  PROVE  FlowTypeInv'
<1>1. /\ wire[i] \in Seq(Update) /\ wire[i] # <<>> /\ wire \in [Instances -> Seq(Update)]
  BY FlowTypes DEF UpdateQualityScore
<1>2. Head(wire[i]) \in Update /\ Tail(wire[i]) \in Seq(Update)
  BY <1>1
<1>3. wire' \in [Instances -> Seq(Update)]
  BY <1>1, <1>2 DEF UpdateQualityScore
<1>4. quality' \in [Communities -> 0..100]
  BY <1>2, FlowTypes DEF UpdateQualityScore, Update
<1>5. lost' \in 0..MaxLost
  BY FlowTypes, FlowAssumption DEF UpdateQualityScore
<1>6. TypeInv'
  BY EngineSame DEF UpdateQualityScore, FlowTypeInv
<1> QED
  BY <1>3, <1>4, <1>5, <1>6, FlowTypes, FlowTypeFrame DEF UpdateQualityScore, calls

LEMMA AskType ==
  ASSUME FlowTypeInv, NEW r \in Callers, NEW c \in Communities, Ask(r, c)
  PROVE  FlowTypeInv'
<1>1. ask[r] \in Question /\ ask[r].n \in 0..MaxAttempts /\ ask[r].n + 1 \in 1..MaxAttempts
  BY FlowTypes, FlowAssumption DEF Question, Ask
<1>2. ask' \in [Callers -> Question]
  <2>1. [comm |-> c, n |-> ask[r].n + 1, waits |-> TRUE] \in Question
    BY <1>1 DEF Question
  <2> QED
    BY <2>1, FlowTypes DEF Ask
<1>3. requests' \in Seq(Request)
  <2>1. [caller |-> r, comm |-> c, n |-> ask[r].n + 1] \in Request
    BY <1>1 DEF Request
  <2> QED
    BY <2>1, FlowTypes DEF Ask
<1>4. answer' \in [Callers -> Answer]
  BY FlowTypes DEF Ask, NoAnswer, Said, Answer
<1>5. heard' \in [Callers -> BOOLEAN]
  BY FlowTypes DEF Ask
<1>6. TypeInv'
  BY EngineSame DEF Ask, FlowTypeInv
<1> QED
  BY <1>2, <1>3, <1>4, <1>5, <1>6, FlowTypes, FlowTypeFrame DEF Ask, payout

LEMMA GetType ==
  ASSUME FlowTypeInv, NEW r \in Callers, NEW c \in Communities, getCommunityScore(r, c)
  PROVE  FlowTypeInv'
<1>1. ask' \in [Callers -> Question]
  <2>1. ask[r] \in Question /\ ask[r].n + 1 \in 0..MaxAttempts
    BY FlowTypes, FlowAssumption DEF Question, getCommunityScore
  <2> DEFINE q == [[ask[r] EXCEPT !.comm = c] EXCEPT !.n = @ + 1]
  <2>2. q \in Question
    <3>1. \A k \in 0..MaxAttempts : [[ask[r] EXCEPT !.comm = c] EXCEPT !.n = k] \in Question
      BY <2>1 DEF Question
    <3>2. [ask[r] EXCEPT !.comm = c].n = ask[r].n
      BY <2>1 DEF Question
    <3> QED
      BY <2>1, <3>1, <3>2
  <2>3. ask \in [Callers -> Question] /\ ask' = [ask EXCEPT ![r].comm = c, ![r].n = @ + 1]
    BY FlowTypes DEF getCommunityScore
  <2>4. ask' = [ask EXCEPT ![r] = q]
    BY <2>3
  <2> HIDE DEF q
  <2> QED
    BY <2>2, <2>3, <2>4
<1>2. answer' \in [Callers -> Answer]
  <2>1. Latest(c, Said(FALSE, 50, 8), RevenueMultiplier(snapshot[c])) \in Answer
    <3>1. 50 \in 0..100
      OBVIOUS
    <3> QED
      BY <3>1, LatestAnswers, Zenon
  <2>2. ZeroSnapshot \in Answer
    BY DEF ZeroSnapshot, Said, Answer
  <2> QED
    BY <2>1, <2>2, FlowTypes DEF getCommunityScore
<1>3. heard' \in [Callers -> BOOLEAN]
  BY FlowTypes DEF getCommunityScore
<1>4. TypeInv'
  BY EngineRead DEF getCommunityScore, Answered, FlowTypeInv
<1> QED
  BY <1>1, <1>2, <1>3, <1>4, FlowTypes, FlowTypeFrame DEF getCommunityScore, payout

LEMMA GiveUpType ==
  ASSUME FlowTypeInv, NEW r \in Callers, GiveUp(r)
  PROVE  FlowTypeInv'
<1>1. ask' \in [Callers -> Question]
  BY FlowTypes DEF GiveUp, Question
<1>2. TypeInv'
  BY EngineSame DEF GiveUp, FlowTypeInv
<1> QED
  BY <1>1, <1>2, FlowTypes, FlowTypeFrame DEF GiveUp, payout

LEMMA ReadType ==
  ASSUME FlowTypeInv, ReadScore
  PROVE  FlowTypeInv'
<1>1. requests \in Seq(Request) /\ requests # <<>>
  BY FlowTypes DEF ReadScore
<1>2. Head(requests) \in Request /\ Tail(requests) \in Seq(Request)
  BY <1>1
<1>3. PICK q \in Request, c \in Communities : q = Head(requests) /\ c = q.comm
  BY <1>2 DEF Request
<1>4. Latest(c, Said(FALSE, 70, 8), revenueMultiplierFromScore(snapshot[c])) \in Answer
  <2>1. 70 \in 0..100
    OBVIOUS
  <2> QED
    BY <2>1, LatestAnswers, Zenon
<1>5. ZeroSnapshot \in Answer
  BY DEF ZeroSnapshot, Said, Answer
<1>6. serving' \in [to : Request \cup {NoRequest}, says : Answer]
  <2>1. PICK a \in Answer : serving' = [to |-> q, says |-> a]
    BY <1>3, <1>4, <1>5 DEF ReadScore
  <2> QED
    BY <2>1
<1>7. TypeInv'
  BY EngineRead DEF ReadScore, Answered, FlowTypeInv
<1> QED
  BY <1>2, <1>6, <1>7, FlowTypes, FlowTypeFrame DEF ReadScore, payout

LEMMA RespondType ==
  ASSUME FlowTypeInv, Respond
  PROVE  FlowTypeInv'
<1>1. serving.to \in Request /\ serving.to.caller \in Callers /\ serving.says \in Answer
  BY FlowTypes DEF Respond, Request
<1>2. ask' \in [Callers -> Question] /\ answer' \in [Callers -> Answer]
  <2>1. PICK r \in Callers, a \in Answer : r = serving.to.caller /\ a = serving.says
    BY <1>1
  <2>2. ask \in [Callers -> Question] /\ answer \in [Callers -> Answer]
    BY FlowTypes
  <2>3. \/ UNCHANGED <<answer, ask>>
        \/ /\ answer' = [answer EXCEPT ![r] = a]
           /\ ask' = [ask EXCEPT ![r].waits = FALSE]
    BY <2>1 DEF Respond
  <2> QED
    BY <2>2, <2>3 DEF Question
<1>3. serving' \in [to : Request \cup {NoRequest}, says : Answer]
  <2>1. NoAnswer \in Answer
    BY DEF NoAnswer, Said, Answer
  <2> QED
    BY <2>1 DEF Respond
<1>4. TypeInv'
  BY EngineSame DEF Respond, FlowTypeInv
<1> QED
  BY <1>2, <1>3, <1>4, FlowTypes, FlowTypeFrame DEF Respond, payout

LEMMA FlowTypeStep == FlowTypeInv /\ [FlowNext]_flow => FlowTypeInv'
<1>1. ASSUME FlowTypeInv, UNCHANGED flow
      PROVE  FlowTypeInv'
  <2>1. TypeInv'
    BY <1>1, EngineSame DEF flow, FlowTypeInv
  <2> QED
    BY <1>1, <2>1, FlowTypes, FlowTypeFrame DEF flow, payout, calls
<1>2. ASSUME FlowTypeInv, FlowNext
      PROVE  FlowTypeInv'
  BY <1>2, EngineType, QualityType, AskType, GetType, GiveUpType, ReadType, RespondType
     DEF FlowNext
<1> QED
  BY <1>1, <1>2

LEMMA AlwaysFlowTypeInv == FlowSpec => []FlowTypeInv
  BY FlowTypeInit, FlowTypeStep, PTL DEF FlowSpec, flow

(* Scores stay between 0 and 100 from the counters of fraud-engine to the  *)
(* payouts and the answers, whatever interleaves, is lost or fails.        *)
THEOREM FlowTypeCorrect == FlowSpec => []FlowTypeOK
<1>1. FlowTypeInv => FlowTypeOK
  BY DEF FlowTypeInv
<1> QED
  BY AlwaysFlowTypeInv, <1>1, PTL

-----------------------------------------------------------------------------
(* Payouts.  The last message about a community that an instance has yet   *)
(* to work off is what was told last, and once none of them has any, the   *)
(* quality score is.                                                       *)
LastOf(i, c, n) == /\ wire[i][n].comm = c
                   /\ \A k \in DOMAIN wire[i] : k > n => wire[i][k].comm # c

Newest(c)  == \A i \in Instances : \A n \in DOMAIN wire[i] :
                LastOf(i, c, n) => wire[i][n].score = told[c]
Settled(c) == Silent(c) => quality[c] = LastTold(c)

PaidInv == ChatIdColumn /\ lost = 0 => \A c \in Communities : Newest(c) /\ Settled(c)

(* Without the column the quality score is never written. *)
Unwritten == ~ChatIdColumn => \A c \in Communities : quality[c] = DefaultQuality

(* A score is told: it becomes the last message of every instance. *)
LEMMA PaidTells ==
  ASSUME Instances # {}, FlowTypeInv, PaidInv, NEW s \in Threads, Tells(s),
         UNCHANGED <<quality, lost>>
  PROVE  PaidInv'
<1> SUFFICES ASSUME ChatIdColumn, lost' = 0, NEW c \in Communities
             PROVE  Newest(c)' /\ Settled(c)'
  BY DEF PaidInv
<1>1. PICK d \in Communities, v \in 0..100 : d = job[s].comm /\ v = read[s]
  BY DEF Tells
<1>2. PICK u \in Update : u.comm = d /\ u.score = v
                          /\ wire' = [i \in Instances |-> Append(wire[i], u)]
  <2> DEFINE w == [comm |-> d, score |-> v]
  <2>1. w \in Update /\ w.comm = d /\ w.score = v
    BY DEF Update
  <2>2. wire' = [i \in Instances |-> Append(wire[i], w)]
    BY <1>1 DEF Tells
  <2> HIDE DEF w
  <2> QED
    BY <2>1, <2>2
<1>3. \A i \in Instances :
        /\ Len(wire[i]) \in Nat /\ DOMAIN wire[i] = 1..Len(wire[i])
        /\ DOMAIN wire'[i] = 1..(Len(wire[i]) + 1)
        /\ wire'[i][Len(wire[i]) + 1] = u
        /\ \A n \in DOMAIN wire[i] : wire'[i][n] = wire[i][n]
  <2> SUFFICES ASSUME NEW i \in Instances
               PROVE  /\ Len(wire[i]) \in Nat /\ DOMAIN wire[i] = 1..Len(wire[i])
                      /\ DOMAIN wire'[i] = 1..(Len(wire[i]) + 1)
                      /\ wire'[i][Len(wire[i]) + 1] = u
                      /\ \A n \in DOMAIN wire[i] : wire'[i][n] = wire[i][n]
    OBVIOUS
  <2>1. wire[i] \in Seq(Update) /\ wire'[i] = Append(wire[i], u)
    BY <1>2, FlowTypes
  <2> QED
    BY <2>1
<1>4. \A e \in Communities : told'[e] = IF e = d THEN v ELSE told[e]
  BY <1>1, FlowTypes DEF Tells
<1>5. CASE c = d
  <2>1. \A i \in Instances : \A n \in DOMAIN wire'[i] :
          LastOf(i, c, n)' => n = Len(wire[i]) + 1
    <3> SUFFICES ASSUME NEW i \in Instances, NEW n \in DOMAIN wire'[i], LastOf(i, c, n)'
                 PROVE  n = Len(wire[i]) + 1
      OBVIOUS
    <3> DEFINE k == Len(wire[i]) + 1
    <3>1. k \in DOMAIN wire'[i] /\ wire'[i][k].comm = c
      BY <1>2, <1>3, <1>5
    <3>2. ~(k > n)
      BY <3>1 DEF LastOf
    <3> QED
      BY <1>3, <3>2
  <2>2. Newest(c)'
    BY <1>2, <1>3, <1>4, <1>5, <2>1 DEF Newest
  <2>3. ~Silent(c)'
    <3>1. PICK i \in Instances : TRUE
      OBVIOUS
    <3> DEFINE k == Len(wire[i]) + 1
    <3>2. k \in DOMAIN wire'[i] /\ wire'[i][k].comm = c
      BY <1>2, <1>3, <1>5
    <3> QED
      BY <3>2 DEF Silent
  <2> QED
    BY <2>2, <2>3 DEF Settled
<1>6. CASE c # d
  <2>1. \A i \in Instances : \A n \in DOMAIN wire[i] :
          n \in DOMAIN wire'[i] /\ wire'[i][n] = wire[i][n]
    BY <1>3
  <2>2. \A i \in Instances : \A n \in DOMAIN wire'[i] : LastOf(i, c, n)' =>
          n \in DOMAIN wire[i] /\ LastOf(i, c, n)
    <3> SUFFICES ASSUME NEW i \in Instances, NEW n \in DOMAIN wire'[i], LastOf(i, c, n)'
                 PROVE  n \in DOMAIN wire[i] /\ LastOf(i, c, n)
      OBVIOUS
    <3>1. wire'[i][n].comm = c
      BY DEF LastOf
    <3>2. n # Len(wire[i]) + 1
      BY <1>2, <1>3, <1>6, <3>1
    <3>3. n \in DOMAIN wire[i]
      BY <1>3, <3>2
    <3> QED
      BY <2>1, <3>3 DEF LastOf
  <2>3. Newest(c) /\ Settled(c)
    BY DEF PaidInv
  <2>4. Newest(c)'
    BY <1>4, <1>6, <2>1, <2>2, <2>3 DEF Newest
  <2>5. Silent(c)' => Silent(c)
    BY <2>1 DEF Silent
  <2> QED
    BY <1>4, <1>6, <2>3, <2>4, <2>5 DEF Settled, LastTold
<1> QED
  BY <1>5, <1>6

(* An instance works off its first message. *)
LEMMA PaidUpdate ==
  ASSUME FlowTypeInv, PaidInv, NEW i \in Instances, UpdateQualityScore(i)
  PROVE  PaidInv'
<1> SUFFICES ASSUME ChatIdColumn, lost' = 0, NEW c \in Communities
             PROVE  Newest(c)' /\ Settled(c)'
  BY DEF PaidInv
<1>1. wire[i] \in Seq(Update) /\ wire[i] # <<>> /\ wire \in [Instances -> Seq(Update)]
  BY FlowTypes DEF UpdateQualityScore
<1>2. PICK u \in Update : u = Head(wire[i]) /\ u = wire[i][1]
  BY <1>1
<1>3. lost = 0 /\ quality' = [quality EXCEPT ![u.comm] = u.score]
  BY <1>2, FlowTypes DEF UpdateQualityScore
<1>4. u.comm \in Communities /\ u.score \in 0..100 /\ quality \in [Communities -> 0..100]
  BY FlowTypes DEF Update
<1>5. UNCHANGED told /\ \A j \in Instances \ {i} : wire'[j] = wire[j]
  BY <1>1 DEF UpdateQualityScore, engine, scores
<1>6. /\ Len(wire[i]) \in Nat \ {0} /\ DOMAIN wire[i] = 1..Len(wire[i])
      /\ DOMAIN wire'[i] = 1..(Len(wire[i]) - 1)
      /\ \A n \in DOMAIN wire'[i] : wire'[i][n] = wire[i][n + 1]
  <2>1. wire'[i] = Tail(wire[i])
    BY <1>1 DEF UpdateQualityScore
  <2> QED
    BY <1>1, <2>1
<1>7. /\ \A n \in DOMAIN wire'[i] : n \in Nat /\ n + 1 \in DOMAIN wire[i]
      /\ \A n \in DOMAIN wire[i] : n > 1 =>
           n - 1 \in DOMAIN wire'[i] /\ wire'[i][n - 1] = wire[i][n]
  <2> SUFFICES ASSUME NEW n \in DOMAIN wire[i], n > 1
               PROVE  n - 1 \in DOMAIN wire'[i] /\ wire'[i][n - 1] = wire[i][n]
    BY <1>6
  <2>1. n - 1 \in DOMAIN wire'[i] /\ (n - 1) + 1 = n
    BY <1>6
  <2> QED
    BY <1>6, <2>1
<1>8. Newest(c) /\ Settled(c)
  BY <1>3 DEF PaidInv
<1>9. Newest(c)'
  <2> SUFFICES ASSUME NEW j \in Instances, NEW n \in DOMAIN wire'[j], LastOf(j, c, n)'
               PROVE  wire'[j][n].score = told[c]
    BY <1>5 DEF Newest
  <2>1. CASE j # i
    BY <1>5, <1>8, <2>1 DEF Newest, LastOf
  <2>2. CASE j = i
    <3> DEFINE m == n + 1
    <3>1. m \in DOMAIN wire[i] /\ wire'[i][n] = wire[i][m] /\ n \in Nat
      BY <1>6, <1>7, <2>2
    <3>2. \A k \in DOMAIN wire[i] : k > m => wire[i][k].comm # c
      <4> SUFFICES ASSUME NEW k \in DOMAIN wire[i], k > m
                   PROVE  wire[i][k].comm # c
        OBVIOUS
      <4>1. k > 1 /\ k - 1 > n
        BY <1>6, <3>1
      <4> QED
        BY <1>7, <2>2, <4>1 DEF LastOf
    <3>3. LastOf(i, c, m)
      BY <2>2, <3>1, <3>2 DEF LastOf
    <3> QED
      BY <1>8, <2>2, <3>1, <3>3 DEF Newest
  <2> QED
    BY <2>1, <2>2
<1>10. Settled(c)'
  <2> SUFFICES ASSUME Silent(c)'
               PROVE  quality'[c] = LastTold(c)'
    BY DEF Settled
  <2>1. \A n \in DOMAIN wire[i] : n > 1 => wire[i][n].comm # c
    BY <1>7 DEF Silent
  <2>2. CASE u.comm = c
    <3>1. 1 \in DOMAIN wire[i] /\ LastOf(i, c, 1)
      BY <1>2, <1>6, <2>1, <2>2 DEF LastOf
    <3>2. u.score = told[c]
      BY <1>2, <1>8, <3>1 DEF Newest
    <3> QED
      BY <1>3, <1>4, <1>5, <2>2, <3>2 DEF LastTold, NoScore
  <2>3. CASE u.comm # c
    <3>1. \A n \in DOMAIN wire[i] : n = 1 \/ n > 1
      BY <1>6
    <3>2. Silent(c)
      BY <1>2, <1>5, <2>1, <2>3, <3>1 DEF Silent
    <3> QED
      BY <1>3, <1>4, <1>5, <1>8, <2>3, <3>2 DEF Settled, LastTold
  <2> QED
    BY <2>2, <2>3
<1> QED
  BY <1>9, <1>10

LEMMA PaidFrame ==
  ASSUME PaidInv, UNCHANGED <<wire, quality, lost, told>>
  PROVE  PaidInv'
  BY DEF PaidInv, Newest, Settled, LastOf, Silent, LastTold

LEMMA PaidStep ==
  ASSUME Instances # {}, FlowTypeInv, PaidInv, [FlowNext]_flow
  PROVE  PaidInv'
<1>1. CASE FraudEngine
  BY <1>1, TellsOrNot, PaidTells, PaidFrame DEF FraudEngine
<1>2. ASSUME NEW i \in Instances, UpdateQualityScore(i)
      PROVE  PaidInv'
  BY <1>2, PaidUpdate
<1>3. CASE UNCHANGED <<payout, told>>
  BY <1>3, PaidFrame DEF payout
<1> QED
  BY <1>1, <1>2, <1>3
     DEF FlowNext, Ask, getCommunityScore, GiveUp, ReadScore, Respond, flow, engine, scores

LEMMA UnwrittenStep == Unwritten /\ [FlowNext]_flow => Unwritten'
<1> SUFFICES ASSUME Unwritten, [FlowNext]_flow, ~ChatIdColumn PROVE quality' = quality
  BY DEF Unwritten
<1> QED
  BY DEF FlowNext, FraudEngine, UpdateQualityScore, Ask, getCommunityScore, GiveUp, ReadScore,
         Respond, flow, payout

(* With a chat_id column, payouts are multiplied as fraud-engine announced *)
(* last, once every instance has worked off its messages and none of them  *)
(* was lost: each instance writes every score, and the last one is the     *)
(* same for all.  Without the column, as the service is built, they are    *)
(* multiplied as for the default score, whatever is announced.             *)
THEOREM PaysAsTold ==
  ASSUME Instances # {}
  PROVE  FlowSpec => []PaidAsTold
<1>1. FlowInit => PaidInv /\ Unwritten
  BY DEF FlowInit, Init, PaidInv, Newest, Settled, LastOf, LastTold, Unwritten
<1>2. FlowTypeInv /\ PaidInv /\ [FlowNext]_flow => PaidInv'
  BY PaidStep
<1>3. ASSUME FlowTypeInv, NEW c \in Communities, NEW score, quality[c] = score
      PROVE  PaysBy(c, score)
  <2>1. quality[c] \in 0..100
    BY <1>3, FlowTypes
  <2>2. quality[c] \in Score
    BY <2>1 DEF Score
  <2> QED
    BY <1>3, <2>2, Tables DEF PaysBy
<1>4. FlowTypeInv /\ PaidInv /\ Unwritten => PaidAsTold
  <2> SUFFICES ASSUME FlowTypeInv, PaidInv, Unwritten PROVE PaidAsTold
    OBVIOUS
  <2>1. CASE ChatIdColumn
    <3> SUFFICES ASSUME lost = 0, NEW c \in Communities, Silent(c)
                 PROVE  PaysBy(c, LastTold(c))
      BY <2>1 DEF PaidAsTold, ScoresAreUsed
    <3>1. quality[c] = LastTold(c)
      BY <2>1 DEF PaidInv, Settled
    <3> QED
      BY <1>3, <3>1
  <2>2. CASE ~ChatIdColumn
    <3> SUFFICES ASSUME NEW c \in Communities
                 PROVE  PaysBy(c, DefaultQuality)
      BY <2>2 DEF PaidAsTold
    <3>1. quality[c] = DefaultQuality
      BY <2>2 DEF Unwritten
    <3> QED
      BY <1>3, <3>1
  <2> QED
    BY <2>1, <2>2
<1> QED
  BY AlwaysFlowTypeInv, UnwrittenStep, <1>1, <1>2, <1>4, PTL DEF FlowSpec, flow

-----------------------------------------------------------------------------
(* Scores are stored before they are told, while no call fails. *)
StoredFirst ==
  /\ \A s \in Threads : pc[s] = "publish" => snapshot[job[s].comm] # NoScore
  /\ \A c \in Communities : told[c] # NoScore => snapshot[c] # NoScore

LEMMA StoredFrame ==
  ASSUME StoredFirst, UNCHANGED told,
         \A c \in Communities : snapshot[c] # NoScore => snapshot'[c] # NoScore,
         \A s \in Threads : pc'[s] = "publish" =>
           job'[s].comm \in Communities
           /\ (snapshot'[job'[s].comm] # NoScore
               \/ (pc[s] = "publish" /\ job'[s] = job[s]))
  PROVE  StoredFirst'
  BY DEF StoredFirst

LEMMA StoredSave ==
  ASSUME TypeInv, StoredFirst, faults' = 0, NEW s \in Threads, UpdateCommunityScore(s)
  PROVE  StoredFirst'
<1>1. /\ Alone(s) /\ read[s] \in 0..100 /\ job[s] \in Message /\ UNCHANGED told
      /\ snapshot \in [Communities -> Score] /\ faults' = faults
  BY HandleAlone, NoFault
     DEF Handle, UpdateCommunityScore, TypeInv, TypeOK, ThreadOK, SaveStages, Answered
<1>2. PICK c \in Communities : c = job[s].comm
  BY <1>1 DEF Message
<1>3. snapshot' = [snapshot EXCEPT ![c] = read[s]]
  BY <1>1, <1>2 DEF UpdateCommunityScore, Failed, TypeInv
<1>4. \A d \in Communities : snapshot[d] # NoScore => snapshot'[d] # NoScore
  BY <1>1, <1>3 DEF NoScore
<1>5. snapshot'[c] # NoScore
  BY <1>1, <1>3 DEF NoScore
<1>6. pc'[s] = "publish" => job'[s] = job[s]
  <2>1. CASE s \in Recalcs
    BY <1>1, <2>1 DEF UpdateCommunityScore, Return, Goto, TypeInv, TypeOK
  <2>2. CASE s \notin Recalcs
    BY <2>2 DEF UpdateCommunityScore
  <2> QED
    BY <2>1, <2>2
<1>7. \A t \in Threads \ {s} : pc'[t] = "publish" =>
        pc[t] = "publish" /\ job'[t] = job[t] /\ job[t].comm \in Communities
  BY <1>1 DEF Alone, TypeInv, ThreadOK, Message
<1> QED
  BY <1>1, <1>2, <1>4, <1>5, <1>6, <1>7, StoredFrame

LEMMA StoredTell ==
  ASSUME TypeInv, StoredFirst, NEW s \in Threads, PublishScore(s)
  PROVE  StoredFirst'
<1>1. /\ Alone(s) /\ pc[s] = "publish" /\ pc'[s] = "idle" /\ job[s] \in Message
      /\ told \in [Communities -> Score] /\ told' = [told EXCEPT ![job[s].comm] = read[s]]
      /\ UNCHANGED snapshot
  BY HandleAlone
     DEF Handle, PublishScore, Return, Goto, TypeInv, TypeOK, ThreadOK
<1>2. PICK c \in Communities : c = job[s].comm
  BY <1>1 DEF Message
<1>3. snapshot[c] # NoScore
  BY <1>1, <1>2 DEF StoredFirst
<1>4. \A d \in Communities : told'[d] # NoScore => told[d] # NoScore \/ d = c
  BY <1>1, <1>2
<1>5. \A t \in Threads : pc'[t] = "publish" => pc[t] = "publish" /\ job'[t] = job[t]
  BY <1>1 DEF Alone
<1> QED
  BY <1>1, <1>3, <1>4, <1>5 DEF StoredFirst

LEMMA StoredStep ==
  ASSUME TypeInv, StoredFirst, faults' = 0, Next
  PROVE  StoredFirst'
<1>0. \A t \in Threads : pc[t] = "publish" => job[t].comm \in Communities
  BY DEF TypeInv, ThreadOK, Message
<1>1. CASE UNCHANGED <<scores, pc, job>>
  BY <1>1 DEF StoredFirst, scores
<1>2. ASSUME NEW s \in Threads, Handle(s)
      PROVE  StoredFirst'
  <2>1. CASE UpdateCommunityScore(s) \/ PublishScore(s)
    BY <2>1, StoredSave, StoredTell
  <2>2. CASE ~(UpdateCommunityScore(s) \/ PublishScore(s))
    <3>1. Alone(s) /\ pc \in [Threads -> Stages]
      BY <1>2, HandleAlone, StagesType DEF AllStages
    <3>2. UNCHANGED <<told, snapshot>> /\ pc'[s] # "publish"
      BY <1>2, <2>2, <3>1
         DEF Handle, Receive, CountRejoins, IncrementJoins, InsertMembership,
             detectJoinLoopFraud, FindLastJoin, CloseMembership, IncrementLeaves, Calculate,
             Goto, scores
    <3>3. \A t \in Threads : pc'[t] = "publish" => pc[t] = "publish" /\ job'[t] = job[t]
      BY <3>1, <3>2 DEF Alone
    <3> QED
      BY <1>0, <3>2, <3>3, StoredFrame
  <2> QED
    BY <2>1, <2>2
<1>3. ASSUME NEW s \in Recalcs, NEW m \in Message, recalcCommunity(s, m)
      PROVE  StoredFirst'
  <2>1. s \in Threads /\ Alone(s) /\ pc'[s] = "score" /\ UNCHANGED <<told, snapshot>>
    BY <1>3, RecalcAlone DEF recalcCommunity, scores
  <2>2. \A t \in Threads : pc'[t] = "publish" => pc[t] = "publish" /\ job'[t] = job[t]
    BY <2>1 DEF Alone
  <2> QED
    BY <1>0, <2>1, <2>2, StoredFrame
<1> QED
  BY <1>1, <1>2, <1>3 DEF Next, Arrive, Depart, DaysPass

-----------------------------------------------------------------------------
(* Answers.  A caller that heard of a score asks for a community whose     *)
(* score was told; a request that it still waits for is about the          *)
(* community it asks for.                                                  *)
HeardTold == \A r \in Callers :
  heard[r] => ask[r].comm \in Communities /\ told[ask[r].comm] # NoScore

AskedOK(q) == /\ q.n <= ask[q.caller].n
              /\ Awaited(q) => q.comm = ask[q.caller].comm

Underway(q) == (\E n \in DOMAIN requests : requests[n] = q) \/ serving.to = q
RequestsOK  == \A q \in Request : Underway(q) => AskedOK(q)

AskedInv == HeardTold /\ RequestsOK

LEMMA Requests ==
  ASSUME FlowTypeInv
  PROVE  /\ \A n \in DOMAIN requests : requests[n] \in Request
         /\ serving.to # NoRequest => serving.to \in Request
         /\ \A q \in Request : q.caller \in Callers /\ q.n \in Nat /\ q.comm \in Communities
         /\ \A r \in Callers : ask[r] \in Question /\ ask[r].n \in Nat
<1>1. requests \in Seq(Request) /\ serving.to \in Request \cup {NoRequest}
  BY FlowTypes
<1>2. ask \in [Callers -> Question]
  BY FlowTypes
<1>3. \A q \in Question : q.n \in Nat
  BY FlowAssumption DEF Question
<1>4. \A q \in Request : q.caller \in Callers /\ q.n \in Nat /\ q.comm \in Communities
  BY FlowAssumption DEF Request
<1> QED
  BY <1>1, <1>2, <1>3, <1>4

(* What a caller asks changes, and what is under way stays. *)
LEMMA RequestsFrame ==
  ASSUME RequestsOK, \A q \in Request : Underway(q)' => Underway(q),
         \A q \in Request : AskedOK(q) => AskedOK(q)'
  PROVE  RequestsOK'
  BY DEF RequestsOK

LEMMA AskedAgain ==
  ASSUME FlowTypeInv, NEW r \in Callers, ask'[r].n = ask[r].n + 1,
         \A p \in Callers \ {r} : ask'[p] = ask[p]
  PROVE  \A q \in Request : AskedOK(q) =>
           AskedOK(q)' /\ (q.caller = r => ~Awaited(q)') /\ (q.caller # r => Awaited(q)' = Awaited(q))
<1> SUFFICES ASSUME NEW q \in Request, AskedOK(q)
             PROVE  /\ AskedOK(q)' /\ (q.caller = r => ~Awaited(q)')
                    /\ (q.caller # r => Awaited(q)' = Awaited(q))
  OBVIOUS
<1>1. q.caller \in Callers /\ q.n \in Nat /\ ask[q.caller].n \in Nat /\ ask[r].n \in Nat
  BY Requests
<1>2. CASE q.caller = r
  BY <1>1, <1>2 DEF AskedOK, Awaited
<1>3. CASE q.caller # r
  BY <1>1, <1>3 DEF AskedOK, Awaited
<1> QED
  BY <1>2, <1>3

LEMMA GivenUp ==
  ASSUME FlowTypeInv, NEW r \in Callers, ask' = [ask EXCEPT ![r].waits = FALSE]
  PROVE  /\ \A p \in Callers : ask'[p].n = ask[p].n /\ ask'[p].comm = ask[p].comm
         /\ \A q \in Request : AskedOK(q) => AskedOK(q)'
         /\ \A q \in Request : Awaited(q)' => Awaited(q)
<1>1. \A p \in Callers : /\ ask'[p].n = ask[p].n /\ ask'[p].comm = ask[p].comm
                         /\ ask'[p].waits => ask[p].waits
  BY FlowTypes DEF Question
<1>2. \A q \in Request : Awaited(q)' => Awaited(q)
  BY <1>1, Requests DEF Awaited
<1> QED
  BY <1>1, <1>2, Requests DEF AskedOK

LEMMA AskedInit == FlowInit => AskedInv
<1> SUFFICES ASSUME FlowInit
             PROVE  AskedInv
  OBVIOUS
<1>1. \A q \in Request : q # NoRequest
  BY DEF Request, NoRequest
<1>2. serving.to = NoRequest /\ requests = <<>> /\ \A r \in Callers : ~heard[r]
  BY DEF FlowInit
<1> QED
  BY <1>1, <1>2 DEF AskedInv, HeardTold, RequestsOK, Underway

LEMMA AskedStep ==
  ASSUME FlowTypeInv, AskedInv, [FlowNext]_flow
  PROVE  AskedInv'
<1>1. CASE UNCHANGED <<told, calls>>
  BY <1>1 DEF AskedInv, HeardTold, RequestsOK, Underway, AskedOK, Awaited, calls
<1>2. CASE FraudEngine
  <2>1. \A c \in Communities : told[c] # NoScore => told'[c] # NoScore
    <3>1. ASSUME NEW s \in Threads, Tells(s)
          PROVE  \A c \in Communities : told[c] # NoScore => told'[c] # NoScore
      <4>1. read[s] \in 0..100 /\ told' = [told EXCEPT ![job[s].comm] = read[s]]
        BY <3>1 DEF Tells
      <4>2. told \in [Communities -> Score]
        BY FlowTypes
      <4>3. read[s] # NoScore
        BY <4>1 DEF NoScore
      <4> QED
        BY <4>1, <4>2, <4>3
    <3> QED
      BY <1>2, <3>1, TellsOrNot
  <2> QED
    BY <1>2, <2>1
       DEF FraudEngine, AskedInv, HeardTold, RequestsOK, Underway, AskedOK, Awaited, calls
<1>3. ASSUME NEW r \in Callers, NEW c \in Communities, Ask(r, c)
      PROVE  AskedInv'
  <2>1. /\ ask'[r] = [comm |-> c, n |-> ask[r].n + 1, waits |-> TRUE]
        /\ \A p \in Callers \ {r} : ask'[p] = ask[p] /\ heard'[p] = heard[p]
        /\ heard'[r] = (told[c] # NoScore) /\ UNCHANGED <<told, serving>>
        /\ requests \in Seq(Request)
    BY <1>3, FlowTypes DEF Ask, engine, scores
  <2>2. ask'[r].comm = c /\ ask'[r].n = ask[r].n + 1
    BY <2>1
  <2>3. HeardTold'
    BY <2>1, <2>2 DEF AskedInv, HeardTold
  <2>4. \A q \in Request : AskedOK(q) => AskedOK(q)'
    BY <2>1, <2>2, AskedAgain
  <2>5. PICK new \in Request : /\ new.caller = r /\ new.comm = c /\ new.n = ask[r].n + 1
                               /\ requests' = Append(requests, new)
    <3> DEFINE q == [caller |-> r, comm |-> c, n |-> ask[r].n + 1]
    <3>1. q \in Request
      BY <1>3, FlowTypes, FlowAssumption DEF Ask, Question, Request
    <3> QED
      BY <1>3, <3>1 DEF Ask
  <2>6. AskedOK(new)'
    BY <2>2, <2>5, Requests DEF AskedOK
  <2>7. \A q \in Request : Underway(q)' => Underway(q) \/ q = new
    <3>1. \A n \in DOMAIN requests' :
            (n \in DOMAIN requests /\ requests'[n] = requests[n]) \/ requests'[n] = new
      BY <2>1, <2>5
    <3> QED
      BY <2>1, <3>1 DEF Underway
  <2> QED
    BY <2>3, <2>4, <2>6, <2>7 DEF AskedInv, RequestsOK
<1>4. ASSUME NEW r \in Callers, NEW c \in Communities, getCommunityScore(r, c)
      PROVE  AskedInv'
  <2>1. /\ ask'[r].comm = c /\ ask'[r].n = ask[r].n + 1
        /\ \A p \in Callers \ {r} : ask'[p] = ask[p] /\ heard'[p] = heard[p]
        /\ heard'[r] = (told[c] # NoScore) /\ UNCHANGED <<told, serving, requests>>
    BY <1>4, FlowTypes DEF getCommunityScore, scores, Question
  <2>2. HeardTold'
    BY <2>1 DEF AskedInv, HeardTold
  <2>3. \A q \in Request : /\ Underway(q)' => Underway(q)
                           /\ AskedOK(q) => AskedOK(q)'
    BY <2>1, AskedAgain DEF Underway
  <2> QED
    BY <2>2, <2>3, RequestsFrame DEF AskedInv
<1>5. ASSUME NEW r \in Callers, GiveUp(r)
      PROVE  AskedInv'
  <2>1. ask' = [ask EXCEPT ![r].waits = FALSE] /\ UNCHANGED <<told, heard, serving, requests>>
    BY <1>5 DEF GiveUp, engine, scores
  <2>2. \A q \in Request : /\ Underway(q)' => Underway(q)
                           /\ AskedOK(q) => AskedOK(q)'
    BY <2>1, GivenUp DEF Underway
  <2> QED
    BY <2>1, <2>2, GivenUp, RequestsFrame DEF AskedInv, HeardTold
<1>6. CASE ReadScore
  <2>1. /\ requests \in Seq(Request) /\ requests # <<>> /\ requests' = Tail(requests)
        /\ serving'.to = Head(requests) /\ UNCHANGED <<told, heard, ask>>
    <3>1. requests # <<>> /\ requests' = Tail(requests) /\ UNCHANGED <<told, heard, ask>>
      BY <1>6 DEF ReadScore, scores
    <3>2. \E q, a : q = Head(requests) /\ serving' = [to |-> q, says |-> a]
      BY <1>6 DEF ReadScore
    <3> QED
      BY <3>1, <3>2, FlowTypes
  <2>2. HeardTold'
    BY <2>1 DEF AskedInv, HeardTold
  <2>3. \A n \in DOMAIN requests' : n + 1 \in DOMAIN requests /\ requests'[n] = requests[n + 1]
    BY <2>1
  <2>4. 1 \in DOMAIN requests /\ serving'.to = requests[1]
    BY <2>1
  <2>5. \A q \in Request : /\ Underway(q)' => Underway(q)
                           /\ AskedOK(q) => AskedOK(q)'
    BY <2>1, <2>3, <2>4 DEF Underway, AskedOK, Awaited
  <2> QED
    BY <2>2, <2>5, RequestsFrame DEF AskedInv
<1>7. CASE Respond
  <2>1. PICK r \in Callers : r = serving.to.caller
    BY <1>7, Requests DEF Respond
  <2>2. /\ UNCHANGED <<told, heard, requests>> /\ serving'.to = NoRequest
        /\ UNCHANGED ask \/ ask' = [ask EXCEPT ![r].waits = FALSE]
    BY <1>7, <2>1 DEF Respond, engine, scores
  <2>3. /\ \A p \in Callers : ask'[p].comm = ask[p].comm
        /\ \A q \in Request : AskedOK(q) => AskedOK(q)'
    <3>1. CASE UNCHANGED ask
      BY <3>1 DEF AskedOK, Awaited
    <3> QED
      BY <2>2, <3>1, GivenUp
  <2>4. \A q \in Request : Underway(q)' => Underway(q)
    <3>1. \A q \in Request : q # NoRequest
      BY DEF Request, NoRequest
    <3> QED
      BY <2>2, <3>1 DEF Underway
  <2> QED
    BY <2>2, <2>3, <2>4, RequestsFrame DEF AskedInv, HeardTold
<1> QED
  BY <1>1, <1>2, <1>3, <1>4, <1>5, <1>6, <1>7
     DEF FlowNext, UpdateQualityScore, flow, engine, scores

(* What is being said, and what has been answered, is known if the caller  *)
(* had heard of a score, and pays what the score pays.                     *)
SaidOK(says) == says.tenths = Engine!revenueMultiplier(says.score)

ServingOK == serving.to # NoRequest =>
  /\ SaidOK(serving.says)
  /\ Awaited(serving.to) /\ heard[serving.to.caller] => serving.says.known

AnswersOK == \A r \in Callers :
  answer[r] # NoAnswer => SaidOK(answer[r]) /\ (heard[r] => answer[r].known)

AnswerInv == faults = 0 => StoredFirst /\ ServingOK /\ AnswersOK

(* A caller is answered by the snapshot of the community it asks for.      *)
LEMMA LatestSays ==
  ASSUME FlowTypeInv, StoredFirst, NEW c \in Communities, NEW v \in 50..79,
         NEW tenths, tenths = Engine!revenueMultiplier(snapshot[c])
  PROVE  LET a == Latest(c, Said(FALSE, v, 8), tenths)
         IN  SaidOK(a) /\ (told[c] # NoScore => a.known)
<1>1. CASE snapshot[c] = NoScore
  <2>1. told[c] = NoScore
    BY <1>1 DEF StoredFirst
  <2>2. Latest(c, Said(FALSE, v, 8), tenths) = Said(FALSE, v, 8)
    BY <1>1 DEF Latest
  <2>3. Engine!revenueMultiplier(v) = 8
    BY DEF Engine!revenueMultiplier
  <2>4. SaidOK(Said(FALSE, v, 8))
    BY <2>3 DEF SaidOK, Said
  <2> QED
    BY <2>1, <2>2, <2>4
<1>2. CASE snapshot[c] # NoScore
  <2>1. Latest(c, Said(FALSE, v, 8), tenths) = Said(TRUE, snapshot[c], tenths)
    BY <1>2 DEF Latest
  <2>2. SaidOK(Said(TRUE, snapshot[c], tenths)) /\ Said(TRUE, snapshot[c], tenths).known
    BY DEF SaidOK, Said
  <2> QED
    BY <2>1, <2>2
<1> QED
  BY <1>1, <1>2

LEMMA AnswerInit == FlowInit => AnswerInv
  BY DEF FlowInit, Init, AnswerInv, StoredFirst, ServingOK, AnswersOK

LEMMA AnswerEngine ==
  ASSUME FlowTypeInv, AnswerInv, FraudEngine
  PROVE  AnswerInv'
<1> SUFFICES ASSUME faults' = 0
             PROVE  StoredFirst' /\ ServingOK' /\ AnswersOK'
  BY DEF AnswerInv
<1>1. faults = 0
  <2>1. faults \in Nat /\ faults' \in {faults, faults + 1}
    BY HandleDocs, RecalcAlone
       DEF FraudEngine, Next, Arrive, Depart, DaysPass, Failed, FlowTypeInv, TypeInv
  <2> QED
    BY <2>1
<1>2. StoredFirst'
  BY <1>1, StoredStep DEF FraudEngine, AnswerInv, FlowTypeInv
<1>3. UNCHANGED <<ask, heard, answer, serving>>
  BY DEF FraudEngine, calls
<1>4. ServingOK' /\ AnswersOK'
  BY <1>1, <1>3 DEF AnswerInv, ServingOK, AnswersOK, Awaited
<1> QED
  BY <1>2, <1>4

LEMMA AnswerAsk ==
  ASSUME FlowTypeInv, AskedInv, AnswerInv, NEW r \in Callers, NEW c \in Communities, Ask(r, c)
  PROVE  AnswerInv'
<1> SUFFICES ASSUME faults' = 0
             PROVE  StoredFirst' /\ ServingOK' /\ AnswersOK'
  BY DEF AnswerInv
<1>1. StoredFirst' /\ ServingOK /\ AnswersOK
  BY DEF Ask, engine, scores, AnswerInv, StoredFirst
<1>2. /\ ask'[r] = [comm |-> c, n |-> ask[r].n + 1, waits |-> TRUE]
      /\ \A p \in Callers \ {r} :
           ask'[p] = ask[p] /\ heard'[p] = heard[p] /\ answer'[p] = answer[p]
      /\ answer'[r] = NoAnswer /\ serving' = serving
  BY FlowTypes DEF Ask
<1>3. ask'[r].n = ask[r].n + 1
  BY <1>2
<1>4. AnswersOK'
  BY <1>1, <1>2 DEF AnswersOK
<1>5. ServingOK'
  <2> SUFFICES ASSUME serving.to # NoRequest
               PROVE  /\ SaidOK(serving.says)
                      /\ Awaited(serving.to)' /\ heard'[serving.to.caller] =>
                           serving.says.known
    BY <1>2 DEF ServingOK
  <2>1. PICK q \in Request : q = serving.to /\ AskedOK(q)
    BY Requests DEF AskedInv, RequestsOK, Underway
  <2>2. q.caller = r => ~Awaited(q)'
    BY <1>2, <1>3, <2>1, AskedAgain
  <2>3. q.caller # r => Awaited(q)' = Awaited(q) /\ heard'[q.caller] = heard[q.caller]
    BY <1>2, <1>3, <2>1, AskedAgain, Requests
  <2>4. Awaited(serving.to)' => Awaited(q)'
    BY <1>2, <2>1 DEF Awaited
  <2> QED
    BY <1>1, <2>1, <2>2, <2>3, <2>4 DEF ServingOK
<1> QED
  BY <1>1, <1>4, <1>5

LEMMA AnswerGet ==
  ASSUME FlowTypeInv, AskedInv, AnswerInv, NEW r \in Callers, NEW c \in Communities,
         getCommunityScore(r, c)
  PROVE  AnswerInv'
<1> SUFFICES ASSUME faults' = 0
             PROVE  StoredFirst' /\ ServingOK' /\ AnswersOK'
  BY DEF AnswerInv
<1>0. faults = 0 /\ faults' = faults
  BY NoFault DEF getCommunityScore, Answered, FlowTypeInv
<1>1. StoredFirst' /\ StoredFirst /\ ServingOK /\ AnswersOK
  BY <1>0 DEF getCommunityScore, scores, AnswerInv, StoredFirst
<1>2. /\ ask'[r].n = ask[r].n + 1
      /\ \A p \in Callers \ {r} :
           ask'[p] = ask[p] /\ heard'[p] = heard[p] /\ answer'[p] = answer[p]
      /\ heard'[r] = (told[c] # NoScore) /\ serving' = serving
  BY FlowTypes DEF getCommunityScore, Question
<1>3. answer'[r] = Latest(c, Said(FALSE, 50, 8), RevenueMultiplier(snapshot[c]))
  BY <1>0, FlowTypes DEF getCommunityScore, Failed
<1>4. SaidOK(answer'[r]) /\ (heard'[r] => answer'[r].known)
  <2>1. RevenueMultiplier(snapshot[c]) = Engine!revenueMultiplier(snapshot[c])
    BY FlowTypes, Tables
  <2>2. 50 \in 50..79
    OBVIOUS
  <2>3. LET a == Latest(c, Said(FALSE, 50, 8), RevenueMultiplier(snapshot[c]))
        IN  SaidOK(a) /\ (told[c] # NoScore => a.known)
    BY <1>1, <2>1, <2>2, LatestSays, Zenon
  <2> QED
    BY <1>2, <1>3, <2>3
<1>5. AnswersOK'
  BY <1>1, <1>2, <1>4 DEF AnswersOK
<1>6. ServingOK'
  <2> SUFFICES ASSUME serving.to # NoRequest
               PROVE  /\ SaidOK(serving.says)
                      /\ Awaited(serving.to)' /\ heard'[serving.to.caller] =>
                           serving.says.known
    BY <1>2 DEF ServingOK
  <2>1. PICK q \in Request : q = serving.to /\ AskedOK(q)
    BY Requests DEF AskedInv, RequestsOK, Underway
  <2>2. q.caller = r => ~Awaited(q)'
    BY <1>2, <2>1, AskedAgain
  <2>3. q.caller # r => Awaited(q)' = Awaited(q) /\ heard'[q.caller] = heard[q.caller]
    BY <1>2, <2>1, AskedAgain, Requests
  <2>4. Awaited(serving.to)' => Awaited(q)'
    BY <1>2, <2>1 DEF Awaited
  <2> QED
    BY <1>1, <2>1, <2>2, <2>3, <2>4 DEF ServingOK
<1> QED
  BY <1>1, <1>5, <1>6

LEMMA AnswerGiveUp ==
  ASSUME FlowTypeInv, AnswerInv, NEW r \in Callers, GiveUp(r)
  PROVE  AnswerInv'
<1> SUFFICES ASSUME faults' = 0
             PROVE  StoredFirst' /\ ServingOK' /\ AnswersOK'
  BY DEF AnswerInv
<1>1. StoredFirst' /\ ServingOK /\ AnswersOK'
  BY DEF GiveUp, engine, scores, AnswerInv, StoredFirst, AnswersOK
<1>2. ServingOK'
  <2> SUFFICES ASSUME serving.to # NoRequest
               PROVE  /\ SaidOK(serving.says)
                      /\ Awaited(serving.to)' /\ heard[serving.to.caller] =>
                           serving.says.known
    BY DEF GiveUp, ServingOK
  <2>1. PICK q \in Request : q = serving.to
    BY Requests
  <2>2. Awaited(q)' => Awaited(q)
    BY GivenUp DEF GiveUp
  <2>3. Awaited(serving.to)' => Awaited(q)'
    BY <2>1 DEF Awaited, GiveUp
  <2> QED
    BY <1>1, <2>1, <2>2, <2>3 DEF ServingOK
<1> QED
  BY <1>1, <1>2

LEMMA AnswerRead ==
  ASSUME FlowTypeInv, AskedInv, AnswerInv, ReadScore
  PROVE  AnswerInv'
<1> SUFFICES ASSUME faults' = 0
             PROVE  StoredFirst' /\ ServingOK' /\ AnswersOK'
  BY DEF AnswerInv
<1>0. faults = 0 /\ faults' = faults
  BY NoFault DEF ReadScore, Answered, FlowTypeInv
<1>1. StoredFirst' /\ StoredFirst /\ AnswersOK'
  BY <1>0 DEF ReadScore, scores, AnswerInv, StoredFirst, AnswersOK
<1>2. PICK q \in Request, c \in Communities :
        q = Head(requests) /\ c = q.comm /\ Underway(q)
  <2>1. requests \in Seq(Request) /\ requests # <<>>
    BY FlowTypes DEF ReadScore
  <2>2. Head(requests) \in Request /\ Head(requests) = requests[1] /\ 1 \in DOMAIN requests
    BY <2>1
  <2> QED
    BY <2>2 DEF Request, Underway
<1> DEFINE a == Latest(c, Said(FALSE, 70, 8), revenueMultiplierFromScore(snapshot[c]))
<1>3. serving' = [to |-> q, says |-> a]
  <2>1. ~Failed
    BY <1>0 DEF Failed
  <2> QED
    BY <1>2, <2>1 DEF ReadScore
<1>4. SaidOK(a) /\ (told[c] # NoScore => a.known)
  <2>1. revenueMultiplierFromScore(snapshot[c]) = Engine!revenueMultiplier(snapshot[c])
    BY FlowTypes, Tables
  <2>2. 70 \in 50..79
    OBVIOUS
  <2> QED
    BY <1>1, <2>1, <2>2, LatestSays, Zenon
<1> HIDE DEF a
<1>5. Awaited(q) /\ heard[q.caller] => told[c] # NoScore
  BY <1>2, Requests DEF AskedInv, HeardTold, RequestsOK, AskedOK
<1>6. serving'.to = q /\ serving'.says = a /\ UNCHANGED <<ask, heard>>
  BY <1>3 DEF ReadScore
<1>7. ServingOK'
  BY <1>4, <1>5, <1>6 DEF ServingOK, Awaited
<1> QED
  BY <1>1, <1>7

LEMMA AnswerRespond ==
  ASSUME FlowTypeInv, AnswerInv, Respond
  PROVE  AnswerInv'
<1> SUFFICES ASSUME faults' = 0
             PROVE  StoredFirst' /\ ServingOK' /\ AnswersOK'
  BY DEF AnswerInv
<1>1. StoredFirst' /\ ServingOK /\ AnswersOK
  BY DEF Respond, engine, scores, AnswerInv, StoredFirst
<1>2. ServingOK'
  BY DEF Respond, ServingOK
<1>3. AnswersOK'
  <2>1. PICK r \in Callers, a \in Answer : r = serving.to.caller /\ a = serving.says
    BY FlowTypes, Requests DEF Respond
  <2>2. CASE Awaited(serving.to)
    <3>1. answer' = [answer EXCEPT ![r] = a] /\ heard' = heard
      BY <2>1, <2>2 DEF Respond
    <3>2. SaidOK(a) /\ (heard[r] => a.known)
      BY <1>1, <2>1, <2>2 DEF ServingOK, Respond
    <3> QED
      BY <1>1, <3>1, <3>2, FlowTypes DEF AnswersOK
  <2>3. CASE ~Awaited(serving.to)
    BY <1>1, <2>3 DEF Respond, AnswersOK
  <2> QED
    BY <2>2, <2>3
<1> QED
  BY <1>1, <1>2, <1>3

LEMMA AnswerStep ==
  ASSUME FlowTypeInv, AskedInv, AnswerInv, [FlowNext]_flow
  PROVE  AnswerInv'
<1>1. CASE UNCHANGED <<engine, calls>>
  BY <1>1 DEF AnswerInv, StoredFirst, ServingOK, AnswersOK, Awaited, engine, scores, calls
<1> QED
  BY <1>1, AnswerEngine, AnswerAsk, AnswerGet, AnswerGiveUp, AnswerRead, AnswerRespond
     DEF FlowNext, UpdateQualityScore, flow

(* While no call fails, a service that asks for a community whose score    *)
(* had been published is not told that it is unknown, though its request   *)
(* may time out, be repeated and answered late, and the multiplier it is   *)
(* told is the one that payouts use for the score.                         *)
THEOREM AnswersAsTold == FlowSpec => []AnswersWhatWasTold
<1>1. FlowTypeInv /\ AskedInv /\ [FlowNext]_flow => AskedInv'
  BY AskedStep
<1>2. FlowTypeInv /\ AskedInv /\ AnswerInv /\ [FlowNext]_flow => AnswerInv'
  BY AnswerStep
<1>3. AnswerInv => AnswersWhatWasTold
  BY DEF AnswerInv, AnswersOK, SaidOK, AnswersWhatWasTold
<1> QED
  BY AlwaysFlowTypeInv, AskedInit, AnswerInit, <1>1, <1>2, <1>3, PTL DEF FlowSpec, flow

=============================================================================
