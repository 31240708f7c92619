-------------------------- MODULE FraudMemberships --------------------------
(***************************************************************************)
(* fraud-engine: the membership history of users, the join/leave counters  *)
(* of communities, the join-loop alarm and the quality score that          *)
(* community-service multiplies payouts with.                              *)
(*                                                                         *)
(* Joins arrive on two subjects and so do leaves; each subscription is a   *)
(* goroutine of its own and works through its messages one by one, one     *)
(* Mongo call per step.  The admin endpoint recalculates next to them.     *)
(*                                                                         *)
(* The database started empty, so there are no user profiles: the only     *)
(* writer, UpsertProfile, puts first_seen under $set and $setOnInsert,     *)
(* which Mongo refuses.  GetAvgTrustScoreForCommunity, which joins with    *)
(* the profiles, then always answers 50.  FraudUsers has imported ones.    *)
(***************************************************************************)
EXTENDS Integers, Sequences, FiniteSets

CONSTANTS
  Users, Communities,
  JoinSubs,    \* subscriptions that record a join
  LeaveSubs,   \* subscriptions that record a leave
  Recalcs,     \* POST /admin/score/community/:id/recalc requests
  Strides,     \* numbers of days the clock advances by
  MaxArrivals, MaxMessages, MaxRecalcs, MaxFaults, MaxDay,    \* bounds of the environment
  NoOne

Threads == JoinSubs \cup LeaveSubs \cup Recalcs

ASSUME ThreadsAssumption ==
  /\ JoinSubs \cap LeaveSubs = {}
  /\ Recalcs \cap (JoinSubs \cup LeaveSubs) = {}
ASSUME BoundsAssumption ==
  /\ Strides \subseteq Nat /\ NoOne \notin Users \cup Communities
  /\ MaxArrivals \in Nat /\ MaxMessages \in Nat /\ MaxRecalcs \in Nat
  /\ MaxFaults \in Nat /\ MaxDay \in Nat

VARIABLES
  inside,     \* the world: users that are in a community now
  arrivals,   \* history: how often each user has joined it
  queue,      \* undelivered messages per subscription
  docs,       \* user_memberships, in the order of insertion; by: history, who inserted it
  stats,      \* community_statistics
  snapshot,   \* the latest community_scores document
  told,       \* the latest community.score.updated
  alarms,     \* fraud.detected sent
  pc,         \* the next Mongo call of each thread
  job,        \* the message it handles
  read,       \* the count, document or score it last read
  today,
  messages, recalcs, faults    \* copies of messages announced, and what else happened

world  == <<inside, arrivals, queue, today, messages>>
scores == <<snapshot, told>>
vars   == <<world, docs, stats, scores, alarms, pc, job, read, recalcs, faults>>

Message == [user : Users, comm : Communities]
NoJob   == [user |-> NoOne, comm |-> NoOne]
Open    == -1      \* left_at of a membership that has not ended
NoScore == -1

Init ==
  /\ inside = {} /\ arrivals = [m \in Message |-> 0]
  /\ queue = [s \in JoinSubs \cup LeaveSubs |-> <<>>]
  /\ docs = <<>>
  /\ stats = [c \in Communities |-> [joins |-> 0, leaves |-> 0, members |-> 0]]
  /\ snapshot = [c \in Communities |-> NoScore]
  /\ told = [c \in Communities |-> NoScore]
  /\ alarms = {}
  /\ pc = [s \in Threads |-> "idle"]
  /\ job = [s \in Threads |-> NoJob]
  /\ read = [s \in Threads |-> 0]
  /\ today = 0 /\ messages = 0 /\ recalcs = 0 /\ faults = 0

-----------------------------------------------------------------------------
(* The world.  A join or leave is announced on some of the subjects; what  *)
(* is announced on none is lost.                                           *)

Announced(m, S) ==
  /\ messages' = messages + Cardinality(S) /\ messages' <= MaxMessages
  /\ queue' = [s \in DOMAIN queue |-> IF s \in S THEN Append(queue[s], m) ELSE queue[s]]

Arrive(m, S) ==
  /\ m \notin inside /\ arrivals[m] < MaxArrivals
  /\ inside' = inside \cup {m}
  /\ arrivals' = [arrivals EXCEPT ![m] = @ + 1]
  /\ Announced(m, S)
  /\ UNCHANGED <<docs, stats, scores, alarms, pc, job, read, today, recalcs, faults>>

Depart(m, S) ==
  /\ m \in inside
  /\ inside' = inside \ {m}
  /\ Announced(m, S)
  /\ UNCHANGED <<arrivals, docs, stats, scores, alarms, pc, job, read, today, recalcs, faults>>

(* Days pass while no handler runs: a handler takes milliseconds. *)
DaysPass(n) ==
  /\ today + n <= MaxDay /\ \A s \in Threads : pc[s] = "idle"
  /\ today' = today + n
  /\ UNCHANGED <<inside, arrivals, queue, messages, docs, stats, scores, alarms, pc, job, read,
                 recalcs, faults>>

-----------------------------------------------------------------------------
Answered == UNCHANGED faults
Failed   == faults < MaxFaults /\ faults' = faults + 1

Goto(s, label) == pc' = [pc EXCEPT ![s] = label]
Return(s) == /\ Goto(s, "idle")
             /\ job' = [job EXCEPT ![s] = NoJob]
             /\ read' = [read EXCEPT ![s] = 0]

Receive(s) ==
  /\ pc[s] = "idle" /\ queue[s] # <<>>
  /\ queue' = [queue EXCEPT ![s] = Tail(@)]
  /\ job' = [job EXCEPT ![s] = Head(queue[s])]
  /\ Goto(s, IF s \in JoinSubs THEN "count" ELSE "find")
  /\ UNCHANGED <<inside, arrivals, messages, docs, stats, scores, alarms, read, today,
                 recalcs, faults>>

History(m)  == {n \in DOMAIN docs : docs[n].user = m.user /\ docs[n].comm = m.comm}
OpenDocs(m) == {n \in History(m) : docs[n].left = Open}

-----------------------------------------------------------------------------
(* handleJoin: RecordJoin, the alarm, then the score.  Every error of its  *)
(* Mongo calls is ignored.                                                 *)

(* Mutant: only memberships that have not ended count as earlier ones. *)
CountOpen(s) ==
  /\ pc[s] = "count"
  /\ read' = [read EXCEPT ![s] = Cardinality(OpenDocs(job[s]))]
  /\ Goto(s, "joins")
  /\ UNCHANGED <<world, docs, stats, scores, alarms, job, recalcs, faults>>

CountRejoins(s) ==
  /\ pc[s] = "count"
  /\ \/ Answered /\ read' = [read EXCEPT ![s] = Cardinality(History(job[s]))]
     \/ Failed /\ read' = [read EXCEPT ![s] = 0]
  /\ Goto(s, "joins")
  /\ UNCHANGED <<world, docs, stats, scores, alarms, job, recalcs>>

IncrementJoins(s) ==
  /\ pc[s] = "joins"
  /\ \/ /\ Answered
        /\ stats' = [stats EXCEPT ![job[s].comm].joins = @ + 1,
                                  ![job[s].comm].members = @ + 1]
     \/ Failed /\ UNCHANGED stats
  /\ Goto(s, "insert")
  /\ UNCHANGED <<world, docs, scores, alarms, job, read, recalcs>>

InsertMembership(s) ==
  /\ pc[s] = "insert"
  /\ \/ /\ Answered
        /\ docs' = Append(docs, [user |-> job[s].user, comm |-> job[s].comm, day |-> today,
                                 left |-> Open, duration |-> -1, rejoin |-> read[s],
                                 by |-> s])
     \/ Failed /\ UNCHANGED docs
  /\ Goto(s, "detect")
  /\ UNCHANGED <<world, stats, scores, alarms, job, read, recalcs>>

(* Mutant: the window of the alarm is a day short. *)
JoinsOfSixDays(m) == {n \in History(m) : docs[n].day > today - 6}

(* Three joins in seven days. *)
RecentJoins(m) == {n \in History(m) : docs[n].day > today - 7}

detectJoinLoopFraud(s) ==
  /\ pc[s] = "detect"
  /\ \/ /\ Answered
        /\ alarms' = alarms \cup IF Cardinality(RecentJoins(job[s])) >= 3 THEN {job[s]} ELSE {}
     \/ Failed /\ UNCHANGED alarms
  /\ Goto(s, "score")
  /\ UNCHANGED <<world, docs, stats, scores, job, read, recalcs>>

-----------------------------------------------------------------------------
(* handleLeave: RecordLeave, then the score.  The membership that is read  *)
(* is the latest open one, the one that is closed is any open one.         *)

FindLastJoin(s) ==
  /\ pc[s] = "find"
  /\ \/ /\ Answered
        /\ \E n \in OpenDocs(job[s]) :
             /\ \A k \in OpenDocs(job[s]) : docs[k].day <= docs[n].day
             /\ read' = [read EXCEPT ![s] = n]
        /\ Goto(s, "close")
     \/ /\ (Answered /\ OpenDocs(job[s]) = {}) \/ Failed
        /\ Goto(s, "leaves") /\ UNCHANGED read
  /\ UNCHANGED <<world, docs, stats, scores, alarms, job, recalcs>>

CloseMembership(s) ==
  /\ pc[s] = "close"
  /\ \/ /\ Answered
        /\ \E n \in OpenDocs(job[s]) :
             docs' = [docs EXCEPT ![n].left = today,
                                  ![n].duration = today - docs[read[s]].day]
     \/ ((Answered /\ OpenDocs(job[s]) = {}) \/ Failed) /\ UNCHANGED docs
  /\ Goto(s, "leaves")
  /\ UNCHANGED <<world, stats, scores, alarms, job, read, recalcs>>

(* Mutant: a leave does not lower member_count. *)
IncrementLeavesOnly(s) ==
  /\ pc[s] = "leaves"
  /\ stats' = [stats EXCEPT ![job[s].comm].leaves = @ + 1]
  /\ Goto(s, "score")
  /\ UNCHANGED <<world, docs, scores, alarms, job, read, recalcs, faults>>

(* No upsert: without a first join there is no document to update. *)
IncrementLeaves(s) ==
  /\ pc[s] = "leaves"
  /\ \/ /\ Answered /\ stats[job[s].comm].joins > 0
        /\ stats' = [stats EXCEPT ![job[s].comm].leaves = @ + 1,
                                  ![job[s].comm].members = @ - 1]
     \/ ((Answered /\ stats[job[s].comm].joins = 0) \/ Failed) /\ UNCHANGED stats
  /\ Goto(s, "score")
  /\ UNCHANGED <<world, docs, scores, alarms, job, read, recalcs>>

-----------------------------------------------------------------------------
(* The community scorer: retention (30), activity (0: nobody writes        *)
(* active_members), member quality (50 * 0.3), join/leave balance (10) and *)
(* a constant 5, truncated.                                                *)

Balance(st) ==
  CASE 10 * st.leaves > 9 * st.joins -> 0
    [] 10 * st.leaves > 7 * st.joins /\ 10 * st.leaves <= 9 * st.joins -> 3
    [] 10 * st.leaves > 5 * st.joins /\ 10 * st.leaves <= 7 * st.joins -> 6
    [] OTHER -> 10

(* GetAvgTrustScoreForCommunity without any profile. *)
AvgTrust == 50

Retained(st) == IF st.members < st.joins THEN st.members ELSE st.joins

Points(st) ==
  (30 * Retained(st)) \div st.joins + (30 * AvgTrust) \div 100 + Balance(st) + 5

(* Mutant: without max(score, 0). *)
QualityUnclamped(st) ==
  IF st.joins = 0 \/ st.members = 0 THEN 50
  ELSE Points(st)

Quality(st) ==
  IF st.joins = 0 \/ st.members = 0 THEN 50
  ELSE IF Points(st) > 0 THEN Points(st) ELSE 0

Calculate(s) ==
  /\ pc[s] = "score"
  /\ \/ Answered /\ read' = [read EXCEPT ![s] = Quality(stats[job[s].comm])]
     \/ Failed /\ read' = [read EXCEPT ![s] = 50]
  /\ Goto(s, "save")
  /\ UNCHANGED <<world, docs, stats, scores, alarms, job, recalcs>>

(* The endpoint stores the score and returns; a handler also publishes it. *)
UpdateCommunityScore(s) ==
  /\ pc[s] = "save"
  /\ \/ Answered /\ snapshot' = [snapshot EXCEPT ![job[s].comm] = read[s]]
     \/ Failed /\ UNCHANGED snapshot
  /\ IF s \in Recalcs THEN Return(s) ELSE Goto(s, "publish") /\ UNCHANGED <<job, read>>
  /\ UNCHANGED <<world, docs, stats, told, alarms, recalcs>>

PublishScore(s) ==
  /\ pc[s] = "publish"
  /\ told' = [told EXCEPT ![job[s].comm] = read[s]]
  /\ Return(s)
  /\ UNCHANGED <<world, docs, stats, snapshot, alarms, recalcs, faults>>

recalcCommunity(s, m) ==
  /\ pc[s] = "idle" /\ recalcs < MaxRecalcs
  /\ recalcs' = recalcs + 1
  /\ job' = [job EXCEPT ![s] = m]
  /\ Goto(s, "score")
  /\ UNCHANGED <<world, docs, stats, scores, alarms, read, faults>>

-----------------------------------------------------------------------------
Handle(s) ==
  \/ s \in DOMAIN queue /\ Receive(s)
  \/ CountRejoins(s) \/ IncrementJoins(s) \/ InsertMembership(s) \/ detectJoinLoopFraud(s)
  \/ FindLastJoin(s) \/ CloseMembership(s) \/ IncrementLeaves(s)
  \/ Calculate(s) \/ UpdateCommunityScore(s) \/ PublishScore(s)

Next ==
  \/ \E m \in Message, S \in SUBSET JoinSubs : Arrive(m, S)
  \/ \E m \in Message, S \in SUBSET LeaveSubs : Depart(m, S)
  \/ \E n \in Strides : DaysPass(n)
  \/ \E s \in Threads : Handle(s)
  \/ \E s \in Recalcs, m \in Message : recalcCommunity(s, m)

Spec == Init /\ [][Next]_vars

(* Subscriptions and requests run on.  RunPeriodicRecalc would be fair as  *)
(* well, but recalculates no community.                                    *)
FairSpec == Spec /\ \A s \in Threads : WF_vars(Handle(s))

-----------------------------------------------------------------------------
Score == 0..100 \cup {NoScore}

UserMembership == [user : Users, comm : Communities, day : 0..MaxDay, rejoin : Nat,
                   left : 0..MaxDay \cup {Open}, duration : -1..MaxDay, by : JoinSubs]

CommunityStatistics == [joins : Nat, leaves : Nat, members : Int]

TypeOK ==
  /\ inside \subseteq Message /\ arrivals \in [Message -> 0..MaxArrivals]
  /\ queue \in [JoinSubs \cup LeaveSubs -> Seq(Message)]
  /\ \A n \in DOMAIN docs : docs[n] \in UserMembership
  /\ stats \in [Communities -> CommunityStatistics]
  /\ snapshot \in [Communities -> Score] /\ told \in [Communities -> Score]
  /\ alarms \subseteq Message
  /\ job \in [Threads -> Message \cup {NoJob}] /\ read \in [Threads -> Nat]
  /\ pc \in [Threads -> {"idle", "count", "joins", "insert", "detect", "find", "close",
                         "leaves", "score", "save", "publish"}]

Quiet(c) == \A s \in Threads : job[s].comm # c

(* Whatever interleaves, is lost or fails, the member count of a community *)
(* is its joins less its leaves; and while no call fails every counted     *)
(* join has its membership document (counter and document are two calls).  *)
CountersAgree ==
  \A c \in Communities :
    /\ stats[c].members = stats[c].joins - stats[c].leaves
    /\ Quiet(c) /\ faults = 0 =>
         Cardinality({n \in DOMAIN docs : docs[n].comm = c}) = stats[c].joins

(* rejoin_count (models.go:61) is counted before the insert.  It never     *)
(* exceeds the number of earlier memberships and misses none but those     *)
(* another subscription inserts meanwhile, memberships that have ended     *)
(* included; with a single subscription it is that number.                 *)
RejoinsAreCounted ==
  faults = 0 => \A n \in DOMAIN docs :
    LET earlier == {k \in History(docs[n]) : k < n}
    IN  /\ docs[n].rejoin <= Cardinality(earlier)
        /\ docs[n].rejoin >= Cardinality({k \in earlier : docs[k].by = docs[n].by})

(* A loop is never missed: once the handlers of three joins within seven   *)
(* days have looked at the history, the alarm has been sent, on whichever  *)
(* subscriptions they ran.                                                 *)
LoopIsReported ==
  faults = 0 => \A m \in Message :
    (/\ \A s \in Threads : ~(pc[s] = "detect" /\ job[s] = m)
     /\ \E last \in History(m) :
          Cardinality({n \in History(m) : docs[n].day \in docs[last].day - 6..docs[last].day})
            >= 3)
      => m \in alarms

-----------------------------------------------------------------------------
(* README.md:48: scores are recalculated periodically.  The stored score   *)
(* of a community that nobody works on is in the end that of its counters. *)
StaleScoreIsRecalculated ==
  \A c \in Communities :
    (Quiet(c) /\ stats[c].joins > 0) ~> (snapshot[c] = Quality(stats[c]))

=============================================================================
