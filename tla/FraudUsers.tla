----------------------------- MODULE FraudUsers -----------------------------
(***************************************************************************)
(* fraud-engine: the users' side of its handlers.  Joins, leaves,          *)
(* activity, profile changes and finished campaigns change what the trust  *)
(* score of a user is computed from; each handler then recalculates it, an *)
(* endpoint does so on demand, and every six hours a goroutine pages       *)
(* through all profiles.  One step is one Mongo call.                      *)
(* What the same handlers do for communities is FraudMemberships.          *)
(*                                                                         *)
(* UpsertProfile puts first_seen under $set and under $setOnInsert.  Mongo *)
(* refuses the update, the error is dropped, and so user_profiles holds    *)
(* the documents it held when the service started, imported or restored,   *)
(* and no others; their names and campaign counters never change.          *)
(***************************************************************************)
EXTENDS Integers, Sequences, TrustScore

CONSTANTS
  Users,          \* Telegram ids
  Movers,         \* those of them the messages are about
  Communities,
  Names,          \* user names and first names, "" among them
  Renamings,      \* pairs of them that profile messages announce
  Imported,       \* documents user_profiles may hold at the start
  Holders,        \* sets of users that may have one
  Past,           \* and the documents user_memberships may hold of a mover
  FirstDay,
  JoinSubs, LeaveSubs, ActivitySubs, ProfileSubs, CampaignSubs,  \* subscriptions
  Batch,          \* the goroutine of RunPeriodicRecalc
  Recalcs,        \* POST /admin/score/user/:id/recalc requests
  BatchSize,
  Strides,        \* numbers of days the clock advances by
  MaxEvents,      \* bound: messages, requests to recalculate and failing calls, together
  MaxDay,         \* bound: the clock
  MaxBusy,        \* bound: threads at work at one time
  NoJob

Subs    == JoinSubs \cup LeaveSubs \cup ActivitySubs \cup ProfileSubs \cup CampaignSubs
Threads == Subs \cup Recalcs \cup {Batch}

UserProfile == [joins : Nat, leaves : Nat, campaigns : Nat, completions : Nat,
                username : Names, first : Names, photo : BOOLEAN, bot : BOOLEAN,
                trust : 0..100]

UserMembership == [comm : Communities, day : Nat, left : Nat \cup {-1},
                   duration : Nat \cup {-1}]

ASSUME ThreadsAssumption ==      \* each subscription is of one kind
  LET kinds == <<JoinSubs, LeaveSubs, ActivitySubs, ProfileSubs, CampaignSubs, Recalcs, {Batch}>>
  IN  \A i, j \in DOMAIN kinds : i # j => kinds[i] \cap kinds[j] = {}
ASSUME UsersAssumption ==
  Users \subseteq Nat \ {0} /\ Movers \subseteq Users /\ BatchSize \in Nat \ {0}
ASSUME ProfilesAssumption ==
  /\ "" \in Names /\ Renamings \subseteq [username : Names, first : Names]
  /\ Imported \subseteq UserProfile /\ Holders \subseteq SUBSET Users
  /\ Past \subseteq Seq(UserMembership)
  /\ \A past \in Past : \A n \in DOMAIN past :
       past[n].day <= FirstDay /\ (Stays(past[n]) => past[n].duration = -1)
ASSUME BoundsAssumption ==
  /\ Strides \subseteq Nat /\ MaxEvents \in Nat
  /\ FirstDay \in Nat /\ MaxDay \in Nat
  /\ MaxBusy \in Nat

VARIABLES
  inside,     \* the world: memberships that exist now
  queue,      \* undelivered messages per subscription
  profile,    \* user_profiles
  docs,       \* user_memberships of each user, in the order of insertion
  activity,   \* user_activity of each user, one element per document
  changes,    \* number of user_profile_history documents of each user
  pc,         \* the next call of each thread
  job,        \* the message it handles, or the user it recalculates
  view,       \* the profile and the memberships Calculate has read
  read,       \* the index, count or score it last read
  page,       \* the users the batch has listed and not yet recalculated
  lastID,     \* its cursor
  isShort,    \* the page it listed was not full
  visited,    \* history: recalculations by the current or last batch
  complete,   \* history: the last batch came to the end of the profiles
  stopped,    \* the context of RunPeriodicRecalc is cancelled
  today,
  events      \* messages, requests and failures so far

world  == <<inside, queue, today>>
data   == <<profile, docs, activity, changes>>
thread == <<pc, job, view, read>>
batch  == <<page, lastID, isShort, visited, complete>>
limits == <<events, stopped>>
vars   == <<world, data, thread, batch, limits>>

Membership == [user : Movers, comm : Communities]
Renaming   == [user : Movers, username : Names, first : Names]
Renamed(u, names) == [user |-> u, username |-> names.username, first |-> names.first]
Campaign   == [user : Movers]

Open    == -1      \* left_at of a membership that has not ended

(* What a failed FindOne leaves in the profile it decodes into. *)
ZeroProfile == [joins |-> 0, leaves |-> 0, campaigns |-> 0, completions |-> 0,
                username |-> "", first |-> "", photo |-> FALSE, bot |-> FALSE, trust |-> 0]
NoView      == [profile |-> ZeroProfile, ms |-> <<>>]

Init ==
  /\ \E past \in [Movers -> Past] :
       docs = [u \in Users |-> IF u \in Movers THEN past[u] ELSE <<>>]
  /\ inside = {m \in Membership :
                 \E n \in DOMAIN docs[m.user] : docs[m.user][n].comm = m.comm /\ Stays(docs[m.user][n])}
  /\ queue = [s \in Subs |-> <<>>]
  /\ \E S \in Holders : profile \in [S -> Imported]
  /\ activity = [u \in Users |-> <<>>]
  /\ changes = [u \in Users |-> 0]
  /\ pc = [s \in Threads |-> "idle"] /\ job = [s \in Threads |-> NoJob]
  /\ view = [s \in Threads |-> NoView] /\ read = [s \in Threads |-> 0]
  /\ page = {} /\ lastID = 0 /\ isShort = FALSE
  /\ visited = [u \in Users |-> 0] /\ complete = FALSE
  /\ stopped = FALSE /\ today = FirstDay /\ events = 0

-----------------------------------------------------------------------------
Happens == events < MaxEvents /\ events' = events + 1

(* The world.  A message reaches its subscription or is lost; one that is  *)
(* announced on two subjects reaches both.                                 *)

Send(m, S) ==
  /\ Happens /\ ~stopped
  /\ queue' = [s \in Subs |-> IF s \in S THEN Append(queue[s], m) ELSE queue[s]]
  /\ UNCHANGED <<data, thread, batch, stopped, today>>

Join(m, S)  == m \notin inside /\ inside' = inside \cup {m} /\ Send(m, S)
Leave(m, S) == m \in inside /\ inside' = inside \ {m} /\ Send(m, S)
Talk(m, S)  == m \in inside /\ Send(m, S) /\ UNCHANGED inside
Rename(m, S)   == Send(m, S) /\ UNCHANGED inside
Complete(m, S) == Send(m, S) /\ UNCHANGED inside

(* Days pass while no handler and no batch runs. *)
DaysPass(n) ==
  /\ today + n <= MaxDay /\ ~stopped /\ \A s \in Threads : pc[s] = "idle"
  /\ today' = today + n
  /\ UNCHANGED <<inside, queue, data, thread, batch, limits>>

-----------------------------------------------------------------------------
(* Shutdown cancels the context that the batch passes to its calls.        *)
Cancelled(s) == s = Batch /\ stopped
Answered(s)  == ~Cancelled(s) /\ UNCHANGED events
Failed(s)    == IF Cancelled(s) THEN UNCHANGED events ELSE Happens

Goto(s, label) == pc' = [pc EXCEPT ![s] = label]
User(s)  == job[s].user
Known(s) == User(s) \in DOMAIN profile

(* The handler returns.  The batch goes on with its page instead. *)
Return(s) ==
  /\ job' = [job EXCEPT ![s] = NoJob]
  /\ view' = [view EXCEPT ![s] = NoView] /\ read' = [read EXCEPT ![s] = 0]
  /\ IF s = Batch
     THEN Goto(s, "page") /\ lastID' = User(s) /\ UNCHANGED <<page, isShort, visited, complete>>
     ELSE Goto(s, "idle") /\ UNCHANGED batch

(* Thread s begins to work, as long as no more than MaxBusy do. *)
Begin(s, label) ==
  /\ pc[s] = "idle" /\ Goto(s, label)
  /\ Cardinality({t \in Threads : pc[t] # "idle"}) < MaxBusy

FirstCall(s) ==
  CASE s \in JoinSubs     -> "joins"
    [] s \in LeaveSubs    -> "find"
    [] s \in ActivitySubs -> "day"
    [] s \in ProfileSubs  -> "names"
    [] s \in CampaignSubs -> "campaign"

Receive(s) ==
  /\ queue[s] # <<>> /\ Begin(s, FirstCall(s))
  /\ queue' = [queue EXCEPT ![s] = Tail(@)]
  /\ job' = [job EXCEPT ![s] = Head(queue[s])]
  /\ UNCHANGED <<inside, today, data, view, read, batch, limits>>

-----------------------------------------------------------------------------
(* RecordJoin and RecordLeave.  The counters are updated without an upsert. *)

CountJoin(s) ==
  /\ pc[s] = "joins"
  /\ \/ Answered(s) /\ Known(s) /\ profile' = [profile EXCEPT ![User(s)].joins = @ + 1]
     \/ ((Answered(s) /\ ~Known(s)) \/ Failed(s)) /\ UNCHANGED profile
  /\ Goto(s, "insert")
  /\ UNCHANGED <<world, docs, activity, changes, job, view, read, batch, stopped>>

InsertMembership(s) ==
  /\ pc[s] = "insert"
  /\ \/ /\ Answered(s)
        /\ docs' = [docs EXCEPT ![User(s)] =
             Append(@, [comm |-> job[s].comm, day |-> today, left |-> Open, duration |-> -1])]
     \/ Failed(s) /\ UNCHANGED docs
  /\ Goto(s, "profile")
  /\ UNCHANGED <<world, profile, activity, changes, job, view, read, batch, stopped>>

OpenDocs(s) ==
  {n \in DOMAIN docs[User(s)] : docs[User(s)][n].comm = job[s].comm /\ Stays(docs[User(s)][n])}

FindLastJoin(s) ==
  /\ pc[s] = "find"
  /\ \/ /\ Answered(s)
        /\ \E n \in OpenDocs(s) :
             /\ \A k \in OpenDocs(s) : docs[User(s)][k].day <= docs[User(s)][n].day
             /\ read' = [read EXCEPT ![s] = n]
        /\ Goto(s, "close")
     \/ ((Answered(s) /\ OpenDocs(s) = {}) \/ Failed(s)) /\ Goto(s, "leaves") /\ UNCHANGED read
  /\ UNCHANGED <<world, data, job, view, batch, stopped>>

CloseMembership(s) ==
  /\ pc[s] = "close"
  /\ \/ /\ Answered(s)
        /\ \E n \in OpenDocs(s) :
             docs' = [docs EXCEPT ![User(s)][n].left = today,
                                  ![User(s)][n].duration = today - docs[User(s)][read[s]].day]
     \/ ((Answered(s) /\ OpenDocs(s) = {}) \/ Failed(s)) /\ UNCHANGED docs
  /\ Goto(s, "leaves")
  /\ UNCHANGED <<world, profile, activity, changes, job, view, read, batch, stopped>>

(* Mutant: the counter of joins is copied from RecordJoin. *)
CountLeaveAsJoin(s) ==
  /\ pc[s] = "leaves" /\ Goto(s, "profile")
  /\ profile' = IF Known(s) THEN [profile EXCEPT ![User(s)].joins = @ + 1] ELSE profile
  /\ UNCHANGED <<world, docs, activity, changes, job, view, read, batch, limits>>

(* Mutant: a leave takes back a join. *)
CountLeaveBack(s) ==
  /\ pc[s] = "leaves" /\ Goto(s, "profile")
  /\ profile' = IF Known(s) THEN [profile EXCEPT ![User(s)].joins = @ - 1] ELSE profile
  /\ UNCHANGED <<world, docs, activity, changes, job, view, read, batch, limits>>

CountLeave(s) ==
  /\ pc[s] = "leaves"
  /\ \/ Answered(s) /\ Known(s) /\ profile' = [profile EXCEPT ![User(s)].leaves = @ + 1]
     \/ ((Answered(s) /\ ~Known(s)) \/ Failed(s)) /\ UNCHANGED profile
  /\ Goto(s, "profile")
  /\ UNCHANGED <<world, docs, activity, changes, job, view, read, batch, stopped>>

-----------------------------------------------------------------------------
(* RecordActivity: an upsert on (user, community, date).  No unique index  *)
(* backs the key, so an upsert that finds nothing may insert next to one   *)
(* that another subscription has inserted meanwhile.                       *)

Day(s) == [comm |-> job[s].comm, date |-> today]
Recorded(s) == \E n \in DOMAIN activity[User(s)] : activity[User(s)][n] = Day(s)

FindDay(s) ==
  /\ pc[s] = "day"
  /\ \/ Answered(s) /\ ~Recorded(s) /\ Goto(s, "newday")
     \/ ((Answered(s) /\ Recorded(s)) \/ Failed(s)) /\ Goto(s, "profile")
  /\ UNCHANGED <<world, data, job, view, read, batch, stopped>>

InsertDay(s) ==
  /\ pc[s] = "newday"
  /\ activity' = [activity EXCEPT ![User(s)] = Append(@, Day(s))]
  /\ Goto(s, "profile")
  /\ UNCHANGED <<world, profile, docs, changes, job, view, read, batch, limits>>

-----------------------------------------------------------------------------
(* handleProfileUpdate records each name that differs from the profile and *)
(* handleCampaignComplete returns if there is no profile.  Both then call  *)
(* UpsertProfile, which is refused: nothing of it is left to model.        *)

Differing(p, m) == (IF p.username # m.username THEN 1 ELSE 0) + (IF p.first # m.first THEN 1 ELSE 0)

CompareNames(s) ==
  /\ pc[s] = "names"
  /\ \/ /\ Answered(s)
        /\ read' = [read EXCEPT ![s] = IF Known(s) THEN Differing(profile[User(s)], job[s]) ELSE 0]
     \/ Failed(s) /\ read' = [read EXCEPT ![s] = Differing(ZeroProfile, job[s])]
  /\ Goto(s, IF read'[s] = 0 THEN "profile" ELSE "history")
  /\ UNCHANGED <<world, data, job, view, batch, stopped>>

RecordProfileChange(s) ==
  /\ pc[s] = "history"
  /\ \/ Answered(s) /\ changes' = [changes EXCEPT ![User(s)] = @ + 1]
     \/ Failed(s) /\ UNCHANGED changes
  /\ read' = [read EXCEPT ![s] = @ - 1]
  /\ Goto(s, IF read[s] = 1 THEN "profile" ELSE "history")
  /\ UNCHANGED <<world, profile, docs, activity, job, view, batch, stopped>>

handleCampaignComplete(s) ==
  /\ pc[s] = "campaign"
  /\ \/ Answered(s) /\ ~Known(s) /\ Return(s)
     \/ /\ (Answered(s) /\ Known(s)) \/ Failed(s)
        /\ Goto(s, "profile") /\ UNCHANGED <<job, view, read, batch>>
  /\ UNCHANGED <<world, data, stopped>>

-----------------------------------------------------------------------------
(* recalcUserScore: three reads, then the score is stored in the profile.  *)
(* A failed read counts as what it leaves: a zero profile, no memberships, *)
(* no active days.                                                         *)

(* Calculate does not read the score it replaces. *)
Facts(u) == [profile[u] EXCEPT !.trust = 0]

GetProfile(s) ==
  /\ pc[s] = "profile"
  /\ \/ /\ Answered(s) /\ ~Known(s)
        /\ read' = [read EXCEPT ![s] = Unknown] /\ UNCHANGED view
        /\ Goto(s, "store")
     \/ /\ \/ Answered(s) /\ Known(s) /\ view' = [view EXCEPT ![s].profile = Facts(User(s))]
           \/ Failed(s) /\ view' = [view EXCEPT ![s].profile = ZeroProfile]
        /\ read' = [read EXCEPT ![s] = 0]
        /\ Goto(s, "memberships")
  /\ UNCHANGED <<world, data, job, batch, stopped>>

ReadMemberships(s) ==
  /\ pc[s] = "memberships"
  /\ \/ /\ Answered(s)
        /\ view' = [view EXCEPT ![s].ms = GetRecentMemberships(docs[User(s)], today)]
     \/ Failed(s) /\ UNCHANGED view
  /\ Goto(s, "activity")
  /\ UNCHANGED <<world, data, job, read, batch, stopped>>

GetActivityDays(u) ==
  Cardinality({n \in DOMAIN activity[u] : activity[u][n].date >= today - ActiveDays})

Calculate(s) ==
  /\ pc[s] = "activity"
  /\ \E active \in {0, GetActivityDays(User(s))} :
       /\ (Answered(s) /\ active = GetActivityDays(User(s))) \/ (Failed(s) /\ active = 0)
       /\ read' = [read EXCEPT ![s] = Trust(view[s].profile, view[s].ms, active, today)]
  /\ view' = [view EXCEPT ![s] = NoView]
  /\ Goto(s, "store")
  /\ UNCHANGED <<world, data, job, batch, stopped>>

(* What nothing in the repository reads is left out: the history of scores *)
(* in user_scores, and user.score.updated, which has no subscriber.        *)
UpdateTrustScore(s) ==
  /\ pc[s] = "store"
  /\ \/ /\ Answered(s)
        /\ profile' = IF Known(s) THEN [profile EXCEPT ![User(s)].trust = read[s]] ELSE profile
     \/ Failed(s) /\ UNCHANGED profile
  /\ Return(s)
  /\ UNCHANGED <<world, docs, activity, changes, stopped>>

recalcUser(s, u) ==
  /\ Happens /\ Begin(s, "profile")
  /\ job' = [job EXCEPT ![s] = [user |-> u]]
  /\ UNCHANGED <<world, data, view, read, batch, stopped>>

-----------------------------------------------------------------------------
(* RunPeriodicRecalc and batchRecalcUsers. *)

Tick ==
  /\ ~stopped /\ Begin(Batch, "list")
  /\ visited' = [u \in Users |-> 0] /\ complete' = FALSE
  /\ UNCHANGED <<world, data, job, view, read, page, lastID, isShort, limits>>

(* Mutant: the page begins with the user the last one ended with. *)
ListFromLast(after) ==
  LET later == {u \in DOMAIN profile : u >= after}
  IN  {u \in later : Cardinality({v \in later : v < u}) < BatchSize}

(* Mutant: only profiles without a score are due. *)
ListUnscored(after) ==
  LET later == {u \in DOMAIN profile : u > after /\ profile[u].trust = 0}
  IN  {u \in later : Cardinality({v \in later : v < u}) < BatchSize}

ListUsersForRecalc(after) ==
  LET later == {u \in DOMAIN profile : u > after}
  IN  {u \in later : Cardinality({v \in later : v < u}) < BatchSize}

EndBatch(done) ==
  /\ Goto(Batch, "idle") /\ complete' = done
  /\ lastID' = 0 /\ page' = {} /\ isShort' = FALSE

ListPage ==
  /\ pc[Batch] = "list"
  /\ \/ /\ Answered(Batch) /\ ListUsersForRecalc(lastID) # {}
        /\ page' = ListUsersForRecalc(lastID)
        /\ isShort' = (Cardinality(page') < BatchSize)
        /\ Goto(Batch, "page") /\ UNCHANGED <<lastID, complete>>
     \/ Answered(Batch) /\ ListUsersForRecalc(lastID) = {} /\ EndBatch(TRUE)
     \/ Failed(Batch) /\ EndBatch(FALSE)
  /\ UNCHANGED <<world, data, job, view, read, visited, stopped>>

NextUser ==
  /\ pc[Batch] = "page"
  /\ \/ /\ page # {} /\ ~stopped
        /\ job' = [job EXCEPT ![Batch] = [user |-> Min(page)]]
        /\ page' = page \ {Min(page)}
        /\ visited' = [visited EXCEPT ![Min(page)] = @ + 1]
        /\ Goto(Batch, "profile") /\ UNCHANGED <<lastID, isShort, complete>>
     \/ page # {} /\ stopped /\ EndBatch(FALSE) /\ UNCHANGED <<job, visited>>
     \/ page = {} /\ isShort /\ EndBatch(TRUE) /\ UNCHANGED <<job, visited>>
     \/ page = {} /\ ~isShort /\ Goto(Batch, "list") /\ UNCHANGED <<job, batch>>
  /\ UNCHANGED <<world, data, view, read, limits>>

(* SIGTERM: RunPeriodicRecalc gets no further tick, the subscriptions run  *)
(* until the process ends.  What arrives in those seconds is left out.     *)
Shutdown ==
  /\ ~stopped /\ stopped' = TRUE
  /\ UNCHANGED <<world, data, thread, batch, events>>

-----------------------------------------------------------------------------
recalcUserScore(s) ==
  \/ GetProfile(s) \/ ReadMemberships(s) \/ Calculate(s)
  \/ UpdateTrustScore(s)

Handle(s) ==
  \/ Receive(s)
  \/ CountJoin(s) \/ InsertMembership(s)
  \/ FindLastJoin(s) \/ CloseMembership(s) \/ CountLeave(s)
  \/ FindDay(s) \/ InsertDay(s)
  \/ CompareNames(s) \/ RecordProfileChange(s) \/ handleCampaignComplete(s)

Work == (\E s \in Subs : Handle(s)) \/ (\E s \in Subs \cup Recalcs : recalcUserScore(s))

batchRecalcUsers == Tick \/ ListPage \/ NextUser \/ recalcUserScore(Batch)

Next ==
  \/ \E m \in Membership :
       \/ \E S \in SUBSET JoinSubs : Join(m, S)
       \/ \E S \in SUBSET LeaveSubs : Leave(m, S)
       \/ \E S \in SUBSET ActivitySubs : Talk(m, S)
  \/ \E u \in Movers, names \in Renamings, S \in SUBSET ProfileSubs : Rename(Renamed(u, names), S)
  \/ \E m \in Campaign, S \in SUBSET CampaignSubs : Complete(m, S)
  \/ \E n \in Strides : DaysPass(n)
  \/ Work
  \/ \E s \in Recalcs, u \in Users : recalcUser(s, u)
  \/ batchRecalcUsers
  \/ Shutdown

Spec == Init /\ [][Next]_vars

(* The handlers and requests run on, one or the other of them, until none  *)
(* has a step to take, and the ticker ticks.                               *)
FairSpec == Spec /\ WF_vars(Work) /\ WF_vars(batchRecalcUsers)

-----------------------------------------------------------------------------
Labels == {"idle", "joins", "insert", "find", "close", "leaves", "day", "newday", "names",
           "history", "campaign", "profile", "memberships", "activity", "store", "list", "page"}

(* Every score that is stored lies between 0 and 100 (UserProfile).        *)
TypeOK ==
  /\ inside \subseteq Membership
  /\ \A s \in Subs : queue[s] \in Seq(Membership \cup Renaming \cup Campaign)
  /\ DOMAIN profile \subseteq Users /\ \A u \in DOMAIN profile : profile[u] \in UserProfile
  /\ docs \in [Users -> Seq(UserMembership)]
  /\ activity \in [Users -> Seq([comm : Communities, date : Nat])]
  /\ changes \in [Users -> Nat]
  /\ pc \in [Threads -> Labels] /\ read \in [Threads -> Nat]
  /\ page \subseteq DOMAIN profile /\ lastID \in Users \cup {0} /\ isShort \in BOOLEAN
  /\ visited \in [Users -> Nat] /\ complete \in BOOLEAN /\ stopped \in BOOLEAN

(* What the trust score of u would be if it were calculated now. *)
TrustNow(u) ==
  Trust(Facts(u), GetRecentMemberships(docs[u], today), GetActivityDays(u), today)

(* A batch that is neither interrupted nor fails recalculates every        *)
(* profile exactly once, whatever the number of full pages, and no batch   *)
(* recalculates one twice (the cursor of batchRecalcUsers).                *)
BatchVisitsEachOnce ==
  \A u \in DOMAIN profile : visited[u] <= 1 /\ (complete => visited[u] = 1)

(* Recording a leave never raises a trust score, not even in the middle of *)
(* RecordLeave: duration, retention and the leave ratio all turn against   *)
(* the user, though two queries may have chosen two memberships.  Unless a *)
(* later join is recorded between them: then the new membership may be the *)
(* one that is closed, with the length of the old.                         *)
LeavingNeverHelps ==
  [][\A s \in LeaveSubs :
       /\ pc[s] \in {"close", "leaves"} /\ pc'[s] # pc[s] /\ Known(s)
       /\ pc[s] = "close" =>
            \A n \in OpenDocs(s) : docs[User(s)][n].day <= docs[User(s)][read[s]].day
       => \A u \in {User(s)} : TrustNow(u)' <= TrustNow(u)]_vars

(* Mere staying never costs a user points (user_scorer.go:40), as long as  *)
(* the memberships are at most 90 days old and there is no activity that   *)
(* could lapse.                                                            *)
StayingIsTrusted ==
  [][today' > today =>
       \A u \in DOMAIN profile :
         (/\ activity[u] = <<>>
          /\ \A n \in DOMAIN docs[u] : Stays(docs[u][n]) /\ docs[u][n].day >= today' - RecentDays)
         => TrustNow(u)' >= TrustNow(u)]_vars

(* Handlers that ran at the same time may store the older score last, and  *)
(* failed reads may store a wrong one; the periodic batch corrects it.     *)
(* Unless the service is shut down, the score a profile holds becomes and  *)
(* stays that of the user's data.                                          *)
TrustCatchesUp ==
  \A u \in Users :
    <>[](stopped \/ (u \in DOMAIN profile => profile[u].trust = TrustNow(u)))

=============================================================================
