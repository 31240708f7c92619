----------------------------- MODULE Membership -----------------------------
(***************************************************************************)
(* Membership in community-service: a membership.joined message records a  *)
(* campaign participant, counts the member and starts the timer of the     *)
(* validation window; the timer, or the worker that scans the table, asks  *)
(* for a check (membership.validate_check); membership.left counts the     *)
(* member out.  The admin and owner endpoints change the community's       *)
(* status and window at any time.                                          *)
(*                                                                         *)
(* Each instance runs one goroutine per subscription, so joins are handled *)
(* one by one, next to the leaves, the timers and the worker.  Time passes *)
(* in periods (Tick); DefaultWindow periods are 24 hours.                  *)
(***************************************************************************)
EXTENDS Integers, Sequences, FiniteSets

CONSTANTS
  Instances, Registered, Campaigns, Users,
  NoId,              \* a campaign id that is missing or no UUID
  Windows,           \* validation windows an owner may set, in periods
  DefaultWindow,     \* store.DefaultValidationWindow
  InitialStatuses,   \* status of the communities at the start
  ChatIdColumn,      \* does the communities table have a chat_id column?
  ApiListeners,      \* is api.Handler.RegisterNATSListeners called?
  MaxMessages, MaxAdmin, MaxFaults, MaxCrashes     \* bounds of the environment

Statuses == {"pending", "active", "suspended", "rejected"}
Keys     == Campaigns \X Users          \* the unique index idx_camp_user
MaxAge   == 1 + CHOOSE w \in Windows \cup {DefaultWindow} :
                  \A v \in Windows \cup {DefaultWindow} : v <= w

ASSUME WindowsAssumption ==
  /\ Windows \subseteq Nat /\ IsFiniteSet(Windows)
  /\ DefaultWindow \in Nat \ {0}
ASSUME MembershipAssumption ==
  /\ NoId \notin Campaigns \cup Registered
  /\ InitialStatuses \subseteq Statuses
  /\ ChatIdColumn \in BOOLEAN /\ ApiListeners \in BOOLEAN
  /\ MaxMessages \in Nat /\ MaxAdmin \in Nat /\ MaxFaults \in Nat /\ MaxCrashes \in Nat

VARIABLES
  community,    \* communities: status, member_count, validation window
  participant,  \* campaign_participants by (campaign, user)
  joins,        \* undelivered membership.joined, per instance
  leaves,       \* undelivered membership.left, per instance and community
  pc,           \* the next statement of each instance's join handler
  join,         \* the join it is handling
  window,       \* the window it read
  timers,       \* validation timers: [at, key, left]
  asked,        \* history: keys with a validate_check, and how it compared
  started,      \* history: timers ever started per key
  wasActive,    \* history: communities that were active at some time
  messages, admins, faults, crashes                \* what happened so far

tables == <<community, participant>>
boxes  == <<joins, leaves>>
local  == <<pc, join, window>>
hist   == <<asked, started, wasActive>>
counts == <<messages, admins, faults, crashes>>
vars   == <<tables, boxes, local, timers, hist, counts>>

Join   == [comm : Registered, camp : Campaigns \cup {NoId}, user : Users]
NoJoin == [comm |-> NoId, camp |-> NoId, user |-> NoId]
NoRow  == [status |-> "absent", comm |-> NoId, age |-> 0, window |-> 0]

Recorded == {k \in Keys : participant[k].status # "absent"}
Pending  == {k \in Keys : participant[k].status = "pending"}
KeyOf(j) == <<j.camp, j.user>>

Init ==
  /\ community \in [Registered -> [status : InitialStatuses, members : {0},
                                   window : {DefaultWindow}]]
  /\ participant = [k \in Keys |-> NoRow]
  /\ joins  = [i \in Instances |-> <<>>]
  /\ leaves = [i \in Instances |-> [c \in Registered |-> 0]]
  /\ pc     = [i \in Instances |-> "idle"]
  /\ join   = [i \in Instances |-> NoJoin]
  /\ window = [i \in Instances |-> 0]
  /\ timers = {}
  /\ asked  = [k \in Keys |-> "no"]
  /\ started = [k \in Keys |-> 0]
  /\ wasActive = {c \in Registered : community[c].status = "active"}
  /\ messages = 0 /\ admins = 0 /\ faults = 0 /\ crashes = 0

Answered == UNCHANGED faults
Failed   == faults < MaxFaults /\ faults' = faults + 1

Goto(i, label) == pc' = [pc EXCEPT ![i] = label] /\ UNCHANGED <<join, window>>
Return(i) ==
  /\ pc' = [pc EXCEPT ![i] = "idle"]
  /\ join' = [join EXCEPT ![i] = NoJoin]
  /\ window' = [window EXCEPT ![i] = 0]

-----------------------------------------------------------------------------
(* NATS: every instance subscribes for itself; messages may be lost. *)

PublishJoin(j, D) ==
  /\ messages < MaxMessages /\ messages' = messages + 1
  /\ joins' = [i \in Instances |-> IF i \in D THEN Append(joins[i], j) ELSE joins[i]]
  /\ UNCHANGED <<tables, leaves, local, timers, hist, admins, faults, crashes>>

PublishLeave(c, D) ==
  /\ messages < MaxMessages /\ messages' = messages + 1
  /\ leaves' = [i \in Instances |-> IF i \in D THEN [leaves[i] EXCEPT ![c] = @ + 1]
                                               ELSE leaves[i]]
  /\ UNCHANGED <<tables, joins, local, timers, hist, admins, faults, crashes>>

-----------------------------------------------------------------------------
(* Mutant: the handler drains the subscription and handles one message. *)
ReceiveLastJoin(i) ==
  /\ pc[i] = "idle" /\ joins[i] # <<>>
  /\ joins' = [joins EXCEPT ![i] = <<>>]
  /\ pc' = [pc EXCEPT ![i] = "status"]
  /\ join' = [join EXCEPT ![i] = joins[i][Len(joins[i])]]
  /\ UNCHANGED <<tables, leaves, window, timers, hist, counts>>

(* membership.joined.  FindCommunityByChatID: a failed read, and every read *)
(* without a chat_id column, yields the zero row, whose id HandleJoin does  *)
(* not find.                                                                *)
ReceiveJoin(i) ==
  /\ pc[i] = "idle" /\ joins[i] # <<>>
  /\ joins' = [joins EXCEPT ![i] = Tail(@)]
  /\ \/ /\ (Answered /\ ~ChatIdColumn) \/ Failed
        /\ UNCHANGED local
     \/ /\ Answered /\ ChatIdColumn
        /\ pc' = [pc EXCEPT ![i] = "status"]
        /\ join' = [join EXCEPT ![i] = Head(joins[i])]
        /\ UNCHANGED window
  /\ UNCHANGED <<tables, leaves, timers, hist, messages, admins, crashes>>

(* Mutant: the status of the community is not looked at. *)
CheckExists(i) ==
  /\ pc[i] = "status"
  /\ \/ /\ Answered /\ join[i].camp # NoId
        /\ pc' = [pc EXCEPT ![i] = "find"]
        /\ window' = [window EXCEPT ![i] = community[join[i].comm].window]
        /\ UNCHANGED join
     \/ (Answered /\ join[i].camp = NoId) /\ Return(i)
  /\ UNCHANGED <<tables, boxes, timers, hist, messages, admins, crashes>>

(* HandleJoin, one action per database call. *)

CheckActive(i) ==
  /\ pc[i] = "status"
  /\ LET c == community[join[i].comm]
     IN  \/ /\ Answered /\ c.status = "active" /\ join[i].camp # NoId
            /\ pc' = [pc EXCEPT ![i] = "find"]
            /\ window' = [window EXCEPT ![i] = c.window]
            /\ UNCHANGED join
         \/ /\ (Answered /\ (c.status # "active" \/ join[i].camp = NoId)) \/ Failed
            /\ Return(i)
  /\ UNCHANGED <<tables, boxes, timers, hist, messages, admins, crashes>>

(* FindParticipant: any row, and any failure, is taken for a duplicate. *)
CheckJoined(i) ==
  /\ pc[i] = "find"
  /\ \/ Answered /\ KeyOf(join[i]) \notin Recorded /\ Goto(i, "record")
     \/ Answered /\ KeyOf(join[i]) \in Recorded /\ Return(i)
     \/ Failed /\ Return(i)
  /\ UNCHANGED <<tables, boxes, timers, hist, messages, admins, crashes>>

(* Mutant: the error of CreateParticipant is ignored. *)
RecordInAnyCase(i) ==
  /\ pc[i] = "record" /\ Answered
  /\ LET k == KeyOf(join[i])
     IN  participant' = IF k \in Recorded THEN participant
                        ELSE [participant EXCEPT ![k] =
                                [status |-> "pending", comm |-> join[i].comm, age |-> 0,
                                 window |-> window[i]]]
  /\ Goto(i, "count")
  /\ UNCHANGED <<community, boxes, timers, hist, messages, admins, crashes>>

(* The unique index on (campaign, user) refuses a second row. *)
RecordParticipant(i) ==
  /\ pc[i] = "record"
  /\ LET k == KeyOf(join[i])
     IN  \/ /\ Answered /\ k \notin Recorded
            /\ participant' = [participant EXCEPT ![k] =
                 [status |-> "pending", comm |-> join[i].comm, age |-> 0,
                  window |-> window[i]]]
            /\ Goto(i, "count")
         \/ /\ (Answered /\ k \in Recorded) \/ Failed
            /\ Return(i) /\ UNCHANGED participant
  /\ UNCHANGED <<community, boxes, timers, hist, messages, admins, crashes>>

(* The error of IncrementMemberCount is ignored. *)
IncrementMemberCount(i) ==
  /\ pc[i] = "count"
  /\ \/ Answered /\ community' = [community EXCEPT ![join[i].comm].members = @ + 1]
     \/ Failed /\ UNCHANGED community
  /\ Goto(i, "timer")
  /\ UNCHANGED <<participant, boxes, timers, hist, messages, admins, crashes>>

(* Mutant: the timer runs for half the window. *)
StartEarlyTimer(i) ==
  /\ pc[i] = "timer"
  /\ timers' = timers \cup {[at |-> i, key |-> KeyOf(join[i]), left |-> window[i] \div 2]}
  /\ started' = [started EXCEPT ![KeyOf(join[i])] = @ + 1]
  /\ Return(i)
  /\ UNCHANGED <<tables, boxes, asked, wasActive, counts>>

StartTimer(i) ==
  /\ pc[i] = "timer"
  /\ timers' = timers \cup {[at |-> i, key |-> KeyOf(join[i]), left |-> window[i]]}
  /\ started' = [started EXCEPT ![KeyOf(join[i])] = @ + 1]
  /\ Return(i)
  /\ UNCHANGED <<tables, boxes, asked, wasActive, counts>>

-----------------------------------------------------------------------------
(* Mutant: member_count - 1 without GREATEST. *)
DecrementBelowZero(c) == community' = [community EXCEPT ![c].members = @ - 1]

DecrementMemberCount(c) ==
  community' = [community EXCEPT ![c].members = IF @ > 0 THEN @ - 1 ELSE 0]

(* The count goes down whoever has left, recorded or not. *)
HandleLeave(c) ==
  \/ Answered /\ ChatIdColumn /\ DecrementMemberCount(c)
  \/ ((Answered /\ ~ChatIdColumn) \/ Failed) /\ UNCHANGED community

(* membership.left, a subscription of its own. *)
ReceiveLeave(i, c) ==
  /\ leaves[i][c] > 0
  /\ leaves' = [leaves EXCEPT ![i][c] = @ - 1]
  /\ HandleLeave(c)
  /\ UNCHANGED <<participant, joins, local, timers, hist, messages, admins, crashes>>

-----------------------------------------------------------------------------
(* membership.validate_check.  The history keeps whether the first one was *)
(* sent before the participant's window had passed.                        *)
Ask(ks) ==
  asked' = [k \in Keys |->
              IF k \in ks /\ asked[k] = "no"
              THEN IF participant[k].age >= participant[k].window THEN "due" ELSE "early"
              ELSE asked[k]]

TimerFires(t) ==
  /\ t.left = 0
  /\ timers' = timers \ {t}
  /\ Ask({t.key})
  /\ UNCHANGED <<tables, boxes, local, started, wasActive, counts>>

(* Mutant: the rows after the cutoff instead of those before it. *)
FindFreshValidations == {k \in Pending : participant[k].age < DefaultWindow}

(* FindPendingValidations with the cutoff of the default window, whatever  *)
(* window the community has.                                               *)
FindPendingValidations == {k \in Pending : participant[k].age >= DefaultWindow}

RunValidationWorker ==
  /\ Ask(FindPendingValidations)
  /\ UNCHANGED <<tables, boxes, local, timers, started, wasActive, counts>>

(* membership.validate_response, answered by another service for a check;  *)
(* the answer may come late or twice.                                      *)
ConfirmValidation(k, isValid) ==
  /\ ApiListeners /\ asked[k] # "no"
  /\ participant' = [participant EXCEPT ![k].status = IF isValid THEN "validated" ELSE "left"]
  /\ UNCHANGED <<community, boxes, local, timers, hist, counts>>

Tick ==
  /\ participant' = [k \in Keys |-> IF k \in Recorded /\ participant[k].age < MaxAge
                                    THEN [participant[k] EXCEPT !.age = @ + 1]
                                    ELSE participant[k]]
  /\ timers' = {[t EXCEPT !.left = IF @ > 0 THEN @ - 1 ELSE 0] : t \in timers}
  /\ UNCHANGED <<community, boxes, local, hist, counts>>

-----------------------------------------------------------------------------
(* The HTTP endpoints; none looks at the community's present state. *)

UpdateCommunityStatus(c, s) ==
  /\ admins < MaxAdmin /\ admins' = admins + 1
  /\ community' = [community EXCEPT ![c].status = s]
  /\ wasActive' = wasActive \cup IF s = "active" THEN {c} ELSE {}
  /\ UNCHANGED <<participant, boxes, local, timers, asked, started, messages, faults, crashes>>

approveCommunity(c) == UpdateCommunityStatus(c, "active")
rejectCommunity(c)  == UpdateCommunityStatus(c, "rejected")

setValidationWindow(c, w) ==
  /\ admins < MaxAdmin /\ admins' = admins + 1
  /\ community' = [community EXCEPT ![c].window = w]
  /\ UNCHANGED <<participant, boxes, local, timers, hist, messages, faults, crashes>>

(* The process dies: its messages, its handlers and its timers are gone. *)
Crash(i) ==
  /\ crashes < MaxCrashes /\ crashes' = crashes + 1
  /\ joins' = [joins EXCEPT ![i] = <<>>]
  /\ leaves' = [leaves EXCEPT ![i] = [c \in Registered |-> 0]]
  /\ Return(i)
  /\ timers' = {t \in timers : t.at # i}
  /\ UNCHANGED <<tables, hist, messages, admins, faults>>

-----------------------------------------------------------------------------
HandleJoin(i) ==
  \/ ReceiveJoin(i) \/ CheckActive(i) \/ CheckJoined(i) \/ RecordParticipant(i)
  \/ IncrementMemberCount(i) \/ StartTimer(i)

Network ==
  \/ \E j \in Join, D \in SUBSET Instances : PublishJoin(j, D)
  \/ \E c \in Registered, D \in SUBSET Instances : PublishLeave(c, D)

Admin ==
  \E c \in Registered : \/ approveCommunity(c) \/ rejectCommunity(c)
                        \/ \E w \in Windows : setValidationWindow(c, w)

Next ==
  \/ \E i \in Instances : HandleJoin(i) \/ Crash(i)
  \/ \E i \in Instances, c \in Registered : ReceiveLeave(i, c)
  \/ \E t \in timers : TimerFires(t)
  \/ RunValidationWorker \/ Tick \/ Network \/ Admin
  \/ \E k \in Keys, v \in BOOLEAN : ConfirmValidation(k, v)

Spec == Init /\ [][Next]_vars

(* Time passes, the worker's ticker keeps ticking, handlers run, and the   *)
(* membership network answers what it is asked.                            *)
FairSpec ==
  /\ Spec
  /\ WF_vars(Tick) /\ WF_vars(RunValidationWorker)
  /\ WF_vars(\E t \in timers : TimerFires(t))
  /\ \A i \in Instances : WF_vars(HandleJoin(i))
  /\ \A k \in Keys : WF_vars(k \in Pending /\ \E v \in BOOLEAN : ConfirmValidation(k, v))

-----------------------------------------------------------------------------
TypeOK ==
  /\ community \in [Registered -> [status : Statuses, members : Nat,
                                   window : Windows \cup {DefaultWindow}]]
  /\ participant \in [Keys -> [status : {"absent", "pending", "validated", "left"},
                               comm : Registered \cup {NoId}, age : 0..MaxAge,
                               window : Windows \cup {0, DefaultWindow}]]
  /\ joins \in [Instances -> Seq(Join)]
  /\ leaves \in [Instances -> [Registered -> Nat]]
  /\ pc \in [Instances -> {"idle", "status", "find", "record", "count", "timer"}]
  /\ join \in [Instances -> Join \cup {NoJoin}]
  /\ window \in [Instances -> Windows \cup {0, DefaultWindow}]
  /\ timers \subseteq [at : Instances, key : Keys, left : 0..MaxAge]
  /\ asked \in [Keys -> {"no", "due", "early"}]
  /\ started \in [Keys -> Nat]
  /\ wasActive \subseteq Registered
  /\ messages \in 0..MaxMessages /\ admins \in 0..MaxAdmin
  /\ faults \in 0..MaxFaults /\ crashes \in 0..MaxCrashes

(* member_count never exceeds the participants recorded for the community, *)
(* though every instance gets every join and the two statements are not in *)
(* one transaction: only the instance that inserted the row counts it.     *)
MembersAreBacked ==
  \A c \in Registered :
    community[c].members <= Cardinality({k \in Recorded : participant[k].comm = c})

(* A participant gets one validation timer, on one instance. *)
OneTimerPerParticipant == \A k \in Keys : started[k] <= 1

(* A participant is only recorded for a community that an admin approved,  *)
(* even when approval and rejection race with the join.                    *)
RecordedWhereApproved == \A k \in Recorded : participant[k].comm \in wasActive

(* A participant is not checked before the validation window of its        *)
(* community, as it was at the join, has passed.                           *)
CheckedAfterWindow == \A k \in Keys : asked[k] # "early"

(* Every participant is checked, by the timer or, when a crash has taken   *)
(* the timer, by the worker, and then settled as validated or as left.     *)
EveryParticipantIsSettled == \A k \in Keys : (k \in Pending) ~> (k \notin Pending)

(* A join that an instance gets for an active community and for a campaign *)
(* leads to a participant, unless a call fails, the process dies or the    *)
(* community is not active any more.                                       *)
JoinsAreRecorded ==
  \A i \in Instances, c \in Registered, k \in Campaigns, u \in Users :
    (/\ community[c].status = "active"
     /\ \E n \in DOMAIN joins[i] : joins[i][n] = [comm |-> c, camp |-> k, user |-> u])
      ~> (\/ <<k, u>> \in Recorded
          \/ community[c].status # "active" \/ faults > 0 \/ crashes > 0)

=============================================================================
