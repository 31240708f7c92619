------------------------------ MODULE Revenue ------------------------------
(***************************************************************************)
(* The revenue path of community-service: a campaign.revenue.generated     *)
(* message becomes a community_revenues row and the row is paid out to the *)
(* owner, the active members and the platform.                             *)
(*                                                                         *)
(* A thread is either the subscription goroutine of one service instance   *)
(* (it handles its messages one after the other) or a goroutine started by *)
(* POST /admin/revenue/distribute.  Between two database calls or two      *)
(* publications of a thread, any other thread may run, the process may     *)
(* die, and a database call may fail.                                      *)
(***************************************************************************)
EXTENDS Integers, Sequences, RevenueSplit

CONSTANTS
  Instances,       \* running copies of community-service
  Triggers,        \* concurrent POST /admin/revenue/distribute requests
  Serves,          \* the instance that serves each of them
  RevIds,          \* ids of community_revenues rows
  Registered,      \* ids of the communities that exist
  Campaigns,       \* campaign ids
  Totals,          \* values of revenue_ton (0 stands for every refused one)
  Types,           \* community types
  Scores,          \* quality scores fraud-engine sends
  Members,         \* Telegram users with activity
  ActivityScores,  \* values of CalcActivityScore
  ChatIdColumn,    \* does the communities table have a chat_id column?
  MongoConnected,  \* was store.New given a Mongo database?
  MaxEvents, MaxTriggers, MaxFaults, MaxCrashes,   \* bounds of the environment
  NoId             \* the zero UUID, and ids that parse as no UUID

Threads == Instances \cup Triggers

ASSUME ThreadsAssumption ==
  /\ Instances \cap Triggers = {}
  /\ Serves \in [Triggers -> Instances]
ASSUME IdsAssumption == NoId \notin RevIds \cup Registered \cup Campaigns
ASSUME NumbersAssumption ==
  /\ Totals \subseteq Nat /\ Scores \subseteq Nat /\ ActivityScores \subseteq Nat
  /\ 0 \in ActivityScores
  /\ MaxEvents \in Nat /\ MaxTriggers \in Nat
  /\ MaxFaults \in Nat /\ MaxCrashes \in Nat
  /\ ChatIdColumn \in BOOLEAN /\ MongoConnected \in BOOLEAN

VARIABLES
  community,  \* communities: type and quality_score
  activity,   \* community_activity: the activity score of each member
  revenue,    \* community_revenues
  booked,     \* community_distributions: nano-TON booked per row and member
  ledger,     \* history: earning.created sent to owner and platform, per row
  rewards,    \* history: earning.created sent to members, per row
  announced,  \* history: community.revenue.distributed sent
  inbox,      \* undelivered campaign.revenue.generated, per instance
  pc,         \* the next statement of each thread
  event,      \* the message an instance is handling
  rev,        \* the revenueID a thread distributes
  seen,       \* the community row it read
  todo,       \* the member payments it still has to make
  payee,      \* the member payment it has sent and not yet booked
  cancelled,  \* triggers whose request context is cancelled
  published, triggered, faults, crashes            \* what happened so far

store  == <<community, activity, revenue, booked>>
sent   == <<ledger, rewards, announced>>
local  == <<rev, seen, todo, payee>>
counts == <<published, triggered, faults, crashes>>
vars   == <<store, sent, inbox, pc, event, local, cancelled, counts>>

Event == [comm : Registered \cup {NoId}, by : {"id", "chat"},
          camp : Campaigns \cup {NoId}, total : Totals]

NoEvent == [comm |-> NoId, by |-> "id", camp |-> NoId, total |-> 0]
NoRow   == [status |-> "absent", comm |-> NoId, camp |-> NoId, total |-> 0]

(* What a failed read leaves in `var c Community`. *)
ZeroCommunity == [type |-> "", quality |-> 0]

NoPayment == [member |-> NoId, nano |-> 0]

Present == {r \in RevIds : revenue[r].status # "absent"}
RowsOf(camp, comm) ==
  {r \in Present : revenue[r].camp = camp /\ revenue[r].comm = comm}

Init ==
  /\ community \in [Registered ->
                      [type : Types, quality : IF ChatIdColumn THEN Scores ELSE {50}]]
  /\ activity \in [Registered -> [Members -> IF MongoConnected THEN ActivityScores
                                                               ELSE {0}]]
  /\ revenue = [r \in RevIds |-> NoRow]
  /\ booked  = [r \in RevIds |-> [m \in Members |-> 0]]
  /\ rewards = [r \in RevIds |-> [m \in Members |-> 0]]
  /\ ledger  = [r \in RevIds |-> [ownerTimes |-> 0, owner |-> 0,
                                  platformTimes |-> 0, platform |-> 0]]
  /\ announced = {}
  /\ inbox = [i \in Instances |-> <<>>]
  /\ pc    = [t \in Threads |-> "idle"]
  /\ event = [i \in Instances |-> NoEvent]
  /\ rev   = [t \in Threads |-> NoId]
  /\ seen  = [t \in Threads |-> ZeroCommunity]
  /\ todo  = [t \in Threads |-> {}]
  /\ payee = [t \in Threads |-> NoPayment]
  /\ cancelled = {}
  /\ published = 0 /\ triggered = 0 /\ faults = 0 /\ crashes = 0

-----------------------------------------------------------------------------
(* A database call of thread t is answered, or fails without an effect.    *)
(* Calls with the context of an HTTP request that has returned all fail;   *)
(* the NATS handlers use context.Background().                             *)

Answered(t) == t \notin cancelled /\ UNCHANGED faults

Failed(t) ==
  \/ t \in cancelled /\ UNCHANGED faults
  \/ t \notin cancelled /\ faults < MaxFaults /\ faults' = faults + 1

Goto(t, label) == pc' = [pc EXCEPT ![t] = label]

(* The goroutine of t returns (the handler, or DistributeRevenue). *)
Forget(T) ==
  /\ pc'    = [t \in Threads |-> IF t \in T THEN "idle" ELSE pc[t]]
  /\ event' = [i \in Instances |-> IF i \in T THEN NoEvent ELSE event[i]]
  /\ rev'   = [t \in Threads |-> IF t \in T THEN NoId ELSE rev[t]]
  /\ seen'  = [t \in Threads |-> IF t \in T THEN ZeroCommunity ELSE seen[t]]
  /\ todo'  = [t \in Threads |-> IF t \in T THEN {} ELSE todo[t]]
  /\ payee' = [t \in Threads |-> IF t \in T THEN NoPayment ELSE payee[t]]
  /\ cancelled' = cancelled \ T

Return(t) == Forget({t})

-----------------------------------------------------------------------------
(* NATS.  Core NATS delivers at most once, in order, to every subscriber:  *)
(* each instance subscribes without a queue group and gets its own copy.   *)

Publish(e, D) ==
  /\ published < MaxEvents
  /\ published' = published + 1
  /\ inbox' = [i \in Instances |-> IF i \in D THEN Append(inbox[i], e) ELSE inbox[i]]
  /\ UNCHANGED <<store, sent, pc, event, local, cancelled, triggered, faults, crashes>>

(* Mutant: the handler drains the subscription and handles one message. *)
ReceiveLast(i) ==
  /\ pc[i] = "idle" /\ inbox[i] # <<>> /\ Head(inbox[i]).total > 0
  /\ inbox' = [inbox EXCEPT ![i] = <<>>]
  /\ event' = [event EXCEPT ![i] = Head(inbox[i])]
  /\ Goto(i, "resolve")
  /\ UNCHANGED <<store, sent, local, cancelled, counts>>

Receive(i) ==
  /\ pc[i] = "idle" /\ inbox[i] # <<>>
  /\ inbox' = [inbox EXCEPT ![i] = Tail(@)]
  /\ \/ Head(inbox[i]).total <= 0 /\ UNCHANGED <<pc, event>>
     \/ /\ Head(inbox[i]).total > 0
        /\ event' = [event EXCEPT ![i] = Head(inbox[i])]
        /\ Goto(i, "resolve")
  /\ UNCHANGED <<store, sent, local, cancelled, counts>>

-----------------------------------------------------------------------------
(* The handler of campaign.revenue.generated. *)

(* FindCommunityByID / FindCommunityByChatID: nil is {}.  Without a chat_id *)
(* column the second always fails, and a failed read yields the zero row.   *)
Found(e) ==
  IF e.by = "chat" /\ ~ChatIdColumn THEN {NoId} ELSE {e.comm} \cap Registered

ResolveCommunity(i) ==
  /\ pc[i] = "resolve"
  /\ \/ Answered(i) /\ Found(event[i]) = {} /\ Return(i)
     \/ \E c \in Registered \cup {NoId} :
          /\ \/ Answered(i) /\ c \in Found(event[i])
             \/ Failed(i) /\ c = NoId
          /\ \/ event[i].camp = NoId /\ Return(i)
             \/ /\ event[i].camp # NoId
                /\ event' = [event EXCEPT ![i].comm = c]
                /\ Goto(i, "check")
                /\ UNCHANGED <<local, cancelled>>
  /\ UNCHANGED <<store, sent, inbox, published, triggered, crashes>>

(* Mutant: the idempotency check is gone. *)
CheckNothing(i) ==
  /\ pc[i] = "check" /\ Goto(i, "insert")
  /\ UNCHANGED <<store, sent, inbox, event, local, cancelled, counts>>

(* The idempotency check skips only when the read succeeded and found a row. *)
CheckDuplicate(i) ==
  /\ pc[i] = "check"
  /\ LET rows == RowsOf(event[i].camp, event[i].comm)
     IN  \/ Answered(i) /\ rows # {} /\ Return(i)
         \/ /\ (Answered(i) /\ rows = {}) \/ Failed(i)
            /\ Goto(i, "insert")
            /\ UNCHANGED <<event, local, cancelled>>
  /\ UNCHANGED <<store, sent, inbox, published, triggered, crashes>>

CreateRevenue(i) ==
  /\ pc[i] = "insert"
  /\ \/ /\ Answered(i)
        /\ \E r \in RevIds \ Present :
             /\ revenue' = [revenue EXCEPT ![r] =
                  [status |-> "pending", comm |-> event[i].comm,
                   camp |-> event[i].camp, total |-> event[i].total]]
             /\ rev' = [rev EXCEPT ![i] = r]
        /\ Goto(i, "load")
        /\ UNCHANGED <<event, seen, todo, payee, cancelled>>
     \/ Failed(i) /\ Return(i) /\ UNCHANGED revenue
  /\ UNCHANGED <<community, activity, booked, sent, inbox, published, triggered, crashes>>

-----------------------------------------------------------------------------
(* DistributeRevenue, one action per database call or publication. *)

(* A failed read yields a row whose status is not "pending". *)
LoadRevenue(t) ==
  /\ pc[t] = "load"
  /\ LET payable == rev[t] \in Present /\ revenue[rev[t]].status = "pending"
     IN  \/ /\ Answered(t) /\ payable
            /\ Goto(t, "community")
            /\ UNCHANGED <<event, local, cancelled>>
         \/ ((Answered(t) /\ ~payable) \/ Failed(t)) /\ Return(t)
  /\ UNCHANGED <<store, sent, inbox, published, triggered, crashes>>

(* Mutant: without the nil check a missing community is the zero row. *)
LoadAnyCommunity(t) ==
  /\ pc[t] = "community"
  /\ LET c == revenue[rev[t]].comm
     IN  seen' = [seen EXCEPT ![t] = IF c \in Registered THEN community[c] ELSE ZeroCommunity]
  /\ Goto(t, "owner")
  /\ UNCHANGED <<store, sent, inbox, event, rev, todo, payee, cancelled, counts>>

LoadCommunity(t) ==
  /\ pc[t] = "community"
  /\ LET c == revenue[rev[t]].comm
     IN  \/ Answered(t) /\ c \notin Registered /\ Return(t)
         \/ /\ \/ Answered(t) /\ c \in Registered
                  /\ seen' = [seen EXCEPT ![t] = community[c]]
               \/ Failed(t) /\ seen' = [seen EXCEPT ![t] = ZeroCommunity]
            /\ Goto(t, "owner")
            /\ UNCHANGED <<event, rev, todo, payee, cancelled>>
  /\ UNCHANGED <<store, sent, inbox, published, triggered, crashes>>

(* Mutant: the amounts are computed from the community as it is now. *)
DueNow(t) ==
  LET r == revenue[rev[t]]
      c == IF r.comm \in Registered THEN community[r.comm] ELSE ZeroCommunity
  IN  Amounts(c.type, c.quality, r.total)

(* ownerAmt, membersAmt and platformAmt of the run of t. *)
Due(t) == Amounts(seen[t].type, seen[t].quality, revenue[rev[t]].total)

(* Mutant: only the owners of channels are paid. *)
PayChannelOwner(t) ==
  /\ pc[t] = "owner"
  /\ ledger' = IF seen[t].type = "channel" /\ Due(t).owner > 0
               THEN [ledger EXCEPT ![rev[t]].ownerTimes = @ + 1,
                                   ![rev[t]].owner = @ + Due(t).owner]
               ELSE ledger
  /\ Goto(t, "platform")
  /\ UNCHANGED <<store, rewards, announced, inbox, event, local, cancelled, counts>>

(* Mutant: the row is marked before the platform is paid. *)
PayOwnerAndMark(t) ==
  /\ pc[t] = "owner"
  /\ ledger' = [ledger EXCEPT ![rev[t]].ownerTimes = @ + 1,
                              ![rev[t]].owner = @ + Due(t).owner]
  /\ revenue' = [revenue EXCEPT ![rev[t]].status = "distributed"]
  /\ Goto(t, "platform")
  /\ UNCHANGED <<community, activity, booked, rewards, announced, inbox, event, local,
                 cancelled, counts>>

PayOwner(t) ==
  /\ pc[t] = "owner"
  /\ ledger' = IF Due(t).owner > 0
               THEN [ledger EXCEPT ![rev[t]].ownerTimes = @ + 1,
                                   ![rev[t]].owner = @ + Due(t).owner]
               ELSE ledger
  /\ Goto(t, IF Due(t).members > 0 /\ seen[t].type = "group" THEN "members" ELSE "platform")
  /\ UNCHANGED <<store, rewards, announced, inbox, event, local, cancelled, counts>>

Payments(shares) == {[member |-> m, nano |-> shares[m]] : m \in DOMAIN shares}

(* The scores of the members GetActiveMembers returns; 0 is not active. *)
GetActiveMembers(c) == IF c \in Registered THEN activity[c] ELSE [m \in Members |-> 0]

(* Mutant: a pool without members ends the whole payout. *)
OpenPoolOrReturn(t) ==
  /\ pc[t] = "members"
  /\ todo' = [todo EXCEPT ![t] = Payments(
                MemberShares(Due(t).members, GetActiveMembers(revenue[rev[t]].comm)))]
  /\ Goto(t, IF todo'[t] = {} THEN "idle" ELSE "pay")
  /\ UNCHANGED <<store, sent, inbox, event, rev, seen, payee, cancelled, counts>>

(* distributeMemberRewards up to its loop.  No members: no payments. *)
OpenPool(t) ==
  /\ pc[t] = "members"
  /\ \/ ~MongoConnected /\ todo' = todo /\ UNCHANGED faults
     \/ MongoConnected /\ Failed(t) /\ todo' = todo
     \/ /\ MongoConnected /\ Answered(t)
        /\ todo' = [todo EXCEPT ![t] = Payments(
                      MemberShares(Due(t).members, GetActiveMembers(revenue[rev[t]].comm)))]
  /\ Goto(t, IF todo'[t] = {} THEN "platform" ELSE "pay")
  /\ UNCHANGED <<store, sent, inbox, event, rev, seen, payee, cancelled,
                 published, triggered, crashes>>

(* Mutant: the share goes to a subject the ledger does not listen to (the  *)
(* former community.reward.created, engine.go:183).                        *)
PayMemberElsewhere(t) ==
  /\ pc[t] = "pay"
  /\ \E p \in todo[t] :
       /\ payee' = [payee EXCEPT ![t] = p]
       /\ todo' = [todo EXCEPT ![t] = @ \ {p}]
  /\ Goto(t, "book")
  /\ UNCHANGED <<store, sent, inbox, event, rev, seen, cancelled, counts>>

PayMember(t) ==
  /\ pc[t] = "pay"
  /\ \E p \in todo[t] :
       /\ rewards' = [rewards EXCEPT ![rev[t]][p.member] = @ + p.nano]
       /\ payee' = [payee EXCEPT ![t] = p]
       /\ todo' = [todo EXCEPT ![t] = @ \ {p}]
  /\ Goto(t, "book")
  /\ UNCHANGED <<store, ledger, announced, inbox, event, rev, seen, cancelled, counts>>

(* The error of CreateDistribution is ignored. *)
BookMember(t) ==
  /\ pc[t] = "book"
  /\ \/ /\ Answered(t)
        /\ booked' = [booked EXCEPT ![rev[t]][payee[t].member] = @ + payee[t].nano]
     \/ Failed(t) /\ UNCHANGED booked
  /\ payee' = [payee EXCEPT ![t] = NoPayment]
  /\ Goto(t, IF todo[t] = {} THEN "platform" ELSE "pay")
  /\ UNCHANGED <<community, activity, revenue, sent, inbox, event, rev, seen, todo,
                 cancelled, published, triggered, crashes>>

PayPlatform(t) ==
  /\ pc[t] = "platform"
  /\ ledger' = IF Due(t).platform > 0
               THEN [ledger EXCEPT ![rev[t]].platformTimes = @ + 1,
                                   ![rev[t]].platform = @ + Due(t).platform]
               ELSE ledger
  /\ Goto(t, "mark")
  /\ UNCHANGED <<store, rewards, announced, inbox, event, local, cancelled, counts>>

(* Mutant: the status is written as that of a distribution row. *)
MarkRevenuePaid(t) ==
  /\ pc[t] = "mark"
  /\ revenue' = [revenue EXCEPT ![rev[t]].status = "paid"]
  /\ Goto(t, "announce")
  /\ UNCHANGED <<community, activity, booked, sent, inbox, event, local, cancelled, counts>>

(* Mutant: a failed MarkRevenueDistributed is answered by a retry. *)
MarkOrRetry(t) ==
  /\ pc[t] = "mark"
  /\ \/ /\ Answered(t) /\ revenue' = [revenue EXCEPT ![rev[t]].status = "distributed"]
        /\ Goto(t, "announce")
     \/ Failed(t) /\ Goto(t, "load") /\ UNCHANGED revenue
  /\ UNCHANGED <<community, activity, booked, sent, inbox, event, local, cancelled,
                 published, triggered, crashes>>

(* The error of MarkRevenueDistributed is ignored. *)
MarkRevenueDistributed(t) ==
  /\ pc[t] = "mark"
  /\ \/ Answered(t) /\ revenue' = [revenue EXCEPT ![rev[t]].status = "distributed"]
     \/ Failed(t) /\ UNCHANGED revenue
  /\ Goto(t, "announce")
  /\ UNCHANGED <<community, activity, booked, sent, inbox, event, local, cancelled,
                 published, triggered, crashes>>

Announce(t) ==
  /\ pc[t] = "announce"
  /\ announced' = announced \cup
       {[rev |-> rev[t], owner |-> Due(t).owner,
         members |-> Due(t).members, platform |-> Due(t).platform]}
  /\ Return(t)
  /\ UNCHANGED <<store, ledger, rewards, inbox, counts>>

-----------------------------------------------------------------------------
(* POST /admin/revenue/distribute passes the id of its body straight to    *)
(* DistributeRevenue: NoId stands for any id that is not a revenue's, the  *)
(* documented community id among them.  The handler then returns, and      *)
(* net/http cancels the context the goroutine still uses.                  *)

triggerDistribute(t, r) ==
  /\ pc[t] = "idle" /\ triggered < MaxTriggers
  /\ triggered' = triggered + 1
  /\ rev' = [rev EXCEPT ![t] = r]
  /\ Goto(t, "load")
  /\ UNCHANGED <<store, sent, inbox, event, seen, todo, payee, cancelled,
                 published, faults, crashes>>

RequestReturns(t) ==
  /\ pc[t] # "idle" /\ t \notin cancelled
  /\ cancelled' = cancelled \cup {t}
  /\ UNCHANGED <<store, sent, inbox, pc, event, local, counts>>

-----------------------------------------------------------------------------
(* The other subscriptions that change what a payout reads: one statement  *)
(* each, on goroutines of their own.                                       *)

UpdateCommunityScore(c, score) ==
  /\ ChatIdColumn
  /\ community' = [community EXCEPT ![c].quality = score]
  /\ UNCHANGED <<activity, revenue, booked, sent, inbox, pc, event, local, cancelled, counts>>

UpdateMemberActivity(c, m, score) ==
  /\ ChatIdColumn /\ MongoConnected /\ community[c].type = "group"
  /\ activity' = [activity EXCEPT ![c][m] = score]
  /\ UNCHANGED <<community, revenue, booked, sent, inbox, pc, event, local, cancelled, counts>>

(* The process of instance i dies or is restarted: its subscription, what  *)
(* was queued for it and its goroutines are gone; nothing is resumed.      *)
Crash(i) ==
  /\ crashes < MaxCrashes
  /\ crashes' = crashes + 1
  /\ inbox' = [inbox EXCEPT ![i] = <<>>]
  /\ Forget({i} \cup {t \in Triggers : Serves[t] = i})
  /\ UNCHANGED <<store, sent, published, triggered, faults>>

-----------------------------------------------------------------------------
Handle(i) ==
  \/ Receive(i) \/ ResolveCommunity(i) \/ CheckDuplicate(i) \/ CreateRevenue(i)

Distribute(t) ==
  \/ LoadRevenue(t) \/ LoadCommunity(t) \/ PayOwner(t)
  \/ OpenPool(t) \/ PayMember(t) \/ BookMember(t)
  \/ PayPlatform(t) \/ MarkRevenueDistributed(t) \/ Announce(t)

Environment ==
  \/ \E e \in Event, D \in SUBSET Instances : Publish(e, D)
  \/ \E t \in Triggers, r \in Present \cup {NoId} : triggerDistribute(t, r)
  \/ \E t \in Triggers : RequestReturns(t)
  \/ \E c \in Registered, s \in Scores : UpdateCommunityScore(c, s)
  \/ \E c \in Registered, m \in Members, s \in ActivityScores :
       UpdateMemberActivity(c, m, s)
  \/ \E i \in Instances : Crash(i)

Next ==
  \/ \E i \in Instances : Handle(i)
  \/ \E t \in Threads : Distribute(t)
  \/ Environment

Spec == Init /\ [][Next]_vars

(* A goroutine that can take a step eventually takes it. *)
FairSpec ==
  /\ Spec
  /\ \A i \in Instances : WF_vars(Handle(i))
  /\ \A t \in Threads : WF_vars(Distribute(t))

-----------------------------------------------------------------------------
PayStages == {"owner", "members", "pay", "book", "platform", "mark", "announce"}

Payment == [member : Members, nano : Nat]

StoreTypeOK ==
  /\ community \in [Registered -> [type : Types, quality : Nat]]
  /\ activity \in [Registered -> [Members -> ActivityScores]]
  /\ revenue \in [RevIds -> [status : {"absent", "pending", "distributed"},
                             comm : Registered \cup {NoId},
                             camp : Campaigns \cup {NoId}, total : Nat]]
  /\ booked \in [RevIds -> [Members -> Nat]]

SentTypeOK ==
  /\ rewards \in [RevIds -> [Members -> Nat]]
  /\ ledger \in [RevIds -> [ownerTimes : Nat, owner : Nat,
                            platformTimes : Nat, platform : Nat]]
  /\ announced \in SUBSET [rev : RevIds, owner : Nat, members : Nat, platform : Nat]

MessageTypeOK ==
  /\ inbox \in [Instances -> Seq(Event)]
  /\ event \in [Instances -> [comm : Registered \cup {NoId}, by : {"id", "chat"},
                             camp : Campaigns \cup {NoId}, total : Nat]]

ThreadTypeOK ==
  /\ pc \in [Threads -> {"idle", "resolve", "check", "insert", "load", "community"}
                          \cup PayStages]
  /\ rev \in [Threads -> RevIds \cup {NoId}]
  /\ seen \in [Threads -> [type : Types \cup {""}, quality : Nat]]
  /\ todo \in [Threads -> SUBSET Payment]
  /\ payee \in [Threads -> Payment \cup {NoPayment}]
  /\ cancelled \subseteq Triggers
  /\ \A t \in Threads : pc[t] \in PayStages \cup {"community"} => rev[t] \in RevIds
  /\ \A t \in Threads : pc[t] = "book" => payee[t] \in Payment

CountTypeOK ==
  published \in Nat /\ triggered \in Nat /\ faults \in Nat /\ crashes \in Nat

TypeOK == StoreTypeOK /\ SentTypeOK /\ MessageTypeOK /\ ThreadTypeOK /\ CountTypeOK

(* One campaign's revenue for one community is booked on one row, however  *)
(* often its message is repeated (the check before CreateRevenue).  Read   *)
(* and insert are two statements and no index backs them: it needs a       *)
(* single instance and reads that succeed.                                 *)
UniqueRevenue ==
  \A r, s \in Present :
    revenue[r].camp = revenue[s].camp /\ revenue[r].comm = revenue[s].comm => r = s

(* Without admin triggers a row's owner and platform are sent their shares *)
(* at most once, whatever fails or restarts: nobody resumes a row.         *)
PaidAtMostOnce ==
  \A r \in RevIds : ledger[r].ownerTimes <= 1 /\ ledger[r].platformTimes <= 1

(* The platform is never ahead of the owner: a payout interrupted at any   *)
(* point has paid the owner first (the order in DistributeRevenue).        *)
OwnerPaidFirst == \A r \in RevIds : ledger[r].platformTimes <= ledger[r].ownerTimes

(* Owner and platform are paid with the same quality score, though         *)
(* community.score.updated may change it between the two publications.     *)
PaidWithOneScore ==
  \A r \in RevIds :
    ledger[r].ownerTimes = 1 /\ ledger[r].platformTimes = 1 =>
      \E q \in Scores \cup {50} :
        LET due == Amounts(community[revenue[r].comm].type, q, revenue[r].total)
        IN  ledger[r].owner = due.owner /\ ledger[r].platform = due.platform

(* All that is sent for a row, the members' shares included, stays within  *)
(* the revenue the campaign reported.                                      *)
WithinTotal ==
  \A r \in RevIds :
    ledger[r].owner + ledger[r].platform + SumFunctionOnSet(rewards[r], Members)
      <= revenue[r].total * UnitNano

(* Nothing is on record that was not sent before: a community_distributions *)
(* row ("paid") is there for an earning that was published, and            *)
(* community.revenue.distributed announces amounts owner and platform got.  *)
RecordsWereSent ==
  /\ \A r \in RevIds, m \in Members : booked[r][m] <= rewards[r][m]
  /\ \A a \in announced :
       a.owner <= ledger[a.rev].owner /\ a.platform <= ledger[a.rev].platform

(* A row whose community did not resolve (the zero UUID) is never paid out *)
(* and never becomes distributed: FindCommunityByID does not find it.      *)
OrphansUnpaid ==
  \A r \in Present : revenue[r].comm = NoId =>
    revenue[r].status = "pending" /\ ledger[r].ownerTimes = 0 /\ ledger[r].platformTimes = 0

(* Once a row is marked distributed nobody is sent anything for it.        *)
NothingAfterDistributed ==
  [][\A r \in RevIds : revenue[r].status = "distributed" =>
       ledger'[r] = ledger[r] /\ rewards'[r] = rewards[r]]_vars

(* A message with a revenue, for a community given by its UUID, ends in a  *)
(* row for its campaign that is distributed, unless the process dies: the  *)
(* queue behind a long payout is still served, and triggers on the same    *)
(* row do not keep it from being paid out.                                 *)
MessageIsPaid ==
  \A i \in Instances, c \in Registered, k \in Campaigns :
    (\E n \in DOMAIN inbox[i] : /\ inbox[i][n].comm = c /\ inbox[i][n].by = "id"
                                /\ inbox[i][n].camp = k /\ inbox[i][n].total > 0)
      ~> ((\E r \in RowsOf(k, c) : revenue[r].status = "distributed") \/ crashes > 0)

(* Every run of the service without admin triggers, crashes and failing    *)
(* calls included, keeps the promise of RevenueLedger for each of its rows. *)
Ledger == INSTANCE RevenueLedger WITH
  row          <- [r \in RevIds |-> revenue[r].status],
  ownerPaid    <- [r \in RevIds |-> ledger[r].ownerTimes],
  platformPaid <- [r \in RevIds |-> ledger[r].platformTimes]

KeepsLedger == Ledger!Spec

-----------------------------------------------------------------------------
(* README.md:11: the revenue that was booked is divided.  A restart must   *)
(* not change that; but nothing resumes a row, and a repeated message is   *)
(* skipped as a duplicate.                                                 *)
RevenueIsDivided ==
  \A r \in RevIds :
    (r \in Present /\ revenue[r].comm \in Registered) ~> (revenue[r].status = "distributed")

=============================================================================
