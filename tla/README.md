# Formal verification of communitySystem

TLA+ models of the two Go services of this repository, the TLC configurations
that check them on small instances, and TLAPS proofs that hold for every
instance: about the payment of revenue, participants, the registry, the
memberships and scores of fraud-engine, the way of a score from one service to
the other, and the retries of the NATS adapter.

| Module | Models | Source |
|---|---|---|
| `RevenueSplit` | pure functions: percentages, multiplier, amounts, activity score, member shares | `community-service/internal/store`, `.../engine/engine.go`, `fraud-engine/internal/scorer` |
| `Revenue` | a revenue message from arrival to the last payment | `community-service/internal/engine` |
| `RevenueLedger` | what `Revenue` promises of the payment of one row | abstract specification |
| `SumProofs` | lemmas: sums over finite sets, the shares of a pool | |
| `RevenueProofs` | theorems about `Revenue` | |
| `MemberActivity` | activity counters, the 30-day window, the shares of a pool | `community-service/internal/store` |
| `MemberActivityProofs` | theorems about `MemberActivity` | |
| `Membership` | joins, leaves and the validation of participants | `community-service/internal/engine`, `.../api` |
| `MembershipProofs` | theorems about `Membership` | |
| `Registry` | registration, approval and the validation window | `community-service/internal/api` |
| `RegistryProofs` | theorems about `Registry` | |
| `NatsRetry` | retries and the dead letter queue of the NATS adapter | `shared/pkg/adapters/nats` |
| `NatsRetryProofs` | theorems about `NatsRetry` | |
| `FraudMemberships` | membership history, counters, join-loop alarm, quality score | `fraud-engine/internal` |
| `TrustScore` | pure functions: the factors of a user's trust score | `fraud-engine/internal/scorer/user_scorer.go` |
| `FraudUsers` | profiles, memberships and activity of users, trust score, periodic recalculation | `fraud-engine/internal` |
| `FraudUsersProofs` | theorems about `FraudUsers` | |
| `ScoreFlow` | the quality score on its way from `FraudMemberships` to payouts and to services that ask for it | `fraud-engine/internal`, `community-service/internal/engine`, `shared/pkg/adapters/nats` |
| `ScoreFlowProofs` | theorems about `FraudMemberships` and `ScoreFlow` | |

`MC*.tla` only hold values and symmetry sets for TLC. Every module is
parameterised by constants with named assumptions; every bound on the
environment is a constant `Max...` in a guard.

## 1. Inventory

### community-service

PostgreSQL tables `communities`, `campaign_participants`,
`community_revenues`, `community_distributions`; an optional Mongo collection
`community_activity`. Any number of instances may run; each subscribes to core
NATS without a queue group, so every instance receives every message.

* **Revenue payout.** `campaign.revenue.generated` is resolved to a community
  (by UUID, or by chat number), checked against rows already there, booked as a
  `community_revenues` row and paid by `DistributeRevenue`: owner, members of a
  group, platform, then the row is marked `distributed` and
  `community.revenue.distributed` is published. `POST /admin/revenue/distribute`
  starts the same function on a goroutine of its own.
  *Hard:* status check, payments and the mark are separate calls; errors are
  dropped; threads of several instances and triggers interleave; a crash or a
  cancelled request context falls between a payment and its record.
  *Correct when:* a campaign is booked once per community, a row is paid once,
  everybody is paid with the same score and out of the total, what is booked
  and announced was sent, and every row is eventually paid.
* **Member activity.** `community.activity.updated` adds to counters;
  `GetActiveMembers` ranks those active within 30 days; the pool is divided in
  proportion to `CalcActivityScore`.
  *Hard:* truncation, the 0.0001 TON limit, caps, members dropping out.
  *Correct when:* the pool is neither overspent nor kept back, and more
  activity never pays less.
* **Membership and validation.** `membership.joined` records a participant and
  starts a timer for the community's validation window; a worker that
  ticks every five minutes asks again for those older than the default window; `ConfirmValidation` settles.
  *Hard:* look-up, insert, count and timer are separate steps; timers live in
  memory; timer and worker race.
  *Correct when:* a join is counted once and only where the community was
  approved, the check comes after the window, and everybody is checked.
* **Registry.** `POST /community/register`, approve, reject, validation window;
  unique indexes on Telegram id, invite link and invite hash.
  *Hard:* look-up and insert are separate; the look-up names a column that the
  schema AutoMigrate creates does not have, drops the error and returns a zero
  row that is not nil; registration leaves the unique hash empty.
  *Correct when:* requests that pass the look-up together do not both insert, a
  conflict is a real conflict, the window stays in range. The code as built
  meets neither of the last two (section 3).
* **API NATS listeners**, **read endpoints**, **unused store operations**: see
  section 6.

### fraud-engine

Mongo collections for memberships, profiles, statistics, activity and scores.
Four subscriptions feed two handlers (`membership.joined` and
`fraud.event.join`; `membership.left` and `fraud.event.leave`), each
subscription on its own goroutine; the HTTP recalculation runs next to them.

* **Memberships, alarm, quality score.** `handleJoin` inserts a membership with
  the number of earlier ones, counts it in `community_statistics`, raises
  `fraud.detected` on three joins in seven days, recalculates and publishes
  `community.score.updated`; `handleLeave` closes a membership.
  *Hard:* count then insert, read then write, four goroutines, statistics and
  documents written by separate calls, events lost or announced twice.
  *Correct when:* counters and documents agree, the third join of a loop is
  always noticed and only then, the stored score is the current one.
* **User profiles and trust score.** Each of the handlers ends in a
  recalculation of the user's trust score from the profile, the memberships of
  the last 90 days and the active days of the last 30; `POST
  /admin/score/user/:id/recalc` does the same on demand. `UpsertProfile` writes
  `first_seen` under both `$set` and `$setOnInsert`; Mongo refuses such an
  update, so no profile is ever inserted: only users whose profile was there
  when the service started (imported, restored) have a trust score, and of such
  a profile only the score and the counters of joins and leaves change.
  *Hard:* three reads and a write per recalculation, on a goroutine per event;
  two queries that may choose two memberships; a failed read looks like an empty
  history.
  *Correct when:* leaving never raises a score while the membership closed is not
  younger than the one read, staying never costs points, and the stored score
  becomes that of the user's data.
* **Activity.** `RecordActivity` upserts one document per user, community and
  day; only their number is ever read.
  *Hard:* no unique index backs the upsert.
* **Periodic recalculation.** Every six hours `batchRecalcUsers` pages through
  the profiles, 100 at a time, with the last user as its cursor.
  *Hard:* the end of a page, a failing call, shutdown in the middle.
  *Correct when:* a batch that is not cut short recalculates each profile once.
* **Scores for other services.** `fraud.community.score.request` and `GET
  /score/community/:id` answer from the last snapshot, or with a default;
  the same for users.
  *Hard:* timeouts, repeated requests and late answers; three copies of the
  table of multipliers; a score on its way to several instances.
  *Correct when:* a known community is never answered as unknown, and what is
  answered, announced and paid with is one and the same.

### shared

* **NATS adapter.** `PublishCore`, `Subscribe`, `SubscribeWithRetry` with a dead
  letter queue, request/reply. `SubscribeWithRetry`, `PublishToDLQ` and `Request`
  are there for other services: nothing in this repository calls them.
  *Hard:* attempts, pauses and the report happen inside the callback of a
  subscription that has more messages waiting.
  *Correct when:* a dead letter was tried as often as it says, messages end in
  order, none vanishes.
* Configuration, logging, interface declarations.

### Interactions

    network --membership.joined/left--> community-service, fraud-engine
    fraud-engine --community.score.updated--> community-service (multiplier)
    campaigns --campaign.revenue.generated--> community-service
    community-service --earning.created--> payments (owner, members, platform)
    community-service --membership.validate--> network
    network --membership.validate_response--> community-service (not subscribed)
    other services --fraud.community.score.request--> fraud-engine (reply)

## 2. How the models correspond to the code

**Atomicity.** One action is one database call or one publication together with
the statements up to the next one. Goroutines are threads with a program
counter `pc`; a subscription handles its messages one after the other, HTTP
goroutines run beside it. Whatever two calls have between them, any other
thread may run there, and the process may die there (`Crash`: messages not yet
handled, threads and timers of that instance are gone, tables stay).

**NATS.** Core NATS: at most once, in order per subscriber, to every
subscriber. `Publish` chooses the set of instances a message reaches, so
messages are lost per instance; a repeated message is a second `Publish`.

**Database calls** succeed, or fail without an effect (`Failed`, limited by
`MaxFaults`). A call whose context has been cancelled always fails. The code
often drops the error and goes on with a zero value; the models do the same
(`ZeroCommunity`, an empty look-up).

**Constants that fix how the service is built.**

| Constant | As shipped | Why |
|---|---|---|
| `ChatIdColumn` | FALSE | `TelegramID` maps to the column `telegram_id`; queries name `chat_id`, which AutoMigrate never creates |
| `MongoConnected` | FALSE | `cmd/main.go:51` calls `store.New(db, nil)` |
| `ApiListeners` | FALSE | `cmd/main.go:69` registers the engine's listeners only |

`ChatIdColumn` and `MongoConnected` are given either value, so that the code
behind each gate is checked too; each run says which it uses in its `.cfg`.
`ApiListeners` is TRUE in every run: without them nothing consumes the answer to
a check, and no participant is ever validated. What the missing column does to the
service as built is listed in section 3; in `Registry` the schema is a variable,
so that its run starts with either.

| Module | State | Actions (in the order of the code) |
|---|---|---|
| `Revenue` | tables `community`, `activity`, `revenue`, `booked`; messages sent `ledger`, `rewards`, `announced`; per thread `pc`, `event`, `rev`, `seen`, `todo`, `payee` | `Receive`, `ResolveCommunity`, `CheckDuplicate`, `CreateRevenue`, then `LoadRevenue`, `LoadCommunity`, `PayOwner`, `OpenPool`, (`PayMember`, `BookMember`)*, `PayPlatform`, `MarkRevenueDistributed`, `Announce`; `triggerDistribute`, `RequestReturns`, `UpdateCommunityScore`, `UpdateMemberActivity`, `Crash` |
| `MemberActivity` | `docs` (community_activity), `today` | `UpdateMemberActivity`, `DaysPass` |
| `Membership` | tables `community`, `participant`; `timers`; per instance `joins`, `leaves`, `pc` | `ReceiveJoin`, `CheckActive`, `CheckJoined`, `RecordParticipant`, `IncrementMemberCount`, `StartTimer`; `ReceiveLeave`, `TimerFires`, `RunValidationWorker`, `ConfirmValidation`, admin actions, `Tick`, `Crash` |
| `Registry` | `chatIdColumn`, `communities` (imported rows, too), per request `pc`, `form`, `answer` | `LookUp`, `CreateCommunity`, `Decide`, `setValidationWindow` |
| `FraudMemberships` | `docs`, `stats`, `snapshot`; `told`, `alarms` sent; per subscription `pc`, `job`, `read` | `CountRejoins`, `InsertMembership`, `IncrementJoins`, `detectJoinLoopFraud`, `FindLastJoin`, `CloseMembership`, `IncrementLeaves`, `Calculate`, `UpdateCommunityScore`, `PublishScore`, `recalcCommunity`, `DaysPass` |
| `ScoreFlow` (extends `FraudMemberships`) | per instance of community-service `wire`, and its table column `quality`; per caller `ask`, `answer`; `requests`, `serving` | `FraudEngine` (a step of `FraudMemberships`; what it publishes is appended to every `wire`), `UpdateQualityScore`; `Ask`, `GiveUp`, `ReadScore`, `Respond`; `getCommunityScore` |
| `FraudUsers` | collections `profile`, `docs`, `activity`, `changes`; per thread `pc`, `job`, `view`, `read`; of the batch `page`, `lastID`, `isShort`; `stopped` | `CountJoin`, `InsertMembership`; `FindLastJoin`, `CloseMembership`, `CountLeave`; `FindDay`, `InsertDay`; `CompareNames`, `RecordProfileChange`; `handleCampaignComplete`; `recalcUser`; each followed by `GetProfile`, `ReadMemberships`, `Calculate`, `UpdateTrustScore`; `Tick`, `ListPage`, `NextUser`; `Shutdown`, `DaysPass` |
| `NatsRetry` | `inbox`, `dlq`; per subscriber `pc`, `data`, `attempt` | `PublishCore`, `Receive`, `HandlerSucceeds`, `HandlerFails`, `Wake`, `PublishToDLQ`, `Crash` |

**Abstractions.** Money is counted in nano-TON as integers; the order of the
float operations and their rounding are left out (the shares truncate, as
`int64(...)` does). Days are the unit of time in `FraudUsers`, and the
fractional factors of a trust score are added over their common denominator and
truncated once, where the code truncates a sum of floats. Names, links, texts and UUIDs are model values. The
variables `ledger`, `rewards`, `announced`, `asked`, `started`, `wasActive`,
`told`, `alarms`, `arrivals`, `heard`, `visited`, `complete` are histories: no
action of the service depends on them. An operator
preceded by the comment "Mutant:" in a module is a wrong variant of the definition below
it; it is part of no specification and only shows that a property notices it.

## 3. What the runs check

Passing runs:

| Run | Question | Instance, and why it is enough |
|---|---|---|
| `revenue_instance` | Is a campaign booked once per community? Do rows without a community stay unpaid? Is the platform ever ahead of the owner? Does every message end in a row that is paid out? | one instance, 2 communities, 2 messages and 2 rows, 2 triggers with contexts that may be cancelled, a crash: repetition by UUID, by chat number and across a restart, two payouts on one row, messages waiting behind a payout. 345,820 states, 85 s |
| `revenue_replicas` | Is a row paid once on two instances? Do the payments, bookings and announcement of one row fit together while scores and activity change? Does `Revenue` implement `RevenueLedger`? | 2 instances that both book the message (2 rows), a group or a channel, 2 members, scores on both sides of a step of the multiplier, a failing call, a crash; a total of 7 units makes shares on both sides of the 0.0001 TON limit. 566,712 states, 61 s |
| `member_activity` | Are the shares of a pool fair and complete? | 3 members, 3 batches, 46 days in steps of 15 and 16 so that documents of 30 and 31 days occur, 4 pools around the limit. 4,330 states, 4 s |
| `membership` | Is a participant counted and timed once, recorded only where approved, checked in time, and settled? Is every join recorded? | 2 instances, 2 messages, 2 admin actions, windows up to the default, a failing call, a crash; with `ApiListeners` and `ChatIdColumn`. 278,694 states, 178 s |
| `registry` | With either schema: how many communities are ever registered, and what does 409 mean? | either schema, 3 requests for 2 chats and 3 links, an imported community or none, a failing call, an admin action. 80,233 states, 3 s |
| `fraud_memberships` | Do counters, documents and scores agree? Is a third join within seven days always noticed? | 3 messages over two subscriptions for joins and one for leaves, lost or announced twice, 6 and 7 days apart, a failing call, an admin recalculation. 3,688,009 states, 191 s |
| `score_flow` | Does every instance pay with the score announced last? Is a question answered with what has been announced? | 2 instances at their own pace, 2 messages on concurrent handlers, a lost copy or a failing call, a caller that asks twice, by request or over HTTP. The scores it reaches lie on the middle step of the multiplier; that the tables agree on every score is proved (`Tables`). 458,285 states, 28 s |
| `fraud_users` | Does a batch visit each profile once? Does the trust score react to leaving and staying as it should? Is a wrong stored score corrected? | up to three profiles and pages of two (a page and a short page, a full page, one user), any two of messages, requests and failing calls, two threads at work at one time, two open memberships of 40 and 20 days that grow to 85 and 65, within the 90 days (the drop beyond them is set aside by `StayingIsTrusted`, and no run reaches it), shutdown at any point. 748,578 states, 160 s |
| `nats_retry` | Does a retry keep the order and lose nothing? | 2 subscribers, 2 messages, 3 attempts, a crash, a lost dead letter. 53,138 states, 9 s |

The bounds count messages, failures and crashes, not steps: within them every
interleaving is explored. Two instances, or two threads on one row, are enough
to break each of the orders that matter, and one failure placed at every call
covers each dropped error. Deadlock checking is off where the environment runs
out of messages and the system may rest; `membership` has time, which goes on.

Properties that speak of a situation the code does not guarantee name it:

* `UniqueRevenue` is checked with a single instance and no failing call,
  `PaidAtMostOnce` and `KeepsLedger` without triggers, `MessageIsPaid` and
  `NothingVanishes` as long as the process lives;
* `CheckedAfterWindow` with windows up to the default;
* the part of `RegistersBySchema` about 409, `RejoinsAreCounted`, `LoopIsReported`,
  the documents of `CountersAgree` and `AnswersWhatWasTold` as long as no call
  fails; between two subscriptions `RejoinsAreCounted` gives bounds only;
* `JoinsAreRecorded` with a `chat_id` column, and `PaidAsTold`, with the column,
  while no copy is lost and for a community none of whose scores is still under
  way; without the column, as built, `PaidAsTold` says that every payout is
  multiplied as for the default score;
* `LeavingNeverHelps` as long as no membership in the same community is younger
  than the one `RecordLeave` has read: a rejoin recorded between its `FindOne` and
  its `UpdateOne` may be the one that is closed, with the length of the earlier
  stay, and then the score may rise;
* `StayingIsTrusted` for memberships of at most 90 days and users without
  activity, which lapses after 30; `TrustCatchesUp` unless the service is shut
  down.

Runs that end in a violation; each is a disagreement between the code and its
own documentation, quoted in `PROJECT.json`:

| Run | Violated | What happens |
|---|---|---|
| `revenue_double` | `PaidAtMostOnce` | trigger and subscription both pay a pending row |
| `revenue_restart` | `RevenueIsDivided` | a crash during the payout leaves the row pending for ever |
| `fraud_stale` | `StaleScoreIsRecalculated` | the older score is stored last and no periodic job corrects it |

The models also contain the following behaviour of the code, about which no run
is kept because no property can hold against it; each can be seen by changing a
constant of a run, or follows from the action named:

* without a `chat_id` column, as built, no join is recorded, no announced score is
  stored and a message with a chat number is booked for the zero UUID
  (`ReceiveJoin`, `UpdateQualityScore`, `Found`); that every registration is then
  answered 409 is part of `RegistersBySchema`;
* hours of the validation window are not bounded: `models.go:124` defines one hour
  and seven days, and nothing uses them (`setValidationWindow`);
* a failed read in the idempotency check lets a repeated message through
  (`CheckDuplicate`), which is why the theorem on it assumes that no call fails;
* without Mongo the pool of a group is announced and nobody is paid from it
  (`OpenPool`); below 30 points nothing is paid and the row is closed as
  `distributed`, never held or frozen (`MarkRevenueDistributed`);
* the worker checks participants of a community with a window longer than the
  default early (`FindPendingValidations`), and without the API listeners nobody
  consumes the answer (`ConfirmValidation`);
* `invite_hash` is unique and left empty, so that after the first registered
  community every other one, of any chat, is refused (`Unique`);
* a join announced on both subjects counts twice (`Arrive`), and after a lost
  leave the next one closes another membership than it has read
  (`CloseMembership`), perhaps with a length it never had;
* profile changes and finished campaigns change nothing in a profile, so that a
  name that differs is recorded again with every message (`CompareNames`,
  `handleCampaignComplete`);
* two upserts of one day may insert two documents (`InsertDay`);
* a failed read of the snapshot is answered as a known community with score 0
  and multiplier 0 (`ZeroSnapshot`); of two scores computed at the same time the
  one stored last and the one announced last may differ, until the next event.

## 4. Fairness

* `Revenue!FairSpec`: weak fairness of each subscription goroutine's handling
  and of each thread's `DistributeRevenue`. A runnable goroutine is scheduled,
  and no step waits for anything but its own call. No fairness for messages,
  triggers, faults or crashes.
* `Membership!FairSpec`: the same for `HandleJoin`; weak fairness of time, of a
  due timer and of the worker (a ticker), and, where the API listeners are
  registered, of the network's answer to a check, which is an assumption about
  an external system and used by `EveryParticipantIsSettled` only.
* `FraudMemberships!FairSpec`: each handler runs on.
* `FraudUsers!FairSpec`: weak fairness of the handlers and requests taken
  together (`Work`), which is weaker than fairness of each goroutine and enough,
  since messages are finite and a step of one never disables another's; and of
  the batch, whose ticker ticks. After `Shutdown` the ticker stops, which
  `TrustCatchesUp` allows for.
* `NatsRetry!FairSpec`: the callback runs on, and handlers return.

`MessageIsPaid` holds as long as no process dies; what was booked before a crash
is not paid afterwards (`revenue_restart`).

## 5. What is proved

For every value of the constants that meets their assumptions:

* `RevenueProofs!TypeCorrect`: `Spec => []TypeOK`. `TypeOK` is inductive; among
  it, a thread in a payment stage holds the id of a row, without which neither
  the amounts nor the ledger entries would be defined. The lemmas `PartType`,
  `AmountsType` and `SharesType` give the range of the pure functions.
* `RevenueProofs!RevenueIsUnique`: with a single instance and `MaxFaults = 0`,
  `Spec => []UniqueRevenue`. `UniqueRevenue` is not inductive: the insert needs
  to know that the row is still missing. `UniqueInv` adds `InsertIsNew` (a thread
  at the insert has no row for its pair) and `PaysPresentRow` (a payment never
  turns an absent row into a present one).
* `RevenueProofs!PaidOnce`: without triggers, `Spec => []PaidAtMostOnce`
  for any number of instances, failures and crashes. `RunInv` adds that two
  threads never work on one row (`OneRunPerRow`: a thread only pays the row it
  has just inserted) and that the ledger entry of a thread's row is determined
  by its stage (`RunOK`). `SharesAgree` shows that owner and platform are owed
  something in the same cases.
* `RevenueProofs!LedgerKept`: under the same invariant every step of
  `Revenue` is a step of `RevenueLedger` or a stutter, that is `Spec =>
  KeepsLedger`.
* `RevenueProofs!OwnerFirst`: with triggers, crashes and failures,
  `Spec => []OwnerPaidFirst`. Threads on the same row are counted: a row's owner
  has been paid at least as often as its platform, plus once for every thread
  that has paid the owner and not yet the platform (`OwnerAhead`). By `KeepsDue`
  what such a thread owes stays what it was until it has paid it.
* `RevenueProofs!RecordsFollowPayments`, `PaidByOneScore` and
  `DistributedIsFinal`: without triggers, `Spec => []RecordsWereSent`,
  `[]PaidWithOneScore` and `NothingAfterDistributed`. `PaidInv` adds to `RunInv`
  what has been sent and with which score at each stage (`PaidOK`), and that this
  stays true of a row whose thread is gone (`RecordOK`, `AnnouncedOK`): the score
  is read once, so that every amount of a row follows from one score in
  `Scores \cup {50}` (`KnownScores`).
* `RevenueProofs!OrphansStayUnpaid`: while no call fails, and with any
  number of triggers, `Spec => []OrphansUnpaid`. `OrphanInv` adds that no thread
  is past `LoadCommunity` with such a row. With failing calls the property is
  false: the zero row that a failed read leaves goes through the payout
  (`ZeroCommunity`), which is why `MaxFaults = 0` is assumed.
* `RevenueProofs!SentWithinTotal`: without triggers and with finitely many
  members, `Spec => []WithinTotal`. In the middle of a payout the members'
  amounts are spread over what has been sent and what the thread has still to
  send; `FitsPool` says that some assignment of amounts to members covers both
  and fits into the pool, `PlanOK` that every thread's plan does. `AmountsFit`
  shows that owner, pool and platform together are at most the total, `SharesFit`
  that the shares of a pool fit into it.
* `MemberActivityProofs!TypeCorrect`, `PoolSpent`, `ActivityPays`, `QuietMakesRoom`:
  `Spec => []TypeOK`, `[]PoolIsSpent`, `[]MoreActivityMorePay` and
  `QuietMembersMakeRoom`, for any finite set of members, counters and amounts.
  They follow in every typed state from lemmas on the function that divides a
  pool: `SharesFit` and `DustIsSmall` (each payment keeps back less than one
  nano-TON, each member under the limit less than 0.0001 TON), `SharesFollowScores`
  and `RoomIsMade` (a smaller sum of scores gives nobody a smaller share).
* `RegistryProofs!TypeCorrect`: `Spec => []TypeOK`, among it that every window is
  the default or a whole number of hours.
* `RegistryProofs!RegistrationBySchema`: `Spec => []RegistersBySchema`, for either
  schema, any number of concurrent requests, failing calls and imported rows. As
  built, without a `chat_id` column, no request is ever at its insert and all are
  answered 409 (`PastLookUp`), so nothing is registered. With the column, `OneInv`
  adds that whatever was registered has the empty hash (`HashesEmpty`): an
  insert needs a row that differs from every other, so it only succeeds when
  nothing is registered yet (`InsertIsFirst`). Rows are never removed and keep
  their chat, so that what a 409 said stays true (`AnswerStays`).
* `MembershipProofs!TypeCorrect`, `RecordedOnlyWhereApproved` and `TimedOnce`:
  `Spec => []TypeOK`, `[]RecordedWhereApproved` and `[]OneTimerPerParticipant`,
  for any number of instances, failures and crashes. `RowsInv` says what an
  instance between look-up and timer knows of the row: past the insert the row is
  there and nobody has started its timer (`HandlerKnows`), at most one instance is
  past the insert for a key (`OneInserter`), and a row without participant has
  no timer (`RowsFirst`).
* `MembershipProofs!CheckedInTime`: with windows up to the default (`UpToDefault`),
  `Spec => []CheckedAfterWindow`. `TimelyInv` relates each timer to the age of its
  row: what a timer has left and the age together reach the window.
* `MembershipProofs!CountedAreRecorded`: with finitely many users and campaigns,
  `Spec => []MembersAreBacked`. An instance past the insert has still to count
  its participant, so `CountInv` compares the member count with the participants
  for which no instance has that before it.
* `NatsRetryProofs!TypeCorrect`, `DeadLettersTried` and `OrderKept`: `Spec =>
  []TypeOK`, `[]DeadLettersAreExhausted` and `[]EndsInOrder` for any number of
  subscribers and messages. For each subscriber the messages it has ended, the
  one in hand and those that wait form one line in the order of publication
  (`Line`); one that waits was never tried, and the attempts on the one in hand
  follow from its stage (`Tries`). `RetryInv` needs both: without the line a
  message could be taken up again after its dead letter.
* `ScoreFlowProofs!TypeCorrect`: `Spec => []TypeOK`, with `QualityRange`:
  a quality score is in 0..100 whatever the counters are.
* `ScoreFlowProofs!CountersAndDocuments`: for finitely many subscriptions,
  `Spec => []CountersAgree`. While no call fails the joins of a community are its
  documents and the handlers that have counted and not yet inserted (`Backed`).
* `ScoreFlowProofs!RejoinsCounted`: `Spec => []RejoinsAreCounted`. The count
  in a handler's hand lies between the memberships its own subscription inserted
  and all there are (`CountedOK`); what other subscriptions insert before it
  does only widens the gap, since documents are never removed.
* `ScoreFlowProofs!LoopsReported`: `Spec => []LoopIsReported`. `LoopInv`:
  of three memberships within seven days the alarm is out, or the last of them is
  of today and a handler of the same message has still to look.
* `ScoreFlowProofs!FlowTypeCorrect`: `FlowSpec => []FlowTypeOK`.
* `ScoreFlowProofs!PaysAsTold`: with at least one instance, `FlowSpec =>
  []PaidAsTold`, which has a part for either schema. As built, without a
  `chat_id` column, no update finds a row (`Unwritten`), and every payout uses
  the default score. With the column, which AutoMigrate does not create,
  `PaidInv`: the last message about a community that an instance
  still has to read is the score announced last (`Newest`), and when none has
  one the column holds it (`Settled`). `Tables` shows that the multipliers of the
  services agree on every score.
* `ScoreFlowProofs!AnswersAsTold`: `FlowSpec => []AnswersWhatWasTold`. `AskedInv`
  knows that a request that is still waited for is about what the caller asks
  now, though older requests of the same caller may lie in the queue;
  `AnswerInv` that a score is stored before it is told (`StoredFirst`), and what a
  request being served has read.

* `FraudUsersProofs!TypeCorrect`: `Spec => []TypeOK`. `TypeInv` adds what each
  stage of a thread relies on (`JobOK`, `ReadOK`, `ViewOK`), that no membership
  begins in the future and that one that has not ended has no length. `TrustRange`
  gives 0..100 for any profile and any memberships.
* `FraudUsersProofs!BatchVisitsAll`: with finitely many users, `Spec =>
  []BatchVisitsEachOnce` for any page size and any number of profiles. `BatchInv`:
  visited once are exactly the profiles up to the cursor, or up to the user in
  hand (`Cursor`), and the page holds the first of those that come after
  (`PageOK`), so that a page that is not full is the last one (`PageIs`).
* `FraudUsersProofs!LeavingCosts` and `StayingPays`: `Spec => LeavingNeverHelps`
  and `Spec => StayingIsTrusted` for all data. `TrustGrows` shows that the score
  is monotone: facts that are at least as good in every factor (`Better`) never
  give a lower one. `CloseLowers` and `CountLowers` show that the two writes of a
  leave make the facts worse, `DaysRaise` that days make them better.

The sums in these theorems are `SumFunctionOnSet` of the community modules, a
recursive function. The prover cannot instantiate an induction theorem that
takes a predicate, so `SumProofs` goes another way: strict inclusion is
well-founded on the subsets of a finite set (`MinimalSet`), hence a set of subsets
that has the empty one and is closed under adding an element has all
(`SetInduction`, about a set of subsets in the place of a predicate), and the
recursive equation has exactly one solution (`SumsAgree`, `SumsExist`). What
follows are the usual laws: `SumRemove`, `SumSplit`, `SumMonotone`, `SumPlus`,
`SumScaled`.

The assumptions of these theorems on constants: `Triggers = {}`, `MaxFaults = 0`,
one instance, windows up to the default (each where the property
is false without it, see section 3); finite sets of threads, subscriptions,
members, users or campaigns where the argument counts or adds them; at least
one instance; memberships that fraud-engine finds at the start lie in the past,
and have a length only when they have ended, as it writes them itself.

Only model-checked: liveness (`MessageIsPaid`, `JoinsAreRecorded`,
`EveryParticipantIsSettled`, `TrustCatchesUp`, `NothingVanishes`), which the
prover does not handle under fairness. Every invariant and every action property
of a passing run is also a theorem. The violations are TLC's alone.

## 6. Not modelled

* `api.Handler.RegisterNATSListeners` is never called. Its answer to
  `membership.validate_response` is in `Membership` under `ApiListeners`; its
  other listeners are dead code.
* Engine and store operations without a caller (`engine.RegisterCommunity`,
  `generateHash`, `UpdateCommunity`, `ActivateCommunity`, `ListCommunities`,
  `store.UpdateQualityScore`, which is not what the engine's handler of score
  updates calls).
* Endpoints that only read, the reads of a user's score included (60 by NATS and
  50 by HTTP for an unknown user), of profiles and of fraud events;
  configuration, logging and its heartbeat, interface declarations.
* What is written and never read: the history in `user_scores`, the messages,
  replies and reactions of an activity document, `user.score.updated`.
* Callers of `SubscribeWithRetry`, `PublishToDLQ` and `Request`: there are none in
  this repository. `NatsRetry` checks what the first two promise to a service
  that uses them, with any number of subscribers; the callers of `ScoreFlow` stand
  for the other services of which the README speaks.
* `Respond`, `QueueRespond`, `QueueSubscribe`, `Publish` to a stream and
  `EnsureStream` of the adapter: no caller.
* The order of shutdown, beyond the cancelled context of the periodic batch.
* The rounding of floating-point sums: amounts and factors are exact before they
  are truncated.

## 7. Plan

Done: every component that keeps state has a module and a run, and every safety
property of a passing run a proof. Left:

1. The safety part of the liveness properties: that a row booked and not yet
   paid has a thread unless a crash took it (`MessageIsPaid`), that a participant
   still to be checked has a timer or is old enough for the worker
   (`EveryParticipantIsSettled`), that a message published and not ended is with
   its subscriber or was lost in a crash (`NothingVanishes`; `Line` has most of it).
   With such an invariant only the fairness argument stays with TLC.
2. What a call that fails may cost: weaker forms of `UniqueRevenue`,
   `OrphansUnpaid` and `RejoinsAreCounted` that count failures instead of
   excluding them.
3. With triggers, a bound on how often a row is paid: at most once for each
   thread that loaded it while it was pending.
