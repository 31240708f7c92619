----------------------------- MODULE ScoreFlow -----------------------------
(***************************************************************************)
(* What becomes of the quality score of a community that fraud-engine      *)
(* stores and publishes (FraudMemberships): every instance of              *)
(* community-service writes it into the quality_score its payouts are      *)
(* multiplied by, and other services ask for it by NATS request or over    *)
(* HTTP.                                                                   *)
(*                                                                         *)
(* A request that is not answered in time is given up and may be repeated; *)
(* the NATS library gives each attempt a reply subject of its own.         *)
(***************************************************************************)
EXTENDS FraudMemberships

CONSTANTS
  Instances,     \* running copies of community-service
  Callers,       \* services that ask for scores
  ChatIdColumn,  \* does the communities table have a chat_id column?
  MaxLost,       \* bound: copies of community.score.updated without an effect
  MaxAttempts    \* bound: questions of each caller

ASSUME FlowAssumption ==
  ChatIdColumn \in BOOLEAN /\ MaxLost \in Nat /\ MaxAttempts \in Nat

VARIABLES
  wire,      \* undelivered community.score.updated, per instance
  quality,   \* quality_score in community-service
  lost,      \* copies that were lost or whose update failed
  ask,       \* what each caller asks: community, attempt, and whether it waits
  heard,     \* history: a score of that community had been published by then
  answer,    \* the last answer it got
  requests,  \* undelivered fraud.community.score.request
  serving    \* the request fraud-engine has read the snapshot for, and its answer

payout == <<wire, quality, lost>>
calls  == <<ask, heard, answer, requests, serving>>
engine == <<world, docs, stats, scores, alarms, pc, job, read, recalcs, faults>>

DefaultQuality == 50     \* quality_score of a new row

Answer == [known : BOOLEAN, score : 0..100, tenths : {0, 5, 8, 10}]
Said(known, score, tenths) == [known |-> known, score |-> score, tenths |-> tenths]
NoAnswer == Said(FALSE, 0, 0)

Question  == [comm : Communities \cup {NoOne}, n : 0..MaxAttempts, waits : BOOLEAN]
NoRequest == [caller |-> NoOne, comm |-> NoOne, n |-> 0]
Request   == [caller : Callers, comm : Communities, n : 1..MaxAttempts]

FlowInit ==
  /\ Init
  /\ wire = [i \in Instances |-> <<>>]
  /\ quality = [c \in Communities |-> DefaultQuality] /\ lost = 0
  /\ ask = [r \in Callers |-> [comm |-> NoOne, n |-> 0, waits |-> FALSE]]
  /\ heard = [r \in Callers |-> FALSE] /\ answer = [r \in Callers |-> NoAnswer]
  /\ requests = <<>> /\ serving = [to |-> NoRequest, says |-> NoAnswer]

-----------------------------------------------------------------------------
(* The three copies of the table of payout multipliers, in tenths: in the  *)
(* scorer, in the answer to a request, and (Engine) in community-service.  *)

Engine == INSTANCE RevenueSplit

RevenueMultiplier(score) ==
  CASE score >= 80      -> 10
    [] score \in 50..79 -> 8
    [] score \in 30..49 -> 5
    [] OTHER            -> 0

(* Mutant: the limit of the middle step is left out. *)
multiplierAboveFifty(score) ==
  CASE score >= 80      -> 10
    [] score \in 51..79 -> 8
    [] score \in 30..50 -> 5
    [] OTHER            -> 0

revenueMultiplierFromScore(score) ==
  CASE score >= 80      -> 10
    [] score \in 50..79 -> 8
    [] score \in 30..49 -> 5
    [] OTHER            -> 0

-----------------------------------------------------------------------------
(* A step of fraud-engine.  What it publishes goes to every instance of    *)
(* community-service: none of them subscribes with a queue group.          *)

Publishing(s) == pc[s] = "publish" /\ pc'[s] = "idle"
Updates == {[comm |-> job[s].comm, score |-> read[s]] : s \in {t \in Threads : Publishing(t)}}

(* Mutant: the subscription joins a queue group (QueueSubscribe). *)
DeliverToOne(U) ==
  \/ U = {} /\ UNCHANGED wire
  \/ \E u \in U, i \in Instances : wire' = [wire EXCEPT ![i] = Append(@, u)]

Deliver(U) ==
  wire' = IF U = {} THEN wire
          ELSE [i \in Instances |-> Append(wire[i], CHOOSE u \in U : TRUE)]

FraudEngine == Next /\ Deliver(Updates) /\ UNCHANGED <<quality, lost, calls>>

(* community.score.updated.  The error of the update is dropped; without a *)
(* chat_id column each update fails.                                       *)
UpdateQualityScore(i) ==
  /\ wire[i] # <<>>
  /\ wire' = [wire EXCEPT ![i] = Tail(@)]
  /\ \/ /\ ChatIdColumn
        /\ quality' = [quality EXCEPT ![Head(wire[i]).comm] = Head(wire[i]).score]
        /\ UNCHANGED lost
     \/ /\ (~ChatIdColumn /\ UNCHANGED lost) \/ (lost < MaxLost /\ lost' = lost + 1)
        /\ UNCHANGED quality
  /\ UNCHANGED <<engine, calls>>

-----------------------------------------------------------------------------
(* Mutant: the snapshot is used without the check for nil. *)
LatestUnchecked(c, unknown, tenths) == Said(TRUE, snapshot[c], tenths)

(* GetLatestCommunityScore, as its two callers use it: a failed read       *)
(* leaves a zero snapshot that counts as a known one.                      *)
Latest(c, unknown, tenths) ==
  IF snapshot[c] = NoScore THEN unknown ELSE Said(TRUE, snapshot[c], tenths)
ZeroSnapshot == Said(TRUE, 0, 0)

(* Client.Request of another service: it waits for the answer to come or   *)
(* for the timeout, which is never endless.                                *)
Ask(r, c) ==
  /\ ~ask[r].waits /\ ask[r].n < MaxAttempts
  /\ ask' = [ask EXCEPT ![r] = [comm |-> c, n |-> @.n + 1, waits |-> TRUE]]
  /\ heard' = [heard EXCEPT ![r] = told[c] # NoScore]
  /\ answer' = [answer EXCEPT ![r] = NoAnswer]
  /\ requests' = Append(requests, [caller |-> r, comm |-> c, n |-> ask[r].n + 1])
  /\ UNCHANGED <<engine, payout, serving>>

GiveUp(r) ==
  /\ ask[r].waits
  /\ ask' = [ask EXCEPT ![r].waits = FALSE]
  /\ UNCHANGED <<engine, payout, heard, answer, requests, serving>>

(* fraud.community.score.request: one after the other. *)
ReadScore ==
  /\ serving.to = NoRequest /\ requests # <<>>
  /\ requests' = Tail(requests)
  /\ LET q == Head(requests)
     IN  \/ /\ Answered
            /\ serving' = [to |-> q, says |->
                 Latest(q.comm, Said(FALSE, 70, 8), revenueMultiplierFromScore(snapshot[q.comm]))]
         \/ Failed /\ serving' = [to |-> q, says |-> ZeroSnapshot]
  /\ UNCHANGED <<world, docs, stats, scores, alarms, pc, job, read, recalcs>>
  /\ UNCHANGED <<payout, ask, heard, answer>>

(* Mutant: the reply subject is the caller's, not that of the attempt. *)
AwaitedByCaller(q) == ask[q.caller].waits

Awaited(q) == ask[q.caller].waits /\ ask[q.caller].n = q.n

Respond ==
  /\ serving.to # NoRequest
  /\ LET q == serving.to
     IN  IF Awaited(q)
         THEN /\ answer' = [answer EXCEPT ![q.caller] = serving.says]
              /\ ask' = [ask EXCEPT ![q.caller].waits = FALSE]
         ELSE UNCHANGED <<answer, ask>>
  /\ serving' = [to |-> NoRequest, says |-> NoAnswer]
  /\ UNCHANGED <<engine, payout, heard, requests>>

(* GET /score/community/:id *)
getCommunityScore(r, c) ==
  /\ ~ask[r].waits /\ ask[r].n < MaxAttempts
  /\ ask' = [ask EXCEPT ![r].comm = c, ![r].n = @ + 1]
  /\ heard' = [heard EXCEPT ![r] = told[c] # NoScore]
  /\ \/ /\ Answered
        /\ answer' = [answer EXCEPT ![r] =
             Latest(c, Said(FALSE, 50, 8), RevenueMultiplier(snapshot[c]))]
     \/ Failed /\ answer' = [answer EXCEPT ![r] = ZeroSnapshot]
  /\ UNCHANGED <<world, docs, stats, scores, alarms, pc, job, read, recalcs>>
  /\ UNCHANGED <<payout, requests, serving>>

FlowNext ==
  \/ FraudEngine
  \/ \E i \in Instances : UpdateQualityScore(i)
  \/ \E r \in Callers, c \in Communities : Ask(r, c) \/ getCommunityScore(r, c)
  \/ \E r \in Callers : GiveUp(r)
  \/ ReadScore \/ Respond

FlowSpec == FlowInit /\ [][FlowNext]_<<engine, payout, calls>>

-----------------------------------------------------------------------------
(* Scores stay between 0 and 100 on their way (TypeOK of FraudMemberships  *)
(* and the state of this module).                                          *)
FlowTypeOK ==
  /\ TypeOK
  /\ wire \in [Instances -> Seq([comm : Communities, score : 0..100])]
  /\ quality \in [Communities -> 0..100] /\ lost \in 0..MaxLost
  /\ ask \in [Callers -> Question] /\ heard \in [Callers -> BOOLEAN]
  /\ answer \in [Callers -> Answer] /\ requests \in Seq(Request)
  /\ serving \in [to : Request \cup {NoRequest}, says : Answer]

(* Once every instance of community-service has worked off its messages,   *)
(* and none was lost, payouts are multiplied as fraud-engine announced     *)
(* last: 50 is only the "default until fraud-engine computes" the score    *)
(* (api.go:86).  Without a chat_id column no announced score is ever used. *)
Silent(c)   == \A i \in Instances : \A n \in DOMAIN wire[i] : wire[i][n].comm # c
LastTold(c) == IF told[c] = NoScore THEN DefaultQuality ELSE told[c]
PaysBy(c, score) ==
  quality[c] = score /\ Engine!revenueMultiplier(quality[c]) = RevenueMultiplier(score)

ScoresAreUsed == lost = 0 => \A c \in Communities : Silent(c) => PaysBy(c, LastTold(c))

(* With a chat_id column that is so, although each instance writes every   *)
(* score and a slow one writes old scores late: the last score is also the *)
(* last one of every instance.  Without the column, as the service is      *)
(* built, every payout is multiplied as for the default score, whatever    *)
(* fraud-engine computes.                                                  *)
PaidAsTold ==
  IF ChatIdColumn THEN ScoresAreUsed
                  ELSE \A c \in Communities : PaysBy(c, DefaultQuality)

(* While no call fails, a service that asks for a community whose score    *)
(* had been published by then is not answered with the default for an      *)
(* unknown one, though its request may time out, be repeated and answered  *)
(* late: a score is stored before it is published.  And what it is         *)
(* answered is the multiplier that payouts use for that score.             *)
AnswersWhatWasTold ==
  faults = 0 =>
    \A r \in Callers :
      answer[r] # NoAnswer =>
        /\ heard[r] => answer[r].known
        /\ answer[r].tenths = Engine!revenueMultiplier(answer[r].score)

=============================================================================
