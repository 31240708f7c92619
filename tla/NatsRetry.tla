----------------------------- MODULE NatsRetry -----------------------------
(***************************************************************************)
(* SubscribeWithRetry of the shared NATS adapter: a message whose handler  *)
(* fails is tried again after a pause, inside the callback of the          *)
(* subscription, and goes to the dead letter queue after maxRetries        *)
(* attempts.  The subscription works through its messages one by one, so   *)
(* those behind a failing message wait.                                    *)
(*                                                                         *)
(* maxRetries = 0 is excluded: no attempt is made, lastErr stays nil and   *)
(* PublishToDLQ dereferences it, which ends the process.                   *)
(***************************************************************************)
EXTENDS Integers, Sequences, SequencesExt

CONSTANTS
  Subscribers,   \* processes that subscribed with SubscribeWithRetry
  Messages,      \* messages, each published once
  maxRetries,
  MaxCrashes, MaxLost,    \* bounds: ends of a process, lost dead letters
  None

ASSUME RetriesAssumption == maxRetries \in Nat \ {0}
ASSUME BoundsAssumption  == MaxCrashes \in Nat /\ MaxLost \in Nat /\ None \notin Messages

VARIABLES
  published,  \* history: the messages in the order of their publication
  inbox,      \* delivered and not yet handled, per subscriber
  pc,         \* where the callback of each subscriber is
  data,       \* the message it handles
  attempt,    \* its loop variable
  runs,       \* history: how often the handler ran for a message
  ended,      \* history: handled or dead messages, in the order they ended
  handled,    \* history: messages whose handler returned nil
  dlq,        \* errors.dlq
  crashes, lost

callback == <<pc, data, attempt>>
hist     == <<runs, ended, handled>>
vars     == <<published, inbox, callback, hist, dlq, crashes, lost>>

DLQMessage == [by : Subscribers, payload : Messages, attempts : Nat]

Init ==
  /\ published = <<>> /\ inbox = [s \in Subscribers |-> <<>>]
  /\ pc = [s \in Subscribers |-> "idle"]
  /\ data = [s \in Subscribers |-> None]
  /\ attempt = [s \in Subscribers |-> 0]
  /\ runs = [s \in Subscribers |-> [m \in Messages |-> 0]]
  /\ ended = [s \in Subscribers |-> <<>>]
  /\ handled = [s \in Subscribers |-> {}]
  /\ dlq = {} /\ crashes = 0 /\ lost = 0

(* Core NATS delivers in order and at most once, to every subscriber. *)
PublishCore(m, D) ==
  /\ m \notin Range(published)
  /\ published' = Append(published, m)
  /\ inbox' = [s \in Subscribers |-> IF s \in D THEN Append(inbox[s], m) ELSE inbox[s]]
  /\ UNCHANGED <<callback, hist, dlq, crashes, lost>>

Goto(s, label, m, n) ==
  /\ pc' = [pc EXCEPT ![s] = label]
  /\ data' = [data EXCEPT ![s] = m]
  /\ attempt' = [attempt EXCEPT ![s] = n]

Return(s) == Goto(s, "idle", None, 0)

Receive(s) ==
  /\ pc[s] = "idle" /\ inbox[s] # <<>>
  /\ inbox' = [inbox EXCEPT ![s] = Tail(@)]
  /\ Goto(s, "try", Head(inbox[s]), 1)
  /\ UNCHANGED <<published, hist, dlq, crashes, lost>>

(* The handler runs on the message at hand. *)
Run(s) == runs' = [runs EXCEPT ![s][data[s]] = @ + 1]

End(s) == ended' = [ended EXCEPT ![s] = Append(@, data[s])]

(* Mutant: the callback does not return after a success. *)
SucceedAndReport(s) ==
  /\ pc[s] = "try"
  /\ Run(s) /\ End(s)
  /\ handled' = [handled EXCEPT ![s] = @ \cup {data[s]}]
  /\ Goto(s, "report", data[s], attempt[s])
  /\ UNCHANGED <<published, inbox, dlq, crashes, lost>>

HandlerSucceeds(s) ==
  /\ pc[s] = "try"
  /\ Run(s) /\ End(s)
  /\ handled' = [handled EXCEPT ![s] = @ \cup {data[s]}]
  /\ Return(s)
  /\ UNCHANGED <<published, inbox, dlq, crashes, lost>>

(* Mutant: the last attempt is left out. *)
FailShort(s) ==
  /\ pc[s] = "try" /\ Run(s)
  /\ Goto(s, IF attempt[s] < maxRetries - 1 THEN "sleep" ELSE "report", data[s], attempt[s])
  /\ UNCHANGED <<published, inbox, ended, handled, dlq, crashes, lost>>

(* Mutant: instead of sleeping, the message is queued again. *)
FailAndRequeue(s) ==
  /\ pc[s] = "try" /\ Run(s)
  /\ IF runs[s][data[s]] < maxRetries - 1
     THEN /\ inbox' = [inbox EXCEPT ![s] = Append(@, data[s])]
          /\ Return(s)
     ELSE Goto(s, "report", data[s], attempt[s]) /\ UNCHANGED inbox
  /\ UNCHANGED <<published, ended, handled, dlq, crashes, lost>>

(* Mutant: the loop runs once too often. *)
FailLong(s) ==
  /\ pc[s] = "try" /\ Run(s)
  /\ Goto(s, IF attempt[s] <= maxRetries THEN "sleep" ELSE "report", data[s], attempt[s])
  /\ UNCHANGED <<published, inbox, ended, handled, dlq, crashes, lost>>

(* Mutant: the last failure is not reported. *)
FailAndForget(s) ==
  /\ pc[s] = "try" /\ Run(s)
  /\ IF attempt[s] < maxRetries THEN Goto(s, "sleep", data[s], attempt[s]) ELSE Return(s)
  /\ UNCHANGED <<published, inbox, ended, handled, dlq, crashes, lost>>

HandlerFails(s) ==
  /\ pc[s] = "try" /\ Run(s)
  /\ Goto(s, IF attempt[s] < maxRetries THEN "sleep" ELSE "report", data[s], attempt[s])
  /\ UNCHANGED <<published, inbox, ended, handled, dlq, crashes, lost>>

(* The pause of attempt * 500 ms is over. *)
Wake(s) ==
  /\ pc[s] = "sleep"
  /\ Goto(s, "try", data[s], attempt[s] + 1)
  /\ UNCHANGED <<published, inbox, hist, dlq, crashes, lost>>

(* The result of PublishCore is dropped: a dead letter may be lost. *)
PublishToDLQ(s) ==
  /\ pc[s] = "report"
  /\ \/ /\ dlq' = dlq \cup {[by |-> s, payload |-> data[s], attempts |-> maxRetries]}
        /\ UNCHANGED lost
     \/ lost < MaxLost /\ lost' = lost + 1 /\ UNCHANGED dlq
  /\ End(s) /\ Return(s)
  /\ UNCHANGED <<published, inbox, runs, handled, crashes>>

(* The process ends: core NATS does not deliver its messages again. *)
Crash(s) ==
  /\ crashes < MaxCrashes /\ crashes' = crashes + 1
  /\ inbox' = [inbox EXCEPT ![s] = <<>>]
  /\ Return(s)
  /\ UNCHANGED <<published, hist, dlq, lost>>

Callback(s) ==
  Receive(s) \/ HandlerSucceeds(s) \/ HandlerFails(s) \/ Wake(s) \/ PublishToDLQ(s)

Next ==
  \/ \E m \in Messages, D \in SUBSET Subscribers : PublishCore(m, D)
  \/ \E s \in Subscribers : Callback(s) \/ Crash(s)

Spec == Init /\ [][Next]_vars

(* The goroutine of a subscription runs on, and handlers return. *)
FairSpec == Spec /\ \A s \in Subscribers : WF_vars(Callback(s))

-----------------------------------------------------------------------------
TypeOK ==
  /\ published \in Seq(Messages) /\ inbox \in [Subscribers -> Seq(Messages)]
  /\ pc \in [Subscribers -> {"idle", "try", "sleep", "report"}]
  /\ data \in [Subscribers -> Messages \cup {None}]
  /\ attempt \in [Subscribers -> 0..maxRetries]
  /\ runs \in [Subscribers -> [Messages -> Nat]]
  /\ ended \in [Subscribers -> Seq(Messages)]
  /\ handled \in [Subscribers -> SUBSET Messages]
  /\ dlq \subseteq DLQMessage
  /\ crashes \in 0..MaxCrashes /\ lost \in 0..MaxLost

(* A dead letter is a message that was tried as often as it says, and that *)
(* this subscriber has not handled.                                        *)
DeadLettersAreExhausted ==
  \A d \in dlq : runs[d.by][d.payload] = d.attempts /\ d.payload \notin handled[d.by]

(* A retry does not let later messages overtake: a subscriber ends its     *)
(* messages in the order of their publication.                             *)
EndsInOrder ==
  \A s \in Subscribers : \A a, b \in DOMAIN ended[s] :
    a < b => \E x, y \in DOMAIN published :
               x < y /\ published[x] = ended[s][a] /\ published[y] = ended[s][b]

(* No message vanishes: what is delivered is handled or becomes a dead     *)
(* letter, unless the process ends or the dead letter is lost.             *)
NothingVanishes ==
  \A s \in Subscribers, m \in Messages :
    (m \in Range(inbox[s]))
      ~> (\/ m \in handled[s] \/ \E d \in dlq : d.by = s /\ d.payload = m
          \/ crashes > 0 \/ lost > 0)

=============================================================================
