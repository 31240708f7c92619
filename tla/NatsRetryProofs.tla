-------------------------- MODULE NatsRetryProofs --------------------------
(***************************************************************************)
(* Theorems about NatsRetry, for any number of subscribers and messages,   *)
(* any maxRetries, crashes and lost dead letters.                          *)
(*                                                                         *)
(* What a subscriber has ended, what it handles and what waits for it are  *)
(* three sections of one line, and the line follows the order in which the *)
(* messages were published.  As nothing is published twice, a message that *)
(* waits has never been tried, and one that has ended is never tried again.*)
(***************************************************************************)
EXTENDS NatsRetry, TLAPS

Known   == {published[x] : x \in DOMAIN published}
Ended(s)   == {ended[s][a] : a \in DOMAIN ended[s]}
Current(s) == IF pc[s] = "idle" THEN {} ELSE {data[s]}
Waiting(s) == {inbox[s][n] : n \in DOMAIN inbox[s]}

Before(a, b) ==
  \E x, y \in DOMAIN published : x < y /\ published[x] = a /\ published[y] = b

PublishedOnce ==
  \A x, y \in DOMAIN published : published[x] = published[y] => x = y

Line(s) ==
  /\ Ended(s) \cup Current(s) \cup Waiting(s) \subseteq Known
  /\ \A a \in Ended(s), b \in Current(s) \cup Waiting(s) : Before(a, b)
  /\ \A a \in Current(s), b \in Waiting(s) : Before(a, b)
  /\ \A n, k \in DOMAIN inbox[s] : n < k => Before(inbox[s][n], inbox[s][k])
  /\ \A a, b \in DOMAIN ended[s] : a < b => Before(ended[s][a], ended[s][b])

Untried(s, m) == runs[s][m] = 0 /\ m \notin handled[s]

Tries(s) ==
  /\ \A m \in Messages : m \notin Known \/ m \in Waiting(s) => Untried(s, m)
  /\ pc[s] # "idle" => data[s] \notin handled[s] /\ attempt[s] >= 1
  /\ pc[s] = "try" => runs[s][data[s]] = attempt[s] - 1
  /\ pc[s] = "sleep" => runs[s][data[s]] = attempt[s]
  /\ pc[s] = "report" => runs[s][data[s]] = maxRetries

TypeInv ==
  /\ TypeOK
  /\ \A s \in Subscribers : /\ pc[s] # "idle" => data[s] \in Messages
                            /\ pc[s] = "sleep" => attempt[s] < maxRetries

RetryInv ==
  /\ TypeInv /\ PublishedOnce
  /\ \A s \in Subscribers : Line(s) /\ Tries(s)
  /\ \A d \in dlq : d.payload \in Ended(d.by)
  /\ DeadLettersAreExhausted

-----------------------------------------------------------------------------
(* Sequences. *)

LEMMA TailFacts ==
  ASSUME NEW S, NEW q \in Seq(S), q # <<>>
  PROVE  /\ Head(q) = q[1] /\ Head(q) \in S /\ 1 \in DOMAIN q
         /\ Tail(q) \in Seq(S)
         /\ \A n \in DOMAIN Tail(q) : n + 1 \in DOMAIN q /\ Tail(q)[n] = q[n + 1]
  OBVIOUS

LEMMA AppendFacts ==
  ASSUME NEW S, NEW q \in Seq(S), NEW m \in S
  PROVE  /\ Append(q, m) \in Seq(S)
         /\ DOMAIN Append(q, m) = DOMAIN q \cup {Len(q) + 1}
         /\ \A n \in DOMAIN q : Append(q, m)[n] = q[n] /\ n < Len(q) + 1 /\ n \in Nat
         /\ Append(q, m)[Len(q) + 1] = m
         /\ {Append(q, m)[n] : n \in DOMAIN Append(q, m)} = {q[n] : n \in DOMAIN q} \cup {m}
<1>1. /\ Append(q, m) \in Seq(S)
      /\ DOMAIN Append(q, m) = DOMAIN q \cup {Len(q) + 1}
      /\ \A n \in DOMAIN q : Append(q, m)[n] = q[n] /\ n < Len(q) + 1 /\ n \in Nat
      /\ Append(q, m)[Len(q) + 1] = m
  OBVIOUS
<1> QED
  BY <1>1

-----------------------------------------------------------------------------
(* Type correctness. *)

LEMMA TypeInit == Init => TypeInv
  BY RetriesAssumption, BoundsAssumption DEF Init, TypeInv, TypeOK

LEMMA GotoType ==
  ASSUME TypeInv, NEW s \in Subscribers, NEW label, NEW m, NEW n, Goto(s, label, m, n),
         n \in 0..maxRetries,
         \/ label = "idle" /\ m = None
         \/ label \in {"try", "sleep", "report"} /\ m \in Messages,
         label = "sleep" => n < maxRetries
  PROVE  /\ pc' \in [Subscribers -> {"idle", "try", "sleep", "report"}]
         /\ data' \in [Subscribers -> Messages \cup {None}]
         /\ attempt' \in [Subscribers -> 0..maxRetries]
         /\ pc'[s] = label /\ data'[s] = m /\ attempt'[s] = n
         /\ \A u \in Subscribers : u # s =>
              pc'[u] = pc[u] /\ data'[u] = data[u] /\ attempt'[u] = attempt[u]
         /\ \A u \in Subscribers : /\ pc'[u] # "idle" => data'[u] \in Messages
                                   /\ pc'[u] = "sleep" => attempt'[u] < maxRetries
  BY DEF Goto, TypeInv, TypeOK

LEMMA RunType ==
  ASSUME TypeInv, NEW s \in Subscribers, pc[s] # "idle", Run(s)
  PROVE  /\ runs' \in [Subscribers -> [Messages -> Nat]]
         /\ runs'[s][data[s]] = runs[s][data[s]] + 1
         /\ \A m \in Messages : m # data[s] => runs'[s][m] = runs[s][m]
         /\ \A u \in Subscribers : u # s => runs'[u] = runs[u]
<1>1. data[s] \in Messages /\ runs[s] \in [Messages -> Nat] /\ runs[s][data[s]] \in Nat
  BY DEF TypeInv, TypeOK
<1>2. [runs[s] EXCEPT ![data[s]] = @ + 1] \in [Messages -> Nat]
  BY <1>1
<1>3. runs' = [runs EXCEPT ![s] = [runs[s] EXCEPT ![data[s]] = @ + 1]]
  BY DEF Run
<1> QED
  BY <1>1, <1>2, <1>3 DEF TypeInv, TypeOK

LEMMA EndType ==
  ASSUME TypeInv, NEW s \in Subscribers, pc[s] # "idle", End(s)
  PROVE  /\ ended' \in [Subscribers -> Seq(Messages)]
         /\ ended'[s] = Append(ended[s], data[s])
         /\ \A u \in Subscribers : u # s => ended'[u] = ended[u]
<1>1. data[s] \in Messages /\ ended[s] \in Seq(Messages)
  BY DEF TypeInv, TypeOK
<1>2. Append(ended[s], data[s]) \in Seq(Messages)
  BY <1>1, AppendFacts
<1> QED
  BY <1>1, <1>2 DEF End, TypeInv, TypeOK

LEMMA TypeStep == TypeInv /\ [Next]_vars => TypeInv'
<1> SUFFICES ASSUME TypeInv, [Next]_vars PROVE TypeInv'
  OBVIOUS
<1> USE RetriesAssumption, BoundsAssumption
<1>1. CASE UNCHANGED vars
  BY <1>1 DEF vars, callback, hist, TypeInv, TypeOK
<1>2. ASSUME NEW m \in Messages, NEW D \in SUBSET Subscribers, PublishCore(m, D)
      PROVE  TypeInv'
  <2>1. published' \in Seq(Messages) /\ \A s \in Subscribers : Append(inbox[s], m) \in Seq(Messages)
    BY <1>2, AppendFacts DEF PublishCore, TypeInv, TypeOK
  <2>2. inbox' \in [Subscribers -> Seq(Messages)]
    BY <1>2, <2>1 DEF PublishCore, TypeInv, TypeOK
  <2> QED
    BY <1>2, <2>1, <2>2 DEF PublishCore, callback, hist, TypeInv, TypeOK
<1>3. ASSUME NEW s \in Subscribers, Receive(s)
      PROVE  TypeInv'
  <2>1. inbox[s] \in Seq(Messages) /\ inbox[s] # <<>>
    BY <1>3 DEF Receive, TypeInv, TypeOK
  <2>2. Head(inbox[s]) \in Messages /\ Tail(inbox[s]) \in Seq(Messages)
    BY <2>1, TailFacts
  <2>3. Goto(s, "try", Head(inbox[s]), 1) /\ 1 \in 0..maxRetries
    BY <1>3 DEF Receive
  <2> QED
    BY <1>3, <2>2, <2>3, GotoType DEF Receive, hist, TypeInv, TypeOK
<1>4. ASSUME NEW s \in Subscribers, HandlerSucceeds(s)
      PROVE  TypeInv'
  <2>1. pc[s] # "idle" /\ data[s] \in Messages
    BY <1>4 DEF HandlerSucceeds, TypeInv
  <2>2. handled' \in [Subscribers -> SUBSET Messages]
    BY <1>4, <2>1 DEF HandlerSucceeds, TypeInv, TypeOK
  <2>3. Goto(s, "idle", None, 0) /\ 0 \in 0..maxRetries
    BY <1>4 DEF HandlerSucceeds, Return
  <2> QED
    BY <1>4, <2>1, <2>2, <2>3, GotoType, RunType, EndType DEF HandlerSucceeds, TypeInv, TypeOK
<1>5. ASSUME NEW s \in Subscribers, HandlerFails(s)
      PROVE  TypeInv'
  <2>1. pc[s] # "idle" /\ data[s] \in Messages /\ attempt[s] \in 0..maxRetries
    BY <1>5 DEF HandlerFails, TypeInv, TypeOK
  <2>2. PICK label \in {"sleep", "report"} :
          /\ Goto(s, label, data[s], attempt[s])
          /\ label = "sleep" => attempt[s] < maxRetries
    BY <1>5 DEF HandlerFails
  <2> QED
    BY <1>5, <2>1, <2>2, GotoType, RunType DEF HandlerFails, TypeInv, TypeOK
<1>6. ASSUME NEW s \in Subscribers, Wake(s)
      PROVE  TypeInv'
  <2>1. data[s] \in Messages /\ attempt[s] + 1 \in 0..maxRetries
    BY <1>6 DEF Wake, TypeInv, TypeOK
  <2>2. Goto(s, "try", data[s], attempt[s] + 1)
    BY <1>6 DEF Wake
  <2> QED
    BY <1>6, <2>1, <2>2, GotoType DEF Wake, hist, TypeInv, TypeOK
<1>7. ASSUME NEW s \in Subscribers, PublishToDLQ(s)
      PROVE  TypeInv'
  <2>1. pc[s] # "idle" /\ data[s] \in Messages
    BY <1>7 DEF PublishToDLQ, TypeInv
  <2>2. dlq' \subseteq DLQMessage /\ lost' \in 0..MaxLost
    BY <1>7, <2>1 DEF PublishToDLQ, DLQMessage, TypeInv, TypeOK
  <2>3. Goto(s, "idle", None, 0) /\ 0 \in 0..maxRetries
    BY <1>7 DEF PublishToDLQ, Return
  <2> QED
    BY <1>7, <2>1, <2>2, <2>3, GotoType, EndType DEF PublishToDLQ, TypeInv, TypeOK
<1>8. ASSUME NEW s \in Subscribers, Crash(s)
      PROVE  TypeInv'
  <2>1. Goto(s, "idle", None, 0) /\ 0 \in 0..maxRetries
    BY <1>8 DEF Crash, Return
  <2>2. inbox' \in [Subscribers -> Seq(Messages)]
    BY <1>8 DEF Crash, TypeInv, TypeOK
  <2>3. crashes' \in 0..MaxCrashes
    BY <1>8 DEF Crash, TypeInv, TypeOK
  <2> QED
    BY <1>8, <2>1, <2>2, <2>3, GotoType DEF Crash, hist, TypeInv, TypeOK
<1> QED
  BY <1>1, <1>2, <1>3, <1>4, <1>5, <1>6, <1>7, <1>8 DEF Next, Callback

(* Among it: no loop makes more than maxRetries attempts. *)
THEOREM TypeCorrect == Spec => []TypeOK
<1>1. TypeInv => TypeOK
  BY DEF TypeInv
<1> QED
  BY <1>1, TypeInit, TypeStep, PTL DEF Spec

-----------------------------------------------------------------------------
(* The order of publication. *)

LEMMA NeverBeforeItself ==
  ASSUME TypeInv, PublishedOnce, NEW a
  PROVE  ~Before(a, a)
<1>1. DOMAIN published \subseteq Nat
  BY DEF TypeInv, TypeOK
<1> QED
  BY <1>1 DEF Before, PublishedOnce

LEMMA PublishOrder ==
  ASSUME TypeInv, PublishedOnce, NEW m \in Messages, NEW D, PublishCore(m, D)
  PROVE  /\ Known' = Known \cup {m} /\ m \notin Known
         /\ PublishedOnce'
         /\ \A a, b : Before(a, b) => Before(a, b)'
         /\ \A a \in Known : Before(a, m)'
<1>1. m \notin Known /\ published' = Append(published, m) /\ published \in Seq(Messages)
  BY DEF PublishCore, Known, Range, TypeInv, TypeOK
<1>2. /\ DOMAIN published' = DOMAIN published \cup {Len(published) + 1}
      /\ \A n \in DOMAIN published :
           published'[n] = published[n] /\ n < Len(published) + 1 /\ n \in Nat
      /\ published'[Len(published) + 1] = m
      /\ Known' = Known \cup {m}
  BY <1>1, AppendFacts DEF Known
<1>3. PublishedOnce'
  BY <1>1, <1>2 DEF PublishedOnce, Known
<1>4. \A a, b : Before(a, b) => Before(a, b)'
  BY <1>2 DEF Before
<1>5. \A a \in Known : Before(a, m)'
  BY <1>2 DEF Before, Known
<1> QED
  BY <1>1, <1>2, <1>3, <1>4, <1>5

-----------------------------------------------------------------------------
(* A step that a subscriber takes no part in. *)

Idle(u) ==
  /\ inbox'[u] = inbox[u] /\ pc'[u] = pc[u] /\ data'[u] = data[u]
  /\ attempt'[u] = attempt[u] /\ runs'[u] = runs[u] /\ ended'[u] = ended[u]
  /\ handled'[u] = handled[u]

LEMMA IdleLine ==
  ASSUME NEW u \in Subscribers, Line(u), Tries(u), Idle(u), published' = published
  PROVE  Line(u)' /\ Tries(u)'
<1>1. /\ Ended(u)' = Ended(u) /\ Current(u)' = Current(u) /\ Waiting(u)' = Waiting(u)
      /\ Known' = Known
      /\ \A a, b : Before(a, b)' = Before(a, b)
      /\ \A m : Untried(u, m)' = Untried(u, m)
  BY DEF Idle, Ended, Current, Waiting, Known, Before, Untried
<1>2. Line(u)'
  BY <1>1 DEF Idle, Line
<1>3. Tries(u)'
  BY <1>1 DEF Idle, Tries
<1> QED
  BY <1>2, <1>3

(* The callback of s takes the next message. *)
LEMMA ReceiveLine ==
  ASSUME RetryInv, NEW s \in Subscribers, Receive(s)
  PROVE  Line(s)' /\ Tries(s)' /\ Ended(s)' = Ended(s)
<1> USE DEF RetryInv
<1>1. /\ inbox[s] \in Seq(Messages) /\ inbox[s] # <<>>
      /\ inbox'[s] = Tail(inbox[s]) /\ pc[s] = "idle"
      /\ published' = published /\ ended' = ended /\ runs' = runs /\ handled' = handled
  BY DEF Receive, hist, TypeInv, TypeOK
<1>2. pc'[s] = "try" /\ data'[s] = Head(inbox[s]) /\ attempt'[s] = 1
  BY DEF Receive, Goto, TypeInv, TypeOK
<1>3. /\ Head(inbox[s]) = inbox[s][1] /\ Head(inbox[s]) \in Messages /\ 1 \in DOMAIN inbox[s]
      /\ \A n \in DOMAIN inbox'[s] : n + 1 \in DOMAIN inbox[s] /\ inbox'[s][n] = inbox[s][n + 1]
      /\ DOMAIN inbox'[s] \subseteq Nat \ {0}
  BY <1>1, TailFacts
<1>4. /\ Ended(s)' = Ended(s) /\ Current(s)' = {Head(inbox[s])}
      /\ Waiting(s)' \subseteq Waiting(s) /\ Head(inbox[s]) \in Waiting(s)
      /\ Known' = Known /\ \A a, b : Before(a, b)' = Before(a, b)
  BY <1>1, <1>2, <1>3 DEF Ended, Current, Waiting, Known, Before
<1>5. \A b \in Waiting(s)' : Before(Head(inbox[s]), b)
  <2> SUFFICES ASSUME NEW n \in DOMAIN inbox'[s] PROVE Before(Head(inbox[s]), inbox'[s][n])
    BY DEF Waiting
  <2>1. n + 1 \in DOMAIN inbox[s] /\ 1 < n + 1
    BY <1>3
  <2> QED
    BY <1>3, <2>1 DEF Line
<1>6. \A n, k \in DOMAIN inbox'[s] : n < k => Before(inbox'[s][n], inbox'[s][k])
  BY <1>3 DEF Line
<1>7. Line(s)'
  BY <1>1, <1>4, <1>5, <1>6 DEF Line
<1>8. Untried(s, Head(inbox[s]))
  BY <1>3, <1>4 DEF Tries
<1>9. Tries(s)'
  BY <1>1, <1>2, <1>4, <1>8 DEF Tries, Untried
<1> QED
  BY <1>4, <1>7, <1>9

(* Neither Before nor what waits changes while s works on its message.     *)
LEMMA OthersThanCurrent ==
  ASSUME RetryInv, NEW s \in Subscribers, pc[s] # "idle"
  PROVE  /\ data[s] \in Messages /\ data[s] \in Known
         /\ data[s] \notin Waiting(s) /\ data[s] \notin Ended(s)
<1>1. ~Before(data[s], data[s])
  BY NeverBeforeItself DEF RetryInv
<1> QED
  BY <1>1 DEF RetryInv, TypeInv, Line, Current

(* Another attempt fails, or its pause is over. *)
LEMMA AttemptLine ==
  ASSUME RetryInv, NEW s \in Subscribers, HandlerFails(s) \/ Wake(s)
  PROVE  Line(s)' /\ Tries(s)' /\ Ended(s)' = Ended(s)
<1> USE RetriesAssumption DEF RetryInv
<1>1. /\ pc[s] # "idle" /\ pc'[s] # "idle" /\ data'[s] = data[s]
      /\ published' = published /\ ended' = ended /\ inbox' = inbox /\ handled' = handled
  BY DEF HandlerFails, Wake, Goto, hist, TypeInv, TypeOK
<1>2. /\ Ended(s)' = Ended(s) /\ Current(s)' = Current(s) /\ Waiting(s)' = Waiting(s)
      /\ Known' = Known /\ \A a, b : Before(a, b)' = Before(a, b)
  BY <1>1 DEF Ended, Current, Waiting, Known, Before
<1>3. Line(s)'
  BY <1>1, <1>2 DEF Line
<1>4. /\ data[s] \in Messages /\ data[s] \in Known /\ data[s] \notin Waiting(s)
      /\ attempt[s] \in 0..maxRetries
  BY <1>1, OthersThanCurrent DEF TypeInv, TypeOK
<1>5. CASE Wake(s)
  <2>1. pc[s] = "sleep" /\ pc'[s] = "try" /\ attempt'[s] = attempt[s] + 1 /\ runs' = runs
    BY <1>5 DEF Wake, Goto, hist, TypeInv, TypeOK
  <2> QED
    BY <1>1, <1>2, <1>3, <1>4, <2>1 DEF Tries, Untried
<1>6. CASE HandlerFails(s)
  <2>1. /\ pc[s] = "try" /\ attempt'[s] = attempt[s]
        /\ pc'[s] = IF attempt[s] < maxRetries THEN "sleep" ELSE "report"
    BY <1>6 DEF HandlerFails, Goto, TypeInv, TypeOK
  <2>2. /\ runs'[s][data[s]] = runs[s][data[s]] + 1
        /\ \A m \in Messages : m # data[s] => runs'[s][m] = runs[s][m]
    BY <1>1, <1>6, RunType DEF HandlerFails
  <2>3. runs'[s][data[s]] = attempt[s]
    BY <1>4, <2>1, <2>2 DEF Tries
  <2>4. \A m \in Messages : m \notin Known \/ m \in Waiting(s) => Untried(s, m)'
    BY <1>1, <1>4, <2>2 DEF Tries, Untried
  <2>5. attempt[s] >= 1 /\ data[s] \notin handled[s]
    BY <1>1 DEF Tries
  <2> QED
    BY <1>1, <1>2, <1>3, <1>4, <2>1, <2>3, <2>4, <2>5 DEF Tries
<1> QED
  BY <1>5, <1>6

(* The message at hand ends, handled or dead. *)
LEMMA EndLine ==
  ASSUME RetryInv, NEW s \in Subscribers, HandlerSucceeds(s) \/ PublishToDLQ(s)
  PROVE  Line(s)' /\ Tries(s)' /\ Ended(s)' = Ended(s) \cup {data[s]}
<1> USE DEF RetryInv
<1>1. /\ pc[s] # "idle" /\ pc'[s] = "idle" /\ End(s)
      /\ published' = published /\ inbox' = inbox
  BY DEF HandlerSucceeds, PublishToDLQ, Return, Goto, TypeInv, TypeOK
<1>2. data[s] \in Messages /\ data[s] \in Known /\ data[s] \notin Waiting(s)
  BY <1>1, OthersThanCurrent
<1>3. ended'[s] = Append(ended[s], data[s]) /\ ended[s] \in Seq(Messages)
  BY <1>1, EndType DEF TypeInv, TypeOK
<1>4. /\ DOMAIN ended'[s] = DOMAIN ended[s] \cup {Len(ended[s]) + 1}
      /\ \A n \in DOMAIN ended[s] :
           ended'[s][n] = ended[s][n] /\ n < Len(ended[s]) + 1 /\ n \in Nat
      /\ ended'[s][Len(ended[s]) + 1] = data[s]
      /\ Ended(s)' = Ended(s) \cup {data[s]}
  BY <1>2, <1>3, AppendFacts DEF Ended
<1>5. /\ Current(s)' = {} /\ Waiting(s)' = Waiting(s) /\ Current(s) = {data[s]}
      /\ Known' = Known /\ \A a, b : Before(a, b)' = Before(a, b)
  BY <1>1 DEF Current, Waiting, Known, Before
<1>6. \A a, b \in DOMAIN ended'[s] : a < b => Before(ended'[s][a], ended'[s][b])
  <2> SUFFICES ASSUME NEW a \in DOMAIN ended'[s], NEW b \in DOMAIN ended'[s], a < b
               PROVE  Before(ended'[s][a], ended'[s][b])
    OBVIOUS
  <2>0. Len(ended[s]) \in Nat
    BY <1>3
  <2>1. a \in DOMAIN ended[s] /\ ended'[s][a] = ended[s][a]
    BY <1>4, <2>0
  <2>2. CASE b \in DOMAIN ended[s]
    BY <1>4, <2>1, <2>2 DEF Line
  <2>3. CASE b = Len(ended[s]) + 1
    <3>1. ended[s][a] \in Ended(s) /\ ended'[s][b] = data[s]
      BY <1>4, <2>1, <2>3 DEF Ended
    <3> QED
      BY <1>5, <2>1, <3>1 DEF Line
  <2> QED
    BY <1>4, <2>2, <2>3
<1>7. Line(s)'
  BY <1>1, <1>4, <1>5, <1>6 DEF Line
<1>8. \A m \in Messages : m \notin Known \/ m \in Waiting(s) => Untried(s, m)'
  <2> SUFFICES ASSUME NEW m \in Messages, m \notin Known \/ m \in Waiting(s)
               PROVE  runs'[s][m] = 0 /\ m \notin handled'[s]
    BY DEF Untried
  <2>1. m # data[s] /\ runs[s][m] = 0 /\ m \notin handled[s]
    BY <1>2 DEF Tries, Untried
  <2>2. runs'[s][m] = runs[s][m]
    BY <1>1, <2>1, RunType DEF HandlerSucceeds, PublishToDLQ
  <2>3. handled'[s] \subseteq handled[s] \cup {data[s]}
    BY DEF HandlerSucceeds, PublishToDLQ, TypeInv, TypeOK
  <2> QED
    BY <2>1, <2>2, <2>3
<1>9. Tries(s)'
  BY <1>1, <1>5, <1>8 DEF Tries
<1> QED
  BY <1>4, <1>7, <1>9

LEMMA CrashLine ==
  ASSUME RetryInv, NEW s \in Subscribers, Crash(s)
  PROVE  Line(s)' /\ Tries(s)' /\ Ended(s)' = Ended(s)
<1> USE DEF RetryInv
<1>1. /\ pc'[s] = "idle" /\ inbox'[s] = <<>> /\ published' = published
      /\ ended' = ended /\ runs' = runs /\ handled' = handled
  BY DEF Crash, Return, Goto, hist, TypeInv, TypeOK
<1>2. /\ Ended(s)' = Ended(s) /\ Current(s)' = {} /\ Waiting(s)' = {}
      /\ Known' = Known /\ \A a, b : Before(a, b)' = Before(a, b)
  BY <1>1 DEF Ended, Current, Waiting, Known, Before
<1>3. Line(s)'
  BY <1>1, <1>2 DEF Line
<1>4. Tries(s)'
  BY <1>1, <1>2 DEF Tries, Untried
<1> QED
  BY <1>2, <1>3, <1>4

(* A new message comes last for those it reaches. *)
LEMMA PublishLine ==
  ASSUME RetryInv, NEW m \in Messages, NEW D, PublishCore(m, D), NEW s \in Subscribers
  PROVE  Line(s)' /\ Tries(s)' /\ Ended(s)' = Ended(s)
<1> USE DEF RetryInv
<1>1. /\ Known' = Known \cup {m} /\ m \notin Known
      /\ \A a, b : Before(a, b) => Before(a, b)'
      /\ \A a \in Known : Before(a, m)'
  BY PublishOrder
<1>2. /\ ended' = ended /\ pc' = pc /\ data' = data /\ attempt' = attempt
      /\ runs' = runs /\ handled' = handled
      /\ inbox'[s] = inbox[s] \/ inbox'[s] = Append(inbox[s], m)
      /\ inbox[s] \in Seq(Messages)
  BY DEF PublishCore, callback, hist, TypeInv, TypeOK
<1>3. Ended(s)' = Ended(s) /\ Current(s)' = Current(s)
  BY <1>2 DEF Ended, Current
<1>4. CASE inbox'[s] = inbox[s]
  <2>1. Waiting(s)' = Waiting(s)
    BY <1>4 DEF Waiting
  <2>2. Line(s)'
    BY <1>1, <1>2, <1>3, <1>4, <2>1 DEF Line
  <2>3. Tries(s)'
    BY <1>1, <1>2, <2>1 DEF Tries, Untried
  <2> QED
    BY <1>3, <2>2, <2>3
<1>5. CASE inbox'[s] = Append(inbox[s], m)
  <2> PICK q : q = inbox'[s]
    OBVIOUS
  <2> PICK len \in Nat : len = Len(inbox[s])
    BY <1>2
  <2>1. /\ DOMAIN q = DOMAIN inbox[s] \cup {len + 1}
        /\ \A n \in DOMAIN inbox[s] : q[n] = inbox[s][n] /\ n < len + 1 /\ n \in Nat
        /\ q[len + 1] = m
        /\ Waiting(s)' = Waiting(s) \cup {m}
    BY <1>2, <1>5, AppendFacts DEF Waiting
  <2>2. ASSUME NEW n \in DOMAIN q, NEW k \in DOMAIN q, n < k
        PROVE  Before(q[n], q[k])'
    <3>1. n \in DOMAIN inbox[s]
      BY <2>1, <2>2
    <3>2. CASE k \in DOMAIN inbox[s]
      <4>1. Before(q[n], q[k])
        BY <2>1, <2>2, <3>1, <3>2 DEF Line
      <4> QED
        BY <1>1, <4>1
    <3>3. CASE k = len + 1
      <4>1. q[n] \in Known /\ q[k] = m
        BY <2>1, <3>1, <3>3 DEF Line, Waiting
      <4> QED
        BY <1>1, <4>1
    <3> QED
      BY <2>1, <3>2, <3>3
  <2>3. Line(s)'
    <3>1. \A a \in Ended(s), b \in Current(s) \cup Waiting(s) : Before(a, b)'
      BY <1>1 DEF Line
    <3>2. \A a \in Current(s), b \in Waiting(s) : Before(a, b)'
      BY <1>1 DEF Line
    <3>3. \A a \in Ended(s) \cup Current(s) : Before(a, m)'
      BY <1>1 DEF Line
    <3>4. \A a, b \in DOMAIN ended[s] : a < b => Before(ended[s][a], ended[s][b])'
      <4> SUFFICES ASSUME NEW a \in DOMAIN ended[s], NEW b \in DOMAIN ended[s], a < b
                   PROVE  Before(ended[s][a], ended[s][b])'
        BY <1>2
      <4>1. Before(ended[s][a], ended[s][b])
        BY DEF Line
      <4> QED
        BY <1>1, <1>2, <4>1
    <3> QED
      BY <1>1, <1>2, <1>3, <2>1, <2>2, <3>1, <3>2, <3>3, <3>4 DEF Line
  <2>4. Tries(s)'
    BY <1>1, <1>2, <2>1 DEF Tries, Untried
  <2> QED
    BY <1>3, <2>3, <2>4
<1> QED
  BY <1>2, <1>4, <1>5

-----------------------------------------------------------------------------
(* The dead letters.  A dead one has ended, so nobody tries it any more.   *)

LEMMA LettersKept ==
  ASSUME RetryInv, NEW s \in Subscribers, Callback(s), NEW d \in dlq
  PROVE  /\ runs'[d.by][d.payload] = runs[d.by][d.payload]
         /\ d.payload \notin handled'[d.by]
         /\ Ended(d.by) \subseteq Ended(d.by)'
<1> USE DEF RetryInv
<1>0. /\ d.by \in Subscribers /\ d.payload \in Messages /\ d.payload \in Ended(d.by)
      /\ d.payload \notin handled[d.by]
  BY DEF TypeInv, TypeOK, DLQMessage, DeadLettersAreExhausted
<1>1. CASE Receive(s) \/ Wake(s)
  <2>1. UNCHANGED hist
    BY <1>1 DEF Receive, Wake
  <2> QED
    BY <1>0, <2>1 DEF hist, Ended
<1>2. CASE HandlerSucceeds(s) \/ HandlerFails(s) \/ PublishToDLQ(s)
  <2>1. pc[s] # "idle"
    BY <1>2 DEF HandlerSucceeds, HandlerFails, PublishToDLQ
  <2>2. d.by = s => d.payload # data[s]
    BY <1>0, <2>1, OthersThanCurrent
  <2>3. runs'[d.by][d.payload] = runs[d.by][d.payload]
    BY <1>0, <1>2, <2>1, <2>2, RunType DEF HandlerSucceeds, HandlerFails, PublishToDLQ
  <2>4. d.payload \notin handled'[d.by]
    BY <1>0, <1>2, <2>2 DEF HandlerSucceeds, HandlerFails, PublishToDLQ, TypeInv, TypeOK
  <2>5. CASE d.by = s
    BY <1>2, <2>3, <2>4, <2>5, EndLine, AttemptLine
  <2>6. CASE d.by # s
    <3>1. ended'[d.by] = ended[d.by]
      BY <1>0, <1>2, <2>1, <2>6, EndType DEF HandlerSucceeds, HandlerFails, PublishToDLQ
    <3> QED
      BY <2>3, <2>4, <3>1 DEF Ended
  <2> QED
    BY <2>5, <2>6
<1> QED
  BY <1>1, <1>2 DEF Callback

LEMMA NewLetter ==
  ASSUME RetryInv, NEW s \in Subscribers, Callback(s), NEW d \in dlq', d \notin dlq
  PROVE  /\ runs'[d.by][d.payload] = d.attempts
         /\ d.payload \notin handled'[d.by]
         /\ d.payload \in Ended(d.by)'
<1> USE DEF RetryInv
<1>1. /\ PublishToDLQ(s) /\ d = [by |-> s, payload |-> data[s], attempts |-> maxRetries]
  BY DEF Callback, Receive, HandlerSucceeds, HandlerFails, Wake, PublishToDLQ
<1>2. pc[s] = "report" /\ runs' = runs /\ handled' = handled
  BY <1>1 DEF PublishToDLQ
<1>3. runs[s][data[s]] = maxRetries /\ data[s] \notin handled[s]
  BY <1>2 DEF Tries
<1>4. data[s] \in Ended(s)'
  BY <1>1, EndLine
<1> QED
  BY <1>1, <1>2, <1>3, <1>4

-----------------------------------------------------------------------------
LEMMA RetryInit == Init => RetryInv
<1> SUFFICES ASSUME Init PROVE RetryInv
  OBVIOUS
<1>1. Known = {} /\ PublishedOnce /\ DeadLettersAreExhausted
  BY DEF Init, Known, PublishedOnce, DeadLettersAreExhausted
<1>2. ASSUME NEW s \in Subscribers
      PROVE  Line(s) /\ Tries(s)
  <2>1. /\ pc[s] = "idle" /\ inbox[s] = <<>> /\ ended[s] = <<>>
        /\ \A m \in Messages : runs[s][m] = 0 /\ m \notin handled[s]
    BY DEF Init
  <2>2. Ended(s) = {} /\ Current(s) = {} /\ Waiting(s) = {}
    BY <2>1 DEF Ended, Current, Waiting
  <2> QED
    BY <2>1, <2>2 DEF Line, Tries, Untried
<1> QED
  BY <1>1, <1>2, TypeInit DEF RetryInv, Init

(* A step of one subscriber leaves the others where they are. *)
LEMMA OthersIdle ==
  ASSUME TypeInv, NEW s \in Subscribers, Callback(s) \/ Crash(s),
         NEW u \in Subscribers, u # s
  PROVE  Idle(u) /\ published' = published
  BY DEF Callback, Crash, Receive, HandlerSucceeds, HandlerFails, Wake, PublishToDLQ,
     Return, Goto, Run, End, hist, Idle, TypeInv, TypeOK

LEMMA RetryStep == RetryInv /\ [Next]_vars => RetryInv'
<1> SUFFICES ASSUME RetryInv, [Next]_vars PROVE RetryInv'
  OBVIOUS
<1>0. TypeInv'
  BY TypeStep DEF RetryInv
<1>1. CASE UNCHANGED vars
  <2>1. /\ \A u \in Subscribers : Idle(u)
        /\ published' = published /\ dlq' = dlq /\ runs' = runs /\ handled' = handled
        /\ ended' = ended
    BY <1>1 DEF vars, callback, hist, Idle
  <2> QED
    BY <1>0, <2>1, IdleLine DEF RetryInv, PublishedOnce, DeadLettersAreExhausted, Ended
<1>2. ASSUME NEW m \in Messages, NEW D, PublishCore(m, D)
      PROVE  RetryInv'
  <2>1. PublishedOnce' /\ \A s \in Subscribers : Line(s)' /\ Tries(s)'
    BY <1>2, PublishOrder, PublishLine DEF RetryInv
  <2>2. dlq' = dlq /\ runs' = runs /\ handled' = handled /\ ended' = ended
    BY <1>2 DEF PublishCore, hist
  <2> QED
    BY <1>0, <2>1, <2>2 DEF RetryInv, DeadLettersAreExhausted, Ended
<1>3. ASSUME NEW s \in Subscribers, Callback(s) \/ Crash(s)
      PROVE  RetryInv'
  <2>1. Line(s)' /\ Tries(s)'
    BY <1>3, ReceiveLine, AttemptLine, EndLine, CrashLine DEF Callback
  <2>2. \A u \in Subscribers : Line(u)' /\ Tries(u)'
    BY <1>3, <2>1, OthersIdle, IdleLine DEF RetryInv
  <2>3. PublishedOnce'
    BY <1>3 DEF Callback, Crash, Receive, HandlerSucceeds, HandlerFails, Wake, PublishToDLQ,
       RetryInv, PublishedOnce
  <2>4. CASE Crash(s)
    <3>1. dlq' = dlq /\ runs' = runs /\ handled' = handled /\ ended' = ended
      BY <2>4 DEF Crash, hist
    <3> QED
      BY <1>0, <2>2, <2>3, <3>1 DEF RetryInv, DeadLettersAreExhausted, Ended
  <2>5. CASE Callback(s)
    <3>1. ASSUME NEW d \in dlq'
          PROVE  /\ runs'[d.by][d.payload] = d.attempts
                 /\ d.payload \notin handled'[d.by] /\ d.payload \in Ended(d.by)'
      <4>1. CASE d \in dlq
        BY <2>5, <4>1, LettersKept DEF RetryInv, DeadLettersAreExhausted
      <4>2. CASE d \notin dlq
        BY <2>5, <4>2, NewLetter
      <4> QED
        BY <4>1, <4>2
    <3> QED
      BY <1>0, <2>2, <2>3, <3>1 DEF RetryInv, DeadLettersAreExhausted
  <2> QED
    BY <1>3, <2>4, <2>5
<1> QED
  BY <1>1, <1>2, <1>3 DEF Next

(* A dead letter was tried exactly maxRetries times and never handled,     *)
(* whatever else waited, failed or crashed meanwhile.                      *)
THEOREM DeadLettersTried == Spec => []DeadLettersAreExhausted
<1>1. RetryInv => DeadLettersAreExhausted
  BY DEF RetryInv
<1> QED
  BY <1>1, RetryInit, RetryStep, PTL DEF Spec

(* Messages end in the order of their publication: a retry holds up those  *)
(* behind it and is not overtaken.                                         *)
THEOREM OrderKept == Spec => []EndsInOrder
<1>1. RetryInv => EndsInOrder
  BY DEF RetryInv, Line, Before, EndsInOrder
<1> QED
  BY <1>1, RetryInit, RetryStep, PTL DEF Spec

=============================================================================
