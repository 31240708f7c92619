--------------------------- MODULE RevenueProofs ---------------------------
(* Theorems about Revenue, for every value of its constants. *)
EXTENDS Revenue, SumProofs

(* Payout amounts are natural numbers. *)
LEMMA NatProduct == \A a, b \in Nat : a * b \in Nat
  OBVIOUS

LEMMA PartType ==
  ASSUME NEW total \in Nat, NEW pct \in Nat, NEW score \in Nat
  PROVE  Part(total, pct, score) \in Nat
<1>1. revenueMultiplier(score) \in Nat
  BY DEF revenueMultiplier
<1>2. total * pct \in Nat
  BY NatProduct
<1>3. (total * pct) * revenueMultiplier(score) \in Nat
  BY <1>1, <1>2, NatProduct
<1> QED
  BY <1>3, NatProduct DEF Part

LEMMA AmountsType ==
  ASSUME NEW type, NEW score \in Nat, NEW total \in Nat
  PROVE  Amounts(type, score, total) \in [owner : Nat, members : Nat, platform : Nat]
<1> DEFINE pct == RevenuePercentages(type, NoOverride)
<1>1. pct \in [owner : Nat, members : Nat, platform : Nat]
  <2>1. ~(NoOverride.owner > 0)
    BY DEF NoOverride, Split
  <2>2. CASE type = "group"
    BY <2>1, <2>2 DEF RevenuePercentages, Split
  <2>3. CASE type = "channel"
    BY <2>1, <2>3 DEF RevenuePercentages, Split
  <2>4. CASE type # "group" /\ type # "channel"
    BY <2>1, <2>4 DEF RevenuePercentages, Split
  <2> QED
    BY <2>2, <2>3, <2>4
<1>2. /\ Part(total, pct.owner, score) \in Nat
      /\ Part(total, pct.members, score) \in Nat
      /\ Part(total, pct.platform, score) \in Nat
  BY <1>1, PartType
<1> HIDE DEF pct
<1>3. Amounts(type, score, total) = Split(Part(total, pct.owner, score),
         Part(total, pct.members, score), Part(total, pct.platform, score))
  BY DEF Amounts, pct
<1> QED
  BY <1>2, <1>3 DEF Split

(* What distributeMemberRewards sends is a set of payments to members. *)
LEMMA SharesType ==
  ASSUME NEW pool \in Nat, NEW scores \in [Members -> ActivityScores]
  PROVE  Payments(MemberShares(pool, scores)) \subseteq Payment
<1> DEFINE total == TotalScore(scores)
           shares == MemberShares(pool, scores)
<1>1. \A m \in DOMAIN shares : m \in Members /\ shares[m] \in Nat
  <2> SUFFICES ASSUME NEW m \in DOMAIN shares
               PROVE  m \in Members /\ shares[m] \in Nat
    OBVIOUS
  <2> HIDE DEF total
  <2>1. /\ m \in Members /\ scores[m] \in Nat
        /\ total \in Nat \ {0}
        /\ shares[m] = (scores[m] * pool) \div total
    BY NumbersAssumption DEF MemberShares, Scored, total
  <2>2. scores[m] * pool \in Nat
    BY <2>1, NatProduct
  <2>3. \A a \in Nat, b \in Nat \ {0} : a \div b \in Nat
    OBVIOUS
  <2> QED
    BY <2>1, <2>2, <2>3
<1> QED
  BY <1>1 DEF Payments, Payment

(* What a thread is due, once it knows its row. *)
LEMMA DueType ==
  ASSUME TypeOK, NEW t \in Threads, pc[t] \in PayStages
  PROVE  /\ Due(t) \in [owner : Nat, members : Nat, platform : Nat]
         /\ rev[t] \in RevIds
<1>1. rev[t] \in RevIds
  BY DEF TypeOK, ThreadTypeOK
<1>2. revenue[rev[t]].total \in Nat /\ seen[t].quality \in Nat
  BY <1>1 DEF TypeOK, ThreadTypeOK, StoreTypeOK
<1> QED
  BY <1>1, <1>2, AmountsType DEF Due

-----------------------------------------------------------------------------
(* Type correctness. *)

LEMMA TypeInit == Init => TypeOK
<1> SUFFICES ASSUME Init PROVE TypeOK
  OBVIOUS
<1>1. StoreTypeOK
  <2>1. (IF ChatIdColumn THEN Scores ELSE {50}) \subseteq Nat
    BY NumbersAssumption
  <2>2. (IF MongoConnected THEN ActivityScores ELSE {0}) \subseteq ActivityScores
    BY NumbersAssumption
  <2>3. community \in [Registered -> [type : Types, quality : Nat]]
    BY <2>1 DEF Init
  <2>4. activity \in [Registered -> [Members -> ActivityScores]]
    BY <2>2 DEF Init
  <2> QED
    BY <2>3, <2>4 DEF Init, StoreTypeOK, NoRow
<1>2. SentTypeOK
  BY DEF Init, SentTypeOK
<1>3. MessageTypeOK
  BY DEF Init, MessageTypeOK, NoEvent
<1>4. ThreadTypeOK
  BY DEF Init, ThreadTypeOK, ZeroCommunity, PayStages
<1>5. CountTypeOK
  BY DEF Init, CountTypeOK
<1> QED
  BY <1>1, <1>2, <1>3, <1>4, <1>5 DEF TypeOK

(* A goroutine that ends leaves well-typed locals. *)
LEMMA ForgetType ==
  ASSUME TypeOK, NEW T, Forget(T)
  PROVE  /\ ThreadTypeOK'
         /\ inbox' = inbox => MessageTypeOK'
<1>1. \A t \in Threads : \/ pc'[t] = "idle"
                         \/ pc'[t] = pc[t] /\ rev'[t] = rev[t] /\ payee'[t] = payee[t]
  BY DEF Forget
<1>2. seen' \in [Threads -> [type : Types \cup {""}, quality : Nat]]
  BY DEF Forget, TypeOK, ThreadTypeOK, ZeroCommunity
<1>3. event' \in [Instances -> [comm : Registered \cup {NoId}, by : {"id", "chat"},
                                camp : Campaigns \cup {NoId}, total : Nat]]
  BY DEF Forget, TypeOK, MessageTypeOK, NoEvent
<1>4. todo' \in [Threads -> SUBSET Payment]
  BY DEF Forget, TypeOK, ThreadTypeOK
<1>5. payee' \in [Threads -> Payment \cup {NoPayment}]
  BY DEF Forget, TypeOK, ThreadTypeOK
<1>6. rev' \in [Threads -> RevIds \cup {NoId}]
  BY DEF Forget, TypeOK, ThreadTypeOK
<1>7. pc' \in [Threads -> {"idle", "resolve", "check", "insert", "load", "community"}
                            \cup PayStages]
  BY DEF Forget, TypeOK, ThreadTypeOK
<1>8. cancelled' \subseteq Triggers
  BY DEF Forget, TypeOK, ThreadTypeOK
<1>9. \A t \in Threads : /\ pc'[t] \in PayStages \cup {"community"} => rev'[t] \in RevIds
                         /\ pc'[t] = "book" => payee'[t] \in Payment
  BY <1>1 DEF TypeOK, ThreadTypeOK, PayStages
<1>10. ThreadTypeOK'
  BY <1>2, <1>4, <1>5, <1>6, <1>7, <1>8, <1>9 DEF ThreadTypeOK
<1> QED
  BY <1>3, <1>10 DEF TypeOK, MessageTypeOK

(* A failed or answered call only moves the fault counter. *)
LEMMA CallType ==
  ASSUME TypeOK, NEW t, Answered(t) \/ Failed(t)
  PROVE  faults' \in Nat
BY DEF TypeOK, CountTypeOK, Answered, Failed

(* Which parts a step leaves alone. *)
LEMMA TypeFrame ==
  ASSUME TypeOK
  PROVE  /\ UNCHANGED store => StoreTypeOK'
         /\ UNCHANGED sent => SentTypeOK'
         /\ UNCHANGED <<inbox, event>> => MessageTypeOK'
         /\ UNCHANGED <<published, triggered, crashes>> /\ faults' \in Nat => CountTypeOK'
         /\ UNCHANGED <<pc, local, cancelled>> => ThreadTypeOK'
BY DEF TypeOK, StoreTypeOK, SentTypeOK, MessageTypeOK, ThreadTypeOK, CountTypeOK,
       store, sent, local

LEMMA MoveType ==
  ASSUME TypeOK, NEW t \in Threads, UNCHANGED <<rev, seen, todo, payee, cancelled>>,
         NEW label, Goto(t, label),
         \/ label \in {"resolve", "check", "insert", "load"}
         \/ /\ label \in {"community", "owner", "members", "pay", "platform",
                          "mark", "announce"}
            /\ rev[t] \in RevIds
  PROVE  ThreadTypeOK'
BY DEF TypeOK, ThreadTypeOK, Goto, PayStages

LEMMA HandleType ==
  ASSUME TypeOK, NEW i \in Instances, Handle(i)
  PROVE  TypeOK'
<1> USE DEF Threads
<1>1. CASE Receive(i)
  <2>1. /\ Head(inbox[i]) \in Event /\ Tail(inbox[i]) \in Seq(Event)
    BY <1>1 DEF TypeOK, MessageTypeOK, Receive
  <2>2. inbox' \in [Instances -> Seq(Event)]
    BY <1>1, <2>1 DEF TypeOK, MessageTypeOK, Receive
  <2>3. Head(inbox[i]) \in [comm : Registered \cup {NoId}, by : {"id", "chat"},
                             camp : Campaigns \cup {NoId}, total : Nat]
    BY <2>1, NumbersAssumption DEF Event
  <2>4. MessageTypeOK'
    BY <1>1, <2>2, <2>3 DEF TypeOK, MessageTypeOK, Receive
  <2>5. ThreadTypeOK'
    BY <1>1, MoveType, TypeFrame DEF Receive, local
  <2>6. StoreTypeOK' /\ SentTypeOK' /\ CountTypeOK'
    BY <1>1, TypeFrame DEF Receive, counts, TypeOK, CountTypeOK
  <2> QED
    BY <2>4, <2>5, <2>6 DEF TypeOK
<1>2. CASE ResolveCommunity(i)
  <2>1. StoreTypeOK' /\ SentTypeOK' /\ CountTypeOK'
    BY <1>2, TypeFrame, CallType DEF ResolveCommunity
  <2>2. CASE Return(i)
    BY <1>2, <2>1, <2>2, ForgetType DEF ResolveCommunity, Return, TypeOK
  <2>3. ASSUME NEW c \in Registered \cup {NoId},
               event' = [event EXCEPT ![i].comm = c], Goto(i, "check"),
               UNCHANGED <<local, cancelled>>
        PROVE  TypeOK'
    <3>1. ThreadTypeOK'
      BY <2>3, MoveType DEF local
    <3>2. MessageTypeOK'
      BY <1>2, <2>3 DEF TypeOK, MessageTypeOK, ResolveCommunity
    <3> QED
      BY <2>1, <3>1, <3>2 DEF TypeOK
  <2> QED
    BY <1>2, <2>2, <2>3 DEF ResolveCommunity
<1>3. CASE CheckDuplicate(i)
  <2>1. StoreTypeOK' /\ SentTypeOK' /\ CountTypeOK'
    BY <1>3, TypeFrame, CallType DEF CheckDuplicate
  <2>2. CASE Return(i)
    BY <1>3, <2>1, <2>2, ForgetType DEF CheckDuplicate, Return, TypeOK
  <2>3. CASE Goto(i, "insert") /\ UNCHANGED <<event, local, cancelled>>
    BY <1>3, <2>1, <2>3, MoveType, TypeFrame DEF CheckDuplicate, local, TypeOK
  <2> QED
    BY <1>3, <2>2, <2>3 DEF CheckDuplicate
<1>4. CASE CreateRevenue(i)
  <2>1. SentTypeOK' /\ CountTypeOK'
    BY <1>4, TypeFrame, CallType DEF CreateRevenue
  <2>2. CASE Return(i) /\ UNCHANGED revenue
    BY <1>4, <2>1, <2>2, ForgetType, TypeFrame DEF CreateRevenue, Return, TypeOK, store
  <2>3. ASSUME NEW r \in RevIds,
               revenue' = [revenue EXCEPT ![r] =
                  [status |-> "pending", comm |-> event[i].comm,
                   camp |-> event[i].camp, total |-> event[i].total]],
               rev' = [rev EXCEPT ![i] = r], Goto(i, "load"),
               UNCHANGED <<event, seen, todo, payee, cancelled>>
        PROVE  TypeOK'
    <3>1. event[i] \in [comm : Registered \cup {NoId}, by : {"id", "chat"},
                        camp : Campaigns \cup {NoId}, total : Nat]
      BY DEF TypeOK, MessageTypeOK
    <3>2. StoreTypeOK'
      BY <1>4, <2>3, <3>1 DEF TypeOK, StoreTypeOK, CreateRevenue
    <3>3. ThreadTypeOK'
      BY <2>3 DEF TypeOK, ThreadTypeOK, Goto, PayStages
    <3>4. MessageTypeOK'
      BY <1>4, <2>3, TypeFrame DEF CreateRevenue
    <3> QED
      BY <2>1, <3>2, <3>3, <3>4 DEF TypeOK
  <2> QED
    BY <1>4, <2>2, <2>3 DEF CreateRevenue, Present
<1> QED
  BY <1>1, <1>2, <1>3, <1>4 DEF Handle

(* Adding to one entry of a table of amounts. *)
LEMMA AddToTable ==
  ASSUME NEW f \in [RevIds -> [Members -> Nat]], NEW r \in RevIds, NEW m \in Members,
         NEW n \in Nat
  PROVE  [f EXCEPT ![r][m] = @ + n] \in [RevIds -> [Members -> Nat]]
<1>1. f[r] \in [Members -> Nat] /\ f[r][m] \in Nat
  OBVIOUS
<1>2. f[r][m] + n \in Nat
  BY <1>1
<1>3. [f[r] EXCEPT ![m] = @ + n] \in [Members -> Nat]
  BY <1>1, <1>2
<1> QED
  BY <1>3

LEMMA DistributeType ==
  ASSUME TypeOK, NEW t \in Threads, Distribute(t)
  PROVE  TypeOK'
<1>1. CASE LoadRevenue(t)
  <2>1. StoreTypeOK' /\ SentTypeOK' /\ CountTypeOK'
    BY <1>1, TypeFrame, CallType DEF LoadRevenue
  <2>2. CASE Return(t)
    BY <1>1, <2>1, <2>2, ForgetType DEF LoadRevenue, Return, TypeOK
  <2>3. CASE /\ rev[t] \in Present /\ Goto(t, "community")
             /\ UNCHANGED <<event, local, cancelled>>
    BY <1>1, <2>1, <2>3, MoveType, TypeFrame DEF LoadRevenue, local, TypeOK, Present
  <2> QED
    BY <1>1, <2>2, <2>3 DEF LoadRevenue
<1>2. CASE LoadCommunity(t)
  <2>1. StoreTypeOK' /\ SentTypeOK' /\ CountTypeOK'
    BY <1>2, TypeFrame, CallType DEF LoadCommunity
  <2>2. CASE Return(t)
    BY <1>2, <2>1, <2>2, ForgetType DEF LoadCommunity, Return, TypeOK
  <2>3. ASSUME NEW row \in [type : Types \cup {""}, quality : Nat],
               seen' = [seen EXCEPT ![t] = row], Goto(t, "owner"),
               UNCHANGED <<event, rev, todo, payee, cancelled>>
        PROVE  TypeOK'
    <3>1. rev[t] \in RevIds
      BY <1>2 DEF LoadCommunity, TypeOK, ThreadTypeOK
    <3>2. ThreadTypeOK'
      BY <2>3, <3>1 DEF TypeOK, ThreadTypeOK, Goto, PayStages
    <3> QED
      BY <1>2, <2>1, <2>3, <3>2, TypeFrame DEF LoadCommunity, TypeOK
  <2>4. ZeroCommunity \in [type : Types \cup {""}, quality : Nat]
    BY DEF ZeroCommunity
  <2>5. \A c \in Registered : community[c] \in [type : Types \cup {""}, quality : Nat]
    BY DEF TypeOK, StoreTypeOK
  <2> QED
    BY <1>2, <2>2, <2>3, <2>4, <2>5 DEF LoadCommunity
<1>3. CASE PayOwner(t)
  <2>1. /\ Due(t) \in [owner : Nat, members : Nat, platform : Nat]
        /\ rev[t] \in RevIds
    BY <1>3, DueType DEF PayOwner, PayStages
  <2>2. SentTypeOK'
    BY <1>3, <2>1 DEF TypeOK, SentTypeOK, PayOwner
  <2>3. ThreadTypeOK'
    BY <1>3, <2>1, MoveType DEF PayOwner, local
  <2> QED
    BY <1>3, <2>2, <2>3, TypeFrame DEF PayOwner, TypeOK, counts, CountTypeOK
<1>4. CASE OpenPool(t)
  <2>1. /\ Due(t) \in [owner : Nat, members : Nat, platform : Nat]
        /\ rev[t] \in RevIds
    BY <1>4, DueType DEF OpenPool, PayStages
  <2>2. faults' \in Nat
    BY <1>4, CallType DEF OpenPool, TypeOK, CountTypeOK
  <2>3. todo' \in [Threads -> SUBSET Payment]
    <3>1. CASE todo' = todo
      BY <3>1 DEF TypeOK, ThreadTypeOK
    <3>2. CASE todo' = [todo EXCEPT ![t] = Payments(MemberShares(
                          Due(t).members, GetActiveMembers(revenue[rev[t]].comm)))]
      <4>1. PICK scores : scores = GetActiveMembers(revenue[rev[t]].comm)
        OBVIOUS
      <4>2. scores \in [Members -> ActivityScores]
        BY <4>1, NumbersAssumption DEF GetActiveMembers, TypeOK, StoreTypeOK
      <4>3. Payments(MemberShares(Due(t).members, scores)) \subseteq Payment
        BY <2>1, <4>2, SharesType
      <4> QED
        BY <3>2, <4>1, <4>3 DEF TypeOK, ThreadTypeOK
    <3> QED
      BY <1>4, <3>1, <3>2 DEF OpenPool
  <2>4. ThreadTypeOK'
    BY <1>4, <2>1, <2>3 DEF OpenPool, TypeOK, ThreadTypeOK, Goto, PayStages
  <2> QED
    BY <1>4, <2>2, <2>4, TypeFrame DEF OpenPool, TypeOK
<1>5. CASE PayMember(t)
  <2>1. rev[t] \in RevIds
    BY <1>5, DueType DEF PayMember, PayStages
  <2>2. PICK p \in todo[t] :
           /\ rewards' = [rewards EXCEPT ![rev[t]][p.member] = @ + p.nano]
           /\ payee' = [payee EXCEPT ![t] = p]
           /\ todo' = [todo EXCEPT ![t] = @ \ {p}]
    BY <1>5 DEF PayMember
  <2>3. p \in Payment
    BY <2>2 DEF TypeOK, ThreadTypeOK
  <2>4. SentTypeOK'
    <3>1. rewards' \in [RevIds -> [Members -> Nat]]
      BY <2>1, <2>2, <2>3, AddToTable DEF TypeOK, SentTypeOK, Payment
    <3> QED
      BY <1>5, <3>1 DEF PayMember, TypeOK, SentTypeOK
  <2>5. ThreadTypeOK'
    BY <1>5, <2>1, <2>2, <2>3 DEF PayMember, TypeOK, ThreadTypeOK, Goto, PayStages
  <2> QED
    BY <1>5, <2>4, <2>5, TypeFrame DEF PayMember, TypeOK, counts, CountTypeOK
<1>6. CASE BookMember(t)
  <2>1. rev[t] \in RevIds /\ payee[t] \in Payment
    BY <1>6, DueType DEF BookMember, PayStages, TypeOK, ThreadTypeOK
  <2>2. booked' \in [RevIds -> [Members -> Nat]]
    <3>1. booked \in [RevIds -> [Members -> Nat]] /\ payee[t].member \in Members
          /\ payee[t].nano \in Nat
      BY <2>1 DEF TypeOK, StoreTypeOK, Payment
    <3>2. [booked EXCEPT ![rev[t]][payee[t].member] = @ + payee[t].nano]
             \in [RevIds -> [Members -> Nat]]
      BY <2>1, <3>1, AddToTable
    <3> QED
      BY <1>6, <3>1, <3>2 DEF BookMember
  <2>3. ThreadTypeOK'
    BY <1>6, <2>1 DEF BookMember, TypeOK, ThreadTypeOK, Goto, PayStages
  <2>4. CountTypeOK'
    BY <1>6, CallType, TypeFrame DEF BookMember
  <2> QED
    BY <1>6, <2>2, <2>3, <2>4, TypeFrame DEF BookMember, TypeOK, StoreTypeOK
<1>7. CASE PayPlatform(t)
  <2>1. /\ Due(t) \in [owner : Nat, members : Nat, platform : Nat]
        /\ rev[t] \in RevIds
    BY <1>7, DueType DEF PayPlatform, PayStages
  <2>2. SentTypeOK'
    BY <1>7, <2>1 DEF TypeOK, SentTypeOK, PayPlatform
  <2>3. ThreadTypeOK'
    BY <1>7, <2>1, MoveType DEF PayPlatform, local
  <2> QED
    BY <1>7, <2>2, <2>3, TypeFrame DEF PayPlatform, TypeOK, counts, CountTypeOK
<1>8. CASE MarkRevenueDistributed(t)
  <2>1. rev[t] \in RevIds
    BY <1>8, DueType DEF MarkRevenueDistributed, PayStages
  <2>2. StoreTypeOK'
    BY <1>8, <2>1 DEF MarkRevenueDistributed, TypeOK, StoreTypeOK
  <2>3. ThreadTypeOK'
    BY <1>8, <2>1, MoveType DEF MarkRevenueDistributed, local
  <2>4. CountTypeOK'
    BY <1>8, CallType, TypeFrame DEF MarkRevenueDistributed
  <2> QED
    BY <1>8, <2>2, <2>3, <2>4, TypeFrame DEF MarkRevenueDistributed, TypeOK
<1>9. CASE Announce(t)
  <2>1. /\ Due(t) \in [owner : Nat, members : Nat, platform : Nat]
        /\ rev[t] \in RevIds
    BY <1>9, DueType DEF Announce, PayStages
  <2>2. SentTypeOK'
    BY <1>9, <2>1 DEF Announce, TypeOK, SentTypeOK
  <2> QED
    BY <1>9, <2>2, TypeFrame, ForgetType DEF Announce, Return, TypeOK, counts, CountTypeOK
<1> QED
  BY <1>1, <1>2, <1>3, <1>4, <1>5, <1>6, <1>7, <1>8, <1>9 DEF Distribute

LEMMA EnvironmentType ==
  ASSUME TypeOK, Environment
  PROVE  TypeOK'
<1>1. ASSUME NEW e \in Event, NEW D \in SUBSET Instances, Publish(e, D)
      PROVE  TypeOK'
  <2>1. \A i \in Instances : Append(inbox[i], e) \in Seq(Event)
    BY DEF TypeOK, MessageTypeOK
  <2>2. MessageTypeOK'
    BY <1>1, <2>1 DEF Publish, TypeOK, MessageTypeOK
  <2>3. CountTypeOK'
    BY <1>1 DEF Publish, TypeOK, CountTypeOK
  <2> QED
    BY <1>1, <2>2, <2>3, TypeFrame DEF Publish, TypeOK
<1>2. ASSUME NEW t \in Triggers, NEW r \in Present \cup {NoId}, triggerDistribute(t, r)
      PROVE  TypeOK'
  <2>1. ThreadTypeOK'
    BY <1>2 DEF triggerDistribute, TypeOK, ThreadTypeOK, Goto, PayStages, Present, Threads
  <2>2. CountTypeOK'
    BY <1>2 DEF triggerDistribute, TypeOK, CountTypeOK
  <2> QED
    BY <1>2, <2>1, <2>2, TypeFrame DEF triggerDistribute, TypeOK
<1>3. ASSUME NEW t \in Triggers, RequestReturns(t)
      PROVE  TypeOK'
  <2>1. ThreadTypeOK'
    BY <1>3 DEF RequestReturns, TypeOK, ThreadTypeOK, local
  <2> QED
    BY <1>3, <2>1, TypeFrame DEF RequestReturns, TypeOK, counts, CountTypeOK
<1>4. ASSUME NEW c \in Registered, NEW s \in Scores, UpdateCommunityScore(c, s)
      PROVE  TypeOK'
  <2>1. s \in Nat
    BY NumbersAssumption
  <2>2. StoreTypeOK'
    BY <1>4, <2>1 DEF UpdateCommunityScore, TypeOK, StoreTypeOK
  <2> QED
    BY <1>4, <2>2, TypeFrame DEF UpdateCommunityScore, TypeOK, counts, CountTypeOK
<1>5. ASSUME NEW c \in Registered, NEW m \in Members, NEW s \in ActivityScores,
             UpdateMemberActivity(c, m, s)
      PROVE  TypeOK'
  <2>1. StoreTypeOK'
    BY <1>5 DEF UpdateMemberActivity, TypeOK, StoreTypeOK
  <2> QED
    BY <1>5, <2>1, TypeFrame DEF UpdateMemberActivity, TypeOK, counts, CountTypeOK
<1>6. ASSUME NEW i \in Instances, Crash(i)
      PROVE  TypeOK'
  <2>1. inbox' \in [Instances -> Seq(Event)]
    BY <1>6 DEF Crash, TypeOK, MessageTypeOK
  <2>2. ThreadTypeOK'
    BY <1>6, ForgetType DEF Crash
  <2>3. MessageTypeOK'
    BY <1>6, <2>1 DEF Crash, Forget, TypeOK, MessageTypeOK, NoEvent
  <2>4. CountTypeOK'
    BY <1>6 DEF Crash, TypeOK, CountTypeOK
  <2> QED
    BY <1>6, <2>2, <2>3, <2>4, TypeFrame DEF Crash, TypeOK
<1> QED
  BY <1>1, <1>2, <1>3, <1>4, <1>5, <1>6 DEF Environment

LEMMA TypeStep == TypeOK /\ [Next]_vars => TypeOK'
<1> SUFFICES ASSUME TypeOK, [Next]_vars PROVE TypeOK'
  OBVIOUS
<1>1. CASE UNCHANGED vars
  BY <1>1, TypeFrame DEF vars, TypeOK, counts, CountTypeOK
<1>2. CASE Next
  BY <1>2, HandleType, DistributeType, EnvironmentType DEF Next
<1> QED
  BY <1>1, <1>2

(* Every variable keeps its type; in particular a thread that pays knows    *)
(* its row, and every amount ever sent or booked is a natural number.       *)
THEOREM TypeCorrect == Spec => []TypeOK
  BY TypeInit, TypeStep, PTL DEF Spec

-----------------------------------------------------------------------------
(* One row per campaign and community.  The strengthening: a thread about  *)
(* to insert has seen no row, and nobody else has inserted one since.      *)

SingleInstance == \A i, j \in Instances : i = j

InsertIsNew ==
  \A i \in Instances :
    pc[i] = "insert" => RowsOf(event[i].camp, event[i].comm) = {}

PaysPresentRow ==
  \A t \in Threads : pc[t] \in PayStages \cup {"community"} => rev[t] \in Present

UniqueInv == TypeOK /\ PaysPresentRow /\ InsertIsNew /\ UniqueRevenue

(* No step but CreateRevenue adds a row or changes whose it is. *)
SameRows ==
  /\ Present' = Present
  /\ \A r \in Present : /\ revenue'[r].camp = revenue[r].camp
                        /\ revenue'[r].comm = revenue[r].comm
                        /\ revenue'[r].total = revenue[r].total

LEMMA SameStore == revenue' = revenue => SameRows
  BY DEF SameRows, Present

LEMMA ForgetMoves ==
  ASSUME NEW T, Forget(T)
  PROVE  /\ \A u \in Threads : pc'[u] = "idle" \/ (pc'[u] = pc[u] /\ rev'[u] = rev[u])
         /\ \A u \in Threads \ T : pc'[u] = pc[u] /\ rev'[u] = rev[u] /\ seen'[u] = seen[u]
         /\ \A i \in Instances : pc'[i] = "idle" \/ event'[i] = event[i]
  BY DEF Forget, Threads

LEMMA MarkRows ==
  ASSUME TypeOK, PaysPresentRow, NEW t \in Threads, MarkRevenueDistributed(t)
  PROVE  SameRows
<1>1. rev[t] \in Present
  BY DEF MarkRevenueDistributed, PaysPresentRow, PayStages
<1>2. CASE revenue' = [revenue EXCEPT ![rev[t]].status = "distributed"]
  BY <1>1, <1>2 DEF SameRows, Present, TypeOK, StoreTypeOK
<1> QED
  BY <1>2, SameStore DEF MarkRevenueDistributed

LEMMA DistributeRows ==
  ASSUME TypeOK, PaysPresentRow, NEW t \in Threads, Distribute(t)
  PROVE  /\ SameRows
         /\ \A i \in Instances : pc'[i] = "insert" => pc[i] = "insert" /\ event'[i] = event[i]
         /\ \A u \in Threads : pc'[u] \in PayStages \cup {"community"} =>
              rev'[u] = rev[u] /\ rev[u] \in Present
<1> USE DEF Threads
<1>1. SameRows
  BY MarkRows, SameStore DEF Distribute, LoadRevenue, LoadCommunity, PayOwner, OpenPool,
     PayMember, BookMember, PayPlatform, Announce, store
<1>2. CASE Return(t)
  <2>1. \A u \in Threads : pc'[u] = "idle" \/ (pc'[u] = pc[u] /\ rev'[u] = rev[u])
    BY <1>2, ForgetMoves DEF Return
  <2>2. \A i \in Instances : pc'[i] = "idle" \/ event'[i] = event[i]
    BY <1>2, ForgetMoves DEF Return
  <2> QED
    BY <1>1, <2>1, <2>2 DEF PaysPresentRow, PayStages
<1>3. CASE ~Return(t)
  <2>1. rev' = rev /\ event' = event
    BY <1>3 DEF Distribute, LoadRevenue, LoadCommunity, PayOwner, OpenPool,
       PayMember, BookMember, PayPlatform, MarkRevenueDistributed, Announce, local
  <2>2. PICK label \in PayStages \cup {"community"} : Goto(t, label)
    BY <1>3 DEF Distribute, LoadRevenue, LoadCommunity, PayOwner, OpenPool,
       PayMember, BookMember, PayPlatform, MarkRevenueDistributed, Announce, PayStages
  <2>3. rev[t] \in Present
    BY <1>3 DEF Distribute, LoadRevenue, LoadCommunity, PayOwner, OpenPool,
       PayMember, BookMember, PayPlatform, MarkRevenueDistributed, Announce,
       PayStages, PaysPresentRow
  <2>4. \A u \in Threads : u # t => pc'[u] = pc[u]
    BY <2>2 DEF Goto, TypeOK, ThreadTypeOK
  <2>5. pc'[t] = label
    BY <2>2 DEF Goto, TypeOK, ThreadTypeOK
  <2> QED
    BY <1>1, <2>1, <2>3, <2>4, <2>5 DEF PaysPresentRow, PayStages
<1> QED
  BY <1>2, <1>3

LEMMA EnvironmentRows ==
  ASSUME TypeOK, Environment
  PROVE  /\ SameRows
         /\ \A i \in Instances : pc'[i] = "insert" => pc[i] = "insert" /\ event'[i] = event[i]
         /\ \A u \in Threads : pc'[u] \in PayStages \cup {"community"} =>
              pc'[u] = pc[u] /\ rev'[u] = rev[u]
<1>1. SameRows
  BY SameStore DEF Environment, Publish, triggerDistribute, RequestReturns,
     UpdateCommunityScore, UpdateMemberActivity, Crash, store
<1>2. CASE \E i \in Instances : Crash(i)
  <2>1. PICK T : Forget(T)
    BY <1>2 DEF Crash
  <2>2. \A u \in Threads : pc'[u] = "idle" \/ (pc'[u] = pc[u] /\ rev'[u] = rev[u])
    BY <2>1, ForgetMoves
  <2>3. \A i \in Instances : pc'[i] = "idle" \/ (pc'[i] = pc[i] /\ event'[i] = event[i])
    BY <2>1, <2>2, ForgetMoves DEF Threads
  <2> QED
    BY <1>1, <2>2, <2>3 DEF PayStages
<1>3. CASE \E t \in Triggers, r \in Present \cup {NoId} : triggerDistribute(t, r)
  <2>1. PICK t \in Triggers : /\ Goto(t, "load") /\ event' = event
                              /\ \E r : rev' = [rev EXCEPT ![t] = r]
    BY <1>3 DEF triggerDistribute
  <2>2. \A u \in Threads : pc'[u] = IF u = t THEN "load" ELSE pc[u]
    BY <2>1 DEF Goto, TypeOK, ThreadTypeOK
  <2>3. \A u \in Threads : u # t => rev'[u] = rev[u]
    BY <2>1 DEF TypeOK, ThreadTypeOK
  <2> QED
    BY <1>1, <2>1, <2>2, <2>3 DEF Threads, PayStages
<1>4. CASE pc' = pc /\ rev' = rev /\ event' = event
  BY <1>1, <1>4
<1> QED
  BY <1>2, <1>3, <1>4 DEF Environment, Publish, RequestReturns, UpdateCommunityScore,
     UpdateMemberActivity, local

(* With the same rows and no new thread at the insert nothing is lost. *)
LEMMA UniqueFrame ==
  ASSUME TypeOK, InsertIsNew, UniqueRevenue, SameRows,
         \A i \in Instances : pc'[i] = "insert" => pc[i] = "insert" /\ event'[i] = event[i]
  PROVE  InsertIsNew' /\ UniqueRevenue'
<1>1. \A k, c : RowsOf(k, c)' = RowsOf(k, c)
  BY DEF RowsOf, SameRows
<1>2. InsertIsNew'
  BY <1>1 DEF InsertIsNew
<1> QED
  BY <1>2 DEF UniqueRevenue, SameRows

LEMMA HandleUnique ==
  ASSUME SingleInstance, MaxFaults = 0, UniqueInv, NEW i \in Instances, Handle(i)
  PROVE  PaysPresentRow' /\ InsertIsNew' /\ UniqueRevenue'
<1> USE DEF Threads
<1>1. ~Failed(i)
  <2>1. i \notin cancelled
    BY ThreadsAssumption DEF UniqueInv, TypeOK, ThreadTypeOK
  <2>2. ~(faults < MaxFaults)
    BY DEF UniqueInv, TypeOK, CountTypeOK
  <2> QED
    BY <2>1, <2>2 DEF Failed
<1>2. \A j \in Instances : j = i
  BY DEF SingleInstance
<1>3. \A u \in Threads : pc'[u] \in PayStages \cup {"community"} =>
        pc'[u] = pc[u] /\ rev'[u] = rev[u]
  <2>1. CASE Return(i)
    BY <2>1, ForgetMoves DEF Return, PayStages
  <2>2. CASE ~Return(i)
    <3>1. pc' = pc \/ \E l \in {"resolve", "check", "insert", "load"} : Goto(i, l)
      BY <2>2 DEF Handle, Receive, ResolveCommunity, CheckDuplicate, CreateRevenue
    <3>2. \A u \in Threads : u # i => pc'[u] = pc[u]
      BY <3>1 DEF Goto, UniqueInv, TypeOK, ThreadTypeOK
    <3>3. pc'[i] = pc[i] \/ pc'[i] \in {"resolve", "check", "insert", "load"}
      BY <3>1 DEF Goto, UniqueInv, TypeOK, ThreadTypeOK
    <3>4. \A u \in Threads : u # i => rev'[u] = rev[u]
      BY <2>2 DEF Handle, Receive, ResolveCommunity, CheckDuplicate, CreateRevenue,
         local, UniqueInv, TypeOK, ThreadTypeOK
    <3>5. rev'[i] = rev[i] \/ pc'[i] = "load"
      BY <2>2 DEF Handle, Receive, ResolveCommunity, CheckDuplicate, CreateRevenue,
         local, UniqueInv, TypeOK, ThreadTypeOK, Goto
    <3>6. pc'[i] \notin PayStages \cup {"community"} \/ pc' = pc
      BY <3>1 DEF Goto, UniqueInv, TypeOK, ThreadTypeOK, PayStages
    <3>7. pc' = pc => rev' = rev
      BY <2>2 DEF Handle, Receive, ResolveCommunity, CheckDuplicate, CreateRevenue,
         local, UniqueInv, TypeOK, ThreadTypeOK, Goto
    <3> QED
      BY <3>2, <3>4, <3>6, <3>7
  <2> QED
    BY <2>1, <2>2
<1>4. CASE revenue' = revenue
  <2>1. SameRows
    BY <1>4, SameStore
  <2>2. PaysPresentRow'
    BY <1>3, <2>1 DEF PaysPresentRow, UniqueInv, SameRows
  <2>3. CASE pc'[i] = "insert"
    <3>1. RowsOf(event[i].camp, event[i].comm) = {} /\ event' = event
      BY <1>1, <2>3 DEF Handle, Receive, ResolveCommunity, CheckDuplicate, CreateRevenue,
         UniqueInv, TypeOK, ThreadTypeOK, Goto, Return, Forget
    <3>2. RowsOf(event[i].camp, event[i].comm)' = {}
      BY <2>1, <3>1 DEF RowsOf, SameRows
    <3>3. InsertIsNew'
      BY <1>2, <3>2 DEF InsertIsNew
    <3> QED
      BY <2>1, <2>2, <3>3 DEF UniqueInv, UniqueRevenue, SameRows
  <2>4. CASE pc'[i] # "insert"
    BY <1>2, <2>1, <2>2, <2>4, UniqueFrame DEF UniqueInv
  <2> QED
    BY <2>3, <2>4
<1>5. CASE revenue' # revenue
  <2>1. CreateRevenue(i) /\ Goto(i, "load")
    BY <1>5, <1>1 DEF Handle, Receive, ResolveCommunity, CheckDuplicate, CreateRevenue, store
  <2>2. PICK r \in RevIds \ Present :
          revenue' = [revenue EXCEPT ![r] =
            [status |-> "pending", comm |-> event[i].comm,
             camp |-> event[i].camp, total |-> event[i].total]]
    BY <1>1, <2>1 DEF CreateRevenue
  <2>3. Present' = Present \cup {r}
    BY <2>2 DEF Present, UniqueInv, TypeOK, StoreTypeOK
  <2>4. \A s \in Present : revenue'[s] = revenue[s]
    BY <2>2 DEF Present, UniqueInv, TypeOK, StoreTypeOK
  <2>5. revenue'[r].camp = event[i].camp /\ revenue'[r].comm = event[i].comm
    BY <2>2 DEF UniqueInv, TypeOK, StoreTypeOK
  <2>6. \A s \in Present : ~(revenue[s].camp = event[i].camp /\ revenue[s].comm = event[i].comm)
    BY <2>1 DEF CreateRevenue, UniqueInv, InsertIsNew, RowsOf
  <2>7. UniqueRevenue'
    BY <2>3, <2>4, <2>5, <2>6 DEF UniqueRevenue, UniqueInv
  <2>8. PaysPresentRow'
    BY <1>3, <2>3 DEF PaysPresentRow, UniqueInv
  <2>9. InsertIsNew'
    BY <1>2, <2>1 DEF InsertIsNew, Goto, UniqueInv, TypeOK, ThreadTypeOK
  <2> QED
    BY <2>7, <2>8, <2>9
<1> QED
  BY <1>4, <1>5

LEMMA UniqueInit == Init => UniqueInv
<1> SUFFICES ASSUME Init PROVE UniqueInv
  OBVIOUS
<1>1. Present = {}
  BY DEF Init, Present, NoRow
<1>2. \A t \in Threads : pc[t] = "idle"
  BY DEF Init
<1> QED
  BY <1>1, <1>2, TypeInit DEF UniqueInv, PaysPresentRow, InsertIsNew, UniqueRevenue,
     PayStages, Threads

LEMMA UniqueStep ==
  ASSUME SingleInstance, MaxFaults = 0
  PROVE  UniqueInv /\ [Next]_vars => UniqueInv'
<1> SUFFICES ASSUME UniqueInv, [Next]_vars PROVE UniqueInv'
  OBVIOUS
<1>1. TypeOK'
  BY TypeStep DEF UniqueInv
<1>2. CASE UNCHANGED vars
  BY <1>1, <1>2 DEF vars, store, local, UniqueInv, PaysPresentRow, InsertIsNew,
     UniqueRevenue, Present, RowsOf
<1>3. ASSUME NEW i \in Instances, Handle(i)
      PROVE  UniqueInv'
  BY <1>1, <1>3, HandleUnique DEF UniqueInv
<1>4. ASSUME NEW t \in Threads, Distribute(t)
      PROVE  UniqueInv'
  <2>1. /\ SameRows
        /\ \A i \in Instances : pc'[i] = "insert" => pc[i] = "insert" /\ event'[i] = event[i]
        /\ \A u \in Threads : pc'[u] \in PayStages \cup {"community"} =>
             rev'[u] = rev[u] /\ rev[u] \in Present
    BY <1>4, DistributeRows DEF UniqueInv
  <2>2. InsertIsNew' /\ UniqueRevenue'
    BY <2>1, UniqueFrame DEF UniqueInv
  <2>3. PaysPresentRow'
    BY <2>1 DEF PaysPresentRow, SameRows
  <2> QED
    BY <1>1, <2>2, <2>3 DEF UniqueInv
<1>5. CASE Environment
  <2>1. /\ SameRows
        /\ \A i \in Instances : pc'[i] = "insert" => pc[i] = "insert" /\ event'[i] = event[i]
        /\ \A u \in Threads : pc'[u] \in PayStages \cup {"community"} =>
             pc'[u] = pc[u] /\ rev'[u] = rev[u]
    BY <1>5, EnvironmentRows DEF UniqueInv
  <2>2. InsertIsNew' /\ UniqueRevenue'
    BY <2>1, UniqueFrame DEF UniqueInv
  <2>3. PaysPresentRow'
    BY <2>1 DEF PaysPresentRow, SameRows, UniqueInv
  <2> QED
    BY <1>1, <2>2, <2>3 DEF UniqueInv
<1> QED
  BY <1>2, <1>3, <1>4, <1>5 DEF Next

(* With one instance and a database that answers, replays, losses, crashes  *)
(* and admin triggers never make a second row for a campaign's revenue.     *)
THEOREM RevenueIsUnique ==
  ASSUME SingleInstance, MaxFaults = 0
  PROVE  Spec => []UniqueRevenue
<1>1. UniqueInv => UniqueRevenue
  BY DEF UniqueInv
<1> QED
  BY <1>1, UniqueInit, UniqueStep, PTL DEF Spec

-----------------------------------------------------------------------------
(***************************************************************************)
(* Without admin triggers, Revenue implements RevenueLedger: whatever is   *)
(* lost, repeated, restarted or fails, on any number of instances, no row  *)
(* is paid twice.                                                          *)
(*                                                                         *)
(* The strengthening: two threads never work on the same row, and what the *)
(* ledger says of a thread's row is determined by the thread's stage.      *)
(* From it follows what the records of a row say of what was sent.         *)
(***************************************************************************)

RunStages == {"load", "community"} \cup PayStages
OneShare(t) == IF Due(t).owner > 0 THEN 1 ELSE 0

RunOK(t) ==
  pc[t] \in RunStages =>
    /\ rev[t] \in Present
    /\ pc[t] # "announce" => revenue[rev[t]].status = "pending"
    /\ pc[t] \in {"load", "community", "owner"} =>
         ledger[rev[t]].ownerTimes = 0 /\ ledger[rev[t]].platformTimes = 0
    /\ pc[t] \in {"members", "pay", "book", "platform"} =>
         ledger[rev[t]].ownerTimes = OneShare(t) /\ ledger[rev[t]].platformTimes = 0
    /\ pc[t] = "mark" =>
         ledger[rev[t]].ownerTimes = ledger[rev[t]].platformTimes

OneRunPerRow ==
  \A t, u \in Threads :
    pc[t] \in RunStages /\ pc[u] \in RunStages /\ rev[t] = rev[u] => t = u

EntryOK(r) ==
  /\ ledger[r].ownerTimes <= 1 /\ ledger[r].platformTimes <= ledger[r].ownerTimes
  /\ r \notin Present => ledger[r].ownerTimes = 0

RunInv ==
  /\ TypeOK /\ OneRunPerRow
  /\ \A t \in Threads : RunOK(t)
  /\ \A r \in RevIds : EntryOK(r)

-----------------------------------------------------------------------------
(* Owner and platform are owed something in the same cases. *)
LEMMA PositiveProduct == \A a, b \in Nat : a * b \in Nat /\ (a * b > 0 <=> a > 0 /\ b > 0)
  OBVIOUS

LEMMA PartPositive ==
  ASSUME NEW total \in Nat, NEW pct \in Nat, pct > 0, NEW score \in Nat
  PROVE  Part(total, pct, score) > 0 <=> total > 0 /\ revenueMultiplier(score) > 0
<1>1. revenueMultiplier(score) \in Nat
  BY DEF revenueMultiplier
<1>2. total * pct \in Nat /\ (total * pct > 0 <=> total > 0)
  BY PositiveProduct
<1>3. /\ (total * pct) * revenueMultiplier(score) \in Nat
      /\ (total * pct) * revenueMultiplier(score) > 0
            <=> total > 0 /\ revenueMultiplier(score) > 0
  BY <1>1, <1>2, PositiveProduct
<1> QED
  BY <1>3, PositiveProduct DEF Part

LEMMA SharesAgree ==
  ASSUME TypeOK, NEW t \in Threads, pc[t] \in PayStages
  PROVE  Due(t).owner > 0 <=> Due(t).platform > 0
<1>1. revenue[rev[t]].total \in Nat /\ seen[t].quality \in Nat
  BY DEF TypeOK, ThreadTypeOK, StoreTypeOK
<1> DEFINE pct == RevenuePercentages(seen[t].type, NoOverride)
<1>2. /\ pct.owner \in Nat /\ pct.owner > 0
      /\ pct.platform \in Nat /\ pct.platform > 0
  <2>1. ~(NoOverride.owner > 0)
    BY DEF NoOverride, Split
  <2>2. CASE seen[t].type = "group"
    BY <2>1, <2>2 DEF RevenuePercentages, Split
  <2>3. CASE seen[t].type = "channel"
    BY <2>1, <2>3 DEF RevenuePercentages, Split
  <2>4. CASE seen[t].type # "group" /\ seen[t].type # "channel"
    BY <2>1, <2>4 DEF RevenuePercentages, Split
  <2> QED
    BY <2>2, <2>3, <2>4
<1>3. /\ Due(t).owner = Part(revenue[rev[t]].total, pct.owner, seen[t].quality)
      /\ Due(t).platform = Part(revenue[rev[t]].total, pct.platform, seen[t].quality)
  BY DEF Due, Amounts, Split
<1> QED
  BY <1>1, <1>2, <1>3, PartPositive

-----------------------------------------------------------------------------
(* A thread that rests, or dies, while nobody touches its row keeps RunOK. *)
LEMMA RunFrame ==
  ASSUME NEW u \in Threads, RunOK(u),
         \/ pc'[u] = "idle"
         \/ /\ pc'[u] = pc[u] /\ rev'[u] = rev[u] /\ seen'[u] = seen[u]
            /\ pc[u] \in RunStages =>
                 revenue'[rev[u]] = revenue[rev[u]] /\ ledger'[rev[u]] = ledger[rev[u]]
  PROVE  RunOK(u)'
<1>1. CASE pc'[u] = "idle" \/ pc[u] \notin RunStages
  BY <1>1 DEF RunOK, RunStages, PayStages
<1>2. CASE pc'[u] # "idle" /\ pc[u] \in RunStages
  <2>1. OneShare(u)' = OneShare(u)
    BY <1>2 DEF OneShare, Due
  <2>2. rev[u] \in Present /\ rev[u] \in Present'
    BY <1>2 DEF RunOK, Present
  <2> QED
    BY <1>2, <2>1, <2>2 DEF RunOK
<1> QED
  BY <1>1, <1>2

(* What a step of DistributeRevenue by t can touch. *)
LEMMA DistributeOwn ==
  ASSUME RunInv, NEW t \in Threads, Distribute(t)
  PROVE  /\ pc[t] \in RunStages /\ rev[t] \in Present
         /\ pc'[t] = "idle" \/ (pc'[t] \in RunStages /\ rev'[t] = rev[t])
         /\ \A u \in Threads : u # t =>
              pc'[u] = pc[u] /\ rev'[u] = rev[u] /\ seen'[u] = seen[u]
         /\ \A r \in RevIds : r # rev[t] =>
              revenue'[r] = revenue[r] /\ ledger'[r] = ledger[r]
<1> USE DEF RunInv
<1>1. pc[t] \in RunStages
  BY DEF Distribute, LoadRevenue, LoadCommunity, PayOwner, OpenPool, PayMember,
     BookMember, PayPlatform, MarkRevenueDistributed, Announce, RunStages, PayStages
<1>2. rev[t] \in Present
  BY <1>1 DEF RunOK
<1>3. \A r \in RevIds : r # rev[t] => ledger'[r] = ledger[r]
  BY DEF Distribute, LoadRevenue, LoadCommunity, PayOwner, OpenPool, PayMember,
     BookMember, PayPlatform, MarkRevenueDistributed, Announce, sent, TypeOK, SentTypeOK
<1>4. \A r \in RevIds : r # rev[t] => revenue'[r] = revenue[r]
  BY DEF Distribute, LoadRevenue, LoadCommunity, PayOwner, OpenPool, PayMember,
     BookMember, PayPlatform, MarkRevenueDistributed, Announce, store, TypeOK, StoreTypeOK
<1>5. CASE Return(t)
  BY <1>1, <1>2, <1>3, <1>4, <1>5 DEF Return, Forget
<1>6. CASE ~Return(t)
  <2>1. rev' = rev
    BY <1>6 DEF Distribute, LoadRevenue, LoadCommunity, PayOwner, OpenPool,
       PayMember, BookMember, PayPlatform, MarkRevenueDistributed, Announce, local
  <2>2. PICK label \in PayStages \cup {"community"} : Goto(t, label)
    BY <1>6 DEF Distribute, LoadRevenue, LoadCommunity, PayOwner, OpenPool,
       PayMember, BookMember, PayPlatform, MarkRevenueDistributed, Announce, PayStages
  <2>3. \A u \in Threads : u # t => pc'[u] = pc[u]
    BY <2>2 DEF Goto, TypeOK, ThreadTypeOK
  <2>4. pc'[t] = label
    BY <2>2 DEF Goto, TypeOK, ThreadTypeOK
  <2>5. \A u \in Threads : u # t => seen'[u] = seen[u]
    BY <1>6 DEF Distribute, LoadRevenue, LoadCommunity, PayOwner, OpenPool, PayMember,
       BookMember, PayPlatform, MarkRevenueDistributed, Announce, local, TypeOK, ThreadTypeOK
  <2> QED
    BY <1>1, <1>2, <1>3, <1>4, <2>1, <2>3, <2>4, <2>5 DEF RunStages
<1> QED
  BY <1>5, <1>6

(* It is enough to look at the thread that moved and at its row. *)
LEMMA DistributeLocal ==
  ASSUME RunInv, NEW t \in Threads, Distribute(t), NEW r0, r0 = rev[t],
         RunOK(t)', EntryOK(r0)'
  PROVE  RunInv'
<1>1. TypeOK'
  BY DistributeType DEF RunInv
<1>2. /\ pc[t] \in RunStages /\ rev[t] \in Present
      /\ pc'[t] = "idle" \/ (pc'[t] \in RunStages /\ rev'[t] = rev[t])
      /\ \A u \in Threads : u # t =>
           pc'[u] = pc[u] /\ rev'[u] = rev[u] /\ seen'[u] = seen[u]
      /\ \A r \in RevIds : r # rev[t] =>
           revenue'[r] = revenue[r] /\ ledger'[r] = ledger[r]
  BY DistributeOwn
<1>3. OneRunPerRow'
  <2>1. \A u \in Threads : pc'[u] \in RunStages => pc[u] \in RunStages /\ rev'[u] = rev[u]
    BY <1>2 DEF RunStages, PayStages
  <2>2. OneRunPerRow
    BY DEF RunInv
  <2> QED
    BY <2>1, <2>2 DEF OneRunPerRow
<1>4. ASSUME NEW u \in Threads, u # t
      PROVE  RunOK(u)'
  <2>1. pc[u] \in RunStages => rev[u] \in RevIds /\ rev[u] # rev[t]
    BY <1>2, <1>4 DEF RunInv, OneRunPerRow, RunOK, Present
  <2>2. RunOK(u)
    BY DEF RunInv
  <2> QED
    BY <1>2, <1>4, <2>1, <2>2, RunFrame
<1>5. ASSUME NEW r \in RevIds, r # rev[t]
      PROVE  EntryOK(r)'
  BY <1>2, <1>5 DEF RunInv, EntryOK, Present
<1>6. (\A u \in Threads : RunOK(u)') /\ (\A r \in RevIds : EntryOK(r)')
  BY <1>4, <1>5
<1> QED
  BY <1>1, <1>3, <1>6 DEF RunInv

LEMMA DistributeRun ==
  ASSUME RunInv, NEW t \in Threads, Distribute(t)
  PROVE  RunInv'
<1>0. PICK r : r = rev[t]
  OBVIOUS
<1>1. RunOK(t) /\ EntryOK(r) /\ r \in Present /\ r \in RevIds /\ r = rev[t]
  BY <1>0, DistributeOwn DEF RunInv, Present
<1>2. /\ ledger[r] \in [ownerTimes : Nat, owner : Nat, platformTimes : Nat, platform : Nat]
      /\ ledger \in [RevIds -> [ownerTimes : Nat, owner : Nat,
                                platformTimes : Nat, platform : Nat]]
  BY <1>1 DEF RunInv, TypeOK, SentTypeOK
<1>3. /\ pc \in [Threads -> {"idle", "resolve", "check", "insert", "load", "community"}
                              \cup PayStages]
      /\ seen \in [Threads -> [type : Types \cup {""}, quality : Nat]]
      /\ revenue \in [RevIds -> [status : {"absent", "pending", "distributed"},
                                 comm : Registered \cup {NoId},
                                 camp : Campaigns \cup {NoId}, total : Nat]]
  BY DEF RunInv, TypeOK, ThreadTypeOK, StoreTypeOK
<1>4. RunOK(t)' /\ EntryOK(r)'
  <2>1. CASE LoadRevenue(t)
    <3>1. UNCHANGED <<revenue, ledger>>
      BY <2>1 DEF LoadRevenue, store, sent
    <3>2. EntryOK(r)'
      BY <1>1, <3>1 DEF EntryOK, Present
    <3>3. CASE Return(t)
      BY <3>2, <3>3 DEF RunOK, RunStages, PayStages, Return, Forget
    <3>4. CASE Goto(t, "community") /\ UNCHANGED local
      BY <1>1, <1>3, <2>1, <3>1, <3>2, <3>4 DEF RunOK, RunStages, PayStages, Goto, local,
         LoadRevenue, Present
    <3> QED
      BY <2>1, <3>3, <3>4 DEF LoadRevenue
  <2>2. CASE LoadCommunity(t)
    <3>1. UNCHANGED <<revenue, ledger>>
      BY <2>2 DEF LoadCommunity, store, sent
    <3>2. EntryOK(r)'
      BY <1>1, <3>1 DEF EntryOK, Present
    <3>3. CASE Return(t)
      BY <3>2, <3>3 DEF RunOK, RunStages, PayStages, Return, Forget
    <3>4. CASE Goto(t, "owner") /\ rev' = rev
      BY <1>1, <1>3, <2>2, <3>1, <3>2, <3>4 DEF RunOK, RunStages, PayStages, Goto,
         LoadCommunity, Present
    <3> QED
      BY <2>2, <3>3, <3>4 DEF LoadCommunity
  <2>3. CASE PayOwner(t)
    <3>1. UNCHANGED <<revenue, rev, seen>>
      BY <2>3 DEF PayOwner, store, local
    <3>2. OneShare(t)' = OneShare(t)
      BY <3>1 DEF OneShare, Due
    <3>3. ledger'[r].ownerTimes = OneShare(t) /\ ledger'[r].platformTimes = 0
      BY <1>1, <1>2, <2>3 DEF PayOwner, RunOK, RunStages, PayStages, OneShare
    <3>4. pc'[t] \in {"members", "platform"}
      BY <1>3, <2>3 DEF PayOwner, Goto
    <3>5. revenue[r].status = "pending"
      BY <1>1, <2>3 DEF PayOwner, RunOK, RunStages, PayStages
    <3>6. EntryOK(r)'
      BY <1>1, <3>1, <3>3 DEF EntryOK, Present, OneShare
    <3> QED
      BY <1>1, <3>1, <3>2, <3>3, <3>4, <3>5, <3>6 DEF RunOK, Present
  <2>4. CASE OpenPool(t) \/ PayMember(t) \/ BookMember(t)
    <3>1. UNCHANGED <<revenue, ledger, rev, seen>>
      BY <2>4 DEF OpenPool, PayMember, BookMember, store, sent
    <3>2. OneShare(t)' = OneShare(t)
      BY <3>1 DEF OneShare, Due
    <3>3. pc[t] \in {"members", "pay", "book"} /\ pc'[t] \in {"pay", "book", "platform"}
      BY <1>3, <2>4 DEF OpenPool, PayMember, BookMember, Goto
    <3> QED
      BY <1>1, <3>1, <3>2, <3>3 DEF RunOK, RunStages, PayStages, EntryOK, Present
  <2>5. CASE PayPlatform(t)
    <3>1. UNCHANGED <<revenue, rev, seen>>
      BY <2>5 DEF PayPlatform, store, local
    <3>2. Due(t).owner > 0 <=> Due(t).platform > 0
      BY <2>5, SharesAgree DEF PayPlatform, PayStages, RunInv
    <3>3. /\ ledger[r].ownerTimes = OneShare(t) /\ ledger[r].platformTimes = 0
          /\ revenue[r].status = "pending"
      BY <1>1, <2>5 DEF PayPlatform, RunOK, RunStages, PayStages
    <3>4. /\ ledger'[r].ownerTimes = OneShare(t)
          /\ ledger'[r].platformTimes = OneShare(t)
      BY <1>1, <1>2, <2>5, <3>2, <3>3 DEF PayPlatform, OneShare
    <3>5. pc'[t] = "mark"
      BY <1>3, <2>5 DEF PayPlatform, Goto
    <3>6. EntryOK(r)'
      BY <1>1, <3>1, <3>4 DEF EntryOK, Present, OneShare
    <3> QED
      BY <1>1, <3>1, <3>3, <3>4, <3>5, <3>6 DEF RunOK, Present
  <2>6. CASE MarkRevenueDistributed(t)
    <3>1. UNCHANGED <<ledger, rev>>
      BY <2>6 DEF MarkRevenueDistributed, sent, local
    <3>2. r \in Present'
      BY <1>1, <1>3, <2>6 DEF MarkRevenueDistributed, Present
    <3>3. pc'[t] = "announce"
      BY <1>3, <2>6 DEF MarkRevenueDistributed, Goto
    <3> QED
      BY <1>1, <3>1, <3>2, <3>3 DEF RunOK, EntryOK
  <2>7. CASE Announce(t)
    <3>1. UNCHANGED <<revenue, ledger>> /\ pc'[t] = "idle"
      BY <2>7 DEF Announce, store, Return, Forget
    <3> QED
      BY <1>1, <3>1 DEF RunOK, RunStages, PayStages, EntryOK, Present
  <2> QED
    BY <2>1, <2>2, <2>3, <2>4, <2>5, <2>6, <2>7 DEF Distribute
<1> QED
  BY <1>0, <1>4, DistributeLocal

(* A new row is nobody else's and has never been paid. *)
LEMMA HandleRun ==
  ASSUME RunInv, NEW i \in Instances, Handle(i)
  PROVE  RunInv'
<1> USE DEF Threads
<1>1. TypeOK'
  BY HandleType DEF RunInv
<1>2. ledger' = ledger
  BY DEF Handle, Receive, ResolveCommunity, CheckDuplicate, CreateRevenue, sent
<1>3. \A u \in Threads : u # i => pc'[u] = pc[u] /\ rev'[u] = rev[u] /\ seen'[u] = seen[u]
  <2>1. CASE Return(i)
    BY <2>1, ForgetMoves DEF Return
  <2>2. CASE ~Return(i)
    BY <2>2 DEF Handle, Receive, ResolveCommunity, CheckDuplicate, CreateRevenue, local,
       Goto, RunInv, TypeOK, ThreadTypeOK
  <2> QED
    BY <2>1, <2>2
<1>4. CASE revenue' = revenue
  <2>1. Present' = Present
    BY <1>4 DEF Present
  <2>2. pc'[i] \in {"idle", "resolve", "check", "insert"}
    <3>1. pc \in [Threads -> {"idle", "resolve", "check", "insert", "load", "community"}
                               \cup PayStages]
      BY DEF RunInv, TypeOK, ThreadTypeOK
    <3>2. CASE Return(i)
      BY <3>2 DEF Return, Forget
    <3>3. CASE Receive(i) \/ ResolveCommunity(i) \/ CheckDuplicate(i)
      BY <3>1, <3>2, <3>3 DEF Receive, ResolveCommunity, CheckDuplicate, Goto
    <3>4. CASE CreateRevenue(i) /\ ~Return(i)
      <4>1. PICK r \in RevIds \ Present : revenue' = [revenue EXCEPT ![r] =
               [status |-> "pending", comm |-> event[i].comm,
                camp |-> event[i].camp, total |-> event[i].total]]
        BY <3>4 DEF CreateRevenue
      <4>2. revenue'[r].status = "pending" /\ revenue[r].status = "absent"
        BY <4>1 DEF RunInv, TypeOK, StoreTypeOK, Present
      <4> QED
        BY <1>4, <4>2
    <3> QED
      BY <3>2, <3>3, <3>4 DEF Handle
  <2>3. \A u \in Threads : RunOK(u)'
    <3>1. RunOK(i)'
      BY <2>2 DEF RunOK, RunStages, PayStages
    <3> QED
      BY <1>2, <1>3, <1>4, <3>1, RunFrame DEF RunInv
  <2>4. OneRunPerRow'
    <3>1. \A u \in Threads : pc'[u] \in RunStages => pc[u] \in RunStages /\ rev'[u] = rev[u]
      BY <1>3, <2>2 DEF RunStages, PayStages
    <3> QED
      BY <3>1 DEF RunInv, OneRunPerRow
  <2>5. (\A r \in RevIds : EntryOK(r)')
    BY <1>2, <2>1 DEF RunInv, EntryOK
  <2> QED
    BY <1>1, <2>3, <2>4, <2>5 DEF RunInv
<1>5. CASE revenue' # revenue
  <2>1. PICK r \in RevIds \ Present :
          /\ revenue' = [revenue EXCEPT ![r] =
               [status |-> "pending", comm |-> event[i].comm,
                camp |-> event[i].camp, total |-> event[i].total]]
          /\ rev' = [rev EXCEPT ![i] = r]
          /\ Goto(i, "load")
    BY <1>5 DEF Handle, Receive, ResolveCommunity, CheckDuplicate, CreateRevenue, store
  <2>2. /\ revenue'[r].status = "pending" /\ rev'[i] = r /\ pc'[i] = "load"
        /\ \A s \in RevIds : s # r => revenue'[s] = revenue[s]
    BY <2>1 DEF RunInv, TypeOK, StoreTypeOK, ThreadTypeOK, Goto
  <2>3. Present' = Present \cup {r}
    BY <2>1, <2>2 DEF Present
  <2>4. ledger[r].ownerTimes = 0 /\ ledger[r].platformTimes = 0
    BY <2>1 DEF RunInv, EntryOK, TypeOK, SentTypeOK
  <2>5. RunOK(i)'
    BY <1>2, <2>2, <2>3, <2>4 DEF RunOK
  <2>6. ASSUME NEW u \in Threads, u # i
        PROVE  RunOK(u)'
    <3>1. pc[u] \in RunStages => rev[u] \in RevIds /\ rev[u] # r
      BY <2>1 DEF RunInv, RunOK, Present
    <3> QED
      BY <1>2, <1>3, <2>2, <2>6, <3>1, RunFrame DEF RunInv
  <2>7. OneRunPerRow'
    <3>1. \A u \in Threads : u # i /\ pc'[u] \in RunStages =>
            pc[u] \in RunStages /\ rev'[u] = rev[u] /\ rev[u] # r
      BY <1>3, <2>1 DEF RunInv, RunOK
    <3> QED
      BY <2>2, <3>1 DEF RunInv, OneRunPerRow
  <2>8. \A s \in RevIds : EntryOK(s)'
    BY <1>2, <2>3 DEF RunInv, EntryOK
  <2>9. \A u \in Threads : RunOK(u)'
    BY <2>5, <2>6
  <2> QED
    BY <1>1, <2>7, <2>8, <2>9 DEF RunInv
<1> QED
  BY <1>4, <1>5

LEMMA EnvironmentRun ==
  ASSUME Triggers = {}, RunInv, Environment
  PROVE  RunInv'
<1>1. TypeOK'
  BY EnvironmentType DEF RunInv
<1>2. revenue' = revenue /\ ledger' = ledger
  BY DEF Environment, Publish, triggerDistribute, RequestReturns, UpdateCommunityScore,
     UpdateMemberActivity, Crash, store, sent
<1>3. \A u \in Threads : \/ pc'[u] = "idle"
                         \/ pc'[u] = pc[u] /\ rev'[u] = rev[u] /\ seen'[u] = seen[u]
  <2>1. CASE \E i \in Instances : Crash(i)
    BY <2>1 DEF Crash, Forget
  <2>2. CASE pc' = pc /\ rev' = rev /\ seen' = seen
    BY <2>2
  <2> QED
    BY <2>1, <2>2 DEF Environment, Publish, UpdateCommunityScore, UpdateMemberActivity, local
<1>4. \A u \in Threads : RunOK(u)'
  BY <1>2, <1>3, RunFrame DEF RunInv
<1>5. OneRunPerRow'
  <2>1. \A u \in Threads : pc'[u] \in RunStages => pc[u] \in RunStages /\ rev'[u] = rev[u]
    BY <1>3 DEF RunStages, PayStages
  <2> QED
    BY <2>1 DEF RunInv, OneRunPerRow
<1>6. \A r \in RevIds : EntryOK(r)'
  BY <1>2 DEF RunInv, EntryOK, Present
<1> QED
  BY <1>1, <1>4, <1>5, <1>6 DEF RunInv

LEMMA RunInit == Init => RunInv
<1> SUFFICES ASSUME Init PROVE RunInv
  OBVIOUS
<1>1. \A t \in Threads : pc[t] \notin RunStages
  BY DEF Init, RunStages, PayStages
<1>2. \A r \in RevIds : EntryOK(r)
  BY DEF Init, EntryOK
<1> QED
  BY <1>1, <1>2, TypeInit DEF RunInv, RunOK, OneRunPerRow

LEMMA RunStep ==
  ASSUME Triggers = {}
  PROVE  RunInv /\ [Next]_vars => RunInv'
<1> SUFFICES ASSUME RunInv, [Next]_vars PROVE RunInv'
  OBVIOUS
<1>1. CASE UNCHANGED vars
  <2>1. TypeOK'
    BY TypeStep DEF RunInv
  <2>2. UNCHANGED <<pc, rev, seen, revenue, ledger>>
    BY <1>1 DEF vars, store, sent, local
  <2>3. \A u \in Threads : RunOK(u)'
    BY <2>2, RunFrame DEF RunInv
  <2> QED
    BY <2>1, <2>2, <2>3 DEF RunInv, OneRunPerRow, EntryOK, Present
<1>2. CASE Next
  BY <1>2, HandleRun, DistributeRun, EnvironmentRun DEF Next
<1> QED
  BY <1>1, <1>2

(* Without admin triggers no row's owner or platform is sent its share     *)
(* twice, with any number of instances, replays, failed calls and crashes. *)
THEOREM PaidOnce ==
  ASSUME Triggers = {}
  PROVE  Spec => []PaidAtMostOnce
<1>1. RunInv => PaidAtMostOnce
  <2> SUFFICES ASSUME RunInv, NEW r \in RevIds
               PROVE  ledger[r].ownerTimes <= 1 /\ ledger[r].platformTimes <= 1
    BY DEF PaidAtMostOnce
  <2> QED
    BY DEF RunInv, EntryOK, TypeOK, SentTypeOK
<1> QED
  BY <1>1, RunInit, RunStep, PTL DEF Spec

-----------------------------------------------------------------------------
(* The refinement. *)

LEMMA LedgerInit == Init => Ledger!Init
  BY DEF Init, Ledger!Init, NoRow

LEMMA LedgerStep ==
  ASSUME RunInv, [Next]_vars, Triggers = {}
  PROVE  [Ledger!Next]_(Ledger!vars)
<1> USE DEF RunInv
<1>1. CASE UNCHANGED vars \/ Environment
  BY <1>1 DEF vars, store, sent, Environment, Publish, triggerDistribute, RequestReturns,
     UpdateCommunityScore, UpdateMemberActivity, Crash, Ledger!vars
<1>2. ASSUME NEW i \in Instances, Handle(i)
      PROVE  [Ledger!Next]_(Ledger!vars)
  <2>1. ledger' = ledger
    BY <1>2 DEF Handle, Receive, ResolveCommunity, CheckDuplicate, CreateRevenue, sent
  <2>2. CASE revenue' = revenue
    BY <2>1, <2>2 DEF Ledger!vars
  <2>3. CASE revenue' # revenue
    <3>1. PICK r \in RevIds \ Present :
            revenue' = [revenue EXCEPT ![r] =
               [status |-> "pending", comm |-> event[i].comm,
                camp |-> event[i].camp, total |-> event[i].total]]
      BY <1>2, <2>3 DEF Handle, Receive, ResolveCommunity, CheckDuplicate, CreateRevenue, store
    <3>2. /\ revenue[r].status = "absent"
          /\ \A s \in RevIds : revenue'[s].status = IF s = r THEN "pending"
                                                    ELSE revenue[s].status
      BY <3>1 DEF Present, TypeOK, StoreTypeOK
    <3>3. Ledger!Book(r)
      BY <2>1, <3>2 DEF Ledger!Book
    <3> QED
      BY <3>1, <3>3 DEF Ledger!Next
  <2> QED
    BY <2>2, <2>3
<1>3. ASSUME NEW t \in Threads, Distribute(t)
      PROVE  [Ledger!Next]_(Ledger!vars)
  <2>1. PICK r : r = rev[t]
    OBVIOUS
  <2>2. RunOK(t) /\ EntryOK(r) /\ r \in RevIds
    BY <1>3, <2>1, DistributeOwn DEF Present
  <2>3. \A s \in RevIds : s # r => revenue'[s] = revenue[s] /\ ledger'[s] = ledger[s]
    BY <1>3, <2>1, DistributeOwn
  <2>4. /\ ledger \in [RevIds -> [ownerTimes : Nat, owner : Nat,
                                  platformTimes : Nat, platform : Nat]]
        /\ revenue \in [RevIds -> [status : {"absent", "pending", "distributed"},
                                   comm : Registered \cup {NoId},
                                   camp : Campaigns \cup {NoId}, total : Nat]]
    BY DEF TypeOK, SentTypeOK, StoreTypeOK
  <2>5. CASE PayOwner(t) /\ Due(t).owner > 0
    <3>1. /\ revenue' = revenue
          /\ ledger'[r].ownerTimes = ledger[r].ownerTimes + 1
          /\ ledger'[r].platformTimes = ledger[r].platformTimes
      BY <2>1, <2>2, <2>4, <2>5 DEF PayOwner, store
    <3>2. revenue[r].status = "pending" /\ ledger[r].ownerTimes = 0
      BY <2>1, <2>2, <2>5 DEF PayOwner, RunOK, RunStages, PayStages
    <3>3. \A s \in RevIds :
            /\ ledger'[s].ownerTimes = IF s = r THEN 1 ELSE ledger[s].ownerTimes
            /\ ledger'[s].platformTimes = ledger[s].platformTimes
      BY <2>3, <3>1, <3>2
    <3>4. Ledger!PayOwner(r)
      BY <2>2, <3>1, <3>2, <3>3 DEF Ledger!PayOwner
    <3> QED
      BY <2>2, <3>4 DEF Ledger!Next
  <2>6. CASE PayPlatform(t) /\ Due(t).platform > 0
    <3>1. /\ revenue' = revenue
          /\ ledger'[r].ownerTimes = ledger[r].ownerTimes
          /\ ledger'[r].platformTimes = ledger[r].platformTimes + 1
      BY <2>1, <2>2, <2>4, <2>6 DEF PayPlatform, store
    <3>2. Due(t).owner > 0
      BY <2>6, SharesAgree DEF PayPlatform, PayStages
    <3>3. /\ revenue[r].status = "pending"
          /\ ledger[r].ownerTimes = 1 /\ ledger[r].platformTimes = 0
      BY <2>1, <2>2, <2>6, <3>2 DEF PayPlatform, RunOK, RunStages, PayStages, OneShare
    <3>4. \A s \in RevIds :
            /\ ledger'[s].ownerTimes = ledger[s].ownerTimes
            /\ ledger'[s].platformTimes = IF s = r THEN 1 ELSE ledger[s].platformTimes
      BY <2>3, <3>1, <3>3
    <3>5. Ledger!PayPlatform(r)
      BY <2>2, <3>1, <3>3, <3>4 DEF Ledger!PayPlatform
    <3> QED
      BY <2>2, <3>5 DEF Ledger!Next
  <2>7. CASE MarkRevenueDistributed(t) /\ revenue' # revenue
    <3>1. /\ ledger' = ledger /\ revenue'[r].status = "distributed"
      BY <2>1, <2>2, <2>4, <2>7 DEF MarkRevenueDistributed, sent
    <3>2. /\ revenue[r].status = "pending"
          /\ ledger[r].ownerTimes = ledger[r].platformTimes
      BY <2>1, <2>2, <2>7 DEF MarkRevenueDistributed, RunOK, RunStages, PayStages
    <3>3. Ledger!Settle(r)
      BY <2>2, <2>3, <3>1, <3>2 DEF Ledger!Settle
    <3> QED
      BY <2>2, <3>3 DEF Ledger!Next
  <2>8. CASE revenue' = revenue /\ ledger' = ledger
    BY <2>8 DEF Ledger!vars
  <2> QED
    BY <1>3, <2>5, <2>6, <2>7, <2>8 DEF Distribute, LoadRevenue, LoadCommunity, PayOwner,
       OpenPool, PayMember, BookMember, PayPlatform, MarkRevenueDistributed, Announce,
       store, sent
<1> QED
  BY <1>1, <1>2, <1>3 DEF Next

(* Without admin triggers Revenue implements RevenueLedger: paid at most   *)
(* once, the owner first, settled whole, and never touched again.          *)
THEOREM LedgerKept ==
  ASSUME Triggers = {}
  PROVE  Spec => KeepsLedger
<1>1. RunInv /\ [Next]_vars => [Ledger!Next]_(Ledger!vars)
  BY LedgerStep
<1> QED
  BY <1>1, LedgerInit, RunInit, RunStep, PTL DEF Spec, KeepsLedger, Ledger!Spec

-----------------------------------------------------------------------------
(* What is booked and announced was sent, and a row's owner and platform   *)
(* are paid with one score.  The strengthening says of each payout what    *)
(* its thread has paid so far, and with which community row.               *)

KnownScores == \A c \in Registered : community[c].quality \in Scores \cup {50}

SeenOK(t) ==
  \/ seen[t] = ZeroCommunity
  \/ /\ revenue[rev[t]].comm \in Registered
     /\ seen[t].type = community[revenue[rev[t]].comm].type
     /\ seen[t].quality \in Scores \cup {50}

PaidOK(t) ==
  pc[t] \in PayStages =>
    /\ SeenOK(t)
    /\ pc[t] # "owner" => ledger[rev[t]].owner = Due(t).owner
    /\ pc[t] \in {"mark", "announce"} => ledger[rev[t]].platform = Due(t).platform
    /\ pc[t] = "book" =>
         booked[rev[t]][payee[t].member] + payee[t].nano <= rewards[rev[t]][payee[t].member]

OneScore(r) ==
  /\ revenue[r].comm \in Registered
  /\ \E q \in Scores \cup {50} :
       LET due == Amounts(community[revenue[r].comm].type, q, revenue[r].total)
       IN  ledger[r].owner = due.owner /\ ledger[r].platform = due.platform

RecordOK(r) ==
  /\ ledger[r].ownerTimes = 0 => ledger[r].owner = 0
  /\ ledger[r].platformTimes = 0 => ledger[r].platform = 0
  /\ ledger[r].ownerTimes = 1 /\ ledger[r].platformTimes = 1 => OneScore(r)
  /\ \A m \in Members : booked[r][m] <= rewards[r][m]

AnnouncedOK(a) == a.owner <= ledger[a.rev].owner /\ a.platform <= ledger[a.rev].platform

PaidInv ==
  /\ RunInv /\ KnownScores
  /\ \A t \in Threads : PaidOK(t)
  /\ \A r \in RevIds : RecordOK(r)
  /\ \A a \in announced : AnnouncedOK(a)

(* community.score.updated is the only step that changes a community. *)
SameTypes == \A c \in Registered : community'[c].type = community[c].type

LEMMA PaidFrame ==
  ASSUME NEW u \in Threads, PaidOK(u), SameTypes,
         \/ pc'[u] \notin PayStages
         \/ /\ pc'[u] = pc[u] /\ rev'[u] = rev[u] /\ seen'[u] = seen[u] /\ payee'[u] = payee[u]
            /\ pc[u] \in PayStages =>
                 /\ revenue'[rev[u]] = revenue[rev[u]] /\ ledger'[rev[u]] = ledger[rev[u]]
                 /\ booked'[rev[u]] = booked[rev[u]] /\ rewards'[rev[u]] = rewards[rev[u]]
  PROVE  PaidOK(u)'
<1>1. CASE pc'[u] \notin PayStages
  BY <1>1 DEF PaidOK
<1>2. CASE pc'[u] \in PayStages
  <2>1. /\ pc[u] \in PayStages /\ pc'[u] = pc[u] /\ rev'[u] = rev[u] /\ seen'[u] = seen[u]
        /\ payee'[u] = payee[u] /\ revenue'[rev[u]] = revenue[rev[u]]
        /\ ledger'[rev[u]] = ledger[rev[u]]
        /\ booked'[rev[u]] = booked[rev[u]] /\ rewards'[rev[u]] = rewards[rev[u]]
    BY <1>2
  <2>2. Due(u)' = Due(u)
    BY <2>1 DEF Due
  <2>3. SeenOK(u)'
    BY <2>1 DEF PaidOK, SeenOK, SameTypes, ZeroCommunity
  <2> QED
    BY <2>1, <2>2, <2>3 DEF PaidOK
<1> QED
  BY <1>1, <1>2

LEMMA RecordFrame ==
  ASSUME NEW r, RecordOK(r), SameTypes,
         ledger'[r] = ledger[r], booked'[r] = booked[r], rewards'[r] = rewards[r],
         ledger[r].ownerTimes = 1 =>
           revenue'[r].comm = revenue[r].comm /\ revenue'[r].total = revenue[r].total
  PROVE  RecordOK(r)'
<1>1. ledger[r].ownerTimes = 1 /\ OneScore(r) => OneScore(r)'
  BY DEF OneScore, SameTypes
<1> QED
  BY <1>1 DEF RecordOK

(* What a payment step touches, the records included. *)
LEMMA DistributeRecords ==
  ASSUME RunInv, NEW t \in Threads, Distribute(t)
  PROVE  /\ community' = community
         /\ \A u \in Threads : u # t => payee'[u] = payee[u]
         /\ \A r \in RevIds : r # rev[t] => booked'[r] = booked[r] /\ rewards'[r] = rewards[r]
<1>1. community' = community
  BY DEF Distribute, LoadRevenue, LoadCommunity, PayOwner, OpenPool, PayMember,
     BookMember, PayPlatform, MarkRevenueDistributed, Announce, store
<1>2. \A u \in Threads : u # t => payee'[u] = payee[u]
  <2>1. CASE Return(t)
    BY <2>1 DEF Return, Forget
  <2>2. CASE ~Return(t)
    BY <2>2 DEF Distribute, LoadRevenue, LoadCommunity, PayOwner, OpenPool, PayMember,
       BookMember, PayPlatform, MarkRevenueDistributed, Announce, local, RunInv, TypeOK, ThreadTypeOK
  <2> QED
    BY <2>1, <2>2
<1>3. \A r \in RevIds : r # rev[t] => booked'[r] = booked[r] /\ rewards'[r] = rewards[r]
  BY DEF Distribute, LoadRevenue, LoadCommunity, PayOwner, OpenPool, PayMember,
     BookMember, PayPlatform, MarkRevenueDistributed, Announce, store, sent, RunInv, TypeOK,
     StoreTypeOK, SentTypeOK
<1> QED
  BY <1>1, <1>2, <1>3

(* It is enough to look at the thread that moved, its row and what it announces. *)
LEMMA DistributePaidLocal ==
  ASSUME PaidInv, RunInv', NEW t \in Threads, Distribute(t), NEW r0, r0 = rev[t],
         PaidOK(t)', RecordOK(r0)',
         ledger[r0].owner <= ledger'[r0].owner, ledger[r0].platform <= ledger'[r0].platform,
         \A a \in announced' : a \in announced \/ AnnouncedOK(a)'
  PROVE  PaidInv'
<1>1. /\ pc[t] \in RunStages /\ rev[t] \in Present
      /\ \A u \in Threads : u # t =>
           pc'[u] = pc[u] /\ rev'[u] = rev[u] /\ seen'[u] = seen[u]
      /\ \A r \in RevIds : r # rev[t] =>
           revenue'[r] = revenue[r] /\ ledger'[r] = ledger[r]
  BY DistributeOwn DEF PaidInv
<1>2. /\ community' = community
      /\ \A u \in Threads : u # t => payee'[u] = payee[u]
      /\ \A r \in RevIds : r # rev[t] => booked'[r] = booked[r] /\ rewards'[r] = rewards[r]
  BY DistributeRecords DEF PaidInv
<1>3. SameTypes /\ KnownScores'
  BY <1>2 DEF SameTypes, PaidInv, KnownScores
<1>4. ASSUME NEW u \in Threads, u # t
      PROVE  PaidOK(u)'
  <2>1. pc[u] \in PayStages => rev[u] \in RevIds /\ rev[u] # rev[t]
    BY <1>1, <1>4 DEF PaidInv, RunInv, OneRunPerRow, RunOK, Present, RunStages
  <2> QED
    BY <1>1, <1>2, <1>3, <1>4, <2>1, PaidFrame DEF PaidInv
<1>5. ASSUME NEW r \in RevIds, r # rev[t]
      PROVE  RecordOK(r)'
  BY <1>1, <1>2, <1>3, <1>5, RecordFrame DEF PaidInv
<1>6. ASSUME NEW a \in announced
      PROVE  AnnouncedOK(a)'
  <2>1. /\ a \in [rev : RevIds, owner : Nat, members : Nat, platform : Nat] /\ AnnouncedOK(a)
        /\ ledger[a.rev].owner \in Nat /\ ledger[a.rev].platform \in Nat
        /\ ledger'[a.rev].owner \in Nat /\ ledger'[a.rev].platform \in Nat
    BY DEF PaidInv, RunInv, TypeOK, SentTypeOK
  <2>2. CASE a.rev = r0
    BY <2>1, <2>2 DEF AnnouncedOK
  <2>3. CASE a.rev # r0
    BY <1>1, <2>1, <2>3 DEF AnnouncedOK
  <2> QED
    BY <2>2, <2>3
<1>7. /\ \A u \in Threads : PaidOK(u)'
      /\ \A r \in RevIds : RecordOK(r)'
      /\ \A a \in announced' : AnnouncedOK(a)'
  BY <1>4, <1>5, <1>6
<1> QED
  BY <1>3, <1>7 DEF PaidInv

(* The zero row a failed read leaves pays nothing. *)
LEMMA ZeroScorePaysNothing ==
  ASSUME NEW type, NEW total \in Nat
  PROVE  ~(Amounts(type, 0, total).owner > 0) /\ ~(Amounts(type, 0, total).platform > 0)
<1> DEFINE pct == RevenuePercentages(type, NoOverride)
<1>1. pct.owner \in Nat \ {0} /\ pct.platform \in Nat \ {0}
  <2>1. ~(NoOverride.owner > 0)
    BY DEF NoOverride, Split
  <2>2. CASE type = "group"
    BY <2>1, <2>2 DEF RevenuePercentages, Split
  <2>3. CASE type = "channel"
    BY <2>1, <2>3 DEF RevenuePercentages, Split
  <2>4. CASE type # "group" /\ type # "channel"
    BY <2>1, <2>4 DEF RevenuePercentages, Split
  <2> QED
    BY <2>2, <2>3, <2>4
<1>2. ~(revenueMultiplier(0) > 0)
  BY DEF revenueMultiplier
<1>3. /\ Amounts(type, 0, total).owner = Part(total, pct.owner, 0)
      /\ Amounts(type, 0, total).platform = Part(total, pct.platform, 0)
  BY DEF Amounts, Split
<1> HIDE DEF pct
<1> QED
  BY <1>1, <1>2, <1>3, PartPositive

LEMMA DistributePaid ==
  ASSUME PaidInv, RunInv', NEW t \in Threads, Distribute(t)
  PROVE  PaidInv'
<1>0. PICK r : r = rev[t]
  OBVIOUS
<1>1. /\ PaidOK(t) /\ RecordOK(r) /\ RunOK(t) /\ EntryOK(r)
      /\ r \in Present /\ r \in RevIds /\ r = rev[t] /\ TypeOK
  BY <1>0, DistributeOwn DEF PaidInv, RunInv, Present
<1>2. /\ ledger[r] \in [ownerTimes : Nat, owner : Nat, platformTimes : Nat, platform : Nat]
      /\ ledger \in [RevIds -> [ownerTimes : Nat, owner : Nat,
                                platformTimes : Nat, platform : Nat]]
      /\ booked \in [RevIds -> [Members -> Nat]] /\ rewards \in [RevIds -> [Members -> Nat]]
  BY <1>1 DEF TypeOK, SentTypeOK, StoreTypeOK
<1>3. /\ pc \in [Threads -> {"idle", "resolve", "check", "insert", "load", "community"}
                              \cup PayStages]
      /\ seen \in [Threads -> [type : Types \cup {""}, quality : Nat]]
      /\ payee \in [Threads -> Payment \cup {NoPayment}]
      /\ pc[t] = "book" => payee[t] \in Payment
  BY <1>1 DEF TypeOK, ThreadTypeOK
<1>4. /\ community' = community /\ SameTypes
      /\ (MarkRevenueDistributed(t) \/ revenue' = revenue)
      /\ pc[t] \in RunStages
  BY <1>1, DistributeRecords, DistributeOwn
     DEF SameTypes, PaidInv, Distribute, LoadRevenue, LoadCommunity, PayOwner, OpenPool, PayMember,
         BookMember, PayPlatform, Announce, store
<1>5. CASE pc[t] \notin {"owner", "pay", "book", "platform", "mark", "announce"}
  <2>1. LoadRevenue(t) \/ LoadCommunity(t) \/ OpenPool(t)
    BY <1>5 DEF Distribute, PayOwner, PayMember, BookMember, PayPlatform,
                MarkRevenueDistributed, Announce
  <2>2. UNCHANGED <<revenue, ledger, booked, rewards, announced>>
    BY <2>1 DEF LoadRevenue, LoadCommunity, OpenPool, store, sent
  <2>3. RecordOK(r)'
    BY <1>1, <1>4, <2>2, RecordFrame
  <2>4. PaidOK(t)'
    <3>1. CASE LoadRevenue(t)
      <4>1. pc'[t] \in {"idle", "community"}
        BY <1>3, <3>1 DEF LoadRevenue, Goto, Return, Forget
      <4> QED
        BY <4>1 DEF PaidOK, PayStages
    <3>2. CASE LoadCommunity(t)
      <4>1. CASE Return(t)
        BY <4>1 DEF Return, Forget, PaidOK, PayStages
      <4>2. CASE ~Return(t)
        <5>1. /\ pc'[t] = "owner" /\ rev' = rev
              /\ \/ r \in RevIds /\ revenue[r].comm \in Registered
                    /\ seen'[t] = community[revenue[r].comm]
                 \/ seen'[t] = ZeroCommunity
          BY <1>1, <1>3, <3>2, <4>2 DEF LoadCommunity, Goto
        <5>2. SeenOK(t)'
          BY <1>1, <1>4, <2>2, <5>1
             DEF SeenOK, PaidInv, KnownScores, TypeOK, StoreTypeOK, ZeroCommunity
        <5> QED
          BY <5>1, <5>2 DEF PaidOK
      <4> QED
        BY <4>1, <4>2
    <3>3. CASE OpenPool(t)
      <4>1. /\ pc[t] = "members" /\ pc'[t] \in {"pay", "platform"} /\ UNCHANGED <<rev, seen, payee>>
        BY <1>3, <3>3 DEF OpenPool, Goto
      <4>2. Due(t)' = Due(t) /\ (SeenOK(t) => SeenOK(t)')
        BY <1>4, <2>2, <4>1 DEF Due, SeenOK, ZeroCommunity
      <4> QED
        BY <1>1, <2>2, <4>1, <4>2 DEF PaidOK, PayStages
    <3> QED
      BY <2>1, <3>1, <3>2, <3>3
  <2> QED
    BY <1>1, <1>2, <2>2, <2>3, <2>4, DistributePaidLocal
<1>6. CASE pc[t] = "owner"
  <2>1. PayOwner(t)
    BY <1>6 DEF Distribute, LoadRevenue, LoadCommunity, OpenPool, PayMember, BookMember,
                PayPlatform, MarkRevenueDistributed, Announce
  <2>2. UNCHANGED <<revenue, booked, rewards, announced, rev, seen, payee>>
    BY <2>1 DEF PayOwner, store, local
  <2>3. /\ pc'[t] \in {"members", "platform"}
        /\ ledger[r].ownerTimes = 0 /\ ledger[r].platformTimes = 0 /\ ledger[r].owner = 0
        /\ Due(t).owner \in Nat
    BY <1>1, <1>3, <1>6, <2>1, DueType DEF PayOwner, Goto, RunOK, RunStages, PayStages, RecordOK
  <2>4. /\ ledger'[r].owner = Due(t).owner /\ ledger'[r].platformTimes = 0
        /\ ledger'[r].platform = ledger[r].platform
        /\ ledger'[r].ownerTimes = 0 => ledger'[r].owner = 0
    BY <1>1, <1>2, <2>1, <2>3 DEF PayOwner
  <2>5. Due(t)' = Due(t) /\ (SeenOK(t) => SeenOK(t)')
    BY <1>4, <2>2 DEF Due, SeenOK, ZeroCommunity
  <2>6. RecordOK(r)'
    BY <1>1, <2>2, <2>3, <2>4 DEF RecordOK
  <2>7. PaidOK(t)'
    BY <1>1, <1>6, <2>2, <2>3, <2>4, <2>5 DEF PaidOK, PayStages
  <2> QED
    BY <1>1, <1>2, <2>2, <2>3, <2>4, <2>6, <2>7, DistributePaidLocal
<1>7. CASE pc[t] = "pay"
  <2>1. PayMember(t)
    BY <1>7 DEF Distribute, LoadRevenue, LoadCommunity, OpenPool, PayOwner, BookMember,
                PayPlatform, MarkRevenueDistributed, Announce
  <2>2. UNCHANGED <<revenue, booked, ledger, announced, rev, seen>> /\ pc'[t] = "book"
    BY <1>3, <2>1 DEF PayMember, store, Goto
  <2>3. PICK p \in todo[t] : /\ rewards' = [rewards EXCEPT ![r][p.member] = @ + p.nano]
                             /\ payee' = [payee EXCEPT ![t] = p]
    BY <1>1, <2>1 DEF PayMember
  <2>4. p.member \in Members /\ p.nano \in Nat /\ payee'[t] = p
    <3>1. p \in Payment
      BY <1>1 DEF TypeOK, ThreadTypeOK
    <3> QED
      BY <1>3, <2>3, <3>1 DEF Payment
  <2>5. \A m \in Members :
          /\ booked[r][m] \in Nat /\ rewards[r][m] \in Nat /\ booked[r][m] <= rewards[r][m]
          /\ rewards'[r][m] = IF m = p.member THEN rewards[r][m] + p.nano ELSE rewards[r][m]
    BY <1>1, <1>2, <2>3 DEF RecordOK
  <2>6. Due(t)' = Due(t) /\ (SeenOK(t) => SeenOK(t)')
    BY <1>4, <2>2 DEF Due, SeenOK, ZeroCommunity
  <2>7. RecordOK(r)'
    <3>1. \A m \in Members : booked[r][m] <= rewards'[r][m]
      BY <2>4, <2>5
    <3>2. OneScore(r) => OneScore(r)'
      BY <1>4, <2>2 DEF OneScore
    <3> QED
      BY <1>1, <2>2, <3>1, <3>2 DEF RecordOK
  <2>8. PaidOK(t)'
    <3>1. booked[r][p.member] + p.nano <= rewards'[r][p.member]
      BY <2>4, <2>5
    <3> QED
      BY <1>1, <1>7, <2>2, <2>4, <2>6, <3>1 DEF PaidOK, PayStages
  <2> QED
    BY <1>1, <1>2, <2>2, <2>7, <2>8, DistributePaidLocal
<1>8. CASE pc[t] = "book"
  <2>1. BookMember(t)
    BY <1>8 DEF Distribute, LoadRevenue, LoadCommunity, OpenPool, PayOwner, PayMember,
                PayPlatform, MarkRevenueDistributed, Announce
  <2>2. UNCHANGED <<revenue, rewards, ledger, announced, rev, seen>> /\ pc'[t] \in {"pay", "platform"}
    BY <1>3, <2>1 DEF BookMember, sent, Goto
  <2>3. PICK p : p = payee[t]
    OBVIOUS
  <2>4. /\ p.member \in Members /\ p.nano \in Nat
        /\ booked[r][p.member] + p.nano <= rewards[r][p.member]
        /\ booked' = booked \/ booked' = [booked EXCEPT ![r][p.member] = @ + p.nano]
    BY <1>1, <1>3, <1>8, <2>1, <2>3 DEF PaidOK, PayStages, Payment, BookMember
  <2>5. \A m \in Members : booked'[r][m] <= rewards'[r][m]
    BY <1>1, <1>2, <2>2, <2>4 DEF RecordOK
  <2>6. Due(t)' = Due(t) /\ (SeenOK(t) => SeenOK(t)')
    BY <1>4, <2>2 DEF Due, SeenOK, ZeroCommunity
  <2>7. RecordOK(r)'
    <3>1. OneScore(r) => OneScore(r)'
      BY <1>4, <2>2 DEF OneScore
    <3> QED
      BY <1>1, <2>2, <2>5, <3>1 DEF RecordOK
  <2>8. PaidOK(t)'
    BY <1>1, <1>8, <2>2, <2>6 DEF PaidOK, PayStages
  <2> QED
    BY <1>1, <1>2, <2>2, <2>7, <2>8, DistributePaidLocal
<1>9. CASE pc[t] = "platform"
  <2>1. PayPlatform(t)
    BY <1>9 DEF Distribute, LoadRevenue, LoadCommunity, OpenPool, PayOwner, PayMember,
                BookMember, MarkRevenueDistributed, Announce
  <2>2. UNCHANGED <<revenue, booked, rewards, announced, rev, seen, payee>> /\ pc'[t] = "mark"
    BY <1>3, <2>1 DEF PayPlatform, store, local, Goto
  <2>3. /\ ledger[r].platformTimes = 0 /\ ledger[r].platform = 0
        /\ ledger[r].owner = Due(t).owner /\ SeenOK(t)
        /\ Due(t).owner \in Nat /\ Due(t).platform \in Nat
    BY <1>1, <1>9, DueType DEF RunOK, RunStages, PayStages, RecordOK, PaidOK
  <2>4. /\ ledger'[r].owner = Due(t).owner /\ ledger'[r].platform = Due(t).platform
        /\ ledger'[r].ownerTimes = ledger[r].ownerTimes
        /\ ledger'[r].platformTimes = 0 => ledger'[r].platform = 0
        /\ ledger'[r].platformTimes = 1 => Due(t).platform > 0
    BY <1>1, <1>2, <2>1, <2>3 DEF PayPlatform
  <2>5. Due(t)' = Due(t) /\ SeenOK(t)'
    BY <1>4, <2>2, <2>3 DEF Due, SeenOK, ZeroCommunity
  <2>6. Due(t).platform > 0 => OneScore(r)'
    <3>1. SUFFICES ASSUME Due(t).platform > 0 PROVE OneScore(r)'
      OBVIOUS
    <3>2. /\ revenue[r].comm \in Registered /\ seen[t].quality \in Scores \cup {50}
          /\ seen[t].type = community[revenue[r].comm].type
      <4>1. revenue[r].total \in Nat
        BY <1>1 DEF TypeOK, StoreTypeOK
      <4>2. seen[t] # ZeroCommunity
        <5>1. ZeroCommunity.quality = 0
          BY DEF ZeroCommunity
        <5>2. Due(t) = Amounts(seen[t].type, seen[t].quality, revenue[r].total)
          BY <1>1 DEF Due
        <5> QED
          BY <3>1, <4>1, <5>1, <5>2, ZeroScorePaysNothing
      <4> QED
        BY <1>1, <2>3, <4>2 DEF SeenOK
    <3>3. Due(t) = Amounts(community[revenue[r].comm].type, seen[t].quality, revenue[r].total)
      BY <1>1, <3>2 DEF Due
    <3>4. PICK q \in Scores \cup {50} :
            Due(t) = Amounts(community[revenue[r].comm].type, q, revenue[r].total)
      BY <3>2, <3>3
    <3>5. /\ ledger'[r].owner = Amounts(community'[revenue'[r].comm].type, q, revenue'[r].total).owner
          /\ ledger'[r].platform =
               Amounts(community'[revenue'[r].comm].type, q, revenue'[r].total).platform
      BY <1>4, <2>2, <2>4, <3>4
    <3> QED
      BY <2>2, <3>2, <3>5 DEF OneScore
  <2>7. RecordOK(r)'
    BY <1>1, <2>2, <2>3, <2>4, <2>6 DEF RecordOK
  <2>8. PaidOK(t)'
    BY <1>1, <1>9, <2>2, <2>4, <2>5 DEF PaidOK, PayStages
  <2> QED
    BY <1>1, <1>2, <2>2, <2>3, <2>4, <2>7, <2>8, DistributePaidLocal
<1>10. CASE pc[t] = "mark"
  <2>1. MarkRevenueDistributed(t)
    BY <1>10 DEF Distribute, LoadRevenue, LoadCommunity, OpenPool, PayOwner, PayMember,
                BookMember, PayPlatform, Announce
  <2>2. UNCHANGED <<booked, ledger, rewards, announced, rev, seen, payee>> /\ pc'[t] = "announce"
    BY <1>3, <2>1 DEF MarkRevenueDistributed, sent, local, Goto
  <2>3. revenue'[r].comm = revenue[r].comm /\ revenue'[r].total = revenue[r].total
    BY <1>1, <2>1 DEF MarkRevenueDistributed, TypeOK, StoreTypeOK
  <2>4. Due(t)' = Due(t) /\ (SeenOK(t) => SeenOK(t)')
    BY <1>1, <1>4, <2>2, <2>3 DEF Due, SeenOK, ZeroCommunity
  <2>5. RecordOK(r)'
    BY <1>1, <1>4, <2>2, <2>3, RecordFrame
  <2>6. PaidOK(t)'
    BY <1>1, <1>10, <2>2, <2>4 DEF PaidOK, PayStages
  <2> QED
    BY <1>1, <1>2, <2>2, <2>5, <2>6, DistributePaidLocal
<1>11. CASE pc[t] = "announce"
  <2>1. Announce(t)
    BY <1>11 DEF Distribute, LoadRevenue, LoadCommunity, OpenPool, PayOwner, PayMember,
                 BookMember, PayPlatform, MarkRevenueDistributed
  <2>2. UNCHANGED <<revenue, booked, ledger, rewards>> /\ pc'[t] = "idle"
    BY <2>1 DEF Announce, store, Return, Forget
  <2>3. \A a \in announced' : a \in announced \/ AnnouncedOK(a)'
    <3>1. ledger[r].owner = Due(t).owner /\ ledger[r].platform = Due(t).platform
      BY <1>1, <1>11 DEF PaidOK, PayStages
    <3> QED
      BY <1>1, <1>2, <2>1, <2>2, <3>1 DEF Announce, AnnouncedOK
  <2>4. RecordOK(r)' /\ PaidOK(t)'
    BY <1>1, <1>4, <2>2, RecordFrame DEF PaidOK, PayStages
  <2> QED
    BY <1>1, <1>2, <2>2, <2>3, <2>4, DistributePaidLocal
<1> QED
  BY <1>5, <1>6, <1>7, <1>8, <1>9, <1>10, <1>11

(* The handlers and the environment write no records of a payout. *)
LEMMA HandlePaid ==
  ASSUME PaidInv, RunInv', NEW i \in Instances, Handle(i)
  PROVE  PaidInv'
<1> USE DEF Threads
<1>0. TypeOK /\ RunInv
  BY DEF PaidInv, RunInv
<1>1. UNCHANGED <<community, booked, ledger, rewards, announced, payee, seen>> \/ Return(i)
  BY DEF Handle, Receive, ResolveCommunity, CheckDuplicate, CreateRevenue, store, sent, local
<1>2. UNCHANGED <<community, booked, ledger, rewards, announced>>
  BY DEF Handle, Receive, ResolveCommunity, CheckDuplicate, CreateRevenue, store, sent
<1>3. \A r \in Present : revenue'[r] = revenue[r]
  BY <1>0 DEF Handle, Receive, ResolveCommunity, CheckDuplicate, CreateRevenue, store,
     Present, TypeOK, StoreTypeOK
<1>4. SameTypes /\ KnownScores'
  BY <1>2 DEF SameTypes, PaidInv, KnownScores
<1>5. \A u \in Threads : pc'[u] \in PayStages =>
        /\ pc'[u] = pc[u] /\ rev'[u] = rev[u] /\ seen'[u] = seen[u] /\ payee'[u] = payee[u]
  <2>1. CASE Return(i)
    BY <2>1 DEF Return, Forget, PayStages
  <2>2. CASE ~Return(i)
    <3>1. \A u \in Threads : u # i => pc'[u] = pc[u] /\ rev'[u] = rev[u]
      BY <1>0, <2>2 DEF Handle, Receive, ResolveCommunity, CheckDuplicate, CreateRevenue, local,
         Goto, TypeOK, ThreadTypeOK
    <3>2. (pc' = pc /\ rev' = rev) \/ pc'[i] \in {"resolve", "check", "insert", "load"}
      BY <1>0, <2>2 DEF Handle, Receive, ResolveCommunity, CheckDuplicate, CreateRevenue, local,
         Goto, TypeOK, ThreadTypeOK
    <3> QED
      BY <1>1, <2>2, <3>1, <3>2 DEF PayStages
  <2> QED
    BY <2>1, <2>2
<1>6. ASSUME NEW u \in Threads
      PROVE  PaidOK(u)'
  <2>1. pc[u] \in PayStages => rev[u] \in Present /\ rev[u] \in RevIds
    BY <1>0 DEF RunInv, RunOK, RunStages, Present
  <2> QED
    BY <1>2, <1>3, <1>4, <1>5, <2>1, PaidFrame DEF PaidInv
<1>7. ASSUME NEW r \in RevIds
      PROVE  RecordOK(r)'
  <2>1. r \in Present \/ ledger[r].ownerTimes = 0
    BY <1>0 DEF RunInv, EntryOK
  <2> QED
    BY <1>2, <1>3, <1>4, <2>1, RecordFrame DEF PaidInv
<1>8. \A a \in announced' : AnnouncedOK(a)'
  BY <1>2 DEF PaidInv, AnnouncedOK
<1> QED
  BY <1>4, <1>6, <1>7, <1>8 DEF PaidInv

LEMMA EnvironmentPaid ==
  ASSUME Triggers = {}, PaidInv, RunInv', Environment
  PROVE  PaidInv'
<1>0. TypeOK /\ RunInv
  BY DEF PaidInv, RunInv
<1>1. UNCHANGED <<revenue, booked, ledger, rewards, announced>>
  BY DEF Environment, Publish, triggerDistribute, RequestReturns, UpdateCommunityScore,
     UpdateMemberActivity, Crash, store, sent
<1>2. SameTypes /\ KnownScores'
  <2>1. CASE community' = community
    BY <2>1 DEF SameTypes, PaidInv, KnownScores
  <2>2. ASSUME NEW c \in Registered, NEW s \in Scores, UpdateCommunityScore(c, s)
        PROVE  SameTypes /\ KnownScores'
    <3>1. \A d \in Registered :
            /\ community'[d].type = community[d].type
            /\ community'[d].quality = IF d = c THEN s ELSE community[d].quality
      BY <1>0, <2>2 DEF UpdateCommunityScore, TypeOK, StoreTypeOK
    <3> QED
      BY <3>1 DEF SameTypes, PaidInv, KnownScores
  <2> QED
    BY <2>1, <2>2 DEF Environment, Publish, triggerDistribute, RequestReturns,
       UpdateMemberActivity, Crash, store
<1>3. \A u \in Threads : \/ pc'[u] = "idle"
                         \/ /\ pc'[u] = pc[u] /\ rev'[u] = rev[u] /\ seen'[u] = seen[u]
                            /\ payee'[u] = payee[u]
  <2>1. CASE \E i \in Instances : Crash(i)
    BY <2>1 DEF Crash, Forget
  <2>2. CASE UNCHANGED <<pc, local>>
    BY <2>2 DEF local
  <2> QED
    BY <2>1, <2>2 DEF Environment, Publish, UpdateCommunityScore, UpdateMemberActivity
<1>4. \A u \in Threads : PaidOK(u)'
  BY <1>1, <1>2, <1>3, PaidFrame DEF PaidInv, PayStages
<1>5. \A r \in RevIds : RecordOK(r)'
  BY <1>1, <1>2, RecordFrame DEF PaidInv
<1>6. \A a \in announced' : AnnouncedOK(a)'
  BY <1>1 DEF PaidInv, AnnouncedOK
<1> QED
  BY <1>2, <1>4, <1>5, <1>6 DEF PaidInv

LEMMA PaidInit == Init => PaidInv
<1> SUFFICES ASSUME Init PROVE PaidInv
  OBVIOUS
<1>1. KnownScores
  BY DEF Init, KnownScores
<1>2. \A t \in Threads : PaidOK(t)
  BY DEF Init, PaidOK, PayStages
<1>3. \A r \in RevIds : RecordOK(r)
  BY DEF Init, RecordOK
<1>4. announced = {}
  BY DEF Init
<1> QED
  BY <1>1, <1>2, <1>3, <1>4, RunInit DEF PaidInv

LEMMA PaidStep ==
  ASSUME Triggers = {}
  PROVE  PaidInv /\ [Next]_vars => PaidInv'
<1> SUFFICES ASSUME PaidInv, [Next]_vars PROVE PaidInv'
  OBVIOUS
<1>1. RunInv'
  BY RunStep DEF PaidInv
<1>2. CASE UNCHANGED vars
  <2>1. UNCHANGED <<community, revenue, booked, ledger, rewards, announced, pc, rev, seen, payee>>
    BY <1>2 DEF vars, store, sent, local
  <2>2. SameTypes
    BY <2>1 DEF SameTypes
  <2>3. \A u \in Threads : PaidOK(u)'
    BY <2>1, <2>2, PaidFrame DEF PaidInv
  <2>4. \A r \in RevIds : RecordOK(r)'
    BY <2>1, <2>2, RecordFrame DEF PaidInv
  <2> QED
    BY <1>1, <2>1, <2>3, <2>4 DEF PaidInv, KnownScores, AnnouncedOK
<1>3. CASE Next
  BY <1>1, <1>3, HandlePaid, DistributePaid, EnvironmentPaid DEF Next
<1> QED
  BY <1>2, <1>3

(* Without admin triggers: an earning is published before its distribution *)
(* row is written, and the announced amounts are those the owner and the   *)
(* platform were sent, whatever fails or dies on any number of instances.  *)
THEOREM RecordsFollowPayments ==
  ASSUME Triggers = {}
  PROVE  Spec => []RecordsWereSent
<1>1. PaidInv => RecordsWereSent
  BY DEF PaidInv, RecordOK, AnnouncedOK, RecordsWereSent
<1> QED
  BY <1>1, PaidInit, PaidStep, PTL DEF Spec

(* Without admin triggers: both payments of a row are computed from the    *)
(* same read of the community, whatever score arrives between them, and    *)
(* after a failed read neither is made.                                    *)
THEOREM PaidByOneScore ==
  ASSUME Triggers = {}
  PROVE  Spec => []PaidWithOneScore
<1>1. PaidInv => PaidWithOneScore
  BY DEF PaidInv, RecordOK, OneScore, PaidWithOneScore
<1> QED
  BY <1>1, PaidInit, PaidStep, PTL DEF Spec

(* Without admin triggers: every payment for a row is made by the one      *)
(* payout that found it pending, before that payout marks it.              *)
LEMMA PaidWhilePending ==
  ASSUME RunInv, [Next]_vars, NEW r \in RevIds, revenue[r].status = "distributed"
  PROVE  ledger'[r] = ledger[r] /\ rewards'[r] = rewards[r]
<1>1. ASSUME NEW t \in Threads, Distribute(t)
      PROVE  ledger'[r] = ledger[r] /\ rewards'[r] = rewards[r]
  <2>1. CASE r # rev[t]
    BY <1>1, <2>1, DistributeOwn, DistributeRecords
  <2>2. CASE r = rev[t]
    <3>1. pc[t] \in {"load", "community"} \cup PayStages /\ RunOK(t)
      BY <1>1, DistributeOwn DEF RunStages, RunInv
    <3>2. pc[t] = "announce"
      BY <2>2, <3>1 DEF RunOK, RunStages
    <3> QED
      BY <1>1, <3>2 DEF Distribute, LoadRevenue, LoadCommunity, PayOwner, OpenPool, PayMember,
         BookMember, PayPlatform, MarkRevenueDistributed, Announce
  <2> QED
    BY <2>1, <2>2
<1>2. CASE UNCHANGED <<ledger, rewards>>
  BY <1>2
<1> QED
  BY <1>1, <1>2 DEF Next, Handle, Receive, ResolveCommunity, CheckDuplicate, CreateRevenue,
     Environment, Publish, triggerDistribute, RequestReturns, UpdateCommunityScore,
     UpdateMemberActivity, Crash, vars, sent

(* Without admin triggers nobody is sent anything, owner, platform or      *)
(* member, for a row that is distributed already.                          *)
THEOREM DistributedIsFinal ==
  ASSUME Triggers = {}
  PROVE  Spec => NothingAfterDistributed
<1>1. RunInv /\ [Next]_vars =>
        [\A r \in RevIds : revenue[r].status = "distributed" =>
           ledger'[r] = ledger[r] /\ rewards'[r] = rewards[r]]_vars
  BY PaidWhilePending
<1> QED
  BY <1>1, RunInit, RunStep, PTL DEF Spec, NothingAfterDistributed

-----------------------------------------------------------------------------
(* What is sent for a row stays within its total.  The strengthening: what *)
(* a payout has sent to the members, and what it still has to send, fits   *)
(* into its pool; it is at most one payment per member.                    *)

FitsPool(pool, paid, left) ==
  \E s \in [Members -> Nat] :
    /\ SumFunctionOnSet(s, Members) <= pool
    /\ \A m \in Members : paid[m] <= s[m]
    /\ \A p \in left : p.nano <= s[p.member] /\ paid[p.member] = 0
    /\ \A p, q \in left : p.member = q.member => p = q

PlanOK(t) ==
  /\ pc[t] \notin {"pay", "book"} => todo[t] = {}
  /\ pc[t] \in {"load", "community", "owner", "members"} =>
       \A m \in Members : rewards[rev[t]][m] = 0
  /\ pc[t] \in PayStages \ {"owner"} => FitsPool(Due(t).members, rewards[rev[t]], todo[t])

AbsentUnsent == \A r \in RevIds \ Present, m \in Members : rewards[r][m] = 0

WithinInv == (\A t \in Threads : PlanOK(t)) /\ AbsentUnsent /\ WithinTotal

(* The percentages of a type add up to 100, and no multiplier exceeds one. *)
LEMMA PartsFit ==
  ASSUME NEW total \in Nat, NEW score \in Nat,
         NEW a \in Nat, NEW b \in Nat, NEW c \in Nat, a + b + c = 100
  PROVE  Part(total, a, score) + Part(total, b, score) + Part(total, c, score) <= total * UnitNano
<1>1. total * a + total * b + total * c = total * 100
  <2>1. total * a + total * b = total * (a + b) /\ total * (a + b) + total * c = total * (a + b + c)
    BY TimesPlus
  <2>2. total * (a + b + c) = total * 100
    OBVIOUS
  <2>3. total * a \in Nat /\ total * b \in Nat /\ total * c \in Nat
    BY NatProduct
  <2> QED
    BY <2>1, <2>2, <2>3
<1>2. PICK x, y, z \in Nat : /\ x = total * a /\ y = total * b /\ z = total * c
                             /\ x + y + z = total * 100
  BY <1>1, NatProduct
<1>3. \A k \in {0, 5, 8, 10} : x * k * 100 + y * k * 100 + z * k * 100 <= total * 100000
  BY <1>2
<1>4. revenueMultiplier(score) \in {0, 5, 8, 10}
  BY DEF revenueMultiplier
<1> QED
  BY <1>2, <1>3, <1>4 DEF Part, UnitNano

LEMMA AmountsFit ==
  ASSUME NEW type, NEW score \in Nat, NEW total \in Nat
  PROVE  LET due == Amounts(type, score, total)
         IN  due.owner + due.members + due.platform <= total * UnitNano
<1> DEFINE due == Amounts(type, score, total)
<1>1. ~(NoOverride.owner > 0)
  BY DEF NoOverride, Split
<1>2. CASE type = "group"
  <2>1. /\ due.owner = Part(total, 50, score) /\ due.members = Part(total, 40, score)
        /\ due.platform = Part(total, 10, score)
    BY <1>1, <1>2 DEF Amounts, RevenuePercentages, Split
  <2>2. 50 + 40 + 10 = 100 /\ 50 \in Nat /\ 40 \in Nat /\ 10 \in Nat
    OBVIOUS
  <2>3. Part(total, 50, score) + Part(total, 40, score) + Part(total, 10, score) <= total * UnitNano
    BY <2>2, PartsFit
  <2> QED
    BY <2>1, <2>3
<1>3. CASE type = "channel"
  <2>1. /\ due.owner = Part(total, 90, score) /\ due.members = Part(total, 0, score)
        /\ due.platform = Part(total, 10, score)
    BY <1>1, <1>3 DEF Amounts, RevenuePercentages, Split
  <2>2. 90 + 0 + 10 = 100 /\ 90 \in Nat /\ 0 \in Nat /\ 10 \in Nat
    OBVIOUS
  <2>3. Part(total, 90, score) + Part(total, 0, score) + Part(total, 10, score) <= total * UnitNano
    BY <2>2, PartsFit
  <2> QED
    BY <2>1, <2>3
<1>4. CASE type # "group" /\ type # "channel"
  <2>1. /\ due.owner = Part(total, 80, score) /\ due.members = Part(total, 0, score)
        /\ due.platform = Part(total, 20, score)
    BY <1>1, <1>4 DEF Amounts, RevenuePercentages, Split
  <2>2. 80 + 0 + 20 = 100 /\ 80 \in Nat /\ 0 \in Nat /\ 20 \in Nat
    OBVIOUS
  <2>3. Part(total, 80, score) + Part(total, 0, score) + Part(total, 20, score) <= total * UnitNano
    BY <2>2, PartsFit
  <2> QED
    BY <2>1, <2>3
<1> QED
  BY <1>2, <1>3, <1>4

LEMMA FitsNone ==
  ASSUME IsFiniteSet(Members), NEW pool \in Nat, NEW paid, \A m \in Members : paid[m] = 0
  PROVE  FitsPool(pool, paid, {})
<1> DEFINE s == [m \in Members |-> 0]
<1>1. SumFunctionOnSet(s, Members) = 0
  BY SumZero
<1>2. SumFunctionOnSet(s, Members) <= pool
  BY <1>1
<1> QED
  BY <1>2 DEF FitsPool

LEMMA FitsShares ==
  ASSUME IsFiniteSet(Members), NEW pool \in Nat, NEW scores \in [Members -> Nat],
         NEW paid, \A m \in Members : paid[m] = 0
  PROVE  FitsPool(pool, paid, Payments(MemberShares(pool, scores)))
<1> DEFINE shares == MemberShares(pool, scores)
           P      == DOMAIN shares
           s      == [m \in Members |-> IF m \in P THEN shares[m] ELSE 0]
<1>1. ScoresOK(scores)
  BY DEF ScoresOK
<1>2. P \subseteq Members /\ \A m \in P : shares[m] \in Nat
  BY <1>1, ShareOf DEF Scored
<1>3. IsFiniteSet(P) /\ IsFiniteSet(Members \ P)
  BY <1>2, FS_Subset
<1>4. \A m \in Members : s[m] \in Int
  BY <1>2
<1>5. SumFunctionOnSet(s, Members) = SumFunctionOnSet(s, P) + SumFunctionOnSet(s, Members \ P)
  BY <1>2, <1>4, SumSplit
<1>6. SumFunctionOnSet(s, P) = SumFunctionOnSet(shares, P)
  BY <1>2, <1>3, SumSame
<1>7. SumFunctionOnSet(s, Members \ P) = 0
  BY <1>3, SumZero
<1>8. SumFunctionOnSet(shares, P) \in Nat /\ SumFunctionOnSet(shares, P) <= pool
  BY <1>1, SharesFit DEF SumFunction
<1>9. SumFunctionOnSet(s, Members) <= pool
  <2> HIDE DEF s, shares, P
  <2> QED
    BY <1>5, <1>6, <1>7, <1>8
<1>10. \A p \in Payments(shares) : p.member \in P /\ p.nano = shares[p.member]
                                   /\ p = [member |-> p.member, nano |-> shares[p.member]]
  BY DEF Payments
<1>11. s \in [Members -> Nat]
  BY <1>2
<1>12. \A p \in Payments(shares) : p.nano <= s[p.member] /\ paid[p.member] = 0
  BY <1>2, <1>10
<1>13. \A p, q \in Payments(shares) : p.member = q.member => p = q
  BY <1>10
<1>14. \A m \in Members : paid[m] <= s[m]
  BY <1>11
<1> HIDE DEF s, shares
<1> QED
  BY <1>9, <1>11, <1>12, <1>13, <1>14 DEF FitsPool, shares

LEMMA FitsPay ==
  ASSUME NEW pool, NEW paid \in [Members -> Nat], NEW left \in SUBSET Payment,
         FitsPool(pool, paid, left), NEW p \in left
  PROVE  FitsPool(pool, [paid EXCEPT ![p.member] = @ + p.nano], left \ {p})
<1> DEFINE after == [paid EXCEPT ![p.member] = @ + p.nano]
<1>1. PICK s \in [Members -> Nat] :
        /\ SumFunctionOnSet(s, Members) <= pool
        /\ \A m \in Members : paid[m] <= s[m]
        /\ \A q \in left : q.nano <= s[q.member] /\ paid[q.member] = 0
        /\ \A q, r \in left : q.member = r.member => q = r
  BY DEF FitsPool
<1>2. \A q \in left : q.member \in Members /\ q.nano \in Nat
  BY DEF Payment
<1>3. \A m \in Members : after[m] = IF m = p.member THEN paid[m] + p.nano ELSE paid[m]
  OBVIOUS
<1>4. \A m \in Members : after[m] <= s[m]
  BY <1>1, <1>2, <1>3
<1>5. \A q \in left \ {p} : q.nano <= s[q.member] /\ after[q.member] = 0
  BY <1>1, <1>2, <1>3
<1> HIDE DEF after
<1> QED
  BY <1>1, <1>4, <1>5 DEF FitsPool, after

LEMMA FitsSum ==
  ASSUME IsFiniteSet(Members), NEW pool \in Nat, NEW paid \in [Members -> Nat], NEW left,
         FitsPool(pool, paid, left)
  PROVE  SumFunctionOnSet(paid, Members) \in Nat /\ SumFunctionOnSet(paid, Members) <= pool
<1>1. PICK s \in [Members -> Nat] : /\ SumFunctionOnSet(s, Members) <= pool
                                    /\ \A m \in Members : paid[m] <= s[m]
  BY DEF FitsPool
<1>2. SumFunctionOnSet(paid, Members) <= SumFunctionOnSet(s, Members)
  BY <1>1, SumMonotone
<1>3. SumFunctionOnSet(paid, Members) \in Nat /\ SumFunctionOnSet(s, Members) \in Nat
  BY SumNat
<1> QED
  BY <1>1, <1>2, <1>3

(* While a payout works on a row, its stage says what was sent for it.     *)
RunsWithin ==
  \A t \in Threads : pc[t] \in RunStages =>
    ledger[rev[t]].owner + ledger[rev[t]].platform + SumFunctionOnSet(rewards[rev[t]], Members)
      <= revenue[rev[t]].total * UnitNano

LEMMA RunWithin ==
  ASSUME IsFiniteSet(Members)
  PROVE  PaidInv /\ (\A t \in Threads : PlanOK(t)) => RunsWithin
<1> SUFFICES ASSUME PaidInv, NEW t \in Threads, PlanOK(t), pc[t] \in RunStages
             PROVE  ledger[rev[t]].owner + ledger[rev[t]].platform
                      + SumFunctionOnSet(rewards[rev[t]], Members) <= revenue[rev[t]].total * UnitNano
  BY DEF RunsWithin
<1> DEFINE r    == rev[t]
           sum  == SumFunctionOnSet(rewards[r], Members)
           most == revenue[r].total * UnitNano
<1>1. /\ TypeOK /\ RunOK(t) /\ PaidOK(t) /\ r \in RevIds /\ RecordOK(r) /\ EntryOK(r)
  BY DEF PaidInv, RunInv, RunOK, Present
<1>2. /\ ledger[r].owner \in Nat /\ ledger[r].platform \in Nat
      /\ ledger[r].ownerTimes \in Nat /\ ledger[r].platformTimes \in Nat
      /\ revenue[r].total \in Nat /\ rewards[r] \in [Members -> Nat] /\ most \in Nat
      /\ seen[t].quality \in Nat
  <2>1. /\ ledger[r] \in [ownerTimes : Nat, owner : Nat, platformTimes : Nat, platform : Nat]
        /\ rewards[r] \in [Members -> Nat]
    BY <1>1 DEF TypeOK, SentTypeOK
  <2>2. revenue[r].total \in Nat
    BY <1>1 DEF TypeOK, StoreTypeOK
  <2>3. seen[t].quality \in Nat
    BY <1>1 DEF TypeOK, ThreadTypeOK
  <2>4. most \in Nat
    BY <2>2, NatProduct, 100000 \in Nat DEF UnitNano
  <2> HIDE DEF most
  <2> QED
    BY <2>1, <2>2, <2>3, <2>4
<1>3. CASE pc[t] \in {"load", "community", "owner"}
  <2>1. ledger[r].owner = 0 /\ ledger[r].platform = 0
    BY <1>1, <1>3 DEF RunOK, RecordOK
  <2>2. \A m \in Members : rewards[r][m] = 0
    BY <1>3 DEF PlanOK
  <2>3. sum = 0
    BY <2>2, SumZero
  <2> HIDE DEF sum, most, r
  <2> QED
    BY <1>2, <2>1, <2>3 DEF sum, most, r
<1>4. CASE pc[t] \in PayStages \ {"owner"}
  <2>1. Due(t) \in [owner : Nat, members : Nat, platform : Nat]
    BY <1>1, <1>4, DueType
  <2>2. sum \in Nat /\ sum <= Due(t).members
    BY <1>2, <1>4, <2>1, FitsSum DEF PlanOK
  <2>3. ledger[r].owner = Due(t).owner
    BY <1>1, <1>4 DEF PaidOK
  <2>4. ledger[r].platform <= Due(t).platform
    <3>1. CASE pc[t] \in {"mark", "announce"}
      BY <1>1, <1>2, <1>4, <3>1 DEF PaidOK
    <3>2. CASE pc[t] \in {"members", "pay", "book", "platform"}
      <4>1. ledger[r].platform = 0
        BY <1>1, <1>4, <3>2 DEF RunOK, RecordOK
      <4> QED
        BY <2>1, <4>1
    <3> QED
      BY <1>4, <3>1, <3>2 DEF PayStages
  <2>5. Due(t).owner + Due(t).members + Due(t).platform <= most
    BY <1>2, AmountsFit DEF Due
  <2>6. Due(t).owner \in Nat /\ Due(t).members \in Nat /\ Due(t).platform \in Nat
    BY <2>1
  <2> HIDE DEF sum, most, r
  <2>7. ledger[r].owner + ledger[r].platform + sum <= most
    BY <1>2, <2>2, <2>3, <2>4, <2>5, <2>6
  <2> QED
    BY <2>7 DEF sum, most, r
<1> QED
  BY <1>3, <1>4 DEF RunStages

-----------------------------------------------------------------------------
LEMMA PlanFrame ==
  ASSUME NEW u \in Threads, PlanOK(u),
         \/ pc'[u] = "idle" /\ todo'[u] = {}
         \/ /\ pc'[u] = pc[u] /\ rev'[u] = rev[u] /\ seen'[u] = seen[u] /\ todo'[u] = todo[u]
            /\ pc[u] \in RunStages => /\ revenue'[rev[u]].total = revenue[rev[u]].total
                                      /\ rewards'[rev[u]] = rewards[rev[u]]
  PROVE  PlanOK(u)'
<1>1. CASE pc'[u] = "idle" /\ todo'[u] = {}
  BY <1>1 DEF PlanOK, PayStages
<1>2. CASE /\ pc'[u] = pc[u] /\ rev'[u] = rev[u] /\ seen'[u] = seen[u] /\ todo'[u] = todo[u]
           /\ pc[u] \notin RunStages
  BY <1>2 DEF PlanOK, PayStages, RunStages
<1>3. CASE /\ pc'[u] = pc[u] /\ rev'[u] = rev[u] /\ seen'[u] = seen[u] /\ todo'[u] = todo[u]
           /\ pc[u] \in RunStages
           /\ revenue'[rev[u]].total = revenue[rev[u]].total /\ rewards'[rev[u]] = rewards[rev[u]]
  <2>1. Due(u)' = Due(u)
    BY <1>3 DEF Due
  <2> QED
    BY <1>3, <2>1 DEF PlanOK
<1> QED
  BY <1>1, <1>2, <1>3

(* What the payout of t does to its own plan. *)
LEMMA DistributePlan ==
  ASSUME IsFiniteSet(Members), PaidInv, NEW t \in Threads, PlanOK(t), Distribute(t)
  PROVE  PlanOK(t)'
<1>0. PICK r : r = rev[t]
  OBVIOUS
<1>1. r \in RevIds /\ r = rev[t] /\ TypeOK
  BY <1>0, DistributeOwn DEF PaidInv, RunInv, Present
<1>2. /\ rewards \in [RevIds -> [Members -> Nat]] /\ rewards[r] \in [Members -> Nat]
      /\ pc \in [Threads -> {"idle", "resolve", "check", "insert", "load", "community"}
                              \cup PayStages]
      /\ todo \in [Threads -> SUBSET Payment]
  BY <1>1 DEF TypeOK, SentTypeOK, ThreadTypeOK
<1>3. CASE Return(t)
  <2>1. pc'[t] = "idle" /\ todo'[t] = {}
    BY <1>3 DEF Return, Forget
  <2> QED
    BY <2>1, PlanFrame
<1>4. CASE LoadRevenue(t) \/ LoadCommunity(t)
  <2>1. CASE ~Return(t)
    <3>1. /\ pc[t] \in {"load", "community"} /\ pc'[t] \in {"community", "owner"}
          /\ UNCHANGED <<rev, todo, rewards>>
      BY <1>2, <1>4, <2>1 DEF LoadRevenue, LoadCommunity, Goto, local, sent
    <3> QED
      BY <3>1 DEF PlanOK, PayStages
  <2> QED
    BY <1>3, <2>1
<1>5. CASE PayOwner(t)
  <2>1. /\ pc[t] = "owner" /\ pc'[t] \in {"members", "platform"}
        /\ UNCHANGED <<revenue, rev, seen, todo, rewards>>
    BY <1>2, <1>5 DEF PayOwner, Goto, local, store
  <2>2. Due(t)' = Due(t) /\ Due(t).members \in Nat
    BY <1>1, <2>1, DueType DEF Due, PayStages
  <2>3. todo[t] = {} /\ \A m \in Members : rewards[r][m] = 0
    BY <1>1, <2>1 DEF PlanOK
  <2>4. FitsPool(Due(t).members, rewards[r], {})
    BY <2>2, <2>3, FitsNone
  <2> QED
    BY <1>1, <2>1, <2>2, <2>3, <2>4 DEF PlanOK
<1>6. CASE OpenPool(t)
  <2>1. /\ pc[t] = "members" /\ pc'[t] = IF todo'[t] = {} THEN "platform" ELSE "pay"
        /\ UNCHANGED <<revenue, rev, seen, rewards>>
    BY <1>2, <1>6 DEF OpenPool, Goto, sent, store
  <2>2. Due(t)' = Due(t) /\ Due(t).members \in Nat
    BY <1>1, <2>1, DueType DEF Due, PayStages
  <2>3. todo[t] = {} /\ \A m \in Members : rewards[r][m] = 0
    BY <1>1, <2>1 DEF PlanOK
  <2> DEFINE scores == GetActiveMembers(revenue[r].comm)
  <2>4. scores \in [Members -> Nat]
    <3>1. \A c \in Registered : activity[c] \in [Members -> ActivityScores]
      BY <1>1 DEF TypeOK, StoreTypeOK
    <3>2. ActivityScores \subseteq Nat
      BY NumbersAssumption
    <3>3. \A c \in Registered : activity[c] \in [Members -> Nat]
      BY <3>1, <3>2
    <3> QED
      BY <3>3 DEF GetActiveMembers
  <2>5. todo'[t] = {} \/ todo'[t] = Payments(MemberShares(Due(t).members, scores))
    BY <1>1, <1>2, <1>6, <2>3 DEF OpenPool
  <2>6. FitsPool(Due(t).members, rewards[r], todo'[t])
    <3> HIDE DEF scores
    <3> QED
      BY <2>2, <2>3, <2>4, <2>5, FitsNone, FitsShares
  <2> QED
    BY <1>1, <2>1, <2>2, <2>3, <2>6 DEF PlanOK, PayStages
<1>7. CASE PayMember(t)
  <2>1. pc[t] = "pay" /\ pc'[t] = "book" /\ UNCHANGED <<revenue, rev, seen>>
    BY <1>2, <1>7 DEF PayMember, Goto, store
  <2>2. Due(t)' = Due(t) /\ FitsPool(Due(t).members, rewards[r], todo[t])
    BY <1>1, <2>1 DEF Due, PlanOK, PayStages
  <2>3. PICK p \in todo[t] : /\ rewards'[r] = [rewards[r] EXCEPT ![p.member] = @ + p.nano]
                             /\ todo'[t] = todo[t] \ {p}
    BY <1>1, <1>2, <1>7 DEF PayMember
  <2>4. FitsPool(Due(t).members, rewards'[r], todo'[t])
    BY <1>2, <2>2, <2>3, FitsPay
  <2> QED
    BY <1>1, <2>1, <2>2, <2>4 DEF PlanOK
<1>8. CASE BookMember(t) \/ PayPlatform(t)
  <2>1. /\ pc[t] \in {"book", "platform"} /\ pc'[t] \in {"pay", "platform", "mark"}
        /\ pc'[t] = "pay" \/ todo[t] = {}
        /\ UNCHANGED <<revenue, rev, seen, todo, rewards>>
    BY <1>2, <1>8 DEF BookMember, PayPlatform, PlanOK, Goto, local, store, sent
  <2>2. Due(t)' = Due(t) /\ FitsPool(Due(t).members, rewards[r], todo[t])
    BY <1>1, <2>1 DEF Due, PlanOK, PayStages
  <2> QED
    BY <1>1, <2>1, <2>2 DEF PlanOK
<1>9. CASE MarkRevenueDistributed(t)
  <2>1. /\ pc[t] = "mark" /\ pc'[t] = "announce" /\ UNCHANGED <<rev, seen, todo, rewards>>
        /\ revenue'[r].total = revenue[r].total
    BY <1>1, <1>2, <1>9 DEF MarkRevenueDistributed, Goto, local, sent, TypeOK, StoreTypeOK
  <2>2. /\ Due(t)' = Due(t) /\ todo[t] = {}
        /\ FitsPool(Due(t).members, rewards[r], todo[t])
    BY <1>1, <2>1 DEF Due, PlanOK, PayStages
  <2> QED
    BY <1>1, <2>1, <2>2 DEF PlanOK
<1>10. CASE Announce(t)
  BY <1>3, <1>10 DEF Announce
<1> QED
  BY <1>4, <1>5, <1>6, <1>7, <1>8, <1>9, <1>10 DEF Distribute

(* A row whose payments or total change is one a payout works on now. *)
Untouched(r) ==
  /\ ledger'[r] = ledger[r] /\ rewards'[r] = rewards[r]
  /\ revenue'[r].total = revenue[r].total

WorkedOn(r) == \E t \in Threads : pc[t] \in RunStages /\ rev[t] = r

LEMMA DistributeWithin ==
  ASSUME IsFiniteSet(Members), PaidInv, WithinInv, NEW t \in Threads, Distribute(t)
  PROVE  /\ \A u \in Threads : PlanOK(u)'
         /\ AbsentUnsent'
         /\ \A r \in RevIds : Untouched(r) \/ WorkedOn(r)'
<1>1. /\ pc[t] \in RunStages /\ rev[t] \in Present /\ rev[t] \in RevIds
      /\ pc'[t] = "idle" \/ (pc'[t] \in RunStages /\ rev'[t] = rev[t])
      /\ \A u \in Threads : u # t =>
           pc'[u] = pc[u] /\ rev'[u] = rev[u] /\ seen'[u] = seen[u]
      /\ \A r \in RevIds : r # rev[t] => revenue'[r] = revenue[r] /\ ledger'[r] = ledger[r]
  BY DistributeOwn DEF PaidInv, Present
<1>2. \A r \in RevIds : r # rev[t] => rewards'[r] = rewards[r]
  BY DistributeRecords DEF PaidInv
<1>3. \A u \in Threads : u # t => todo'[u] = todo[u]
  <2>1. CASE Return(t)
    BY <2>1 DEF Return, Forget
  <2>2. CASE ~Return(t)
    BY <2>2 DEF Distribute, LoadRevenue, LoadCommunity, PayOwner, OpenPool, PayMember, BookMember,
       PayPlatform, MarkRevenueDistributed, Announce, local, PaidInv, RunInv, TypeOK, ThreadTypeOK
  <2> QED
    BY <2>1, <2>2
<1>4. ASSUME NEW u \in Threads
      PROVE  PlanOK(u)'
  <2>1. CASE u = t
    BY <2>1, DistributePlan DEF WithinInv
  <2>2. CASE u # t
    <3>1. pc[u] \in RunStages => rev[u] \in RevIds /\ rev[u] # rev[t]
      BY <1>1, <2>2 DEF PaidInv, RunInv, OneRunPerRow, RunOK, Present
    <3> QED
      BY <1>1, <1>2, <1>3, <2>2, <3>1, PlanFrame DEF WithinInv
  <2> QED
    BY <2>1, <2>2
<1>5. Present' = Present
  BY DistributeRows DEF SameRows, PaidInv, RunInv, PaysPresentRow, RunOK, RunStages
<1>6. AbsentUnsent'
  BY <1>1, <1>2, <1>5 DEF AbsentUnsent, WithinInv
<1>7. ASSUME NEW r \in RevIds
      PROVE  Untouched(r) \/ WorkedOn(r)'
  <2>1. CASE r # rev[t]
    BY <1>1, <1>2, <2>1 DEF Untouched
  <2>2. CASE r = rev[t] /\ pc'[t] \in RunStages
    BY <1>1, <2>2 DEF WorkedOn, RunStages, PayStages
  <2>3. CASE LoadRevenue(t) \/ LoadCommunity(t) \/ Announce(t)
    BY <2>3 DEF LoadRevenue, LoadCommunity, Announce, Untouched, store, sent
  <2>4. CASE ~(LoadRevenue(t) \/ LoadCommunity(t) \/ Announce(t))
    <3>1. PICK label \in PayStages : Goto(t, label)
      BY <2>4 DEF Distribute, PayOwner, OpenPool, PayMember, BookMember, PayPlatform,
         MarkRevenueDistributed, PayStages
    <3>2. pc'[t] \in RunStages
      BY <3>1 DEF Goto, RunStages, PaidInv, RunInv, TypeOK, ThreadTypeOK
    <3> QED
      BY <2>1, <2>2, <3>2
  <2> QED
    BY <2>3, <2>4
<1> QED
  BY <1>4, <1>6, <1>7

LEMMA HandleWithin ==
  ASSUME PaidInv, WithinInv, NEW i \in Instances, Handle(i)
  PROVE  /\ \A u \in Threads : PlanOK(u)'
         /\ AbsentUnsent'
         /\ \A r \in RevIds : Untouched(r) \/ WorkedOn(r)'
<1> USE DEF Threads
<1>1. TypeOK /\ (\A u \in Threads : RunOK(u)) /\ (\A u \in Threads : PlanOK(u)) /\ AbsentUnsent
  BY DEF PaidInv, RunInv, WithinInv
<1>2. ledger' = ledger /\ rewards' = rewards
  BY DEF Handle, Receive, ResolveCommunity, CheckDuplicate, CreateRevenue, sent
<1>3. \A u \in Threads : u # i => /\ pc'[u] = pc[u] /\ rev'[u] = rev[u]
                                  /\ seen'[u] = seen[u] /\ todo'[u] = todo[u]
  <2>1. CASE Return(i)
    BY <2>1 DEF Return, Forget
  <2>2. CASE ~Return(i)
    BY <1>1, <2>2 DEF Handle, Receive, ResolveCommunity, CheckDuplicate, CreateRevenue, local,
       Goto, TypeOK, ThreadTypeOK
  <2> QED
    BY <2>1, <2>2
<1>4. \A r \in Present : revenue'[r] = revenue[r] /\ r \in Present'
  BY <1>1 DEF Handle, Receive, ResolveCommunity, CheckDuplicate, CreateRevenue, store,
     Present, TypeOK, StoreTypeOK
<1>5. ASSUME NEW u \in Threads, u # i
      PROVE  PlanOK(u)'
  <2>1. pc[u] \in RunStages => rev[u] \in Present
    BY <1>1 DEF RunOK
  <2> QED
    BY <1>1, <1>2, <1>3, <1>4, <1>5, <2>1, PlanFrame
<1>6. CASE Return(i) \/ Receive(i) \/ ResolveCommunity(i) \/ CheckDuplicate(i)
  <2>1. revenue' = revenue
    <3>1. CASE Return(i)
      <4>1. pc'[i] = "idle"
        BY <3>1 DEF Return, Forget
      <4>2. ~Goto(i, "load")
        BY <1>1, <4>1 DEF Goto, TypeOK, ThreadTypeOK
      <4> QED
        BY <4>2 DEF Handle, Receive, ResolveCommunity, CheckDuplicate, CreateRevenue, store
    <3>2. CASE ~Return(i)
      BY <1>6, <3>2 DEF Receive, ResolveCommunity, CheckDuplicate, store
    <3> QED
      BY <3>1, <3>2
  <2>2. PlanOK(i)'
    <3>1. CASE Return(i)
      <4>1. pc'[i] = "idle" /\ todo'[i] = {}
        BY <3>1 DEF Return, Forget
      <4> QED
        BY <1>1, <4>1, PlanFrame
    <3>2. CASE ~Return(i)
      <4>1. /\ pc'[i] \in {"idle", "resolve", "check", "insert"} /\ todo' = todo
            /\ pc[i] \in {"idle", "resolve", "check"}
        BY <1>1, <1>6, <3>2 DEF Receive, ResolveCommunity, CheckDuplicate, Goto, local,
           TypeOK, ThreadTypeOK
      <4> QED
        BY <1>1, <4>1 DEF PlanOK, PayStages
    <3> QED
      BY <3>1, <3>2
  <2> QED
    BY <1>1, <1>2, <1>5, <2>1, <2>2 DEF AbsentUnsent, Present, Untouched
<1>7. CASE CreateRevenue(i) /\ ~Return(i)
  <2>1. PICK r \in RevIds \ Present :
          /\ revenue' = [revenue EXCEPT ![r] =
               [status |-> "pending", comm |-> event[i].comm,
                camp |-> event[i].camp, total |-> event[i].total]]
          /\ rev' = [rev EXCEPT ![i] = r]
          /\ Goto(i, "load") /\ todo' = todo /\ pc[i] = "insert"
    BY <1>7 DEF CreateRevenue
  <2>2. /\ rev'[i] = r /\ pc'[i] = "load" /\ revenue'[r].status = "pending"
        /\ \A s \in RevIds : s # r => revenue'[s] = revenue[s]
    BY <1>1, <2>1 DEF TypeOK, StoreTypeOK, ThreadTypeOK, Goto
  <2>3. PlanOK(i)'
    BY <1>1, <1>2, <2>1, <2>2 DEF PlanOK, AbsentUnsent, PayStages
  <2>4. AbsentUnsent'
    BY <1>1, <1>2, <1>4 DEF AbsentUnsent
  <2>5. \A s \in RevIds : Untouched(s) \/ WorkedOn(s)'
    BY <1>2, <2>2 DEF Untouched, WorkedOn, RunStages
  <2> QED
    BY <1>5, <2>3, <2>4, <2>5
<1> QED
  BY <1>6, <1>7 DEF Handle

LEMMA EnvironmentWithin ==
  ASSUME Triggers = {}, WithinInv, Environment
  PROVE  /\ \A u \in Threads : PlanOK(u)'
         /\ AbsentUnsent'
         /\ \A r \in RevIds : Untouched(r) \/ WorkedOn(r)'
<1>1. UNCHANGED <<revenue, ledger, rewards>>
  BY DEF Environment, Publish, triggerDistribute, RequestReturns, UpdateCommunityScore,
     UpdateMemberActivity, Crash, store, sent
<1>2. \A u \in Threads : \/ pc'[u] = "idle" /\ todo'[u] = {}
                         \/ /\ pc'[u] = pc[u] /\ rev'[u] = rev[u] /\ seen'[u] = seen[u]
                            /\ todo'[u] = todo[u]
  <2>1. CASE \E i \in Instances : Crash(i)
    BY <2>1 DEF Crash, Forget
  <2>2. CASE UNCHANGED <<pc, local>>
    BY <2>2 DEF local
  <2> QED
    BY <2>1, <2>2 DEF Environment, Publish, UpdateCommunityScore, UpdateMemberActivity
<1>3. \A u \in Threads : PlanOK(u)'
  BY <1>1, <1>2, PlanFrame DEF WithinInv
<1> QED
  BY <1>1, <1>3 DEF WithinInv, AbsentUnsent, Present, Untouched

LEMMA WithinInit ==
  ASSUME IsFiniteSet(Members)
  PROVE  Init => WithinInv
<1> SUFFICES ASSUME Init PROVE WithinInv
  OBVIOUS
<1>1. /\ \A t \in Threads : pc[t] = "idle" /\ todo[t] = {}
      /\ \A r \in RevIds : /\ \A m \in Members : rewards[r][m] = 0
                           /\ ledger[r].owner = 0 /\ ledger[r].platform = 0
                           /\ revenue[r].total = 0
  BY DEF Init, NoRow
<1>2. \A t \in Threads : PlanOK(t)
  BY <1>1 DEF PlanOK, PayStages
<1>3. \A r \in RevIds : SumFunctionOnSet(rewards[r], Members) = 0
  BY <1>1, SumZero
<1>4. WithinTotal
  BY <1>1, <1>3 DEF WithinTotal, UnitNano
<1> QED
  BY <1>1, <1>2, <1>4 DEF WithinInv, AbsentUnsent

LEMMA WithinStep ==
  ASSUME Triggers = {}, IsFiniteSet(Members)
  PROVE  PaidInv /\ WithinInv /\ [Next]_vars => WithinInv'
<1> SUFFICES ASSUME PaidInv, WithinInv, [Next]_vars
             PROVE  WithinInv'
  OBVIOUS
<1>1. PaidInv'
  BY PaidStep
<1>2. /\ \A u \in Threads : PlanOK(u)'
      /\ AbsentUnsent'
      /\ \A r \in RevIds : Untouched(r) \/ WorkedOn(r)'
  <2>1. CASE UNCHANGED vars
    <3>1. UNCHANGED <<revenue, ledger, rewards, pc, rev, seen, todo>>
      BY <2>1 DEF vars, store, sent, local
    <3>2. \A u \in Threads : PlanOK(u)'
      BY <3>1, PlanFrame DEF WithinInv
    <3> QED
      BY <3>1, <3>2 DEF WithinInv, AbsentUnsent, Present, Untouched
  <2>2. CASE Next
    BY <2>2, DistributeWithin, HandleWithin, EnvironmentWithin DEF Next
  <2> QED
    BY <2>1, <2>2
<1>3. RunsWithin'
  <2>1. (PaidInv /\ (\A t \in Threads : PlanOK(t)))'
    BY <1>1, <1>2
  <2> QED
    BY <2>1, RunWithin, PTL
<1>4. ASSUME NEW r \in RevIds
      PROVE  ledger'[r].owner + ledger'[r].platform + SumFunctionOnSet(rewards'[r], Members)
               <= revenue'[r].total * UnitNano
  <2>1. CASE Untouched(r)
    BY <2>1 DEF Untouched, WithinInv, WithinTotal
  <2>2. CASE WorkedOn(r)'
    BY <1>3, <2>2 DEF WorkedOn, RunsWithin
  <2> QED
    BY <1>2, <2>1, <2>2
<1>5. WithinTotal'
  BY <1>4 DEF WithinTotal
<1> QED
  BY <1>2, <1>5 DEF WithinInv

(* Without admin triggers: all that is ever sent for a row, to the owner,  *)
(* the platform and any number of members, stays within the revenue its    *)
(* campaign reported, whatever arrives while it is paid out.               *)
THEOREM SentWithinTotal ==
  ASSUME Triggers = {}, IsFiniteSet(Members)
  PROVE  Spec => []WithinTotal
<1>1. WithinInv => WithinTotal
  BY DEF WithinInv
<1> QED
  BY <1>1, PaidInit, PaidStep, WithinInit, WithinStep, PTL DEF Spec

-----------------------------------------------------------------------------
(***************************************************************************)
(* The platform is never ahead of the owner, triggers included: several    *)
(* threads may pay the same row, each of them the owner first.             *)
(*                                                                         *)
(* The strengthening counts the threads that have paid a row's owner and   *)
(* not yet its platform.  What such a thread is about to pay was fixed     *)
(* when it read the community, since the total of a row never changes.     *)
(*                                                                         *)
(* Nor do triggers pay a row whose community did not resolve.              *)
(***************************************************************************)

AfterOwner == {"members", "pay", "book", "platform"}

Owing(r) == {t \in Threads : pc[t] \in AfterOwner /\ rev[t] = r /\ Due(t).owner > 0}

OwnerAhead ==
  \A r \in RevIds :
    Cardinality(Owing(r)) + ledger[r].platformTimes <= ledger[r].ownerTimes

OrderInv == TypeOK /\ PaysPresentRow /\ OwnerAhead

(* A thread that reaches the stages after the owner's payment comes from   *)
(* there or from that payment, with what it knew.                          *)
Keeps(u) ==
  pc'[u] \in PayStages \ {"owner"} =>
    pc[u] \in PayStages /\ rev'[u] = rev[u] /\ seen'[u] = seen[u]

LEMMA KeepsDue ==
  ASSUME PaysPresentRow, NEW u \in Threads, Keeps(u), pc'[u] \in PayStages \ {"owner"},
         \A r \in Present : revenue'[r].total = revenue[r].total
  PROVE  Due(u)' = Due(u)
<1>1. pc[u] \in PayStages /\ rev'[u] = rev[u] /\ seen'[u] = seen[u]
  BY DEF Keeps
<1>2. rev[u] \in Present
  BY <1>1 DEF PaysPresentRow
<1>3. revenue'[rev'[u]].total = revenue[rev[u]].total
  BY <1>1, <1>2
<1> QED
  BY <1>1, <1>3 DEF Due

(* The threads that owe something, after a step in which nobody pays an    *)
(* owner, are among those that did before.                                 *)
LEMMA OwingFrame ==
  ASSUME IsFiniteSet(Threads), OrderInv,
         \A r \in Present : revenue'[r].total = revenue[r].total,
         \A u \in Threads : Keeps(u),
         \A u \in Threads : pc'[u] \in AfterOwner => pc[u] \in AfterOwner,
         ledger' = ledger
  PROVE  OwnerAhead'
<1> SUFFICES ASSUME NEW r \in RevIds
             PROVE  Cardinality(Owing(r)') + ledger[r].platformTimes <= ledger[r].ownerTimes
  BY DEF OwnerAhead
<1>1. Owing(r)' \subseteq Owing(r)
  BY KeepsDue DEF Owing, Keeps, AfterOwner, PayStages, OrderInv
<1>2. IsFiniteSet(Owing(r))
  BY FS_Subset DEF Owing
<1>3. /\ Cardinality(Owing(r)') <= Cardinality(Owing(r))
      /\ Cardinality(Owing(r)') \in Nat /\ Cardinality(Owing(r)) \in Nat
  BY <1>1, <1>2, FS_Subset, FS_CardinalityType
<1> QED
  BY <1>3 DEF OrderInv, OwnerAhead, TypeOK, SentTypeOK

-----------------------------------------------------------------------------
(* What a step leaves of the threads that pay. *)

LEMMA MoveKeeps ==
  ASSUME TypeOK, NEW t \in Threads, NEW label, Goto(t, label),
         label \in PayStages \ {"owner"} => pc[t] \in PayStages /\ rev'[t] = rev[t] /\ seen'[t] = seen[t],
         \A u \in Threads : u # t => rev'[u] = rev[u] /\ seen'[u] = seen[u]
  PROVE  \A u \in Threads : Keeps(u)
<1>1. \A u \in Threads : pc'[u] = IF u = t THEN label ELSE pc[u]
  BY DEF Goto, TypeOK, ThreadTypeOK
<1> QED
  BY <1>1 DEF Keeps

LEMMA ForgetKeeps ==
  ASSUME NEW T, Forget(T)
  PROVE  /\ \A u \in Threads : Keeps(u)
         /\ \A u \in Threads : pc'[u] \in AfterOwner => pc[u] \in AfterOwner
<1>1. \A u \in Threads :
        \/ pc'[u] = "idle"
        \/ pc'[u] = pc[u] /\ rev'[u] = rev[u] /\ seen'[u] = seen[u]
  BY DEF Forget
<1> QED
  BY <1>1 DEF Keeps, PayStages, AfterOwner

LEMMA DistributeKeeps ==
  ASSUME TypeOK, PaysPresentRow, NEW t \in Threads, Distribute(t)
  PROVE  \A u \in Threads : Keeps(u)
<1>1. CASE Return(t)
  BY <1>1, ForgetKeeps DEF Return
<1>2. CASE ~Return(t)
  <2>1. PICK label \in PayStages \cup {"community"} : Goto(t, label)
    BY <1>2 DEF Distribute, LoadRevenue, LoadCommunity, PayOwner, OpenPool,
       PayMember, BookMember, PayPlatform, MarkRevenueDistributed, Announce, PayStages
  <2>2. rev' = rev
    BY <1>2 DEF Distribute, LoadRevenue, LoadCommunity, PayOwner, OpenPool,
       PayMember, BookMember, PayPlatform, MarkRevenueDistributed, Announce, local
  <2>3. CASE LoadRevenue(t)
    <3>1. Goto(t, "community") /\ seen' = seen
      BY <1>2, <2>3 DEF LoadRevenue, local
    <3> QED
      BY <2>2, <3>1, MoveKeeps DEF PayStages
  <2>4. CASE LoadCommunity(t)
    <3>1. Goto(t, "owner") /\ \A u \in Threads : u # t => seen'[u] = seen[u]
      BY <1>2, <2>4 DEF LoadCommunity, TypeOK, ThreadTypeOK
    <3> QED
      BY <2>2, <3>1, MoveKeeps
  <2>5. CASE ~LoadRevenue(t) /\ ~LoadCommunity(t)
    <3>1. pc[t] \in PayStages /\ seen' = seen
      BY <1>2, <2>5 DEF Distribute, PayOwner, OpenPool, PayMember, BookMember,
         PayPlatform, MarkRevenueDistributed, Announce, local, PayStages
    <3> QED
      BY <2>1, <2>2, <3>1, MoveKeeps
  <2> QED
    BY <2>3, <2>4, <2>5
<1> QED
  BY <1>1, <1>2

(* Only the owner's payment makes a thread owe the platform's. *)
LEMMA DistributeStages ==
  ASSUME TypeOK, NEW t \in Threads, Distribute(t)
  PROVE  /\ \A u \in Threads : u # t => (pc'[u] \in AfterOwner => pc[u] \in AfterOwner)
         /\ PayOwner(t) \/ (pc'[t] \in AfterOwner => pc[t] \in AfterOwner)
         /\ PayPlatform(t) => pc[t] = "platform" /\ pc'[t] = "mark"
<1>1. CASE Return(t)
  BY <1>1, ForgetKeeps DEF Return, PayPlatform, Forget, Goto, TypeOK, ThreadTypeOK
<1>2. CASE ~Return(t)
  <2>1. PICK label \in PayStages \cup {"community"} : Goto(t, label)
    BY <1>2 DEF Distribute, LoadRevenue, LoadCommunity, PayOwner, OpenPool,
       PayMember, BookMember, PayPlatform, MarkRevenueDistributed, Announce, PayStages
  <2>2. \A u \in Threads : pc'[u] = IF u = t THEN label ELSE pc[u]
    BY <2>1 DEF Goto, TypeOK, ThreadTypeOK
  <2>3. PayOwner(t) \/ (label \in AfterOwner => pc[t] \in AfterOwner)
    BY <1>2, <2>2 DEF Distribute, LoadRevenue, LoadCommunity, OpenPool, Goto,
       PayMember, BookMember, PayPlatform, MarkRevenueDistributed, Announce, AfterOwner,
       TypeOK, ThreadTypeOK
  <2>4. PayPlatform(t) => pc[t] = "platform" /\ label = "mark"
    BY <2>2 DEF PayPlatform, Goto, TypeOK, ThreadTypeOK
  <2> QED
    BY <2>2, <2>3, <2>4
<1> QED
  BY <1>1, <1>2

-----------------------------------------------------------------------------
(* The two payments. *)

LEMMA OwnerStep ==
  ASSUME IsFiniteSet(Threads), OrderInv, NEW t \in Threads, PayOwner(t)
  PROVE  OwnerAhead'
<1> USE DEF OrderInv
<1>1. /\ rev[t] \in RevIds /\ Due(t).owner \in Nat
      /\ pc[t] = "owner" /\ revenue' = revenue
  BY DueType DEF PayOwner, PayStages, store
<1>2. \A u \in Threads : Keeps(u)
  BY DistributeKeeps DEF Distribute
<1>3. \A u \in Threads : u # t => (pc'[u] \in AfterOwner => pc[u] \in AfterOwner)
  BY DistributeStages DEF Distribute
<1>4. \A u \in Threads : pc'[u] \in AfterOwner => Due(u)' = Due(u) /\ rev'[u] = rev[u]
  BY <1>1, <1>2, KeepsDue DEF Keeps, AfterOwner, PayStages
<1> SUFFICES ASSUME NEW r \in RevIds
             PROVE  Cardinality(Owing(r)') + ledger'[r].platformTimes <= ledger'[r].ownerTimes
  BY DEF OwnerAhead
<1>5. /\ IsFiniteSet(Owing(r)) /\ Cardinality(Owing(r)) \in Nat
      /\ t \notin Owing(r)
  BY <1>1, FS_Subset, FS_CardinalityType DEF Owing, AfterOwner
<1>6. /\ Cardinality(Owing(r)) + ledger[r].platformTimes <= ledger[r].ownerTimes
      /\ ledger[r].platformTimes \in Nat /\ ledger[r].ownerTimes \in Nat
  BY DEF OwnerAhead, TypeOK, SentTypeOK
<1>7. CASE r = rev[t] /\ Due(t).owner > 0
  <2>1. Owing(r)' \subseteq Owing(r) \cup {t}
    BY <1>3, <1>4 DEF Owing
  <2>2. /\ IsFiniteSet(Owing(r) \cup {t})
        /\ Cardinality(Owing(r) \cup {t}) = Cardinality(Owing(r)) + 1
    BY <1>5, FS_AddElement
  <2>3. Cardinality(Owing(r)') <= Cardinality(Owing(r)) + 1 /\ Cardinality(Owing(r)') \in Nat
    BY <2>1, <2>2, FS_Subset, FS_CardinalityType
  <2>4. /\ ledger'[r].ownerTimes = ledger[r].ownerTimes + 1
        /\ ledger'[r].platformTimes = ledger[r].platformTimes
    BY <1>1, <1>7 DEF PayOwner, TypeOK, SentTypeOK
  <2> QED
    BY <1>5, <1>6, <2>3, <2>4
<1>8. CASE ~(r = rev[t] /\ Due(t).owner > 0)
  <2>1. Owing(r)' \subseteq Owing(r)
    BY <1>3, <1>4, <1>8 DEF Owing
  <2>2. Cardinality(Owing(r)') <= Cardinality(Owing(r)) /\ Cardinality(Owing(r)') \in Nat
    BY <1>5, <2>1, FS_Subset, FS_CardinalityType
  <2>3. ledger'[r] = ledger[r]
    BY <1>1, <1>8 DEF PayOwner, TypeOK, SentTypeOK
  <2> QED
    BY <1>5, <1>6, <2>2, <2>3
<1> QED
  BY <1>7, <1>8

LEMMA PlatformStep ==
  ASSUME IsFiniteSet(Threads), OrderInv, NEW t \in Threads, PayPlatform(t)
  PROVE  OwnerAhead'
<1> USE DEF OrderInv
<1>1. /\ rev[t] \in RevIds /\ Due(t).owner \in Nat /\ Due(t).platform \in Nat
      /\ pc[t] = "platform" /\ pc'[t] = "mark" /\ revenue' = revenue
  BY DueType, DistributeStages DEF PayPlatform, PayStages, store, Distribute
<1>2. Due(t).platform > 0 => Due(t).owner > 0
  BY <1>1, SharesAgree DEF PayStages
<1>3. \A u \in Threads : Keeps(u)
  BY DistributeKeeps DEF Distribute
<1>4. \A u \in Threads : pc'[u] \in AfterOwner => u # t /\ pc[u] \in AfterOwner
  BY <1>1, DistributeStages DEF Distribute, AfterOwner
<1>5. \A u \in Threads : pc'[u] \in AfterOwner => Due(u)' = Due(u) /\ rev'[u] = rev[u]
  BY <1>1, <1>3, KeepsDue DEF Keeps, AfterOwner, PayStages
<1> SUFFICES ASSUME NEW r \in RevIds
             PROVE  Cardinality(Owing(r)') + ledger'[r].platformTimes <= ledger'[r].ownerTimes
  BY DEF OwnerAhead
<1>6. IsFiniteSet(Owing(r)) /\ Cardinality(Owing(r)) \in Nat
  BY FS_Subset, FS_CardinalityType DEF Owing
<1>7. /\ Cardinality(Owing(r)) + ledger[r].platformTimes <= ledger[r].ownerTimes
      /\ ledger[r].platformTimes \in Nat /\ ledger[r].ownerTimes \in Nat
  BY DEF OwnerAhead, TypeOK, SentTypeOK
<1>8. CASE r = rev[t] /\ Due(t).platform > 0
  <2>1. t \in Owing(r) /\ Owing(r)' \subseteq Owing(r) \ {t}
    BY <1>1, <1>2, <1>4, <1>5, <1>8 DEF Owing, AfterOwner
  <2>2. /\ IsFiniteSet(Owing(r) \ {t})
        /\ Cardinality(Owing(r) \ {t}) = Cardinality(Owing(r)) - 1
    BY <1>6, <2>1, FS_RemoveElement
  <2>3. Cardinality(Owing(r)') <= Cardinality(Owing(r)) - 1 /\ Cardinality(Owing(r)') \in Nat
    BY <2>1, <2>2, FS_Subset, FS_CardinalityType
  <2>4. /\ ledger'[r].platformTimes = ledger[r].platformTimes + 1
        /\ ledger'[r].ownerTimes = ledger[r].ownerTimes
    BY <1>1, <1>8 DEF PayPlatform, TypeOK, SentTypeOK
  <2> QED
    BY <1>6, <1>7, <2>3, <2>4
<1>9. CASE ~(r = rev[t] /\ Due(t).platform > 0)
  <2>1. Owing(r)' \subseteq Owing(r)
    BY <1>4, <1>5 DEF Owing
  <2>2. Cardinality(Owing(r)') <= Cardinality(Owing(r)) /\ Cardinality(Owing(r)') \in Nat
    BY <1>6, <2>1, FS_Subset, FS_CardinalityType
  <2>3. ledger'[r] = ledger[r]
    BY <1>1, <1>9 DEF PayPlatform, TypeOK, SentTypeOK
  <2> QED
    BY <1>6, <1>7, <2>2, <2>3
<1> QED
  BY <1>8, <1>9

-----------------------------------------------------------------------------
(* The handlers and the environment pay nobody. *)

LEMMA HandleKeeps ==
  ASSUME TypeOK, NEW i \in Instances, Handle(i)
  PROVE  /\ \A u \in Threads : Keeps(u)
         /\ \A u \in Threads : pc'[u] \in AfterOwner => pc[u] \in AfterOwner
         /\ \A r \in Present : revenue'[r] = revenue[r]
         /\ Present \subseteq Present' /\ ledger' = ledger
<1> USE DEF Threads
<1>1. (\A r \in Present : revenue'[r] = revenue[r]) /\ ledger' = ledger
  BY DEF Handle, Receive, ResolveCommunity, CheckDuplicate, CreateRevenue, store, sent,
     Present, TypeOK, StoreTypeOK
<1>2. Present \subseteq Present'
  BY <1>1 DEF Present
<1>3. CASE Return(i)
  BY <1>1, <1>2, <1>3, ForgetKeeps DEF Return
<1>4. CASE ~Return(i)
  <2>1. \A u \in Threads : u # i => rev'[u] = rev[u] /\ seen'[u] = seen[u]
    BY <1>4 DEF Handle, Receive, ResolveCommunity, CheckDuplicate, CreateRevenue, local,
       TypeOK, ThreadTypeOK
  <2>2. CASE pc' = pc
    BY <1>1, <1>2, <1>4, <2>2 DEF Handle, Receive, ResolveCommunity, CheckDuplicate,
       CreateRevenue, local, Goto, Keeps, TypeOK, ThreadTypeOK, PayStages
  <2>3. CASE pc' # pc
    <3>1. PICK label \in {"resolve", "check", "insert", "load"} : Goto(i, label)
      BY <1>4, <2>3 DEF Handle, Receive, ResolveCommunity, CheckDuplicate, CreateRevenue
    <3>2. \A u \in Threads : Keeps(u)
      BY <2>1, <3>1, MoveKeeps DEF PayStages
    <3>3. \A u \in Threads : pc'[u] \in AfterOwner => pc[u] \in AfterOwner
      BY <3>1 DEF Goto, TypeOK, ThreadTypeOK, AfterOwner
    <3> QED
      BY <1>1, <1>2, <3>2, <3>3
  <2> QED
    BY <2>2, <2>3
<1> QED
  BY <1>3, <1>4

LEMMA HandlePaysPresent ==
  ASSUME TypeOK, PaysPresentRow, NEW i \in Instances, Handle(i)
  PROVE  PaysPresentRow'
<1> USE DEF Threads
<1>1. Present \subseteq Present'
  BY HandleKeeps
<1>2. \A u \in Threads : pc'[u] \in PayStages \cup {"community"} =>
        pc'[u] = pc[u] /\ rev'[u] = rev[u]
  <2>1. CASE Return(i)
    BY <2>1, ForgetMoves DEF Return, PayStages
  <2>2. CASE ~Return(i) /\ pc' # pc
    BY <2>2 DEF Handle, Receive, ResolveCommunity, CheckDuplicate, CreateRevenue,
       local, Goto, TypeOK, ThreadTypeOK, PayStages
  <2>3. CASE ~Return(i) /\ pc' = pc
    BY <2>3 DEF Handle, Receive, ResolveCommunity, CheckDuplicate, CreateRevenue,
       local, Goto, TypeOK, ThreadTypeOK
  <2> QED
    BY <2>1, <2>2, <2>3
<1> QED
  BY <1>1, <1>2 DEF PaysPresentRow

LEMMA EnvironmentKeeps ==
  ASSUME TypeOK, Environment
  PROVE  /\ \A u \in Threads : Keeps(u)
         /\ \A u \in Threads : pc'[u] \in AfterOwner => pc[u] \in AfterOwner
         /\ ledger' = ledger
<1>1. ledger' = ledger
  BY DEF Environment, Publish, triggerDistribute, RequestReturns,
     UpdateCommunityScore, UpdateMemberActivity, Crash, sent
<1>2. CASE \E i \in Instances : Crash(i)
  <2>1. PICK T : Forget(T)
    BY <1>2 DEF Crash
  <2> QED
    BY <1>1, <2>1, ForgetKeeps
<1>3. CASE \E t \in Triggers, r \in Present \cup {NoId} : triggerDistribute(t, r)
  <2>1. PICK t \in Triggers : /\ Goto(t, "load") /\ seen' = seen
                              /\ \E r : rev' = [rev EXCEPT ![t] = r]
    BY <1>3 DEF triggerDistribute
  <2>2. \A u \in Threads : u # t => rev'[u] = rev[u]
    BY <2>1 DEF TypeOK, ThreadTypeOK
  <2>3. \A u \in Threads : Keeps(u)
    BY <2>1, <2>2, MoveKeeps DEF PayStages, Threads
  <2>4. \A u \in Threads : pc'[u] \in AfterOwner => pc[u] \in AfterOwner
    BY <2>1 DEF Goto, TypeOK, ThreadTypeOK, AfterOwner
  <2> QED
    BY <1>1, <2>3, <2>4
<1>4. CASE pc' = pc /\ rev' = rev /\ seen' = seen
  BY <1>1, <1>4 DEF Keeps
<1> QED
  BY <1>2, <1>3, <1>4 DEF Environment, Publish, RequestReturns, UpdateCommunityScore,
     UpdateMemberActivity, local

-----------------------------------------------------------------------------
LEMMA OrderInit == Init => OrderInv
<1> SUFFICES ASSUME Init PROVE OrderInv
  OBVIOUS
<1>1. \A t \in Threads : pc[t] = "idle"
  BY DEF Init
<1>2. \A r \in RevIds : Owing(r) = {}
  BY <1>1 DEF Owing, AfterOwner
<1>3. OwnerAhead
  <2>1. Cardinality({}) = 0
    BY FS_EmptySet
  <2>2. \A r \in RevIds : ledger[r].platformTimes = 0 /\ ledger[r].ownerTimes = 0
    BY DEF Init
  <2> QED
    BY <1>2, <2>1, <2>2 DEF OwnerAhead
<1> QED
  BY <1>1, <1>3, TypeInit DEF OrderInv, PaysPresentRow, PayStages

LEMMA OrderStep ==
  ASSUME IsFiniteSet(Threads)
  PROVE  OrderInv /\ [Next]_vars => OrderInv'
<1> SUFFICES ASSUME OrderInv, [Next]_vars PROVE OrderInv'
  OBVIOUS
<1>0. TypeOK'
  BY TypeStep DEF OrderInv
<1>1. CASE UNCHANGED vars
  <2>1. UNCHANGED <<pc, rev, seen, revenue, ledger>>
    BY <1>1 DEF vars, store, sent, local
  <2> QED
    BY <1>0, <2>1 DEF OrderInv, PaysPresentRow, Present, OwnerAhead, Owing, Due
<1>2. ASSUME NEW i \in Instances, Handle(i)
      PROVE  OrderInv'
  BY <1>0, <1>2, HandleKeeps, HandlePaysPresent, OwingFrame DEF OrderInv
<1>3. ASSUME NEW t \in Threads, Distribute(t)
      PROVE  OrderInv'
  <2>1. /\ SameRows
        /\ \A u \in Threads : pc'[u] \in PayStages \cup {"community"} =>
             rev'[u] = rev[u] /\ rev[u] \in Present
    BY <1>3, DistributeRows DEF OrderInv
  <2>2. PaysPresentRow'
    BY <2>1 DEF PaysPresentRow, SameRows
  <2>3. CASE PayOwner(t) \/ PayPlatform(t)
    BY <1>0, <2>2, <2>3, OwnerStep, PlatformStep DEF OrderInv
  <2>4. CASE ~PayOwner(t) /\ ~PayPlatform(t)
    <3>1. ledger' = ledger
      BY <1>3, <2>4 DEF Distribute, LoadRevenue, LoadCommunity, OpenPool, PayMember,
         BookMember, MarkRevenueDistributed, Announce, sent
    <3>2. \A u \in Threads : Keeps(u)
      BY <1>3, DistributeKeeps DEF OrderInv
    <3>3. \A u \in Threads : pc'[u] \in AfterOwner => pc[u] \in AfterOwner
      BY <1>3, <2>4, DistributeStages DEF OrderInv
    <3>4. \A r \in Present : revenue'[r].total = revenue[r].total
      BY <2>1 DEF SameRows
    <3> QED
      BY <1>0, <2>2, <3>1, <3>2, <3>3, <3>4, OwingFrame DEF OrderInv
  <2> QED
    BY <2>3, <2>4
<1>4. CASE Environment
  <2>1. /\ SameRows
        /\ \A u \in Threads : pc'[u] \in PayStages \cup {"community"} =>
             pc'[u] = pc[u] /\ rev'[u] = rev[u]
    BY <1>4, EnvironmentRows DEF OrderInv
  <2>2. PaysPresentRow'
    BY <2>1 DEF PaysPresentRow, SameRows, OrderInv
  <2>3. \A r \in Present : revenue'[r].total = revenue[r].total
    BY <2>1 DEF SameRows
  <2> QED
    BY <1>0, <1>4, <2>2, <2>3, EnvironmentKeeps, OwingFrame DEF OrderInv
<1> QED
  BY <1>1, <1>2, <1>3, <1>4 DEF Next

(* A row's platform is never paid more often than its owner, with any      *)
(* number of instances, admin triggers on the same row, failed calls and   *)
(* crashes.                                                                *)
THEOREM OwnerFirst ==
  ASSUME IsFiniteSet(Threads)
  PROVE  Spec => []OwnerPaidFirst
<1>1. OrderInv => OwnerPaidFirst
  <2> SUFFICES ASSUME OrderInv, NEW r \in RevIds
               PROVE  ledger[r].platformTimes <= ledger[r].ownerTimes
    BY DEF OwnerPaidFirst
  <2>1. Cardinality(Owing(r)) \in Nat
    BY FS_Subset, FS_CardinalityType DEF Owing
  <2> QED
    BY <2>1 DEF OrderInv, OwnerAhead, TypeOK, SentTypeOK
<1> QED
  BY <1>1, OrderInit, OrderStep, PTL DEF Spec

-----------------------------------------------------------------------------
(* A row without a community.  A database that answers does not find the   *)
(* zero UUID, so only a thread whose context is cancelled gets past the    *)
(* read; it holds the zero community and its later calls fail as well.     *)

OrphanOK(t) ==
  pc[t] \in PayStages /\ revenue[rev[t]].comm = NoId =>
    t \in cancelled /\ seen[t].quality = 0

AbsentUnpaid ==
  \A r \in RevIds \ Present : ledger[r].ownerTimes = 0 /\ ledger[r].platformTimes = 0

OrphanInv ==
  /\ TypeOK /\ PaysPresentRow /\ OrphansUnpaid /\ AbsentUnpaid
  /\ \A t \in Threads : OrphanOK(t)

(* A thread that pays, after a step, has paid or has just read its row. *)
Proceeds(u) ==
  pc'[u] \in PayStages =>
    /\ pc[u] \in PayStages /\ rev'[u] = rev[u] /\ seen'[u] = seen[u]
    /\ u \in cancelled => u \in cancelled'

LEMMA OrphanFrame ==
  ASSUME OrphanInv, NEW u \in Threads, Proceeds(u),
         \A r \in Present : revenue'[r].comm = revenue[r].comm
  PROVE  OrphanOK(u)'
<1>1. SUFFICES ASSUME pc'[u] \in PayStages, revenue'[rev'[u]].comm = NoId
               PROVE  u \in cancelled' /\ seen'[u].quality = 0
  BY DEF OrphanOK
<1>2. pc[u] \in PayStages /\ rev'[u] = rev[u] /\ seen'[u] = seen[u]
  BY <1>1 DEF Proceeds
<1>3. rev[u] \in Present
  BY <1>2 DEF OrphanInv, PaysPresentRow
<1>4. u \in cancelled /\ seen[u].quality = 0
  BY <1>1, <1>2, <1>3 DEF OrphanInv, OrphanOK
<1> QED
  BY <1>1, <1>2, <1>4 DEF Proceeds

LEMMA DistributeOthers ==
  ASSUME TypeOK, NEW t \in Threads, Distribute(t)
  PROVE  /\ \A u \in Threads : u # t =>
              /\ pc'[u] = pc[u] /\ rev'[u] = rev[u] /\ seen'[u] = seen[u]
              /\ u \in cancelled => u \in cancelled'
         /\ \A r \in RevIds : r # rev[t] => revenue'[r] = revenue[r] /\ ledger'[r] = ledger[r]
         /\ \/ pc'[t] = "idle"
            \/ rev'[t] = rev[t] /\ cancelled' = cancelled
<1>1. \A r \in RevIds : r # rev[t] => revenue'[r] = revenue[r] /\ ledger'[r] = ledger[r]
  BY DEF Distribute, LoadRevenue, LoadCommunity, PayOwner, OpenPool, PayMember, BookMember,
     PayPlatform, MarkRevenueDistributed, Announce, store, sent, TypeOK, StoreTypeOK, SentTypeOK
<1>2. CASE Return(t)
  BY <1>1, <1>2 DEF Return, Forget
<1>3. CASE ~Return(t)
  <2>1. rev' = rev /\ cancelled' = cancelled
    BY <1>3 DEF Distribute, LoadRevenue, LoadCommunity, PayOwner, OpenPool, PayMember, BookMember,
       PayPlatform, MarkRevenueDistributed, Announce, local
  <2>2. \A u \in Threads : u # t => pc'[u] = pc[u] /\ seen'[u] = seen[u]
    BY <1>3 DEF Distribute, LoadRevenue, LoadCommunity, PayOwner, OpenPool, PayMember, BookMember,
       PayPlatform, MarkRevenueDistributed, Announce, local, Goto, TypeOK, ThreadTypeOK
  <2> QED
    BY <1>1, <2>1, <2>2
<1> QED
  BY <1>2, <1>3

LEMMA NothingFails ==
  ASSUME MaxFaults = 0, TypeOK, NEW t, Failed(t)
  PROVE  t \in cancelled
  BY DEF Failed, TypeOK, CountTypeOK

(* The payout of an orphan pays nobody and cannot mark it. *)
LEMMA OrphanPayout ==
  ASSUME MaxFaults = 0, OrphanInv, NEW t \in Threads, Distribute(t), NEW r \in Present,
         r = rev[t], revenue[r].comm = NoId
  PROVE  revenue' = revenue /\ ledger'[r] = ledger[r] /\ OrphanOK(t)'
<1>0. TypeOK /\ r \in RevIds
  BY DEF OrphanInv, Present
<1>1. CASE LoadRevenue(t)
  <2>1. pc'[t] \in {"idle", "community"}
    BY <1>0, <1>1 DEF LoadRevenue, Return, Forget, Goto, TypeOK, ThreadTypeOK
  <2> QED
    BY <1>1, <2>1 DEF LoadRevenue, store, sent, OrphanOK, PayStages
<1>2. CASE LoadCommunity(t)
  <2>1. NoId \notin Registered
    BY IdsAssumption
  <2>2. CASE Return(t)
    BY <1>2, <2>2 DEF LoadCommunity, store, sent, OrphanOK, PayStages, Return, Forget
  <2>3. CASE ~Return(t)
    <3>1. t \in cancelled /\ seen' = [seen EXCEPT ![t] = ZeroCommunity] /\ UNCHANGED <<store, sent>>
          /\ cancelled' = cancelled
      BY <1>0, <1>2, <2>1, <2>3, NothingFails DEF LoadCommunity
    <3>2. seen'[t].quality = 0
      BY <1>0, <3>1 DEF ZeroCommunity, TypeOK, ThreadTypeOK
    <3> QED
      BY <3>1, <3>2 DEF OrphanOK, store, sent
  <2> QED
    BY <2>2, <2>3
<1>3. CASE pc[t] \in PayStages
  <2>1. t \in cancelled /\ seen[t].quality = 0
    BY <1>3 DEF OrphanInv, OrphanOK
  <2>2. ~(Due(t).owner > 0) /\ ~(Due(t).platform > 0)
    <3>1. revenue[r].total \in Nat /\ Due(t) = Amounts(seen[t].type, 0, revenue[r].total)
      BY <1>0, <2>1 DEF Due, TypeOK, StoreTypeOK
    <3> QED
      BY <3>1, ZeroScorePaysNothing
  <2>3. ~Answered(t)
    BY <2>1 DEF Answered
  <2>4. UNCHANGED <<revenue, ledger>>
    BY <1>3, <2>2, <2>3 DEF Distribute, LoadRevenue, LoadCommunity, PayOwner, OpenPool, PayMember,
       BookMember, PayPlatform, MarkRevenueDistributed, Announce, store, sent, PayStages
  <2>5. pc'[t] = "idle" \/ UNCHANGED <<rev, seen, cancelled>>
    BY <1>3 DEF Distribute, LoadRevenue, LoadCommunity, PayOwner, OpenPool, PayMember, BookMember,
       PayPlatform, MarkRevenueDistributed, Announce, local, PayStages, Return, Forget
  <2> QED
    BY <2>1, <2>4, <2>5 DEF OrphanOK, PayStages
<1> QED
  BY <1>1, <1>2, <1>3 DEF Distribute, PayOwner, OpenPool, PayMember, BookMember, PayPlatform,
     MarkRevenueDistributed, Announce, PayStages

LEMMA DistributeOrphan ==
  ASSUME MaxFaults = 0, OrphanInv, NEW t \in Threads, Distribute(t)
  PROVE  OrphansUnpaid' /\ AbsentUnpaid' /\ \A u \in Threads : OrphanOK(u)'
<1>0. TypeOK /\ PaysPresentRow
  BY DEF OrphanInv
<1>1. /\ SameRows
      /\ \A u \in Threads : pc'[u] \in PayStages \cup {"community"} =>
           rev'[u] = rev[u] /\ rev[u] \in Present
  BY <1>0, DistributeRows
<1>2. /\ \A u \in Threads : u # t =>
              /\ pc'[u] = pc[u] /\ rev'[u] = rev[u] /\ seen'[u] = seen[u]
              /\ u \in cancelled => u \in cancelled'
      /\ \A r \in RevIds : r # rev[t] => revenue'[r] = revenue[r] /\ ledger'[r] = ledger[r]
      /\ pc'[t] = "idle" \/ (rev'[t] = rev[t] /\ cancelled' = cancelled)
  BY <1>0, DistributeOthers
<1>3. \A u \in Threads : u # t => OrphanOK(u)'
  BY <1>1, <1>2, OrphanFrame DEF Proceeds, SameRows
<1>4. ASSUME NEW r \in Present, r = rev[t], revenue[r].comm = NoId
      PROVE  revenue' = revenue /\ ledger'[r] = ledger[r] /\ OrphanOK(t)'
  BY <1>4, OrphanPayout
<1>5. OrphanOK(t)'
  <2>1. CASE rev[t] \in Present /\ revenue[rev[t]].comm = NoId
    BY <1>4, <2>1
  <2>2. CASE ~(rev[t] \in Present /\ revenue[rev[t]].comm = NoId)
    BY <1>1, <2>2 DEF OrphanOK, SameRows
  <2> QED
    BY <2>1, <2>2
<1>6. \A r \in Present : revenue[r].comm = NoId =>
        revenue'[r] = revenue[r] /\ ledger'[r] = ledger[r]
  BY <1>2, <1>4 DEF Present
<1>7. OrphansUnpaid'
  BY <1>1, <1>6 DEF OrphanInv, OrphansUnpaid, SameRows
<1>8. AbsentUnpaid'
  <2>1. ledger' # ledger => rev[t] \in Present
    BY <1>0 DEF Distribute, LoadRevenue, LoadCommunity, PayOwner, OpenPool, PayMember, BookMember,
       PayPlatform, MarkRevenueDistributed, Announce, sent, PaysPresentRow, PayStages
  <2> QED
    BY <1>1, <1>2, <2>1 DEF OrphanInv, AbsentUnpaid, SameRows
<1> QED
  BY <1>3, <1>5, <1>7, <1>8

LEMMA HandleOrphan ==
  ASSUME OrphanInv, NEW i \in Instances, Handle(i)
  PROVE  OrphansUnpaid' /\ AbsentUnpaid' /\ \A u \in Threads : OrphanOK(u)'
<1> USE DEF Threads
<1>0. TypeOK /\ PaysPresentRow
  BY DEF OrphanInv
<1>1. /\ \A r \in Present : revenue'[r] = revenue[r]
      /\ Present \subseteq Present' /\ ledger' = ledger
  BY <1>0, HandleKeeps
<1>2. \A u \in Threads : Proceeds(u)
  <2>1. CASE Return(i)
    BY <2>1 DEF Return, Forget, Proceeds, PayStages
  <2>2. CASE ~Return(i)
    <3>1. cancelled' = cancelled /\ \A u \in Threads : u # i =>
            pc'[u] = pc[u] /\ rev'[u] = rev[u] /\ seen'[u] = seen[u]
      BY <1>0, <2>2 DEF Handle, Receive, ResolveCommunity, CheckDuplicate, CreateRevenue, local,
         Goto, TypeOK, ThreadTypeOK
    <3>2. UNCHANGED <<pc, rev, seen>> \/ pc'[i] \in {"resolve", "check", "insert", "load"}
      BY <1>0, <2>2 DEF Handle, Receive, ResolveCommunity, CheckDuplicate, CreateRevenue, local,
         Goto, TypeOK, ThreadTypeOK
    <3> QED
      BY <3>1, <3>2 DEF Proceeds, PayStages
  <2> QED
    BY <2>1, <2>2
<1>3. \A u \in Threads : OrphanOK(u)'
  BY <1>1, <1>2, OrphanFrame
<1>4. AbsentUnpaid'
  BY <1>1 DEF OrphanInv, AbsentUnpaid
<1>5. \A r \in RevIds \ Present : revenue'[r].status \in {"absent", "pending"}
  <2>1. CASE revenue' = revenue
    BY <2>1 DEF Present
  <2>2. CASE revenue' # revenue
    <3>1. PICK s \in RevIds : revenue' = [revenue EXCEPT ![s] =
            [status |-> "pending", comm |-> event[i].comm,
             camp |-> event[i].camp, total |-> event[i].total]]
      BY <2>2 DEF Handle, Receive, ResolveCommunity, CheckDuplicate, CreateRevenue, store
    <3> QED
      BY <1>0, <3>1 DEF Present, TypeOK, StoreTypeOK
  <2> QED
    BY <2>1, <2>2
<1>6. OrphansUnpaid'
  <2> SUFFICES ASSUME NEW r \in Present', revenue'[r].comm = NoId
               PROVE  /\ revenue'[r].status = "pending"
                      /\ ledger'[r].ownerTimes = 0 /\ ledger'[r].platformTimes = 0
    BY DEF OrphansUnpaid
  <2>1. CASE r \in Present
    BY <1>1, <2>1 DEF OrphanInv, OrphansUnpaid
  <2>2. CASE r \notin Present
    BY <1>1, <1>5, <2>2 DEF OrphanInv, AbsentUnpaid, Present
  <2> QED
    BY <2>1, <2>2
<1> QED
  BY <1>3, <1>4, <1>6

LEMMA EnvironmentOrphan ==
  ASSUME OrphanInv, Environment
  PROVE  OrphansUnpaid' /\ AbsentUnpaid' /\ \A u \in Threads : OrphanOK(u)'
<1>0. TypeOK
  BY DEF OrphanInv
<1>1. UNCHANGED <<revenue, ledger>>
  BY DEF Environment, Publish, triggerDistribute, RequestReturns, UpdateCommunityScore,
     UpdateMemberActivity, Crash, store, sent
<1>2. \A u \in Threads : Proceeds(u)
  <2>1. CASE \E i \in Instances : Crash(i)
    BY <2>1 DEF Crash, Forget, Proceeds, PayStages
  <2>2. ASSUME NEW t \in Triggers, NEW r \in Present \cup {NoId}, triggerDistribute(t, r)
        PROVE  \A u \in Threads : Proceeds(u)
    BY <1>0, <2>2 DEF triggerDistribute, Goto, Proceeds, PayStages, TypeOK, ThreadTypeOK, Threads
  <2>3. CASE UNCHANGED <<pc, rev, seen>> /\ cancelled \subseteq cancelled'
    BY <2>3 DEF Proceeds
  <2> QED
    BY <2>1, <2>2, <2>3 DEF Environment, Publish, RequestReturns, UpdateCommunityScore,
       UpdateMemberActivity, local
<1>3. \A u \in Threads : OrphanOK(u)'
  BY <1>1, <1>2, OrphanFrame
<1> QED
  BY <1>1, <1>3 DEF OrphanInv, OrphansUnpaid, AbsentUnpaid, Present

LEMMA OrphanInit == Init => OrphanInv
<1> SUFFICES ASSUME Init PROVE OrphanInv
  OBVIOUS
<1>1. /\ \A t \in Threads : pc[t] = "idle"
      /\ \A r \in RevIds : ledger[r].ownerTimes = 0 /\ ledger[r].platformTimes = 0
      /\ Present = {}
  BY DEF Init, NoRow, Present
<1> QED
  BY <1>1, TypeInit DEF OrphanInv, PaysPresentRow, OrphansUnpaid, AbsentUnpaid, OrphanOK, PayStages

LEMMA OrphanStep ==
  ASSUME MaxFaults = 0
  PROVE  OrphanInv /\ [Next]_vars => OrphanInv'
<1> SUFFICES ASSUME OrphanInv, [Next]_vars PROVE OrphanInv'
  OBVIOUS
<1>0. TypeOK' /\ TypeOK /\ PaysPresentRow
  BY TypeStep DEF OrphanInv
<1>1. CASE UNCHANGED vars
  BY <1>0, <1>1 DEF vars, store, sent, local, OrphanInv, PaysPresentRow, OrphansUnpaid,
     AbsentUnpaid, OrphanOK, Present
<1>2. ASSUME NEW i \in Instances, Handle(i)
      PROVE  OrphanInv'
  BY <1>0, <1>2, HandleOrphan, HandlePaysPresent DEF OrphanInv
<1>3. ASSUME NEW t \in Threads, Distribute(t)
      PROVE  OrphanInv'
  <2>1. PaysPresentRow'
    BY <1>0, <1>3, DistributeRows DEF PaysPresentRow, SameRows
  <2> QED
    BY <1>0, <1>3, <2>1, DistributeOrphan DEF OrphanInv
<1>4. CASE Environment
  <2>1. PaysPresentRow'
    BY <1>0, <1>4, EnvironmentRows DEF PaysPresentRow, SameRows
  <2> QED
    BY <1>0, <1>4, <2>1, EnvironmentOrphan DEF OrphanInv
<1> QED
  BY <1>1, <1>2, <1>3, <1>4 DEF Next

(* With a database that answers, a row whose community did not resolve is  *)
(* never paid and stays pending, however often it is triggered and         *)
(* whichever requests return while their payout runs.                      *)
THEOREM OrphansStayUnpaid ==
  ASSUME MaxFaults = 0
  PROVE  Spec => []OrphansUnpaid
<1>1. OrphanInv => OrphansUnpaid
  BY DEF OrphanInv
<1> QED
  BY <1>1, OrphanInit, OrphanStep, PTL DEF Spec

=============================================================================
