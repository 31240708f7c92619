-------------------------- MODULE MembershipProofs --------------------------
(***************************************************************************)
(* Theorems about Membership, for any number of instances, communities,    *)
(* campaigns and users, any messages, admin actions, failures and crashes. *)
(***************************************************************************)
EXTENDS Membership, FiniteSetTheorems, TLAPS

(* MaxAge is beyond every window: a finite set of numbers has a largest    *)
(* one, since the sets of the numbers above one of its elements are well-  *)
(* founded under inclusion.                                                *)
LEMMA LargestOf ==
  ASSUME NEW S \in SUBSET Nat, IsFiniteSet(S), S # {}
  PROVE  \E w \in S : \A v \in S : v <= w
<1> DEFINE Above(w) == {v \in S : v > w}
           Family == {Above(w) : w \in S}
<1>1. Family \subseteq FiniteSubsetsOf(S) /\ Family # {}
  <2>1. \A w \in S : Above(w) \in SUBSET S /\ IsFiniteSet(Above(w))
    BY FS_Subset
  <2> QED
    BY <2>1 DEF FiniteSubsetsOf
<1>2. PICK T \in Family : \A U \in Family : <<U, T>> \notin StrictSubsetOrdering(S)
  BY <1>1, FS_StrictSubsetOrderingWellFounded, WFMin
<1>3. PICK w \in S : T = Above(w)
  OBVIOUS
<1>4. SUFFICES ASSUME NEW v \in S, v > w
               PROVE  FALSE
  BY <1>3
<1>5. Above(v) \subseteq T /\ v \in T /\ v \notin Above(v)
  <2>1. v \in Nat /\ w \in Nat /\ \A u \in S : u \in Nat
    OBVIOUS
  <2>2. \A u \in S : u > v => u > w
    BY <2>1, <1>4
  <2>3. ~(v > v)
    BY <2>1
  <2> QED
    BY <1>3, <1>4, <2>2, <2>3
<1>6. <<Above(v), T>> \in StrictSubsetOrdering(S)
  BY <1>3, <1>5 DEF StrictSubsetOrdering
<1> QED
  BY <1>2, <1>6

AllWindows == Windows \cup {DefaultWindow}

LEMMA MaxAgeBound ==
  MaxAge \in Nat \ {0} /\ \A w \in AllWindows : w \in Nat /\ w < MaxAge
<1>1. AllWindows \subseteq Nat /\ IsFiniteSet(AllWindows) /\ AllWindows # {}
  BY WindowsAssumption, FS_AddElement DEF AllWindows
<1>2. \E w \in AllWindows : \A v \in AllWindows : v <= w
  BY <1>1, LargestOf
<1> DEFINE largest == CHOOSE w \in AllWindows : \A v \in AllWindows : v <= w
<1>3. largest \in AllWindows /\ \A v \in AllWindows : v <= largest
  BY <1>2
<1>4. MaxAge = 1 + largest
  BY DEF MaxAge, AllWindows
<1> HIDE DEF largest
<1> QED
  BY <1>1, <1>3, <1>4

-----------------------------------------------------------------------------
(* Type correctness.  A handler past "status" works on a join with a       *)
(* campaign, within a window that was set or is the default.               *)
Stages == {"idle", "status", "find", "record", "count", "timer"}

HandlerOK(i) ==
  /\ pc[i] # "idle" => join[i] \in Join
  /\ pc[i] \in Stages \ {"idle", "status"} =>
       join[i].camp \in Campaigns /\ window[i] \in AllWindows

TypeInv == TypeOK /\ \A i \in Instances : HandlerOK(i)

LEMMA KeyType ==
  ASSUME TypeInv, NEW i \in Instances, pc[i] \in Stages \ {"idle", "status"}
  PROVE  /\ KeyOf(join[i]) \in Keys /\ window[i] \in 0..MaxAge
         /\ window[i] \in AllWindows /\ join[i].comm \in Registered
  BY MaxAgeBound DEF TypeInv, HandlerOK, KeyOf, Keys, Join, Stages

CommunityRow   == [status : Statuses, members : Nat, window : AllWindows]
ParticipantRow == [status : {"absent", "pending", "validated", "left"},
                   comm : Registered \cup {NoId}, age : 0..MaxAge, window : AllWindows \cup {0}]

LEMMA RowsType ==
  TypeInv => community \in [Registered -> CommunityRow] /\ participant \in [Keys -> ParticipantRow]
  BY DEF TypeInv, TypeOK, CommunityRow, ParticipantRow, AllWindows

LEMMA RowNumbers ==
  ASSUME TypeInv, NEW k \in Keys
  PROVE  /\ participant[k] \in ParticipantRow
         /\ participant[k].age \in 0..MaxAge /\ participant[k].age \in Nat
         /\ participant[k].window \in Nat /\ participant[k].window < MaxAge
<1>1. participant[k] \in ParticipantRow
  BY RowsType
<1> QED
  BY <1>1, MaxAgeBound DEF ParticipantRow

(* One column of a row is set. *)
LEMMA SetColumn ==
  /\ \A r \in CommunityRow, n \in Nat : [r EXCEPT !.members = n] \in CommunityRow
  /\ \A r \in CommunityRow, s \in Statuses : [r EXCEPT !.status = s] \in CommunityRow
  /\ \A r \in CommunityRow, w \in AllWindows : [r EXCEPT !.window = w] \in CommunityRow
  /\ \A r \in ParticipantRow, a \in 0..MaxAge : [r EXCEPT !.age = a] \in ParticipantRow
  /\ \A r \in ParticipantRow, s \in {"validated", "left"} : [r EXCEPT !.status = s] \in ParticipantRow
  BY DEF CommunityRow, ParticipantRow

LEMMA TypeInit == Init => TypeInv
  BY MaxAgeBound, MembershipAssumption, WindowsAssumption
     DEF Init, TypeInv, TypeOK, HandlerOK, NoRow, NoJoin, Stages, AllWindows

HandlersTyped ==
  /\ pc \in [Instances -> Stages] /\ join \in [Instances -> Join \cup {NoJoin}]
  /\ window \in [Instances -> AllWindows \cup {0}]
  /\ \A i \in Instances : HandlerOK(i)

LEMMA GotoType ==
  ASSUME TypeInv, NEW i \in Instances, NEW label \in Stages, Goto(i, label),
         pc[i] \in Stages \ {"idle", "status"}
  PROVE  HandlersTyped'
  BY DEF Goto, HandlersTyped, HandlerOK, TypeInv, TypeOK, Stages, AllWindows

LEMMA ReturnType ==
  ASSUME TypeInv, NEW i \in Instances, Return(i)
  PROVE  HandlersTyped'
  BY DEF Return, HandlersTyped, HandlerOK, TypeInv, TypeOK, Stages, AllWindows

LEMMA TypeFrame ==
  ASSUME TypeInv, HandlersTyped',
         community' \in [Registered -> CommunityRow],
         participant' \in [Keys -> ParticipantRow],
         joins' \in [Instances -> Seq(Join)],
         UNCHANGED <<leaves, timers, hist, messages, admins, crashes>>,
         UNCHANGED faults \/ Failed
  PROVE  TypeInv'
  BY MembershipAssumption
     DEF hist, Failed, HandlersTyped, TypeInv, TypeOK, Stages, AllWindows, CommunityRow,
         ParticipantRow

LEMMA HandleType ==
  ASSUME TypeInv, NEW i \in Instances, HandleJoin(i)
  PROVE  TypeInv'
<1>0. /\ community \in [Registered -> CommunityRow]
      /\ participant \in [Keys -> ParticipantRow]
      /\ joins \in [Instances -> Seq(Join)]
  BY RowsType DEF TypeInv, TypeOK
<1>1. CASE ReceiveJoin(i)
  <2>1. joins[i] \in Seq(Join) /\ joins[i] # <<>>
    BY <1>0, <1>1 DEF ReceiveJoin
  <2>2. Head(joins[i]) \in Join /\ Tail(joins[i]) \in Seq(Join)
    BY <2>1
  <2>3. joins' \in [Instances -> Seq(Join)]
    BY <1>0, <1>1, <2>2 DEF ReceiveJoin
  <2>4. \/ UNCHANGED <<pc, join, window>>
        \/ /\ pc' = [pc EXCEPT ![i] = "status"] /\ join' = [join EXCEPT ![i] = Head(joins[i])]
           /\ window' = window
    BY <1>1 DEF ReceiveJoin, local
  <2>5. HandlersTyped'
    BY <2>2, <2>4 DEF HandlersTyped, HandlerOK, TypeInv, TypeOK, Stages, AllWindows
  <2> QED
    BY <1>0, <1>1, <2>3, <2>5, TypeFrame DEF ReceiveJoin, Answered, tables
<1>2. CASE CheckActive(i)
  <2>1. CASE Return(i)
    BY <1>0, <1>2, <2>1, ReturnType, TypeFrame DEF CheckActive, Answered, tables, boxes
  <2>2. CASE ~Return(i)
    <3>1. /\ join[i] \in Join /\ join[i].camp # NoId
          /\ pc' = [pc EXCEPT ![i] = "find"] /\ join' = join
          /\ window' = [window EXCEPT ![i] = community[join[i].comm].window]
      BY <1>2, <2>2 DEF CheckActive, TypeInv, HandlerOK
    <3>2. join[i].camp \in Campaigns /\ community[join[i].comm].window \in AllWindows
      BY <1>0, <3>1 DEF Join, CommunityRow
    <3>3. HandlersTyped'
      BY <3>1, <3>2 DEF HandlersTyped, HandlerOK, TypeInv, TypeOK, Stages, AllWindows
    <3> QED
      BY <1>0, <1>2, <3>3, TypeFrame DEF CheckActive, Answered, tables, boxes
  <2> QED
    BY <2>1, <2>2
<1>3. CASE CheckJoined(i)
  <2>1. HandlersTyped'
    BY <1>3, GotoType, ReturnType DEF CheckJoined, Stages
  <2> QED
    BY <1>0, <1>3, <2>1, TypeFrame DEF CheckJoined, Answered, tables, boxes
<1>4. CASE RecordParticipant(i)
  <2>1. HandlersTyped'
    BY <1>4, GotoType, ReturnType DEF RecordParticipant, Stages
  <2>2. KeyOf(join[i]) \in Keys /\ window[i] \in AllWindows /\ join[i].comm \in Registered
    BY <1>4, KeyType DEF RecordParticipant, Stages
  <2>3. [status |-> "pending", comm |-> join[i].comm, age |-> 0, window |-> window[i]]
          \in ParticipantRow
    BY <2>2, MaxAgeBound DEF ParticipantRow
  <2>4. participant' \in [Keys -> ParticipantRow]
    BY <1>0, <1>4, <2>2, <2>3 DEF RecordParticipant
  <2> QED
    BY <1>0, <1>4, <2>1, <2>4, TypeFrame DEF RecordParticipant, Answered, boxes
<1>5. CASE IncrementMemberCount(i)
  <2>1. HandlersTyped'
    BY <1>5, GotoType DEF IncrementMemberCount, Stages
  <2>2. join[i].comm \in Registered
    BY <1>5, KeyType DEF IncrementMemberCount, Stages
  <2>3. community[join[i].comm] \in CommunityRow /\ community[join[i].comm].members + 1 \in Nat
    BY <1>0, <2>2 DEF CommunityRow
  <2>4. community' \in [Registered -> CommunityRow]
    BY <1>0, <1>5, <2>2, <2>3, SetColumn DEF IncrementMemberCount
  <2> QED
    BY <1>0, <1>5, <2>1, <2>4, TypeFrame DEF IncrementMemberCount, Answered, boxes
<1>6. CASE StartTimer(i)
  <2>1. HandlersTyped'
    BY <1>6, ReturnType DEF StartTimer
  <2>2. KeyOf(join[i]) \in Keys /\ window[i] \in 0..MaxAge
    BY <1>6, KeyType DEF StartTimer, Stages
  <2>3. /\ timers' \subseteq [at : Instances, key : Keys, left : 0..MaxAge]
        /\ started' \in [Keys -> Nat]
    BY <1>6, <2>2 DEF StartTimer, TypeInv, TypeOK
  <2> QED
    BY <1>6, <2>1, <2>3
       DEF StartTimer, tables, boxes, counts, HandlersTyped, TypeInv, TypeOK, Stages, AllWindows
<1> QED
  BY <1>1, <1>2, <1>3, <1>4, <1>5, <1>6 DEF HandleJoin

LEMMA AskType ==
  ASSUME TypeInv, NEW ks, Ask(ks)
  PROVE  asked' \in [Keys -> {"no", "due", "early"}]
  BY DEF Ask, TypeInv, TypeOK

LEMMA LeaveType ==
  ASSUME TypeInv, NEW i \in Instances, NEW c \in Registered, ReceiveLeave(i, c)
  PROVE  TypeInv'
<1>1. leaves' \in [Instances -> [Registered -> Nat]]
  BY DEF ReceiveLeave, TypeInv, TypeOK
<1>2. community' \in [Registered -> CommunityRow]
  <2>1. community[c] \in CommunityRow /\ community[c].members \in Nat
    BY RowsType DEF CommunityRow
  <2>2. (IF community[c].members > 0 THEN community[c].members - 1 ELSE 0) \in Nat
    BY <2>1
  <2> QED
    BY <2>1, <2>2, RowsType, SetColumn DEF ReceiveLeave, HandleLeave, DecrementMemberCount
<1>3. faults' \in 0..MaxFaults
  BY MembershipAssumption DEF ReceiveLeave, HandleLeave, Answered, Failed, TypeInv, TypeOK
<1> QED
  BY <1>1, <1>2, <1>3
     DEF ReceiveLeave, local, hist, HandlerOK, TypeInv, TypeOK, CommunityRow, AllWindows

LEMMA CrashType ==
  ASSUME TypeInv, NEW i \in Instances, Crash(i)
  PROVE  TypeInv'
<1>1. HandlersTyped'
  BY ReturnType DEF Crash
<1>2. /\ joins' \in [Instances -> Seq(Join)]
      /\ leaves' \in [Instances -> [Registered -> Nat]]
      /\ timers' \subseteq [at : Instances, key : Keys, left : 0..MaxAge]
      /\ crashes' \in 0..MaxCrashes
  <2>1. <<>> \in Seq(Join) /\ [c \in Registered |-> 0] \in [Registered -> Nat]
    OBVIOUS
  <2> QED
    BY <2>1, MembershipAssumption DEF Crash, TypeInv, TypeOK
<1> QED
  BY <1>1, <1>2 DEF Crash, tables, hist, HandlersTyped, TypeInv, TypeOK, Stages, AllWindows

LEMMA OtherType ==
  ASSUME TypeInv,
         \/ \E t \in timers : TimerFires(t)
         \/ RunValidationWorker \/ Tick \/ Network \/ Admin
         \/ \E k \in Keys, v \in BOOLEAN : ConfirmValidation(k, v)
  PROVE  TypeInv'
<1>1. CASE \E t \in timers : TimerFires(t)
  BY <1>1, AskType
     DEF TimerFires, tables, boxes, local, counts, HandlerOK, TypeInv, TypeOK
<1>2. CASE RunValidationWorker
  BY <1>2, AskType
     DEF RunValidationWorker, tables, boxes, local, counts, HandlerOK, TypeInv, TypeOK
<1>3. CASE Tick
  <2>1. participant' \in [Keys -> ParticipantRow]
    <3>1. \A k \in Keys : participant[k] \in ParticipantRow /\ participant[k].age \in 0..MaxAge
      BY RowsType DEF ParticipantRow
    <3>2. \A k \in Keys : participant[k].age < MaxAge => participant[k].age + 1 \in 0..MaxAge
      BY <3>1, MaxAgeBound
    <3> QED
      BY <1>3, <3>1, <3>2, SetColumn DEF Tick
  <2>2. timers' \subseteq [at : Instances, key : Keys, left : 0..MaxAge]
    <3>1. ASSUME NEW t \in timers
          PROVE  [t EXCEPT !.left = IF t.left > 0 THEN t.left - 1 ELSE 0]
                   \in [at : Instances, key : Keys, left : 0..MaxAge]
      <4>1. t \in [at : Instances, key : Keys, left : 0..MaxAge]
        BY DEF TypeInv, TypeOK
      <4>2. (IF t.left > 0 THEN t.left - 1 ELSE 0) \in 0..MaxAge
        BY <4>1, MaxAgeBound
      <4> QED
        BY <4>1, <4>2
    <3> QED
      BY <1>3, <3>1 DEF Tick
  <2> QED
    BY <1>3, <2>1, <2>2
       DEF Tick, boxes, local, hist, counts, HandlerOK, TypeInv, TypeOK, ParticipantRow, AllWindows
<1>4. CASE Network
  <2>1. ASSUME NEW j \in Join, NEW D \in SUBSET Instances, PublishJoin(j, D)
        PROVE  TypeInv'
    <3>1. joins' \in [Instances -> Seq(Join)]
      BY <2>1 DEF PublishJoin, TypeInv, TypeOK
    <3> QED
      BY <2>1, <3>1, MembershipAssumption
         DEF PublishJoin, tables, local, hist, HandlerOK, TypeInv, TypeOK
  <2>2. ASSUME NEW c \in Registered, NEW D \in SUBSET Instances, PublishLeave(c, D)
        PROVE  TypeInv'
    <3>1. leaves' \in [Instances -> [Registered -> Nat]]
      BY <2>2 DEF PublishLeave, TypeInv, TypeOK
    <3> QED
      BY <2>2, <3>1, MembershipAssumption
         DEF PublishLeave, tables, local, hist, HandlerOK, TypeInv, TypeOK
  <2> QED
    BY <1>4, <2>1, <2>2 DEF Network
<1>5. CASE Admin
  <2>1. ASSUME NEW c \in Registered, NEW s \in {"active", "rejected"},
               UpdateCommunityStatus(c, s)
        PROVE  TypeInv'
    <3>1. community' \in [Registered -> CommunityRow]
      BY <2>1, RowsType, SetColumn DEF UpdateCommunityStatus, Statuses
    <3> QED
      BY <2>1, <3>1, MembershipAssumption
         DEF UpdateCommunityStatus, boxes, local, HandlerOK, TypeInv, TypeOK, CommunityRow,
             AllWindows
  <2>2. ASSUME NEW c \in Registered, NEW w \in Windows, setValidationWindow(c, w)
        PROVE  TypeInv'
    <3>1. community' \in [Registered -> CommunityRow]
      BY <2>2, RowsType, SetColumn DEF setValidationWindow, AllWindows
    <3>2. admins' \in 0..MaxAdmin
      BY <2>2, MembershipAssumption DEF setValidationWindow, TypeInv, TypeOK
    <3> QED
      BY <2>2, <3>1, <3>2
         DEF setValidationWindow, boxes, local, hist, HandlerOK, TypeInv, TypeOK, CommunityRow,
             AllWindows
  <2>3. PICK c \in Registered : \/ UpdateCommunityStatus(c, "active")
                                \/ UpdateCommunityStatus(c, "rejected")
                                \/ \E w \in Windows : setValidationWindow(c, w)
    BY <1>5 DEF Admin, approveCommunity, rejectCommunity
  <2>4. "active" \in {"active", "rejected"} /\ "rejected" \in {"active", "rejected"}
    OBVIOUS
  <2> QED
    BY <2>1, <2>2, <2>3, <2>4
<1>6. ASSUME NEW k \in Keys, NEW v \in BOOLEAN, ConfirmValidation(k, v)
      PROVE  TypeInv'
  <2>1. participant' \in [Keys -> ParticipantRow]
    BY <1>6, RowsType, SetColumn DEF ConfirmValidation
  <2> QED
    BY <1>6, <2>1
       DEF ConfirmValidation, boxes, local, hist, counts, HandlerOK, TypeInv, TypeOK,
           ParticipantRow, AllWindows
<1> QED
  BY <1>1, <1>2, <1>3, <1>4, <1>5, <1>6

LEMMA TypeStep == TypeInv /\ [Next]_vars => TypeInv'
<1> SUFFICES ASSUME TypeInv, [Next]_vars PROVE TypeInv'
  OBVIOUS
<1>1. CASE UNCHANGED vars
  BY <1>1 DEF vars, tables, boxes, local, hist, counts, HandlerOK, TypeInv, TypeOK
<1> QED
  BY <1>1, HandleType, CrashType, LeaveType, OtherType DEF Next

(* Among it, that a handler that records, counts or times has a join with  *)
(* a campaign, and that no age exceeds MaxAge.                             *)
THEOREM TypeCorrect == Spec => []TypeOK
<1>1. TypeInv => TypeOK
  BY DEF TypeInv
<1> QED
  BY <1>1, TypeInit, TypeStep, PTL DEF Spec

-----------------------------------------------------------------------------
(* What the tables, the histories and the handlers know of each other.     *)

HasRow(k)  == participant[k].status # "absent"
Inserted(i) == pc[i] \in {"count", "timer"}

(* A handler that has seen an active community, and one that has inserted  *)
(* the row it works on.                                                    *)
HandlerKnows(i) ==
  /\ pc[i] \in {"find", "record"} => join[i].comm \in wasActive
  /\ Inserted(i) =>
       /\ HasRow(KeyOf(join[i])) /\ started[KeyOf(join[i])] = 0
       /\ participant[KeyOf(join[i])].comm = join[i].comm
       /\ participant[KeyOf(join[i])].window = window[i]

OneInserter ==
  \A i, u \in Instances :
    Inserted(i) /\ Inserted(u) /\ KeyOf(join[i]) = KeyOf(join[u]) => i = u

ActiveKnown == \A c \in Registered : community[c].status = "active" => c \in wasActive

(* Only what has a row is timed or asked for. *)
RowsFirst ==
  /\ \A t \in timers : HasRow(t.key)
  /\ \A k \in Keys : asked[k] # "no" \/ started[k] > 0 => HasRow(k)

RowsInv ==
  /\ TypeInv /\ OneInserter /\ ActiveKnown /\ RowsFirst
  /\ \A i \in Instances : HandlerKnows(i)
  /\ RecordedWhereApproved /\ OneTimerPerParticipant

(* With windows up to the default: a row and its timer reach the window    *)
(* together at the earliest.                                               *)
TimelyInv ==
  /\ RowsInv /\ CheckedAfterWindow
  /\ \A t \in timers : participant[t.key].age + t.left >= participant[t.key].window

(* The rows of a community that have been counted, or whose inserter died. *)
Counted(c) ==
  {k \in Keys : /\ HasRow(k) /\ participant[k].comm = c
                /\ \A i \in Instances : ~(pc[i] = "count" /\ KeyOf(join[i]) = k)}

CountInv ==
  /\ RowsInv
  /\ \A c \in Registered : community[c].members <= Cardinality(Counted(c))

LEMMA RowsInit == Init => RowsInv
  BY TypeInit, MembershipAssumption
     DEF Init, RowsInv, OneInserter, ActiveKnown, RowsFirst, HandlerKnows, Inserted, HasRow, NoRow,
         RecordedWhereApproved, OneTimerPerParticipant, Recorded

(* A row stays, with its community and its window. *)
RowsKept ==
  \A k \in Keys :
    HasRow(k) => /\ HasRow(k)'
                 /\ participant'[k].comm = participant[k].comm
                 /\ participant'[k].window = participant[k].window

NoNewRows == \A k \in Keys : HasRow(k)' => HasRow(k)

(* Handler u learns nothing that HandlerKnows has to account for. *)
Stays(u) ==
  /\ pc'[u] \in {"find", "record"} => pc[u] \in {"find", "record"} /\ join'[u] = join[u]
  /\ Inserted(u)' => Inserted(u) /\ join'[u] = join[u] /\ window'[u] = window[u]

LEMMA RowsFrame ==
  ASSUME RowsInv, TypeInv', RowsKept, NoNewRows,
         wasActive \subseteq wasActive', ActiveKnown', started' = started,
         \A u \in Instances : Stays(u),
         \A t \in timers' : HasRow(t.key),
         \A k \in Keys : asked'[k] # "no" => HasRow(k)
  PROVE  RowsInv'
<1>1. \A u \in Instances : Inserted(u) => KeyOf(join[u]) \in Keys
  BY KeyType DEF RowsInv, Inserted, Stages
<1>2. \A u \in Instances : HandlerKnows(u)'
  <2> SUFFICES ASSUME NEW u \in Instances
               PROVE  HandlerKnows(u)'
    OBVIOUS
  <2>1. pc'[u] \in {"find", "record"} => join'[u].comm \in wasActive'
    BY DEF Stays, RowsInv, HandlerKnows
  <2>2. Inserted(u)' => /\ KeyOf(join[u]) \in Keys /\ KeyOf(join[u])' = KeyOf(join[u])
                        /\ join'[u] = join[u] /\ window'[u] = window[u] /\ Inserted(u)
    BY <1>1 DEF Stays, KeyOf
  <2> QED
    BY <2>1, <2>2 DEF RowsKept, RowsInv, HandlerKnows
<1>3. OneInserter'
  BY DEF Stays, RowsInv, OneInserter, KeyOf
<1>4. RowsFirst'
  <2>1. \A t \in timers' : t.key \in Keys
    BY DEF TypeInv, TypeOK
  <2> QED
    BY <2>1 DEF RowsKept, RowsInv, RowsFirst
<1>5. RecordedWhereApproved'
  BY DEF RowsKept, NoNewRows, RowsInv, RecordedWhereApproved, Recorded, HasRow
<1>6. OneTimerPerParticipant'
  BY DEF RowsInv, OneTimerPerParticipant
<1> QED
  BY <1>2, <1>3, <1>4, <1>5, <1>6 DEF RowsInv

(* What a step of one handler leaves of the others. *)
LEMMA HandleLocal ==
  ASSUME TypeInv, NEW i \in Instances, HandleJoin(i) \/ Crash(i)
  PROVE  \A u \in Instances : u # i => pc'[u] = pc[u] /\ join'[u] = join[u] /\ window'[u] = window[u]
  BY DEF HandleJoin, Crash, ReceiveJoin, CheckActive, CheckJoined, RecordParticipant,
         IncrementMemberCount, StartTimer, Goto, Return, local, TypeInv, TypeOK

LEMMA GotoReturn ==
  ASSUME TypeInv, NEW i \in Instances
  PROVE  /\ Return(i) => pc'[i] = "idle"
         /\ \A label : Goto(i, label) => pc'[i] = label /\ join' = join /\ window' = window
  BY DEF Return, Goto, TypeInv, TypeOK

LEMMA SameRows ==
  participant' = participant => RowsKept /\ NoNewRows
  BY DEF RowsKept, NoNewRows, HasRow

LEMMA HandleRows ==
  ASSUME RowsInv, TypeInv', NEW i \in Instances, HandleJoin(i)
  PROVE  RowsInv'
<1>0. /\ TypeInv /\ ActiveKnown
      /\ \A u \in Instances : u # i => pc'[u] = pc[u] /\ join'[u] = join[u] /\ window'[u] = window[u]
      /\ \A t \in timers : HasRow(t.key)
      /\ \A k \in Keys : asked[k] # "no" => HasRow(k)
  BY HandleLocal DEF RowsInv, RowsFirst
<1>a. \A u \in Instances : u # i => Stays(u)
  BY <1>0 DEF Stays, Inserted
<1>1. CASE ReceiveJoin(i)
  <2>1. pc'[i] \in {"idle", "status"}
    BY <1>0, <1>1 DEF ReceiveJoin, local, TypeInv, TypeOK
  <2>2. Stays(i)
    BY <2>1 DEF Stays, Inserted
  <2>3. UNCHANGED <<community, participant, timers, asked, started, wasActive>>
    BY <1>1 DEF ReceiveJoin, tables, hist
  <2> QED
    BY <1>0, <1>a, <2>2, <2>3, SameRows, RowsFrame DEF ActiveKnown
<1>2. CASE CheckActive(i)
  <2>1. UNCHANGED <<community, participant, timers, asked, started, wasActive>>
    BY <1>2 DEF CheckActive, tables, hist
  <2>2. CASE Return(i)
    BY <1>0, <1>a, <2>1, <2>2, SameRows, RowsFrame, GotoReturn DEF ActiveKnown, Stays, Inserted
  <2>3. CASE ~Return(i)
    <3>1. /\ pc'[i] = "find" /\ join' = join /\ join[i] \in Join
          /\ community[join[i].comm].status = "active"
      BY <1>0, <1>2, <2>3 DEF CheckActive, TypeInv, TypeOK, HandlerOK
    <3>2. join[i].comm \in wasActive
      BY <1>0, <3>1 DEF ActiveKnown, Join
    <3>3. \A u \in Instances : HandlerKnows(u)'
      BY <1>0, <2>1, <3>1, <3>2 DEF HandlerKnows, Inserted, RowsInv, HasRow, KeyOf
    <3>4. OneInserter'
      BY <1>0, <3>1 DEF OneInserter, Inserted, RowsInv, KeyOf
    <3> QED
      BY <2>1, <3>3, <3>4
         DEF RowsInv, ActiveKnown, RowsFirst, HasRow, RecordedWhereApproved, Recorded,
             OneTimerPerParticipant
  <2> QED
    BY <2>2, <2>3
<1>3. CASE CheckJoined(i)
  <2>1. UNCHANGED <<community, participant, timers, asked, started, wasActive>>
    BY <1>3 DEF CheckJoined, tables, hist
  <2>2. Stays(i)
    BY <1>0, <1>3, GotoReturn DEF CheckJoined, Stays, Inserted
  <2> QED
    BY <1>0, <1>a, <2>1, <2>2, SameRows, RowsFrame DEF ActiveKnown
<1>4. CASE RecordParticipant(i)
  <2>1. UNCHANGED <<community, timers, asked, started, wasActive>>
    BY <1>4 DEF RecordParticipant, hist
  <2>2. CASE Return(i)
    <3>1. participant' = participant
      BY <1>0, <1>4, <2>2, GotoReturn DEF RecordParticipant
    <3> QED
      BY <1>0, <1>a, <2>1, <2>2, <3>1, SameRows, RowsFrame, GotoReturn
         DEF ActiveKnown, Stays, Inserted
  <2>3. CASE ~Return(i)
    <3> DEFINE key == KeyOf(join[i])
    <3>1. /\ pc[i] = "record" /\ ~HasRow(key) /\ Goto(i, "count")
          /\ participant' = [participant EXCEPT ![key] =
                [status |-> "pending", comm |-> join[i].comm, age |-> 0, window |-> window[i]]]
          /\ key \in Keys
      BY <1>0, <1>4, <2>3, KeyType DEF RecordParticipant, Recorded, HasRow, Stages
    <3>2. pc'[i] = "count" /\ join' = join /\ window' = window
      BY <1>0, <3>1, GotoReturn
    <3>3. /\ participant'[key].status = "pending" /\ participant'[key].comm = join[i].comm
          /\ participant'[key].window = window[i]
          /\ \A k \in Keys : k # key => participant'[k] = participant[k]
      BY <1>0, <3>1 DEF TypeInv, TypeOK
    <3>4. \A u \in Instances : u # i /\ Inserted(u) => KeyOf(join[u]) # key
      BY <3>1 DEF RowsInv, HandlerKnows
    <3>5. started[key] = 0
      BY <1>0, <3>1 DEF RowsInv, RowsFirst, TypeInv, TypeOK
    <3>6. \A u \in Instances : Inserted(u) => KeyOf(join[u]) \in Keys
      BY <1>0, KeyType DEF Inserted, Stages
    <3>7. \A k \in Keys : HasRow(k) => HasRow(k)' /\ participant'[k] = participant[k]
      BY <3>1, <3>3 DEF HasRow
    <3> HIDE DEF key
    <3>8. \A u \in Instances : HandlerKnows(u)'
      <4>1. HandlerKnows(i)'
        BY <2>1, <3>2, <3>3, <3>5 DEF HandlerKnows, Inserted, HasRow, KeyOf, key
      <4>2. ASSUME NEW u \in Instances, u # i
            PROVE  HandlerKnows(u)'
        BY <1>0, <2>1, <3>6, <3>7, <4>2 DEF HandlerKnows, Inserted, RowsInv, KeyOf
      <4> QED
        BY <4>1, <4>2
    <3>9. OneInserter'
      BY <1>0, <3>2, <3>4 DEF OneInserter, Inserted, RowsInv, KeyOf, key
    <3>10. RowsFirst'
      <4>1. \A t \in timers : t.key \in Keys
        BY <1>0 DEF TypeInv, TypeOK
      <4> QED
        BY <2>1, <3>7, <4>1 DEF RowsInv, RowsFirst
    <3>11. RecordedWhereApproved'
      BY <2>1, <3>1, <3>3 DEF RowsInv, HandlerKnows, RecordedWhereApproved, Recorded
    <3> QED
      BY <2>1, <3>8, <3>9, <3>10, <3>11 DEF RowsInv, ActiveKnown, OneTimerPerParticipant
  <2> QED
    BY <2>2, <2>3
<1>5. CASE IncrementMemberCount(i)
  <2>1. UNCHANGED <<participant, timers, asked, started, wasActive>>
    BY <1>5 DEF IncrementMemberCount, hist
  <2>2. Stays(i)
    BY <1>0, <1>5, GotoReturn DEF IncrementMemberCount, Stays, Inserted
  <2>3. \A c \in Registered : community'[c].status = community[c].status
    <3>1. join[i].comm \in Registered
      BY <1>0, <1>5, KeyType DEF IncrementMemberCount, Stages
    <3> QED
      BY <1>0, <1>5, <3>1, RowsType DEF IncrementMemberCount, CommunityRow
  <2> QED
    BY <1>0, <1>a, <2>1, <2>2, <2>3, SameRows, RowsFrame DEF ActiveKnown
<1>6. CASE StartTimer(i)
  <2> DEFINE key == KeyOf(join[i])
  <2>1. /\ pc[i] = "timer" /\ Inserted(i) /\ key \in Keys /\ HasRow(key) /\ started[key] = 0
        /\ UNCHANGED <<community, participant, asked, wasActive>>
        /\ pc'[i] = "idle"
    BY <1>0, <1>6, KeyType, GotoReturn
       DEF StartTimer, Inserted, RowsInv, HandlerKnows, Stages, tables
  <2>2. /\ started'[key] = 1
        /\ \A k \in Keys : k # key => started'[k] = started[k]
        /\ \A t \in timers' : t \in timers \/ t.key = key
    BY <1>0, <1>6, <2>1 DEF StartTimer, TypeInv, TypeOK
  <2>3. \A u \in Instances : u # i /\ Inserted(u) => KeyOf(join[u]) # key /\ KeyOf(join[u]) \in Keys
    BY <1>0, <2>1, KeyType DEF RowsInv, OneInserter, Inserted, Stages
  <2> HIDE DEF key
  <2>4. \A u \in Instances : HandlerKnows(u)'
    <3>1. HandlerKnows(i)'
      BY <2>1 DEF HandlerKnows, Inserted
    <3>2. ASSUME NEW u \in Instances, u # i
          PROVE  HandlerKnows(u)'
      BY <1>0, <2>1, <2>2, <2>3, <3>2 DEF HandlerKnows, Inserted, RowsInv, KeyOf, HasRow
    <3> QED
      BY <3>1, <3>2
  <2>5. OneInserter'
    BY <1>0, <2>1 DEF OneInserter, Inserted, RowsInv, KeyOf
  <2>6. RowsFirst'
    BY <2>1, <2>2 DEF RowsInv, RowsFirst, HasRow
  <2> QED
    BY <1>0, <2>1, <2>2, <2>4, <2>5, <2>6
       DEF RowsInv, ActiveKnown, RecordedWhereApproved, Recorded, OneTimerPerParticipant
<1> QED
  BY <1>1, <1>2, <1>3, <1>4, <1>5, <1>6 DEF HandleJoin

LEMMA CrashRows ==
  ASSUME RowsInv, TypeInv', NEW i \in Instances, Crash(i)
  PROVE  RowsInv'
<1>1. \A u \in Instances : Stays(u)
  BY HandleLocal, GotoReturn DEF Crash, Stays, Inserted, RowsInv
<1>2. UNCHANGED <<community, participant, asked, started, wasActive>> /\ timers' \subseteq timers
  BY DEF Crash, tables, hist
<1> QED
  BY <1>1, <1>2, SameRows, RowsFrame DEF RowsInv, RowsFirst, ActiveKnown

LEMMA LeaveRows ==
  ASSUME RowsInv, TypeInv', NEW i \in Instances, NEW c \in Registered, ReceiveLeave(i, c)
  PROVE  RowsInv'
<1>1. UNCHANGED <<participant, timers, asked, started, wasActive, pc, join, window>>
  BY DEF ReceiveLeave, local, hist
<1>2. \A b \in Registered : community'[b].status = community[b].status
  BY RowsType DEF ReceiveLeave, HandleLeave, DecrementMemberCount, RowsInv, CommunityRow
<1> QED
  BY <1>1, <1>2, SameRows, RowsFrame DEF RowsInv, RowsFirst, ActiveKnown, Stays, Inserted

(* The environment, the timers and the worker do not step into a handler.  *)
OthersStep ==
  \/ \E t \in timers : TimerFires(t)
  \/ RunValidationWorker \/ Tick \/ Network \/ Admin
  \/ \E k \in Keys, v \in BOOLEAN : ConfirmValidation(k, v)

LEMMA OthersRows ==
  ASSUME RowsInv, TypeInv', OthersStep
  PROVE  RowsInv'
<1>0. /\ TypeInv /\ ActiveKnown
      /\ \A t \in timers : HasRow(t.key)
      /\ \A k \in Keys : asked[k] # "no" => HasRow(k)
  BY DEF RowsInv, RowsFirst
<1>a. ASSUME UNCHANGED <<pc, join, window>>
      PROVE  \A u \in Instances : Stays(u)
  BY <1>a DEF Stays, Inserted
<1>1. ASSUME NEW t \in timers, TimerFires(t)
      PROVE  RowsInv'
  <2>1. /\ UNCHANGED <<community, participant, started, wasActive, pc, join, window>>
        /\ timers' \subseteq timers
        /\ \A k \in Keys : asked'[k] # "no" => asked[k] # "no" \/ k = t.key
    BY <1>1 DEF TimerFires, Ask, tables, local
  <2> QED
    BY <1>0, <1>a, <2>1, SameRows, RowsFrame DEF ActiveKnown
<1>2. CASE RunValidationWorker
  <2>1. /\ UNCHANGED <<community, participant, timers, started, wasActive, pc, join, window>>
        /\ \A k \in Keys : asked'[k] # "no" => asked[k] # "no" \/ HasRow(k)
    BY <1>2 DEF RunValidationWorker, Ask, FindPendingValidations, Pending, HasRow, tables, local
  <2> QED
    BY <1>0, <1>a, <2>1, SameRows, RowsFrame DEF ActiveKnown
<1>3. CASE Tick
  <2>1. UNCHANGED <<community, asked, started, wasActive, pc, join, window>>
    BY <1>3 DEF Tick, hist, local
  <2>2. RowsKept /\ NoNewRows
    BY <1>0, <1>3, RowsType DEF Tick, RowsKept, NoNewRows, HasRow, ParticipantRow
  <2>3. \A t \in timers' : \E u \in timers : t.key = u.key
    <3>1. \A u \in timers : u \in [at : Instances, key : Keys, left : 0..MaxAge]
      BY <1>0 DEF TypeInv, TypeOK
    <3> QED
      BY <1>3, <3>1 DEF Tick
  <2> QED
    BY <1>0, <1>a, <2>1, <2>2, <2>3, RowsFrame DEF ActiveKnown
<1>4. CASE Network
  <2>1. UNCHANGED <<community, participant, timers, asked, started, wasActive, pc, join, window>>
    BY <1>4 DEF Network, PublishJoin, PublishLeave, tables, hist, local
  <2> QED
    BY <1>0, <1>a, <2>1, SameRows, RowsFrame DEF ActiveKnown
<1>5. CASE Admin
  <2>1. UNCHANGED <<participant, timers, asked, started, pc, join, window>>
    BY <1>5 DEF Admin, approveCommunity, rejectCommunity, UpdateCommunityStatus,
                setValidationWindow, hist, local
  <2>2. wasActive \subseteq wasActive' /\ ActiveKnown'
    <3>1. ASSUME NEW c \in Registered, NEW s \in Statuses, UpdateCommunityStatus(c, s)
          PROVE  wasActive \subseteq wasActive' /\ ActiveKnown'
      BY <1>0, <3>1, RowsType DEF UpdateCommunityStatus, ActiveKnown, CommunityRow
    <3>2. ASSUME NEW c \in Registered, NEW w \in Windows, setValidationWindow(c, w)
          PROVE  wasActive \subseteq wasActive' /\ ActiveKnown'
      BY <1>0, <3>2, RowsType DEF setValidationWindow, hist, ActiveKnown, CommunityRow
    <3>3. PICK c \in Registered : \/ UpdateCommunityStatus(c, "active")
                                  \/ UpdateCommunityStatus(c, "rejected")
                                  \/ \E w \in Windows : setValidationWindow(c, w)
      BY <1>5 DEF Admin, approveCommunity, rejectCommunity
    <3>4. "active" \in Statuses /\ "rejected" \in Statuses
      BY DEF Statuses
    <3> QED
      BY <3>1, <3>2, <3>3, <3>4
  <2> QED
    BY <1>0, <1>a, <2>1, <2>2, SameRows, RowsFrame
<1>6. ASSUME NEW k \in Keys, NEW v \in BOOLEAN, ConfirmValidation(k, v)
      PROVE  RowsInv'
  <2>1. UNCHANGED <<community, timers, asked, started, wasActive, pc, join, window>>
    BY <1>6 DEF ConfirmValidation, hist, local
  <2>2. RowsKept /\ NoNewRows
    BY <1>0, <1>6, RowsType DEF ConfirmValidation, RowsKept, NoNewRows, HasRow, ParticipantRow
  <2> QED
    BY <1>0, <1>a, <2>1, <2>2, RowsFrame DEF ActiveKnown
<1> QED
  BY <1>1, <1>2, <1>3, <1>4, <1>5, <1>6 DEF OthersStep

LEMMA RowsStep == RowsInv /\ [Next]_vars => RowsInv'
<1> SUFFICES ASSUME RowsInv, [Next]_vars PROVE RowsInv'
  OBVIOUS
<1>1. TypeInv'
  BY TypeStep DEF RowsInv
<1>2. CASE UNCHANGED vars
  BY <1>1, <1>2, SameRows, RowsFrame
     DEF vars, tables, boxes, local, hist, counts, RowsInv, RowsFirst, ActiveKnown, Stays, Inserted
<1> QED
  BY <1>1, <1>2, HandleRows, CrashRows, LeaveRows, OthersRows DEF Next, OthersStep

(* However approval, rejection and the join race: the status that allowed  *)
(* the insert was read before it.                                          *)
THEOREM RecordedOnlyWhereApproved == Spec => []RecordedWhereApproved
<1>1. RowsInv => RecordedWhereApproved
  BY DEF RowsInv
<1> QED
  BY <1>1, RowsInit, RowsStep, PTL DEF Spec

(* On any number of instances that all get the join, only the one whose    *)
(* insert the unique index accepts starts a timer, and no restart starts   *)
(* another.                                                                *)
THEOREM TimedOnce == Spec => []OneTimerPerParticipant
<1>1. RowsInv => OneTimerPerParticipant
  BY DEF RowsInv
<1> QED
  BY <1>1, RowsInit, RowsStep, PTL DEF Spec

-----------------------------------------------------------------------------
(* The check comes after the window.                                       *)

UpToDefault == \A w \in Windows : w <= DefaultWindow

(* A row grows older and its window stays. *)
RowsAge ==
  \A k \in Keys :
    HasRow(k) => /\ participant'[k].window = participant[k].window
                 /\ participant'[k].age >= participant[k].age

LEMMA TimelyFrame ==
  ASSUME TimelyInv, RowsInv', RowsAge, timers' \subseteq timers, asked' = asked
  PROVE  TimelyInv'
<1>1. ASSUME NEW t \in timers'
      PROVE  participant'[t.key].age + t.left >= participant'[t.key].window
  <2>1. t \in timers /\ t.key \in Keys /\ HasRow(t.key) /\ t.left \in Nat
    BY MaxAgeBound DEF TimelyInv, RowsInv, RowsFirst, TypeInv, TypeOK
  <2>2. participant[t.key].age \in 0..MaxAge /\ participant[t.key].window \in Nat
    BY <2>1, RowNumbers DEF TimelyInv, RowsInv
  <2>3. participant'[t.key].age \in 0..MaxAge
    BY <2>1 DEF RowsInv, TypeInv, TypeOK
  <2> QED
    BY <2>1, <2>2, <2>3, MaxAgeBound DEF RowsAge, TimelyInv
<1> QED
  BY <1>1 DEF TimelyInv, CheckedAfterWindow

LEMMA SameAge ==
  ASSUME TypeInv, participant' = participant
  PROVE  RowsAge
<1>1. \A k \in Keys : participant[k].age \in Nat
  BY RowsType, MaxAgeBound DEF ParticipantRow
<1> QED
  BY <1>1 DEF RowsAge

LEMMA HandleTimely ==
  ASSUME TimelyInv, RowsInv', NEW i \in Instances, HandleJoin(i)
  PROVE  TimelyInv'
<1>0. TypeInv
  BY DEF TimelyInv, RowsInv
<1>1. CASE StartTimer(i)
  <2> DEFINE key == KeyOf(join[i])
  <2>1. /\ participant' = participant /\ asked' = asked
        /\ timers' = timers \cup {[at |-> i, key |-> key, left |-> window[i]]}
    BY <1>1 DEF StartTimer, tables
  <2>2. key \in Keys /\ window[i] \in Nat /\ participant[key].window = window[i]
        /\ participant[key].age \in Nat
    BY <1>0, <1>1, KeyType, RowsType, MaxAgeBound
       DEF StartTimer, Stages, ParticipantRow, TimelyInv, RowsInv, HandlerKnows, Inserted
  <2> HIDE DEF key
  <2>3. \A t \in timers' : participant'[t.key].age + t.left >= participant'[t.key].window
    BY <2>1, <2>2 DEF TimelyInv
  <2> QED
    BY <2>1, <2>3 DEF TimelyInv, CheckedAfterWindow
<1>2. CASE RecordParticipant(i)
  <2>1. timers' = timers /\ asked' = asked
    BY <1>2 DEF RecordParticipant, hist
  <2>2. \A k \in Keys : HasRow(k) => participant'[k] = participant[k]
    BY <1>0, <1>2, KeyType, RowsType DEF RecordParticipant, Recorded, HasRow, Stages
  <2>3. \A k \in Keys : participant[k].age \in Nat
    BY <1>0, RowsType, MaxAgeBound DEF ParticipantRow
  <2> QED
    BY <2>1, <2>2, <2>3, TimelyFrame DEF RowsAge
<1>3. CASE ~StartTimer(i) /\ ~RecordParticipant(i)
  <2>1. UNCHANGED <<participant, timers, asked>>
    BY <1>3 DEF HandleJoin, ReceiveJoin, CheckActive, CheckJoined, IncrementMemberCount, tables, hist
  <2> QED
    BY <1>0, <2>1, SameAge, TimelyFrame
<1> QED
  BY <1>1, <1>2, <1>3

LEMMA AskTimely ==
  ASSUME TimelyInv, NEW ks, Ask(ks),
         \A k \in ks : participant[k].age >= participant[k].window
  PROVE  \A k \in Keys : asked'[k] # "early"
  BY DEF Ask, TimelyInv, CheckedAfterWindow

LEMMA OthersTimely ==
  ASSUME UpToDefault, TimelyInv, RowsInv', OthersStep
  PROVE  TimelyInv'
<1>a. TypeInv /\ MaxAge \in Nat
  BY MaxAgeBound DEF TimelyInv, RowsInv
<1>0. /\ TypeInv
      /\ \A t \in timers : /\ t \in [at : Instances, key : Keys, left : 0..MaxAge]
                           /\ HasRow(t.key) /\ t.key \in Keys /\ t.left \in Nat
      /\ \A k \in Keys : /\ participant[k] \in ParticipantRow
                         /\ participant[k].age \in 0..MaxAge /\ participant[k].age \in Nat
                         /\ participant[k].window \in Nat /\ participant[k].window < MaxAge
  <2>1. \A t \in timers : t \in [at : Instances, key : Keys, left : 0..MaxAge] /\ HasRow(t.key)
    BY <1>a DEF TimelyInv, RowsInv, RowsFirst, TypeInv, TypeOK
  <2> QED
    BY <1>a, <2>1, RowNumbers
<1>1. ASSUME NEW t \in timers, TimerFires(t)
      PROVE  TimelyInv'
  <2>1. participant' = participant /\ timers' \subseteq timers /\ Ask({t.key}) /\ t.left = 0
    BY <1>1 DEF TimerFires, tables
  <2>2. participant[t.key].age >= participant[t.key].window
    BY <1>0, <2>1 DEF TimelyInv
  <2>3. CheckedAfterWindow'
    BY <2>1, <2>2, AskTimely DEF CheckedAfterWindow
  <2> QED
    BY <2>1, <2>3 DEF TimelyInv
<1>2. CASE RunValidationWorker
  <2>1. participant' = participant /\ timers' = timers /\ Ask(FindPendingValidations)
    BY <1>2 DEF RunValidationWorker, tables
  <2>2. \A k \in FindPendingValidations : participant[k].age >= participant[k].window
    <3>1. \A k \in Keys : participant[k].window <= DefaultWindow
      BY <1>0, WindowsAssumption DEF UpToDefault, ParticipantRow, AllWindows
    <3> QED
      BY <1>0, <3>1, WindowsAssumption DEF FindPendingValidations, Pending
  <2>3. CheckedAfterWindow'
    BY <2>1, <2>2, AskTimely DEF CheckedAfterWindow
  <2> QED
    BY <2>1, <2>3 DEF TimelyInv
<1>3. CASE Tick
  <2>1. asked' = asked
    BY <1>3 DEF Tick, hist
  <2>2. \A k \in Keys : HasRow(k) =>
          /\ participant'[k].window = participant[k].window
          /\ participant'[k].age = IF participant[k].age < MaxAge THEN participant[k].age + 1
                                   ELSE participant[k].age
    BY <1>0, <1>3 DEF Tick, Recorded, HasRow, ParticipantRow
  <2>3. ASSUME NEW t \in timers'
        PROVE  participant'[t.key].age + t.left >= participant'[t.key].window
    <3>1. PICK u \in timers : t = [u EXCEPT !.left = IF u.left > 0 THEN u.left - 1 ELSE 0]
      BY <1>3, <2>3 DEF Tick
    <3>2. t.key = u.key /\ t.left = IF u.left > 0 THEN u.left - 1 ELSE 0
      BY <1>0, <3>1
    <3>3. participant[u.key].age + u.left >= participant[u.key].window
      BY DEF TimelyInv
    <3> QED
      BY <1>0, <2>2, <3>2, <3>3, MaxAgeBound
  <2> QED
    BY <2>1, <2>3 DEF TimelyInv, CheckedAfterWindow
<1>4. CASE Network \/ Admin
  <2>1. UNCHANGED <<participant, timers, asked>>
    BY <1>4 DEF Network, PublishJoin, PublishLeave, Admin, approveCommunity, rejectCommunity,
                UpdateCommunityStatus, setValidationWindow, tables, hist
  <2> QED
    BY <1>0, <2>1, SameAge, TimelyFrame
<1>5. ASSUME NEW k \in Keys, NEW v \in BOOLEAN, ConfirmValidation(k, v)
      PROVE  TimelyInv'
  <2>1. UNCHANGED <<timers, asked>>
    BY <1>5 DEF ConfirmValidation, hist
  <2>2. RowsAge
    BY <1>0, <1>5, RowsType DEF ConfirmValidation, RowsAge, ParticipantRow
  <2> QED
    BY <2>1, <2>2, TimelyFrame
<1> QED
  BY <1>1, <1>2, <1>3, <1>4, <1>5 DEF OthersStep

LEMMA TimelyInit == Init => TimelyInv
  BY RowsInit DEF Init, TimelyInv, CheckedAfterWindow

LEMMA TimelyStep ==
  ASSUME UpToDefault
  PROVE  TimelyInv /\ [Next]_vars => TimelyInv'
<1> SUFFICES ASSUME TimelyInv, [Next]_vars PROVE TimelyInv'
  OBVIOUS
<1>1. RowsInv' /\ TypeInv
  BY RowsStep DEF TimelyInv, RowsInv
<1>2. CASE UNCHANGED vars
  BY <1>1, <1>2, SameAge, TimelyFrame DEF vars, tables, hist
<1>3. ASSUME NEW i \in Instances, Crash(i)
      PROVE  TimelyInv'
  <2>1. participant' = participant /\ asked' = asked /\ timers' \subseteq timers
    BY <1>3 DEF Crash, tables, hist
  <2> QED
    BY <1>1, <2>1, SameAge, TimelyFrame
<1>4. ASSUME NEW i \in Instances, NEW c \in Registered, ReceiveLeave(i, c)
      PROVE  TimelyInv'
  <2>1. participant' = participant /\ asked' = asked /\ timers' = timers
    BY <1>4 DEF ReceiveLeave, hist
  <2> QED
    BY <1>1, <2>1, SameAge, TimelyFrame
<1> QED
  BY <1>1, <1>2, <1>3, <1>4, HandleTimely, OthersTimely DEF Next, OthersStep

(* Neither the timer, nor the worker with the cutoff of the default        *)
(* window, asks for a check early, whatever crashes, fails or is slow, as  *)
(* long as no window is longer than the default.                           *)
THEOREM CheckedInTime ==
  ASSUME UpToDefault
  PROVE  Spec => []CheckedAfterWindow
<1>1. TimelyInv => CheckedAfterWindow
  BY DEF TimelyInv
<1> QED
  BY <1>1, TimelyInit, TimelyStep, PTL DEF Spec

-----------------------------------------------------------------------------
(* The members of a community are backed by its participants: a row that   *)
(* is recorded is counted once, by the handler that inserted it.           *)

FinitelyManyKeys == IsFiniteSet(Campaigns) /\ IsFiniteSet(Users)

LEMMA CountedFinite ==
  ASSUME FinitelyManyKeys, NEW S \in SUBSET Keys
  PROVE  IsFiniteSet(S) /\ Cardinality(S) \in Nat
<1>1. IsFiniteSet(Keys)
  BY FS_Product DEF FinitelyManyKeys, Keys
<1> QED
  BY <1>1, FS_Subset, FS_CardinalityType

LEMMA CountedKeys == \A c : Counted(c) \in SUBSET Keys /\ Counted(c)' \in SUBSET Keys
  BY DEF Counted

(* Nobody turns to counting a row that is there already. *)
NoRecount ==
  \A u \in Instances :
    pc'[u] = "count" => \/ pc[u] = "count" /\ join'[u] = join[u]
                        \/ ~HasRow(KeyOf(join'[u]))

LEMMA CountedGrows ==
  ASSUME RowsKept, NoRecount, NEW c
  PROVE  Counted(c) \subseteq Counted(c)'
  BY DEF Counted, RowsKept, NoRecount, KeyOf

LEMMA CountFrame ==
  ASSUME FinitelyManyKeys, CountInv, RowsInv', RowsKept, NoRecount,
         \A c \in Registered : community'[c].members <= community[c].members
  PROVE  CountInv'
<1>1. ASSUME NEW c \in Registered
      PROVE  community'[c].members <= Cardinality(Counted(c)')
  <2>1. /\ Cardinality(Counted(c)) \in Nat /\ Cardinality(Counted(c)') \in Nat
        /\ Cardinality(Counted(c)) <= Cardinality(Counted(c)')
    BY CountedFinite, CountedKeys, CountedGrows, FS_Subset
  <2>2. community[c].members \in Nat /\ community'[c].members \in Nat
    BY <1>1 DEF CountInv, RowsInv, TypeInv, TypeOK
  <2> QED
    BY <2>1, <2>2 DEF CountInv
<1> QED
  BY <1>1 DEF CountInv

LEMMA IncrementCounts ==
  ASSUME FinitelyManyKeys, CountInv, RowsInv', NEW i \in Instances, IncrementMemberCount(i)
  PROVE  CountInv'
<1>0. TypeInv
  BY DEF CountInv, RowsInv
<1>a. /\ pc[i] = "count" /\ pc'[i] = "timer" /\ join' = join
      /\ \A u \in Instances : u # i => pc'[u] = pc[u]
      /\ participant' = participant
  BY <1>0, GotoReturn DEF IncrementMemberCount, Goto, TypeInv, TypeOK
<1>b. /\ KeyOf(join[i]) \in Keys /\ join[i].comm \in Registered
      /\ HasRow(KeyOf(join[i])) /\ participant[KeyOf(join[i])].comm = join[i].comm
  BY <1>0, <1>a, KeyType DEF CountInv, RowsInv, HandlerKnows, Inserted, Stages
<1>1. PICK key \in Keys, comm \in Registered :
      /\ key = KeyOf(join[i]) /\ comm = join[i].comm
      /\ pc[i] = "count" /\ pc'[i] = "timer" /\ join' = join
      /\ \A u \in Instances : u # i => pc'[u] = pc[u]
      /\ participant' = participant
      /\ HasRow(key) /\ participant[key].comm = comm
  BY <1>a, <1>b
<1>2. RowsKept /\ NoRecount
  BY <1>1, SameRows DEF NoRecount
<1>3. CASE community' = community
  <2>1. \A c \in Registered : community'[c].members <= community[c].members
    BY <1>0, <1>3 DEF TypeInv, TypeOK
  <2> QED
    BY <1>2, <2>1, CountFrame
<1>4. CASE community' = [community EXCEPT ![comm].members = @ + 1]
  <2>1. ASSUME NEW c \in Registered, c # comm
        PROVE  community'[c].members <= Cardinality(Counted(c)')
    <3>1. community'[c] = community[c] /\ community[c].members \in Nat
      BY <1>0, <1>4, <2>1 DEF TypeInv, TypeOK
    <3>2. /\ Cardinality(Counted(c)) \in Nat /\ Cardinality(Counted(c)') \in Nat
          /\ Cardinality(Counted(c)) <= Cardinality(Counted(c)')
      BY <1>2, CountedFinite, CountedKeys, CountedGrows, FS_Subset
    <3> QED
      BY <2>1, <3>1, <3>2 DEF CountInv
  <2>2. community'[comm].members <= Cardinality(Counted(comm)')
    <3>1. community'[comm].members = community[comm].members + 1 /\ community[comm].members \in Nat
      BY <1>0, <1>1, <1>4, RowsType DEF CommunityRow
    <3>2. key \notin Counted(comm)
      BY <1>1 DEF Counted
    <3>3. key \in Counted(comm)'
      <4>1. \A u \in Instances : u # i /\ pc[u] = "count" => KeyOf(join[u]) # key
        BY <1>1 DEF CountInv, RowsInv, OneInserter, Inserted
      <4>2. HasRow(key)' /\ participant'[key].comm = comm
        BY <1>1 DEF HasRow
      <4>3. \A u \in Instances : ~(pc'[u] = "count" /\ KeyOf(join'[u]) = key)
        BY <1>1, <4>1
      <4> QED
        BY <1>1, <4>2, <4>3 DEF Counted, KeyOf
    <3>4. Counted(comm) \cup {key} \in SUBSET Counted(comm)'
      BY <1>2, <3>3, CountedGrows
    <3>5. /\ IsFiniteSet(Counted(comm)) /\ IsFiniteSet(Counted(comm)')
          /\ Cardinality(Counted(comm)) \in Nat /\ Cardinality(Counted(comm)') \in Nat
      BY CountedFinite, CountedKeys
    <3>6. Cardinality(Counted(comm) \cup {key}) = Cardinality(Counted(comm)) + 1
      BY <3>2, <3>5, FS_AddElement
    <3>7. Cardinality(Counted(comm) \cup {key}) <= Cardinality(Counted(comm)')
      BY <3>4, <3>5, FS_Subset
    <3>8. community[comm].members <= Cardinality(Counted(comm))
      BY <1>1 DEF CountInv
    <3> QED
      BY <3>1, <3>5, <3>6, <3>7, <3>8
  <2> QED
    BY <2>1, <2>2 DEF CountInv
<1> QED
  BY <1>1, <1>3, <1>4 DEF IncrementMemberCount

LEMMA CountStep ==
  ASSUME FinitelyManyKeys
  PROVE  CountInv /\ [Next]_vars => CountInv'
<1> SUFFICES ASSUME CountInv, [Next]_vars PROVE CountInv'
  OBVIOUS
<1>0. RowsInv' /\ TypeInv /\ \A c \in Registered : community[c].members \in Nat
  BY RowsStep DEF CountInv, RowsInv, TypeInv, TypeOK
<1>1. ASSUME RowsKept, UNCHANGED <<pc, join>>,
             \A c \in Registered : community'[c].members <= community[c].members
      PROVE  CountInv'
  BY <1>0, <1>1, CountFrame DEF NoRecount
<1>2. CASE UNCHANGED vars
  BY <1>0, <1>1, <1>2, SameRows DEF vars, tables, local
<1>3. ASSUME NEW i \in Instances, HandleJoin(i) \/ Crash(i), ~IncrementMemberCount(i)
      PROVE  CountInv'
  <2>1. community' = community
    BY <1>3 DEF HandleJoin, Crash, ReceiveJoin, CheckActive, CheckJoined, RecordParticipant,
                StartTimer, tables
  <2>2. RowsKept
    <3>1. CASE RecordParticipant(i)
      <4>1. KeyOf(join[i]) \in Keys
        BY <1>0, <3>1, KeyType DEF RecordParticipant, Stages
      <4> QED
        BY <1>0, <3>1, <4>1 DEF RecordParticipant, RowsKept, HasRow, Recorded, TypeInv, TypeOK
    <3>2. CASE ~RecordParticipant(i)
      <4>1. participant' = participant
        BY <1>3, <3>2 DEF HandleJoin, Crash, ReceiveJoin, CheckActive, CheckJoined, StartTimer, tables
      <4> QED
        BY <4>1, SameRows
    <3> QED
      BY <3>1, <3>2
  <2>3. pc'[i] = "count" => ~HasRow(KeyOf(join'[i]))
    <3>1. CASE RecordParticipant(i)
      <4>1. KeyOf(join[i]) \in Keys
        BY <1>0, <3>1, KeyType DEF RecordParticipant, Stages
      <4> QED
        BY <1>0, <3>1, <4>1, GotoReturn DEF RecordParticipant, HasRow, Recorded
    <3>2. CASE ~RecordParticipant(i)
      BY <1>0, <1>3, <3>2, GotoReturn
         DEF HandleJoin, Crash, ReceiveJoin, CheckActive, CheckJoined, StartTimer, local, TypeInv, TypeOK
    <3> QED
      BY <3>1, <3>2
  <2>4. NoRecount
    BY <1>0, <1>3, <2>3, HandleLocal DEF NoRecount
  <2> QED
    BY <1>0, <2>1, <2>2, <2>4, CountFrame
<1>4. ASSUME NEW i \in Instances, NEW c \in Registered, ReceiveLeave(i, c)
      PROVE  CountInv'
  <2>1. participant' = participant /\ UNCHANGED <<pc, join>>
    BY <1>4 DEF ReceiveLeave, local
  <2>2. \A b \in Registered : community'[b].members <= community[b].members
    BY <1>0, <1>4, RowsType DEF ReceiveLeave, HandleLeave, DecrementMemberCount, CommunityRow
  <2> QED
    BY <1>1, <2>1, <2>2, SameRows
<1>5. CASE OthersStep
  <2>1. UNCHANGED <<pc, join>>
    BY <1>5 DEF OthersStep, TimerFires, RunValidationWorker, Tick, Network, PublishJoin,
                PublishLeave, Admin, approveCommunity, rejectCommunity, UpdateCommunityStatus,
                setValidationWindow, ConfirmValidation, local
  <2>2. RowsKept
    <3>1. CASE Tick
      BY <1>0, <3>1, RowsType DEF Tick, RowsKept, HasRow, ParticipantRow
    <3>2. ASSUME NEW k \in Keys, NEW v \in BOOLEAN, ConfirmValidation(k, v)
          PROVE  RowsKept
      BY <1>0, <3>2, RowsType DEF ConfirmValidation, RowsKept, HasRow, ParticipantRow
    <3>3. CASE participant' = participant
      BY <3>3, SameRows
    <3> QED
      BY <1>5, <3>1, <3>2, <3>3
         DEF OthersStep, TimerFires, RunValidationWorker, Network, PublishJoin, PublishLeave, Admin,
             approveCommunity, rejectCommunity, UpdateCommunityStatus, setValidationWindow, tables
  <2>3. \A c \in Registered : community'[c].members <= community[c].members
    <3>1. CASE Admin
      BY <1>0, <3>1, RowsType
         DEF Admin, approveCommunity, rejectCommunity, UpdateCommunityStatus, setValidationWindow,
             CommunityRow
    <3>2. CASE community' = community
      BY <1>0, <3>2
    <3> QED
      BY <1>5, <3>1, <3>2
         DEF OthersStep, TimerFires, RunValidationWorker, Tick, Network, PublishJoin, PublishLeave,
             ConfirmValidation, tables
  <2> QED
    BY <1>1, <2>1, <2>2, <2>3
<1>6. ASSUME NEW i \in Instances, HandleJoin(i) \/ Crash(i)
      PROVE  CountInv'
  BY <1>0, <1>3, <1>6, IncrementCounts
<1> QED
  BY <1>2, <1>4, <1>5, <1>6 DEF Next, OthersStep

LEMMA CountInit ==
  ASSUME FinitelyManyKeys
  PROVE  Init => CountInv
<1> SUFFICES ASSUME Init PROVE CountInv
  OBVIOUS
<1>1. RowsInv
  BY RowsInit
<1>2. \A c \in Registered : community[c].members = 0
  BY DEF Init
<1>3. \A c \in Registered : Cardinality(Counted(c)) \in Nat
  BY CountedFinite, CountedKeys
<1> QED
  BY <1>1, <1>2, <1>3 DEF CountInv

(* Whoever joins twice, on however many instances, and whatever fails or   *)
(* dies between the insert and the count, member_count stays at or below   *)
(* the participants on record; the keys are finitely many.                 *)
THEOREM CountedAreRecorded ==
  ASSUME FinitelyManyKeys
  PROVE  Spec => []MembersAreBacked
<1>1. CountInv => MembersAreBacked
  <2> SUFFICES ASSUME CountInv, NEW c \in Registered
               PROVE  community[c].members <= Cardinality({k \in Recorded : participant[k].comm = c})
    BY DEF MembersAreBacked
  <2> DEFINE S == {k \in Recorded : participant[k].comm = c}
  <2>1. Counted(c) \in SUBSET S /\ S \in SUBSET Keys
    BY DEF Counted, Recorded, HasRow
  <2>2. community[c].members <= Cardinality(Counted(c)) /\ community[c].members \in Nat
    BY DEF CountInv, RowsInv, TypeInv, TypeOK
  <2> HIDE DEF S
  <2>3. /\ IsFiniteSet(S) /\ Cardinality(S) \in Nat /\ Cardinality(Counted(c)) \in Nat
        /\ Cardinality(Counted(c)) <= Cardinality(S)
    BY <2>1, CountedFinite, CountedKeys, FS_Subset
  <2> QED
    BY <2>2, <2>3 DEF S
<1> QED
  BY <1>1, CountInit, CountStep, PTL DEF Spec

=============================================================================
