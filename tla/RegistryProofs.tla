--------------------------- MODULE RegistryProofs ---------------------------
(***************************************************************************)
(* Theorems about Registry, for every value of its constants: any number   *)
(* of requests, chats, decisions and failing calls.                        *)
(***************************************************************************)
EXTENDS Registry, TLAPS

(* A row is updated in place: its chat, its hash and the set of rows stay. *)
Kept(row, old) == row.chat = old.chat /\ row.hash = old.hash

LEMMA AdminRows ==
  ASSUME TypeOK, NEW id \in Rows, Admin(id)
  PROVE  /\ Rows' = Rows
         /\ \A r \in Rows : communities'[r] \in Row /\ Kept(communities'[r], communities[r])
<1>1. \A r \in Rows : communities[r] \in Row
  BY DEF TypeOK
<1>2. ASSUME NEW s \in {"pending", "active", "rejected"}, UpdateCommunityStatus(id, s)
      PROVE  /\ Rows' = Rows /\ communities'[id] \in Row
             /\ Kept(communities'[id], communities[id])
             /\ \A r \in Rows : r # id => communities'[r] = communities[r]
  <2>1. communities'[id] = [communities[id] EXCEPT !.status = s]
    BY <1>2 DEF UpdateCommunityStatus, Rows
  <2>2. [communities[id] EXCEPT !.status = s] \in Row
    BY <1>1 DEF Row
  <2>3. Kept([communities[id] EXCEPT !.status = s], communities[id])
    BY <1>1 DEF Row, Kept
  <2> QED
    BY <1>2, <2>1, <2>2, <2>3 DEF UpdateCommunityStatus, Rows
<1>3. ASSUME NEW h \in Hours, setValidationWindow(id, h)
      PROVE  /\ Rows' = Rows /\ communities'[id] \in Row
             /\ Kept(communities'[id], communities[id])
             /\ \A r \in Rows : r # id => communities'[r] = communities[r]
  <2>0. PICK sec : sec = h * Hour
    OBVIOUS
  <2>1. communities'[id] = [communities[id] EXCEPT !.window = sec]
    BY <1>3, <2>0 DEF setValidationWindow, UpdateValidationWindow, Rows
  <2>2. [communities[id] EXCEPT !.window = sec] \in Row
    BY <1>1, <2>0 DEF Row
  <2>3. Kept([communities[id] EXCEPT !.window = sec], communities[id])
    BY <1>1 DEF Row, Kept
  <2>4. communities' = [communities EXCEPT ![id].window = sec]
    BY <1>3, <2>0 DEF setValidationWindow, UpdateValidationWindow
  <2> QED
    BY <2>1, <2>2, <2>3, <2>4 DEF Rows
<1> QED
  BY <1>1, <1>2, <1>3 DEF Admin, Decide, Kept

(* An insert adds the row of its request and leaves the others alone. *)
LEMMA CreateRows ==
  ASSUME NEW q \in Requests, CreateCommunity(q), communities' # communities
  PROVE  /\ Unique(NewRow(form[q]))
         /\ Rows' = Rows \cup {q}
         /\ communities'[q] = NewRow(form[q])
         /\ \A id \in Rows : id # q => communities'[id] = communities[id]
  BY DEF CreateCommunity, Rows

-----------------------------------------------------------------------------
(* Type correctness.  A request at its insert has been sent a form. *)
TypeInv ==
  /\ TypeOK
  /\ \A q \in Requests : pc[q] = "create" => form[q] \in Form

LEMMA TypeInit == Init => TypeInv
<1> SUFFICES ASSUME Init PROVE TypeInv
  OBVIOUS
<1>1. Rows \subseteq Stored /\ \A id \in Rows : communities[id] \in StoredRows
  BY DEF Init, Rows
<1>2. Rows \subseteq Requests \cup Stored /\ \A id \in Rows : communities[id] \in Row
  BY <1>1, StoredAssumption
<1>3. faults \in 0..MaxFaults /\ admins \in 0..MaxAdmin
  BY BoundsAssumption DEF Init
<1> QED
  BY <1>2, <1>3 DEF Init, TypeInv, TypeOK

LEMMA TypeStep == TypeInv /\ [Next]_vars => TypeInv'
<1> SUFFICES ASSUME TypeInv, [Next]_vars PROVE TypeInv'
  OBVIOUS
<1> USE DEF TypeInv
<1>0. faults \in 0..MaxFaults /\ (Failed => faults' \in 0..MaxFaults)
  BY BoundsAssumption DEF Failed, TypeOK
<1>1. CASE UNCHANGED vars
  BY <1>1 DEF vars, TypeOK, Rows
<1>2. ASSUME NEW q \in Requests, NEW f \in Form, LookUp(q, f)
      PROVE  TypeInv'
  <2>1. /\ communities' = communities /\ Rows' = Rows /\ admins' = admins
        /\ chatIdColumn' = chatIdColumn
        /\ form' = [form EXCEPT ![q] = f]
        /\ \/ pc' = [pc EXCEPT ![q] = "create"] /\ answer' = answer
           \/ Reply(q, 409)
        /\ Answered \/ Failed
    BY <1>2 DEF LookUp, Rows
  <2>2. faults' \in 0..MaxFaults
    BY <1>0, <2>1 DEF Answered
  <2> QED
    BY <2>1, <2>2 DEF Reply, TypeOK
<1>3. ASSUME NEW q \in Requests, CreateCommunity(q)
      PROVE  TypeInv'
  <2>1. /\ pc[q] = "create" /\ form[q] \in Form /\ form' = form /\ admins' = admins
        /\ chatIdColumn' = chatIdColumn
        /\ Reply(q, 201) \/ Reply(q, 500)
        /\ Answered \/ Failed
    BY <1>3 DEF CreateCommunity
  <2>2. Rows' \subseteq Requests \cup Stored /\ \A id \in Rows' : communities'[id] \in Row
    <3>1. CASE communities' = communities
      BY <3>1 DEF TypeOK, Rows, Row
    <3>2. CASE communities' # communities
      <4>1. /\ Rows' = Rows \cup {q} /\ communities'[q] = NewRow(form[q])
            /\ \A id \in Rows : id # q => communities'[id] = communities[id]
        BY <1>3, <3>2, CreateRows
      <4>2. NewRow(form[q]) \in Row
        BY <2>1, FormAssumption DEF NewRow, Row, Form
      <4>3. Rows \subseteq Requests \cup Stored /\ \A id \in Rows : communities[id] \in Row
        BY DEF TypeOK
      <4> QED
        BY <4>1, <4>2, <4>3
    <3> QED
      BY <3>1, <3>2
  <2>3. faults' \in 0..MaxFaults
    BY <1>0, <2>1 DEF Answered
  <2>4. /\ pc' \in [Requests -> {"idle", "create", "done"}]
        /\ answer' \in [Requests -> {0, 201, 409, 500}]
        /\ \A r \in Requests : pc'[r] = "create" => pc[r] = "create"
    BY <2>1 DEF Reply, TypeOK
  <2> QED
    BY <2>1, <2>2, <2>3, <2>4 DEF TypeOK
<1>4. ASSUME NEW id \in Rows, Admin(id)
      PROVE  TypeInv'
  <2>1. /\ Rows' = Rows
        /\ \A r \in Rows : communities'[r] \in Row
    BY <1>4, AdminRows
  <2>2. admins' \in 0..MaxAdmin /\ UNCHANGED <<chatIdColumn, pc, form, answer, faults>>
    BY <1>4, BoundsAssumption DEF Admin, TypeOK
  <2> QED
    BY <2>1, <2>2 DEF TypeOK
<1> QED
  BY <1>1, <1>2, <1>3, <1>4 DEF Next

(* Every row and every answer is well formed, the window of a row among it: *)
(* the default or whole hours (setValidationWindow).                        *)
THEOREM TypeCorrect == Spec => []TypeOK
<1> QED
  BY TypeInit, TypeStep, PTL DEF Spec, TypeInv

-----------------------------------------------------------------------------
(* What was registered has the empty hash, and only with a chat_id column  *)
(* does a request come to its insert.                                      *)
HashesEmpty  == \A id \in Rows \ Stored : communities[id].hash = ""
PastLookUp   == \A q \in Requests : ~chatIdColumn =>
                  pc[q] # "create" /\ (pc[q] = "done" => answer[q] = 409)
OneRow       == /\ \A a, b \in Rows \ Stored : a = b
                /\ Rows \subseteq Stored \/ chatIdColumn

OneInv == TypeInv /\ HashesEmpty /\ PastLookUp /\ OneRow

LEMMA OneInit == Init => OneInv
<1> SUFFICES ASSUME Init PROVE OneInv
  OBVIOUS
<1>1. Rows \ Stored = {} /\ \A q \in Requests : pc[q] = "idle"
  BY DEF Init, Rows
<1> QED
  BY <1>1, TypeInit DEF OneInv, HashesEmpty, PastLookUp, OneRow

(* An insert only succeeds when nothing is registered yet. *)
LEMMA InsertIsFirst ==
  ASSUME HashesEmpty, NEW q \in Requests, CreateCommunity(q), communities' # communities
  PROVE  Rows \ Stored = {} /\ q \notin Rows
<1>1. Unique(NewRow(form[q])) /\ NewRow(form[q]).hash = ""
  BY CreateRows DEF NewRow
<1>2. ASSUME NEW id \in Rows \ Stored PROVE FALSE
  <2>1. communities[id].hash = "" /\ communities[id].hash # NewRow(form[q]).hash
    BY <1>1 DEF HashesEmpty, Unique, Distinct
  <2> QED
    BY <1>1, <2>1
<1> QED
  BY <1>2, StoredAssumption

LEMMA OneStep == OneInv /\ [Next]_vars => OneInv'
<1> SUFFICES ASSUME OneInv, [Next]_vars PROVE OneInv'
  OBVIOUS
<1>0. TypeInv'
  BY TypeStep DEF OneInv
<1>1. CASE UNCHANGED vars
  BY <1>0, <1>1 DEF vars, OneInv, HashesEmpty, PastLookUp, OneRow, Rows
<1>2. ASSUME NEW q \in Requests, NEW f \in Form, LookUp(q, f)
      PROVE  OneInv'
  <2>1. communities' = communities /\ Rows' = Rows /\ chatIdColumn' = chatIdColumn
    BY <1>2 DEF LookUp, Rows
  <2>2. ~chatIdColumn => Reply(q, 409)
    BY <1>2 DEF LookUp
  <2>3. ASSUME NEW r \in Requests, ~chatIdColumn
        PROVE  pc'[r] # "create" /\ (pc'[r] = "done" => answer'[r] = 409)
    BY <2>2, <2>3 DEF Reply, OneInv, PastLookUp, TypeInv, TypeOK
  <2>4. PastLookUp'
    BY <2>1, <2>3 DEF PastLookUp
  <2> QED
    BY <1>0, <2>1, <2>4 DEF OneInv, HashesEmpty, OneRow
<1>3. ASSUME NEW q \in Requests, CreateCommunity(q)
      PROVE  OneInv'
  <2>1. pc[q] = "create" /\ chatIdColumn /\ chatIdColumn' = chatIdColumn
    BY <1>3 DEF CreateCommunity, OneInv, PastLookUp
  <2>2. PastLookUp'
    BY <2>1 DEF PastLookUp
  <2>3. CASE communities' = communities
    <3>1. Rows' = Rows
      BY <2>3 DEF Rows
    <3> QED
      BY <1>0, <2>1, <2>2, <2>3, <3>1 DEF OneInv, HashesEmpty, OneRow
  <2>4. CASE communities' # communities
    <3>1. /\ Unique(NewRow(form[q])) /\ Rows' = Rows \cup {q}
          /\ communities'[q] = NewRow(form[q])
      BY <1>3, <2>4, CreateRows
    <3>2. NewRow(form[q]).hash = ""
      BY DEF NewRow
    <3>3. Rows \ Stored = {}
      BY <1>3, <2>4, InsertIsFirst DEF OneInv
    <3>4. Rows' \ Stored \subseteq {q}
      BY <3>1, <3>3
    <3>5. \A id \in Rows' \ Stored : communities'[id].hash = ""
      BY <3>1, <3>2, <3>4
    <3> QED
      BY <1>0, <2>1, <2>2, <3>4, <3>5 DEF OneInv, HashesEmpty, OneRow
  <2> QED
    BY <2>3, <2>4
<1>4. ASSUME NEW id \in Rows, Admin(id)
      PROVE  OneInv'
  <2>1. /\ Rows' = Rows
        /\ \A r \in Rows : communities'[r].hash = communities[r].hash
        /\ UNCHANGED <<pc, answer, chatIdColumn>>
    BY <1>4, AdminRows DEF Admin, OneInv, TypeInv, Kept
  <2> QED
    BY <1>0, <2>1 DEF OneInv, HashesEmpty, PastLookUp, OneRow
<1> QED
  BY <1>1, <1>2, <1>3, <1>4 DEF Next

-----------------------------------------------------------------------------
(* The answers of requests that are done. *)
AnswerOK(q) == pc[q] = "done" /\ answer[q] = 409 /\ chatIdColumn => HasRow(q)

ConflictInv == OneInv /\ faults \in Nat /\ (faults = 0 => \A q \in Requests : AnswerOK(q))

LEMMA ConflictInit == Init => ConflictInv
<1> SUFFICES ASSUME Init PROVE ConflictInv
  OBVIOUS
<1>1. faults \in Nat /\ \A q \in Requests : pc[q] = "idle"
  BY DEF Init
<1> QED
  BY <1>1, OneInit DEF ConflictInv, AnswerOK

(* Rows are never removed and keep their chat, so what is said stays true. *)
LEMMA AnswerStays ==
  ASSUME NEW q \in Requests, AnswerOK(q), chatIdColumn' = chatIdColumn,
         pc'[q] = pc[q], answer'[q] = answer[q], form'[q] = form[q],
         \A id \in Rows : id \in Rows' /\ communities'[id].chat = communities[id].chat
  PROVE  AnswerOK(q)'
  BY DEF AnswerOK, HasRow

LEMMA ConflictStep == ConflictInv /\ [Next]_vars => ConflictInv'
<1> SUFFICES ASSUME ConflictInv, [Next]_vars PROVE ConflictInv'
  OBVIOUS
<1>0. OneInv' /\ OneInv /\ TypeInv
  BY OneStep DEF ConflictInv, OneInv
<1>1. CASE UNCHANGED vars
  BY <1>0, <1>1 DEF vars, ConflictInv, AnswerOK, HasRow, Rows
<1>2. ASSUME NEW q \in Requests, Answered \/ Failed, UNCHANGED chatIdColumn,
             pc' = [pc EXCEPT ![q] = pc'[q]], answer' = [answer EXCEPT ![q] = answer'[q]],
             form' = [form EXCEPT ![q] = form'[q]],
             \A id \in Rows : id \in Rows' /\ communities'[id].chat = communities[id].chat,
             Answered => AnswerOK(q)'
      PROVE  ConflictInv'
  <2>1. faults' \in Nat /\ (faults' = 0 => faults = 0 /\ Answered)
    BY <1>2 DEF ConflictInv, Answered, Failed
  <2>2. ASSUME faults' = 0, NEW p \in Requests PROVE AnswerOK(p)'
    <3>1. CASE p = q
      BY <1>2, <2>1, <2>2, <3>1
    <3>2. CASE p # q
      <4>1. pc'[p] = pc[p] /\ answer'[p] = answer[p] /\ form'[p] = form[p]
        BY <1>0, <1>2, <3>2 DEF TypeInv, TypeOK
      <4> QED
        BY <1>2, <2>1, <2>2, <4>1, AnswerStays DEF ConflictInv
    <3> QED
      BY <3>1, <3>2
  <2> QED
    BY <1>0, <2>1, <2>2 DEF ConflictInv
<1>3. ASSUME NEW q \in Requests, NEW f \in Form, LookUp(q, f)
      PROVE  ConflictInv'
  <2>1. /\ communities' = communities /\ Rows' = Rows /\ UNCHANGED chatIdColumn
        /\ form' = [form EXCEPT ![q] = f] /\ form'[q] = f
        /\ Answered \/ Failed
    BY <1>0, <1>3 DEF LookUp, Rows, TypeInv, TypeOK
  <2>2. pc' = [pc EXCEPT ![q] = pc'[q]] /\ answer' = [answer EXCEPT ![q] = answer'[q]]
    BY <1>0, <1>3 DEF LookUp, Reply, TypeInv, TypeOK
  <2>3. ASSUME Answered PROVE AnswerOK(q)'
    <3>1. CASE pc' = [pc EXCEPT ![q] = "create"]
      BY <1>0, <3>1 DEF AnswerOK, TypeInv, TypeOK
    <3>2. CASE pc' # [pc EXCEPT ![q] = "create"]
      <4>1. ~chatIdColumn \/ FindCommunityByChatID(f) # {}
        BY <1>0, <1>3, <2>3, <3>2 DEF LookUp, Answered, Failed, ConflictInv
      <4>2. chatIdColumn => HasRow(q)'
        BY <2>1, <4>1 DEF HasRow, FindCommunityByChatID
      <4> QED
        BY <2>1, <4>2 DEF AnswerOK
    <3> QED
      BY <3>1, <3>2
  <2> QED
    BY <1>2, <2>1, <2>2, <2>3
<1>4. ASSUME NEW q \in Requests, CreateCommunity(q)
      PROVE  ConflictInv'
  <2>1. /\ chatIdColumn /\ UNCHANGED <<chatIdColumn, form>>
        /\ Reply(q, 201) \/ Reply(q, 500)
        /\ Answered \/ Failed
    BY <1>0, <1>4 DEF CreateCommunity, OneInv, PastLookUp
  <2>2. /\ pc' = [pc EXCEPT ![q] = pc'[q]] /\ answer' = [answer EXCEPT ![q] = answer'[q]]
        /\ answer'[q] # 409 /\ form' = [form EXCEPT ![q] = form'[q]]
    BY <1>0, <2>1 DEF Reply, TypeInv, TypeOK
  <2>3. AnswerOK(q)'
    BY <2>1, <2>2 DEF AnswerOK
  <2>4. \A id \in Rows : id \in Rows' /\ communities'[id].chat = communities[id].chat
    <3>1. CASE communities' = communities
      BY <3>1 DEF Rows
    <3>2. CASE communities' # communities
      BY <1>0, <1>4, <3>2, CreateRows, InsertIsFirst DEF OneInv
    <3> QED
      BY <3>1, <3>2
  <2> QED
    BY <1>2, <2>1, <2>2, <2>3, <2>4
<1>5. ASSUME NEW id \in Rows, Admin(id)
      PROVE  ConflictInv'
  <2>1. \A r \in Rows : r \in Rows' /\ communities'[r].chat = communities[r].chat
    BY <1>0, <1>5, AdminRows DEF TypeInv, Kept
  <2>2. UNCHANGED <<chatIdColumn, pc, form, answer, faults>>
    BY <1>5 DEF Admin
  <2> QED
    BY <1>0, <2>1, <2>2, AnswerStays DEF ConflictInv
<1> QED
  BY <1>1, <1>3, <1>4, <1>5 DEF Next

(* However many requests interleave, fail or are decided on, and whatever  *)
(* was imported: with a chat_id column at most one community is registered *)
(* and 409 means a known chat; as the service is built nothing is          *)
(* registered, and 409 is the answer to everybody.                         *)
THEOREM RegistrationBySchema == Spec => []RegistersBySchema
<1>1. ConflictInv => RegistersBySchema
  <2> SUFFICES ASSUME ConflictInv PROVE RegistersBySchema
    OBVIOUS
  <2>1. CASE chatIdColumn
    BY <2>1 DEF ConflictInv, OneInv, OneRow, AnswerOK, RegistersBySchema, AtMostOneRegisters
  <2>2. CASE ~chatIdColumn
    BY <2>2 DEF ConflictInv, OneInv, OneRow, PastLookUp, RegistersBySchema, NobodyRegisters
  <2> QED
    BY <2>1, <2>2
<1> QED
  BY ConflictInit, ConflictStep, <1>1, PTL DEF Spec

=============================================================================
