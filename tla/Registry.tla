------------------------------ MODULE Registry ------------------------------
(***************************************************************************)
(* Registration of communities in community-service: concurrent            *)
(* POST /community/register requests, which look the chat up and then      *)
(* insert a row, the admin decisions and the owner's validation window.    *)
(*                                                                         *)
(* The communities table has unique indexes on telegram_id, invite_link    *)
(* and invite_hash; registration never sets the last of them.  AutoMigrate *)
(* creates no chat_id column, which the look-up names: as the service is   *)
(* built, chatIdColumn is FALSE, and what the table holds was imported.    *)
(* The other schema, in which the column is there, shows the code behind   *)
(* the look-up; a run starts with either.                                  *)
(***************************************************************************)
EXTENDS Integers, FiniteSets

CONSTANTS
  Requests,      \* registration requests; a request's row has its name as id
  Chats,         \* Telegram chats
  Links,         \* invite links; a request without one sends the empty link
  Types,         \* values of "type": any non-empty string is accepted
  Hashes,        \* invite hashes, "" among them
  Stored,        \* ids of rows the table may hold at the start
  StoredRows,    \* and what these rows may be
  Hours,         \* values of "hours" sent to validation-window
  MaxFaults,     \* bound: failing database calls
  MaxAdmin,      \* bound: decisions and window changes
  None

Hour == 3600
DefaultValidationWindow == 86400

Row == [chat : Chats, link : Links, hash : Hashes, type : Types,
        status : {"pending", "active", "rejected"},
        window : {DefaultValidationWindow} \cup {h * Hour : h \in Hours}]

ASSUME BoundsAssumption == Hours \subseteq Int /\ MaxFaults \in Nat /\ MaxAdmin \in Nat

ASSUME FormAssumption == None \notin Chats /\ "" \in Hashes

ASSUME StoredAssumption == StoredRows \subseteq Row /\ Stored \cap Requests = {}

VARIABLES
  chatIdColumn, \* does the communities table have a chat_id column?
  communities,  \* the rows, by id
  pc,           \* the next statement of each request: "idle", "create", "done"
  form,         \* the body it was sent
  answer,       \* the HTTP status it returned
  faults, admins

vars == <<chatIdColumn, communities, pc, form, answer, faults, admins>>

Form == [chat : Chats, link : Links, type : Types]
NoForm == [chat |-> None, link |-> None, type |-> None]

Rows == DOMAIN communities

(* Mutant: invite_hash loses its uniqueIndex tag. *)
DistinctChatAndLink(a, b) == a.chat # b.chat /\ a.link # b.link

(* The unique indexes: no two rows share any of the three columns. *)
Distinct(a, b) == a.chat # b.chat /\ a.link # b.link /\ a.hash # b.hash

Init ==
  /\ chatIdColumn \in BOOLEAN
  /\ \E S \in SUBSET Stored : communities \in [S -> StoredRows]
  /\ \A a, b \in Rows : a # b => Distinct(communities[a], communities[b])
  /\ pc = [q \in Requests |-> "idle"]
  /\ form = [q \in Requests |-> NoForm]
  /\ answer = [q \in Requests |-> 0]
  /\ faults = 0 /\ admins = 0

Answered == UNCHANGED faults
Failed   == faults < MaxFaults /\ faults' = faults + 1

Reply(q, status) == /\ pc' = [pc EXCEPT ![q] = "done"]
                    /\ answer' = [answer EXCEPT ![q] = status]

FindCommunityByChatID(f) == {id \in Rows : communities[id].chat = f.chat}

(* A failed look-up, and every one without a chat_id column, returns the   *)
(* zero row, which is not nil.                                             *)
LookUp(q, f) ==
  /\ pc[q] = "idle"
  /\ form' = [form EXCEPT ![q] = f]
  /\ \/ /\ Answered /\ chatIdColumn /\ FindCommunityByChatID(f) = {}
        /\ pc' = [pc EXCEPT ![q] = "create"]
        /\ UNCHANGED answer
     \/ /\ \/ Answered /\ (~chatIdColumn \/ FindCommunityByChatID(f) # {})
           \/ Failed
        /\ Reply(q, 409)
  /\ UNCHANGED <<chatIdColumn, communities, admins>>

(* The row registerCommunity inserts; the insert fails unless it differs    *)
(* from every row that is there.                                            *)
NewRow(f) == [chat |-> f.chat, link |-> f.link, hash |-> "", type |-> f.type,
              status |-> "pending", window |-> DefaultValidationWindow]

Unique(row) == \A id \in Rows : Distinct(communities[id], row)

CreateCommunity(q) ==
  /\ pc[q] = "create"
  /\ \/ /\ Answered /\ Unique(NewRow(form[q]))
        /\ communities' = [id \in Rows \cup {q} |->
                             IF id = q THEN NewRow(form[q]) ELSE communities[id]]
        /\ Reply(q, 201)
     \/ /\ (Answered /\ ~Unique(NewRow(form[q]))) \/ Failed
        /\ Reply(q, 500)
        /\ UNCHANGED communities
  /\ UNCHANGED <<chatIdColumn, form, admins>>

(* The endpoints below write one column and look at nothing. *)
UpdateCommunityStatus(id, s) == communities' = [communities EXCEPT ![id].status = s]

Decide(id) ==
  \/ UpdateCommunityStatus(id, "active")
  \/ UpdateCommunityStatus(id, "rejected")

UpdateValidationWindow(id, sec) == communities' = [communities EXCEPT ![id].window = sec]

(* Mutant: hours are stored where seconds are meant. *)
setWindowInHours(id, hours) == UpdateValidationWindow(id, hours)

setValidationWindow(id, hours) == UpdateValidationWindow(id, hours * Hour)

Admin(id) ==
  /\ admins < MaxAdmin /\ admins' = admins + 1
  /\ Decide(id) \/ \E h \in Hours : setValidationWindow(id, h)
  /\ UNCHANGED <<chatIdColumn, pc, form, answer, faults>>

Next ==
  \/ \E q \in Requests : CreateCommunity(q) \/ \E f \in Form : LookUp(q, f)
  \/ \E id \in Rows : Admin(id)

Spec == Init /\ [][Next]_vars

-----------------------------------------------------------------------------
TypeOK ==
  /\ chatIdColumn \in BOOLEAN
  /\ Rows \subseteq Requests \cup Stored
  /\ \A id \in Rows : communities[id] \in Row
  /\ pc \in [Requests -> {"idle", "create", "done"}]
  /\ form \in [Requests -> Form \cup {NoForm}]
  /\ answer \in [Requests -> {0, 201, 409, 500}]
  /\ faults \in 0..MaxFaults /\ admins \in 0..MaxAdmin

HasRow(q) == \E id \in Rows : communities[id].chat = form[q].chat

(* With a chat_id column: at most one community is ever registered through *)
(* the endpoint, however many requests interleave between look-up and      *)
(* insert, since each row it inserts has the same, empty, invite_hash,     *)
(* which is unique; and 409, "community already registered" (api.go:73),   *)
(* is answered for a chat that has a row, while no database call fails.    *)
AtMostOneRegisters ==
  /\ \A a, b \in Rows \ Stored : a = b
  /\ faults = 0 =>
       \A q \in Requests : pc[q] = "done" /\ answer[q] = 409 => HasRow(q)

(* As the service is built, without the column: nobody registers anything. *)
(* The error of the look-up is dropped and every request answered 409,     *)
(* whatever its chat.                                                      *)
NobodyRegisters ==
  /\ Rows \subseteq Stored
  /\ \A q \in Requests : pc[q] = "done" => answer[q] = 409

(* What registration comes to, however requests, decisions and failing     *)
(* calls interleave, depends on the schema.                                *)
RegistersBySchema == IF chatIdColumn THEN AtMostOneRegisters ELSE NobodyRegisters

=============================================================================
