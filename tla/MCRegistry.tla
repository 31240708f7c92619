----------------------------- MODULE MCRegistry -----------------------------
(* Rows and symmetry for the model-checking runs of Registry. *)
EXTENDS Registry, TLC

(* Imported communities: approved, with an invite hash of their own. *)
MCStoredRows ==
  {[chat |-> c, link |-> "old", hash |-> "h", type |-> "group", status |-> "active",
    window |-> DefaultValidationWindow] : c \in Chats}

Same == Permutations(Requests) \cup Permutations(Chats)

=============================================================================
