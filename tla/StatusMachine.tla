---------------------------- MODULE StatusMachine ----------------------------
(***************************************************************************)
(* What the lifecycle of PlatformPosts promises, whoever moves them: a     *)
(* status changes along VALID_TRANSITIONS only.  The composer may take two *)
(* transitions in one request, the first to draft.  Several PlatformPosts  *)
(* may move in one step; a row comes into being as draft or scheduled, may *)
(* be sent to review at once, and does not come back when deleted.         *)
(***************************************************************************)
EXTENDS PostStatus

CONSTANT PP

VARIABLE status

New     == "new"        \* no row yet
Deleted == "deleted"    \* the row has been deleted

(* One request moves a row directly or through draft.                      *)
Moves(from, to) ==
  \/ CanTransition(from, to)
  \/ CanTransition(from, "draft") /\ CanTransition("draft", to)

MayBecome(from, to) ==
  \/ from = to
  \/ from \in Status /\ to \in Status /\ Moves(from, to)
  \/ from = New /\ to \in {"draft", "scheduled", "pending_review"}
  \/ to = Deleted

MachineInit == status \in [PP -> {New, "draft", "scheduled"}]

MachineNext ==
  /\ status' \in [PP -> Status \cup {New, Deleted}]
  /\ \A p \in PP : MayBecome(status[p], status'[p])

Machine == MachineInit /\ [][MachineNext]_status
=============================================================================
