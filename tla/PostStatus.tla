----------------------------- MODULE PostStatus -----------------------------
(***************************************************************************)
(* The editorial and publishing state machine of a PlatformPost            *)
(* (apps/composer/models.py) and the aggregate status a Post derives from  *)
(* its children (apps/composer/status.py).                                 *)
(***************************************************************************)
EXTENDS Integers, Sequences, FiniteSets

Status == { "draft", "pending_review", "approved", "changes_requested",
            "rejected", "scheduled", "publishing", "published",
            "ready_to_post", "failed" }

(***************************************************************************)
(* PlatformPost.VALID_TRANSITIONS: from a status to the allowed targets.   *)
(***************************************************************************)
ValidTransitions ==
  [ draft             |-> {"pending_review", "scheduled", "publishing"},
    pending_review    |-> {"approved", "changes_requested", "rejected"},
    approved          |-> {"scheduled", "publishing", "draft"},
    changes_requested |-> {"pending_review", "draft"},
    rejected          |-> {"draft", "pending_review"},
    scheduled         |-> {"publishing", "draft"},
    publishing        |-> {"published", "failed", "scheduled", "ready_to_post"},
    ready_to_post     |-> {"published", "draft"},
    failed            |-> {"publishing", "draft", "scheduled"},
    published         |-> {} ]

CanTransition(from, to) == to \in ValidTransitions[from]

(***************************************************************************)
(* derive_post_status.  The workflow order places the statuses it does not *)
(* list (ready_to_post, failed) after all the others.                      *)
(***************************************************************************)
WorkflowOrder == << "draft", "changes_requested", "rejected", "pending_review",
                    "approved", "scheduled", "publishing",
                    "partially_published", "published" >>

Rank(s) == IF \E i \in DOMAIN WorkflowOrder : WorkflowOrder[i] = s
           THEN CHOOSE i \in DOMAIN WorkflowOrder : WorkflowOrder[i] = s
           ELSE Len(WorkflowOrder) + 1

(* min(unique, key=_rank): when two unlisted statuses tie, either may win. *)
LowestOf(S) == { s \in S : \A t \in S : Rank(s) <= Rank(t) }

(***************************************************************************)
(* The statuses derive_post_status may return for a set of child statuses. *)
(***************************************************************************)
DerivedStatus(S) ==
  IF S = {} THEN {"draft"}
  ELSE IF S = {"published", "failed"} THEN {"partially_published"}
  ELSE LowestOf(S)
=============================================================================
