------------------------------ MODULE Editorial ------------------------------
(***************************************************************************)
(* The editorial life of one Post: the composer's saves                    *)
(* (apps/composer/views.py), the review decisions and the custom approval  *)
(* stages (apps/approvals/services.py, views.py), the per-account chip     *)
(* menu, and the publishing engine as the environment that moves scheduled *)
(* rows on.                                                                *)
(*                                                                         *)
(* A review request reads the children and the stages, then writes what it *)
(* decided from them; nothing locks the rows in between.  The author's     *)
(* requests are single steps here.                                         *)
(***************************************************************************)
EXTENDS PostStatus

CONSTANTS PP,         \* the PlatformPosts of the Post, one per account
          Reviewer,   \* users that approve, reject and schedule
          MaxStages,  \* bound: custom stages in one submission
          MaxSubmits, \* bound: requests that send children to review
          Modes       \* bounds a behavior picks one of: the accounts and
                      \* reviewers there are, the <<PlatformPost, status>>
                      \* picked in the chip menu, and whether other requests
                      \* fall between a review's read and its write

ASSUME EditorialAssumption ==
  /\ IsFiniteSet(Reviewer)
  /\ MaxStages \in Nat /\ MaxSubmits \in Nat
  /\ Modes \subseteq [accounts : SUBSET PP, reviewers : SUBSET Reviewer,
                      chips : SUBSET (PP \X Status), straddle : BOOLEAN]

New     == "new"        \* the account has not been selected
Deleted == "deleted"    \* the row has been removed
Child   == Status \cup {New, Deleted}

Review == {"approve", "changes", "reject", "schedule"}

(* From which statuses a review request takes children, and to which it    *)
(* moves them.                                                             *)
Eligible == [ approve  |-> {"pending_review", "draft", "rejected", "changes_requested"},
              changes  |-> {"pending_review"},
              reject   |-> {"pending_review"},
              schedule |-> {"approved"} ]
Target   == [ approve |-> "approved", changes |-> "changes_requested",
              reject  |-> "rejected", schedule |-> "scheduled" ]

Idle == [pc |-> "idle"]

VARIABLES mode,       \* the choice from Modes
          status,     \* PlatformPost.status of each child
          stages,     \* PostApprovalStage.status in order
          round,      \* how often the stages were replaced
          revived,    \* replaced rows << round, stage >> saved once more
          cleared,    \* << user, round, stage >> of the ApprovalAction rows
                      \* left for a stage since the stages were replaced
          gone,       \* the Post itself is deleted
          review,     \* what the request of each reviewer has read
          submits,    \* requests that sent children to review
          decisions,  \* ApprovalAction rows left when children were moved
          submitted   \* children that have been in review

stageVars == << stages, round, revived, cleared, gone >>
vars == << mode, status, stageVars, review, submits, decisions, submitted >>
-----------------------------------------------------------------------------
Init ==
  /\ mode \in Modes
  /\ status = [p \in PP |-> New]
  /\ stages = << >> /\ round = 0 /\ revived = {} /\ cleared = {} /\ gone = FALSE
  /\ review = [u \in Reviewer |-> Idle]
  /\ submits = 0 /\ decisions = 0
  /\ submitted = {}

(* Unless they straddle, a request runs from its first read to its last write.  *)
Alone(us) == mode.straddle \/ \A u \in us : review[u] = Idle

Live(st)     == {p \in PP : st[p] \in Status}

Pending == {i \in DOMAIN stages : stages[i] = "pending"}

(* Mutant of FirstPending: approved stages are not passed over.            *)
FirstStage == IF stages = << >> THEN 0 ELSE 1
(* Mutant of FirstPending: the stages are walked from the last one.        *)
LastPending == IF Pending = {} THEN 0 ELSE CHOOSE i \in Pending : \A j \in Pending : j <= i
(* The first pending stage in order, 0 if there is none.                   *)
FirstPending == IF Pending = {} THEN 0 ELSE CHOOSE i \in Pending : \A j \in Pending : i <= j
-----------------------------------------------------------------------------
(***************************************************************************)
(* Review requests: approve_post, request_changes, reject_post and         *)
(* schedule_post on the whole Post                                         *)
(***************************************************************************)
(* _resolve_targets evaluates the children; approve_post then looks up the *)
(* current stage.                                                          *)
Begin(u, op) ==
  /\ review[u] = Idle /\ Alone(Reviewer \ {u})
  /\ LET stage == IF op = "approve" THEN FirstPending ELSE 0
     IN  review' = [review EXCEPT ![u] =
           [ pc |-> IF stage = 0 THEN "decide" ELSE "clear", op |-> op,
             seen |-> status, stage |-> stage, round |-> round ]]
  /\ UNCHANGED << mode, status, stageVars, submits, decisions, submitted >>

(* The whole stage row is saved as approved.  A row that a resubmission    *)
(* deleted is inserted again, next to the new ones.                        *)
Cleared(r) ==
  IF r.round = round THEN stages' = [stages EXCEPT ![r.stage] = "approved"] /\ UNCHANGED revived
  ELSE revived' = revived \cup {<< r.round, r.stage >>} /\ UNCHANGED stages

(* Another pending stage ends the request.                                 *)
Ends(st) == \E i \in DOMAIN st : st[i] = "pending"

(* approve_post, first half: clear the current stage and leave an          *)
(* ApprovalAction for it, in one transaction, which fails when the Post is *)
(* gone; then look for the next stage.                                     *)
ClearStage(u) ==
  /\ review[u].pc = "clear"
  /\ IF gone THEN UNCHANGED << stages, revived, cleared >>
     ELSE /\ Cleared(review[u])
          /\ cleared' = cleared \cup {<< u, review[u].round, review[u].stage >>}
  /\ review' = [review EXCEPT ![u] = IF gone \/ Ends(stages') THEN Idle
                                      ELSE [@ EXCEPT !.pc = "decide"]]
  /\ UNCHANGED << mode, status, round, gone, submits, decisions, submitted >>

(* Mutant of Taken: _transition_or_skip without can_transition_to.         *)
TakenUnchecked(r) == {p \in PP : r.seen[p] \in Eligible[r.op]}
(* The children the request moves, by the statuses it has read.            *)
Taken(r) == {p \in PP : r.seen[p] \in Eligible[r.op] /\ CanTransition(r.seen[p], Target[r.op])}

(* Mutant of DecisionRows: one row per child.                              *)
DecisionRowsPerChild(r, S) == IF r.op = "schedule" THEN 0 ELSE Cardinality(S)
(* One bundled ApprovalAction if anything moved; scheduling leaves none.   *)
DecisionRows(r, S) == IF S = {} \/ r.op = "schedule" THEN 0 ELSE 1

(* The writes of a decision, in one transaction.  A child deleted since it *)
(* was read makes save(update_fields=...) raise, which rolls back the rest;*)
(* schedule_post has no transaction and keeps what it saved before.        *)
Decide(u) ==
  /\ review[u].pc = "decide"
  /\ LET r     == review[u]
         taken == Taken(r)
         here  == {p \in taken : status[p] # Deleted}
     IN  \E S \in SUBSET here :
           /\ IF here = taken THEN S = taken ELSE r.op = "schedule" \/ S = {}
           /\ status' = [p \in PP |-> IF p \in S THEN Target[r.op] ELSE status[p]]
           /\ decisions' = decisions + DecisionRows(r, S)
  /\ review' = [review EXCEPT ![u] = Idle]
  /\ UNCHANGED << mode, stageVars, submits, submitted >>
-----------------------------------------------------------------------------
(***************************************************************************)
(* The author's requests                                                   *)
(***************************************************************************)
(* _sync_platform_posts: the rows of the accounts left out are deleted,    *)
(* rows for new ones are created.                                          *)
Synced(S, initial) ==
  [p \in PP |-> IF p \notin S THEN (IF status[p] = New THEN New ELSE Deleted)
                ELSE IF status[p] = New THEN initial ELSE status[p]]

(* Bound: an account that was taken off the post is not selected again.    *)
Selectable == {p \in mode.accounts : status[p] # Deleted}

SaveDraft(S) ==
  /\ Alone(Reviewer)
  /\ status' = Synced(S, "draft")
  /\ UNCHANGED << mode, stageVars, review, submits, decisions, submitted >>

(* _transition_post_children: directly or through draft.                   *)
Moved(s) ==
  IF \/ CanTransition(s, "scheduled")
     \/ CanTransition(s, "draft") /\ CanTransition("draft", "scheduled")
  THEN "scheduled" ELSE s

(* The schedule and publish_now actions of save_post.                      *)
SaveScheduled(S) ==
  /\ Alone(Reviewer)
  /\ LET st == Synced(S, "scheduled")
     IN  status' = [p \in PP |-> IF st[p] \in Status THEN Moved(st[p]) ELSE st[p]]
  /\ UNCHANGED << mode, stageVars, review, submits, decisions, submitted >>

(* Children in the statuses from come into review.                         *)
Submitted(S, from) ==
  LET st == Synced(S, "draft")
      up == {p \in PP : st[p] \in from}
  IN  /\ status' = [p \in PP |-> IF p \in up THEN "pending_review" ELSE st[p]]
      /\ submits' = IF up = {} THEN submits ELSE submits + 1
      /\ submitted' = submitted \cup up

(* submit_for_review, with n custom stages or with none given (n = 0).     *)
Submit(S, n) ==
  /\ Alone(Reviewer) /\ submits < MaxSubmits
  /\ Submitted(S, {"draft", "changes_requested", "rejected"})
  /\ IF submits' = submits \/ n = 0 THEN UNCHANGED stageVars
     ELSE /\ stages' = [i \in 1 .. n |-> "pending"] /\ round' = round + 1
          /\ revived' = {} /\ cleared' = {} /\ UNCHANGED gone
  /\ UNCHANGED << mode, review, decisions >>

(* resubmit_post: the stages stay as they are.                             *)
Resubmit(S) ==
  /\ Alone(Reviewer) /\ submits < MaxSubmits
  /\ Submitted(S, {"changes_requested", "rejected"})
  /\ UNCHANGED << mode, stageVars, review, decisions >>

(* transition_platform_post moves one child and leaves no ApprovalAction.  *)
Chip(p, s) ==
  /\ Alone(Reviewer)
  /\ status[p] \in Status /\ CanTransition(status[p], s)
  /\ status' = [status EXCEPT ![p] = s]
  /\ IF s = "pending_review"
     THEN /\ submits < MaxSubmits /\ submits' = submits + 1
          /\ submitted' = submitted \cup {p}
     ELSE UNCHANGED << submits, submitted >>
  /\ UNCHANGED << mode, stageVars, review, decisions >>

(* post_delete of one account; the Post goes with its last child.          *)
Remove(p) ==
  /\ Alone(Reviewer)
  /\ status[p] \in Status
  /\ IF Live(status) = {p}
     THEN /\ status' = [q \in PP |-> Deleted]
          /\ stages' = << >> /\ round' = round + 1
          /\ revived' = {} /\ cleared' = {} /\ gone' = TRUE
     ELSE status' = [status EXCEPT ![p] = Deleted] /\ UNCHANGED stageVars
  /\ UNCHANGED << mode, review, submits, decisions, submitted >>

(* What the publishing engine makes of a row it finds.                     *)
Engine(p) ==
  /\ Alone(Reviewer)
  /\ \/ status[p] = "scheduled" /\ status' = [status EXCEPT ![p] = "publishing"]
     \/ /\ status[p] = "publishing"
        /\ \E s \in {"published", "scheduled", "failed", "ready_to_post"} :
             status' = [status EXCEPT ![p] = s]
  /\ UNCHANGED << mode, stageVars, review, submits, decisions, submitted >>
-----------------------------------------------------------------------------
Next ==
  \/ \E u \in mode.reviewers :
       (\E op \in Review : Begin(u, op)) \/ ClearStage(u) \/ Decide(u)
  \/ \E S \in SUBSET Selectable :
       \/ SaveDraft(S) \/ SaveScheduled(S) \/ Resubmit(S)
       \/ \E n \in 0 .. MaxStages : Submit(S, n)
  \/ \E c \in mode.chips : Chip(c[1], c[2])
  \/ \E p \in PP : Remove(p) \/ Engine(p)

Spec == Init /\ [][Next]_vars
-----------------------------------------------------------------------------
Request == [pc : {"clear", "decide"}, op : Review, seen : [PP -> Child],
            stage : 0 .. MaxStages, round : Nat]

TypeOK ==
  /\ mode \in Modes /\ status \in [PP -> Child]
  /\ stages \in Seq({"pending", "approved"}) /\ Len(stages) <= MaxStages
  /\ round \in Nat /\ gone \in BOOLEAN
  /\ revived \subseteq Nat \X Nat /\ cleared \subseteq Reviewer \X Nat \X Nat
  /\ review \in [Reviewer -> Request \cup {Idle}]
  /\ submits \in 0 .. MaxSubmits /\ decisions \in Nat
  /\ submitted \subseteq PP

(* What the lifecycle of a PlatformPost promises (VALID_TRANSITIONS): no   *)
(* order of whole requests leaves it.  Requests that straddle each other   *)
(* do, see README; the promise is then about no row.                       *)
Lifecycle == INSTANCE StatusMachine WITH
  PP <- PP,
  status <- IF mode.straddle THEN [p \in PP |-> New] ELSE status
FollowsLifecycle == Lifecycle!Machine

(* The audit trail decides the children of a submission at most once: a    *)
(* bundled request on children that are not in review leaves no decision   *)
(* behind, and of two that read the same submission each leaves one.  What *)
(* clears a stage leaves a row besides, see StageDecidedOnce.              *)
OneDecisionPerSubmission ==
  decisions <= submits * (IF mode.straddle THEN Cardinality(mode.reviewers) ELSE 1)

(* The clearing of a stage by u.                                           *)
Clears(u) == review[u] # Idle /\ review[u].pc = "clear" /\ review'[u] # review[u] /\ ~ gone

(* The trail holds one approval of a stage and no more: nobody approves    *)
(* one that has been approved, except two reviewers who both find it       *)
(* pending, and they once each, whatever is resubmitted in between.        *)
StageDecidedOnce ==
  [][\A u \in Reviewer : Clears(u) =>
       \A v \in Reviewer : << v, review[u].round, review[u].stage >> \in cleared
                            => mode.straddle /\ v # u]_vars

(* The write of a decision by u.                                           *)
Decides(u) == review[u] # Idle /\ review[u].pc = "decide" /\ review'[u] = Idle

(* The stages of a submission are approved in their order, even when two   *)
(* reviewers clear one at the same time or the author replaces them, and   *)
(* approve_post approves a child only when none is pending ("Once all      *)
(* stages are cleared the post is fully approved"), unless the author      *)
(* resubmits between its two halves.  A replaced stage comes back only     *)
(* when a review straddles the resubmission, and then as approved.         *)
StagesHold ==
  /\ [](\A i, j \in DOMAIN stages : i < j /\ stages[j] = "approved" => stages[i] = "approved")
  /\ [][\A u \in Reviewer, p \in PP :
         Decides(u) /\ review[u].round = round /\ status[p] # "approved" /\ status'[p] = "approved"
           => Pending = {}]_vars
  /\ [](mode.straddle \/ revived = {})

Children == {status[p] : p \in Live(status)}

(* What the docstring of derive_post_status says (status.py:37): "any      *)
(* child failed + any non-terminal -> publishing (still in flight)".  The  *)
(* code answers with the lowest status among the children.                 *)
FailedIsInFlight ==
  "failed" \in Children /\ Children \ {"published", "failed"} # {}
    => DerivedStatus(Children) = {"publishing"}
=============================================================================
