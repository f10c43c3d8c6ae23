------------------------------ MODULE Outgoing -------------------------------
(***************************************************************************)
(* What goes out of the system: Delivery (notifications), Reminders (of    *)
(* posts that wait in review) and Dispatch (calls of a platform).  They    *)
(* share nothing: a behaviour is one of the three, as part says.           *)
(***************************************************************************)
EXTENDS Delivery

CONSTANTS PlatformPost, \* rows to publish
          Drafts,       \* what they may be
          MaxRetries,   \* MAX_RETRIES
          MaxPolls,     \* CONTAINER_POLL_MAX_ATTEMPTS
          MaxFaults,    \* bound: refused requests, lost answers, deaths
          Threshold,    \* PENDING_REVIEW_HOURS
          MaxReminders, \* MAX_REMINDERS
          MaxCrashes    \* bound: runs of the check that die

VARIABLES part, draft, post, call, made, public, replies, task, unheard, died, faults,
          inReview, age, reminder, rest, run, reminded, gap, stalled, overtaken, crashes

P == INSTANCE Dispatch WITH
  Row <- PlatformPost, row <- post, lost <- unheard
R == INSTANCE Reminders WITH sent <- reminded

(* What a row may be: attachments, a hint of the type, settings.           *)
ASSUME OutgoingAssumption ==
  /\ Drafts \subseteq [site : P!Site, media : Seq({"image", "video"}), hint : STRING,
                      extra : SUBSET STRING, comment : BOOLEAN]
  /\ Threshold \in Nat \ {0} /\ MaxReminders \in Nat /\ MaxCrashes \in Nat

calls   == << draft, post, call, made, public, replies, task, unheard, died, faults >>
reviews == << inReview, age, reminder, rest, run, reminded, gap, stalled, overtaken, crashes >>
All     == << part, vars, calls, reviews >>

AllInit ==
  /\ part \in {"notices", "reminders", "calls"}
  /\ Init /\ P!Init /\ R!Init
  /\ part # "calls" => draft = [i \in PlatformPost |-> CHOOSE d \in Drafts : TRUE]

AllNext ==
  \/ part = "notices" /\ Next /\ UNCHANGED << part, calls, reviews >>
  \/ part = "reminders" /\ R!Next /\ UNCHANGED << part, vars, calls >>
  \/ part = "calls" /\ P!Next /\ UNCHANGED << part, vars, reviews >>

(* Delivery's Fairness binds in its own part: without a row, as everywhere  *)
(* else, no action it names is enabled.                                    *)
AllSpec ==
  /\ AllInit /\ [][AllNext]_All
  /\ Fairness
  /\ WF_reviews(part = "reminders" /\ R!Run) /\ WF_reviews(part = "reminders" /\ R!Tick)
  /\ \A i \in PlatformPost : WF_calls(part = "calls" /\ P!Runs(i))

(* Every call of a platform does what the engine takes it for.             *)
Promised == P!Promised
(* A container is published when it is ready.                              *)
FinishedFirst == P!FinishedFirst
(* A first comment goes under its post, once.                              *)
CommentOnPost == P!CommentOnPost
(* Managers hear of a post after all its reminders, whichever check dies.  *)
EscalatedAfterReminders == R!EscalatedAfterReminders
(* They do hear of one that stays in review.                               *)
StalledEscalates == R!StalledEscalates
=============================================================================
