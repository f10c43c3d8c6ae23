------------------------------ MODULE Reminders ------------------------------
(***************************************************************************)
(* Auto-reminders for a Post that waits in review (apps/approvals/tasks.py,*)
(* run every hour by run_approval_reminders) next to the requests that     *)
(* reset them (apps/approvals/services.py) or move the Post without them.  *)
(*                                                                         *)
(* Times are ages: hours since an event, counted up to the threshold.  A   *)
(* run of the check ends within the hour; requests may fall inside it.     *)
(***************************************************************************)
EXTENDS Integers

CONSTANTS Threshold,    \* PENDING_REVIEW_HOURS
          MaxReminders, \* MAX_REMINDERS
          MaxCrashes    \* bound: runs of the check that die

Age   == 0 .. Threshold
Never == -1                       \* last_reminder_at is NULL
Fresh == [count |-> 0, escalated |-> FALSE]
NoRow == [count |-> -1, escalated |-> FALSE]
Rest  == [pc |-> "idle", seen |-> NoRow]

VARIABLES inReview,    \* a child is pending_review
          age,         \* since Post.updated_at
          reminder,    \* the ApprovalReminder row
          rest,        \* since last_reminder_at
          run,         \* the check: where it is and the row it holds
          sent,        \* reminders sent since the latest submission
          gap,         \* since the latest reminder
          stalled,     \* managers notified since the latest submission
          overtaken,   \* that submission fell inside a run of the check
          crashes      \* runs that died

postVars == << inReview, age >>
rowVars  == << reminder, rest >>
ghosts   == << sent, gap, stalled, overtaken, crashes >>
vars     == << postVars, rowVars, run, ghosts >>

Older(a) == IF a = Never \/ a = Threshold THEN a ELSE a + 1
-----------------------------------------------------------------------------
Init ==
  /\ inReview = FALSE /\ age = 0
  /\ reminder = NoRow /\ rest = Never
  /\ run = Rest
  /\ sent = 0 /\ gap = Never /\ stalled = 0
  /\ overtaken = FALSE /\ crashes = 0

Tick ==
  /\ run.pc = "idle"
  /\ age' = Older(age) /\ rest' = Older(rest) /\ gap' = Older(gap)
  /\ UNCHANGED << inReview, reminder, run, sent, stalled, overtaken, crashes >>

(* Mutant of ResetRow: the row goes on from the submission before.         *)
ResetNothing == UNCHANGED rowVars
(* ApprovalReminder.objects.update_or_create in submit_for_review and      *)
(* resubmit_post.                                                          *)
ResetRow == reminder' = Fresh /\ rest' = Never

(* The composer saves the Post, then submit_for_review or resubmit_post    *)
(* moves a child into review; another child may be there already.          *)
Submit ==
  /\ inReview' = TRUE /\ age' = 0
  /\ ResetRow
  /\ sent' = 0 /\ stalled' = 0 /\ overtaken' = (run.pc # "idle")
  /\ UNCHANGED << run, gap, crashes >>

(* A chip moves a child into review: neither the Post nor the reminder is  *)
(* written.                                                                *)
ChipSubmit ==
  /\ ~inReview /\ inReview' = TRUE
  /\ UNCHANGED << age, rowVars, run, ghosts >>

(* A decision, by the approval service or by chip.                         *)
Leave ==
  /\ inReview /\ inReview' = FALSE
  /\ UNCHANGED << age, rowVars, run, ghosts >>

(* Any save of the Post, an autosave for one.                              *)
Touch ==
  /\ age' = 0
  /\ UNCHANGED << inReview, rowVars, run, ghosts >>
-----------------------------------------------------------------------------
(* The query of _process_stage.                                            *)
Stalled == inReview /\ age = Threshold

Cooling == rest # Never /\ rest < Threshold

(* Mutant of Exhausted: one reminder too few.                              *)
ExhaustedEarly(r) == r.count + 1 >= MaxReminders
Exhausted(r) == r.count >= MaxReminders

(* get_or_create and the tests on the row it returns.                      *)
Check ==
  /\ run.pc = "idle" /\ Stalled
  /\ LET r == IF reminder = NoRow THEN Fresh ELSE reminder
     IN  /\ reminder' = r
         /\ run' = IF Exhausted(r)
                   THEN IF r.escalated THEN Rest ELSE [pc |-> "escalate", seen |-> r]
                   ELSE IF Cooling THEN Rest ELSE [pc |-> "remind", seen |-> r]
  /\ UNCHANGED << postVars, rest, ghosts >>

(* _remind_reviewers                                                       *)
Remind ==
  /\ run.pc = "remind"
  /\ run' = [run EXCEPT !.pc = "count"]
  /\ sent' = sent + 1 /\ gap' = 0
  /\ UNCHANGED << postVars, rowVars, stalled, overtaken, crashes >>

(* save(update_fields=["reminder_count", "last_reminder_at"])              *)
Count ==
  /\ run.pc = "count"
  /\ reminder' = [reminder EXCEPT !.count = run.seen.count + 1]
  /\ rest' = 0
  /\ run' = Rest
  /\ UNCHANGED << postVars, ghosts >>

(* _escalate                                                               *)
Escalate ==
  /\ run.pc = "escalate"
  /\ run' = [run EXCEPT !.pc = "mark"]
  /\ stalled' = stalled + 1
  /\ UNCHANGED << postVars, rowVars, sent, gap, overtaken, crashes >>

(* save(update_fields=["escalated"])                                       *)
Mark ==
  /\ run.pc = "mark"
  /\ reminder' = [reminder EXCEPT !.escalated = TRUE]
  /\ run' = Rest
  /\ UNCHANGED << postVars, rest, ghosts >>

Crash ==
  /\ run.pc # "idle" /\ crashes < MaxCrashes
  /\ run' = Rest
  /\ crashes' = crashes + 1
  /\ UNCHANGED << postVars, rowVars, sent, gap, stalled, overtaken >>
-----------------------------------------------------------------------------
Run == Check \/ Remind \/ Count \/ Escalate \/ Mark

Next == Tick \/ Submit \/ ChipSubmit \/ Leave \/ Touch \/ Run \/ Crash

Spec == Init /\ [][Next]_vars

(* The scheduler keeps running the check, and time goes on.                *)
FairSpec == Spec /\ WF_vars(Run) /\ WF_vars(Tick)
-----------------------------------------------------------------------------
TypeOK ==
  /\ inReview \in BOOLEAN /\ age \in Age
  /\ reminder \in [count : -1 .. MaxReminders, escalated : BOOLEAN]
  /\ rest \in Age \cup {Never} /\ gap \in Age \cup {Never}
  /\ run \in [pc : {"idle", "remind", "count", "escalate", "mark"},
              seen : [count : -1 .. MaxReminders, escalated : BOOLEAN]]
  /\ sent \in Nat /\ stalled \in Nat
  /\ overtaken \in BOOLEAN /\ crashes \in 0 .. MaxCrashes

(* At most MAX_REMINDERS reminders go out for one submission, and one more *)
(* for a run that died before it saved the count: neither a resubmission   *)
(* inside a run nor a chip that skips the reset wins another.              *)
RemindersBounded == sent <= MaxReminders + crashes

(* Two reminders are a threshold apart, across submissions and chips too,  *)
(* unless a run died.                                                      *)
RemindersSpaced == [][sent' > sent /\ crashes = 0 => gap \in {Never, Threshold}]_vars

(* Managers hear of a submission once, and once more for each run that died*)
(* before it saved the mark.                                               *)
EscalatedOnce == stalled <= 1 + crashes

(* Managers hear of a Post only after all its reminders: a run that dies   *)
(* may repeat a reminder, it never skips one.  Only a submission inside a  *)
(* run, which saves the row it held over the reset, may lose some.         *)
EscalatedAfterReminders == stalled > 0 /\ ~overtaken => sent >= MaxReminders

(* A Post that stays in review untouched ends with its managers notified,  *)
(* unless its submission was overtaken so.                                 *)
StalledEscalates ==
  <>[](inReview /\ age = Threshold /\ ~overtaken) => <>[](stalled > 0)
=============================================================================
