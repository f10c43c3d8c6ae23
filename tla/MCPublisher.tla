---------------------------- MODULE MCPublisher ----------------------------
(***************************************************************************)
(* Instances of Publisher for TLC.                                         *)
(***************************************************************************)
EXTENDS Publisher, TLC

CONSTANTS p1, p2, a, b

\* Both PlatformPosts under one Post.
OnePost  == [p \in PP |-> a]

ShortBackoff == << 1 >>
LongBackoff  == << 1, 2, 3 >>

To(p, s)         == [kind |-> "transition", p |-> p, arg |-> s]
Reschedule(p, t) == [kind |-> "reschedule", p |-> p, arg |-> t]
SaveForm(p)      == [kind |-> "save", p |-> p, arg |-> 0]
Remove(p)        == [kind |-> "remove", p |-> p, arg |-> 0]

\* Drag-and-drop on the calendar, to the present and to a later day.
CalendarEdits == {Reschedule(p1, 0), Reschedule(p1, MaxTime)}
\* The composer: back to draft, in and out of the schedule, save, deselect.
ComposerEdits == {To(p1, "draft"), To(p1, "scheduled"), SaveForm(p1),
                  Remove(p1), Reschedule(p1, MaxTime)}
\* A stale save, a re-schedule of a failed post and a removal.
StaleEdits    == {SaveForm(p1), To(p1, "scheduled"), Remove(p1)}
=============================================================================
