------------------------------ MODULE Calendar -------------------------------
(***************************************************************************)
(* What the calendar schedules: PostingQueue and Recurrence.  They share   *)
(* nothing here: a behaviour is one of the two, as part says.              *)
(***************************************************************************)
EXTENDS PostingQueue

CONSTANTS Offset, Rules, None, FirstDays, WeekLength, Lookahead,
          Runner, Elsewhere, MaxDay, MaxEdits, MaxDeaths

(* A rule goes some days on each time, months follow one another, and the  *)
(* calendar covers what a run looks ahead.                                 *)
ASSUME CalendarAssumption ==
  /\ Rules \subseteq [frequency : {"daily", "weekly", "monthly"}, interval : Nat \ {0}, end : Nat \cup {None}]
  /\ FirstDays \in Seq(Nat) /\ Len(FirstDays) > 1 /\ FirstDays[1] = 0
  /\ \A m, n \in 1 .. Len(FirstDays) : m < n => FirstDays[m] < FirstDays[n]
  /\ MaxDay \in Nat /\ MaxDay < FirstDays[Len(FirstDays)]
  /\ WeekLength \in Nat \ {0} /\ Lookahead \in 0 .. MaxDay

VARIABLES part, rule, day, accounts, clone, run, today, edits, deaths, disturbed

R == INSTANCE Recurrence

recurrence == << rule, day, accounts, clone, run, today, edits, deaths, disturbed >>
Both == << part, vars, recurrence >>

CalendarInit ==
  /\ part \in {"queue", "recurrence"}
  /\ Init /\ R!Init
  /\ part = "queue" => rule = CHOOSE r \in Rules : TRUE

CalendarNext ==
  \/ part = "queue" /\ Next /\ UNCHANGED << part, recurrence >>
  \/ part = "recurrence" /\ R!Next /\ UNCHANGED << part, vars >>

CalendarSpec == CalendarInit /\ [][CalendarNext]_Both
-----------------------------------------------------------------------------
(* A recurring post is made once for each day of its rule.                 *)
OncePerDate == R!OncePerDate
=============================================================================
