----------------------------- MODULE MCCalendar -----------------------------
(***************************************************************************)
(* An instance of PostingQueue and one of Recurrence.                      *)
(***************************************************************************)
EXTENDS Calendar

CONSTANTS q1, q2, a1, a2, x

OwnAccounts == [q \in Queue |-> IF q = q1 THEN a1 ELSE a2]
\* One post goes to both accounts, the other to the first only.
Mixed == (Post \X {a1}) \cup {<< x, a2 >>}
\* A day of two hours comes again and again.  One account has a slot in
\* each of them, the other in the second.
EveryDay == {[a \in Account |-> [h \in 0 .. 1 |-> IF a = a1 \/ h = 1 THEN "on" ELSE "none"]]}

NoOffsets == [a \in Account |-> 0]
\* Months of three days, one and three.
Months == << 0, 3, 4, 7 >>
FewRules ==
  {[frequency |-> f, interval |-> 1, end |-> None] : f \in {"daily", "weekly", "monthly"}}
    \cup {[frequency |-> "daily", interval |-> 2, end |-> 4]}
=============================================================================
