----------------------------- MODULE Recurrence -----------------------------
(***************************************************************************)
(* Recurring posts (apps/calendar/tasks.py): a daily run makes the coming  *)
(* occurrences of a scheduled post that has a RecurrenceRule, one by one,  *)
(* each as a post, its accounts and its media.  It goes over the rules one *)
(* after the other; here there is one.  What was generated is found again  *)
(* only by caption and day: a clone does not name its source.              *)
(*                                                                         *)
(* Days are numbers and a week has WeekLength of them.  A clone of an      *)
(* account with an offset is published that many days after the day of its *)
(* post.                                                                   *)
(***************************************************************************)
EXTENDS Integers, Sequences

CONSTANTS Account, Offset,  \* days an account's time lies after the post's
          Rules,            \* [frequency, interval, end], end None or a day
          None,
          FirstDays,        \* the first day of each month, then the day after the last
          WeekLength,
          Lookahead,        \* LOOKAHEAD_DAYS
          Runner,           \* runs of the task that may overlap
          Elsewhere,        \* days other posts of the caption are on
          MaxDay,           \* bound: the calendar
          MaxEdits, MaxDeaths

VARIABLES rule, day,   \* RecurrenceRule, the day of its post
          accounts,    \* the accounts of its post
          clone,       \* posts made: the occurrence and the day of each, ...
          run, today, edits, deaths,
          disturbed    \* ghost: runs overlapped or somebody changed a post

vars == << rule, day, accounts, clone, run, today, edits, deaths, disturbed >>

Idle == [at |-> "idle"]

(* ----- dates ----- *)
Month       == 1 .. Len(FirstDays) - 1
MonthOf(d)  == CHOOSE m \in Month : FirstDays[m] <= d /\ d < FirstDays[m + 1]
LengthOf(m) == FirstDays[m + 1] - FirstDays[m]
(* relativedelta(months=k): a day the month has not becomes its last; past *)
(* the calendar there is only the day after.                               *)
AddMonths(d, k) ==
  LET m == MonthOf(d) + k  past == d - FirstDays[MonthOf(d)] IN
    IF m \notin Month THEN MaxDay + 1
    ELSE FirstDays[m] + IF past < LengthOf(m) THEN past ELSE LengthOf(m) - 1
Step(r, d) ==
  IF d > MaxDay THEN d
  ELSE CASE r.frequency = "daily"   -> d + r.interval
         [] r.frequency = "weekly"  -> d + WeekLength * r.interval
         [] r.frequency = "monthly" -> AddMonths(d, r.interval)

(* _compute_recurrence_dates: each from the one before, 2 * Lookahead at   *)
(* most, none after the end.  The days by the number of the occurrence.    *)
Occurrences(r, base) ==
  LET date[n \in 0 .. 2 * Lookahead] == IF n = 0 THEN base ELSE Step(r, date[n - 1])
  IN  date
Dates(r, base, cutoff) ==
  LET date  == Occurrences(r, base)
      limit == IF r.end = None \/ r.end > cutoff THEN cutoff ELSE r.end
  IN  [n \in {m \in 1 .. 2 * Lookahead : date[m] <= limit} |-> date[n]]

Live == {k \in 1 .. Len(clone) : clone[k].live}

(* Mutant of Existing: what was generated is not looked for.               *)
ExistingNone(days) == {}
Existing(days) == days \cap (Elsewhere \cup {clone[k].day : k \in {j \in Live : clone[j].alike}})

Init ==
  /\ rule \in Rules /\ day = 1 /\ accounts = Account
  /\ clone = << >> /\ run = [w \in Runner |-> Idle]
  /\ today = 0 /\ edits = 0 /\ deaths = 0 /\ disturbed = FALSE

Goes(w, s) == run' = [run EXCEPT ![w] = s]
Kept == UNCHANGED << rule, day, accounts, today, edits >>

(* The rule and its post are read, the dates computed, and those that have *)
(* a post of that caption or are not in the future left out.               *)
Begin(w) ==
  /\ run[w] = Idle
  /\ LET date == Dates(rule, day, today + Lookahead)
         days == {date[n] : n \in DOMAIN date}
         new  == {n \in DOMAIN date : date[n] \notin Existing(days) /\ date[n] > today}
     IN  Goes(w, [at |-> "post", left |-> [n \in new |-> date[n]]])
  /\ disturbed' = (disturbed \/ \E v \in Runner : run[v] # Idle)
  /\ Kept /\ UNCHANGED << clone, deaths >>

First(left) == CHOOSE n \in DOMAIN left : \A m \in DOMAIN left : n <= m
Made(d)     == [of |-> d, day |-> d, live |-> TRUE, alike |-> TRUE, accounts |-> {}, media |-> FALSE]

MakePost(w) ==
  /\ run[w].at = "post" /\ DOMAIN run[w].left # {}
  /\ clone' = Append(clone, Made(run[w].left[First(run[w].left)]))
  /\ Goes(w, [at |-> "accounts", left |-> run[w].left, post |-> Len(clone) + 1])
  /\ Kept /\ UNCHANGED << deaths, disturbed >>

Earliest(S) == CHOOSE o \in {Offset[a] : a \in S} : \A a \in S : o <= Offset[a]
(* The accounts the source has by now, as far from each other, and then    *)
(* the post on the day of the first of them.                               *)
AddAccounts(w) ==
  /\ run[w].at = "accounts"
  /\ LET c == clone[run[w].post] IN
     clone' = [clone EXCEPT ![run[w].post] =
       [c EXCEPT !.accounts = accounts,
                 !.day = IF accounts = {} THEN c.day ELSE c.of + Earliest(accounts)]]
  /\ Goes(w, [run[w] EXCEPT !.at = "media"])
  /\ Kept /\ UNCHANGED << deaths, disturbed >>

AddMedia(w) ==
  /\ run[w].at = "media"
  /\ clone' = [clone EXCEPT ![run[w].post].media = TRUE]
  /\ LET left == run[w].left IN
     Goes(w, [at |-> "post", left |-> [n \in DOMAIN left \ {First(left)} |-> left[n]]])
  /\ Kept /\ UNCHANGED << deaths, disturbed >>

End(w) ==
  /\ run[w].at = "post" /\ DOMAIN run[w].left = {} /\ Goes(w, Idle)
  /\ Kept /\ UNCHANGED << clone, deaths, disturbed >>

(* A run that dies leaves the post it was making without the rest.         *)
Die(w) ==
  /\ run[w] # Idle /\ deaths < MaxDeaths /\ deaths' = deaths + 1
  /\ Goes(w, Idle) /\ Kept /\ UNCHANGED << clone, disturbed >>

(* ----- the users ----- *)
Edits == edits < MaxEdits /\ edits' = edits + 1 /\ UNCHANGED << rule, run, today, deaths >>

(* An account is unchecked; the time of the post stays.                    *)
RemoveAccount(a) ==
  /\ Edits /\ accounts' = accounts \ {a} /\ UNCHANGED << day, clone, disturbed >>

(* A clone is moved, given a caption of its own, or deleted.               *)
EditClone(k) ==
  /\ Edits
  /\ \/ \E d \in today + 1 .. MaxDay : clone' = [clone EXCEPT ![k].day = d]
     \/ clone' = [clone EXCEPT ![k].alike = FALSE]
     \/ clone' = [clone EXCEPT ![k].live = FALSE]
  /\ disturbed' = TRUE /\ UNCHANGED << day, accounts >>

(* The source is moved to another day, or given another caption.           *)
EditSource ==
  /\ Edits
  /\ \/ day' \in today + 1 .. MaxDay /\ UNCHANGED clone
     \/ clone' = [k \in DOMAIN clone |-> [clone[k] EXCEPT !.alike = FALSE]] /\ UNCHANGED day
  /\ disturbed' = TRUE /\ UNCHANGED accounts

NextDay ==
  /\ today < MaxDay - Lookahead /\ today' = today + 1
  /\ UNCHANGED << rule, day, accounts, clone, run, edits, deaths, disturbed >>

Next ==
  \/ \E w \in Runner : Begin(w) \/ MakePost(w) \/ AddAccounts(w) \/ AddMedia(w) \/ End(w) \/ Die(w)
  \/ \E a \in accounts : RemoveAccount(a)
  \/ \E k \in Live : EditClone(k)
  \/ EditSource \/ NextDay

Spec == Init /\ [][Next]_vars

(* No day is generated twice, whatever runs died half-way and whichever    *)
(* accounts were taken off the source, unless runs overlap or somebody     *)
(* changes a post that tells what was generated.                           *)
OncePerDate ==
  ~disturbed => \A j, k \in 1 .. Len(clone) : j # k => clone[j].of # clone[k].of
=============================================================================
