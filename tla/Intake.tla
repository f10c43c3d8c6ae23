------------------------------- MODULE Intake -------------------------------
(***************************************************************************)
(* What the inbox promises about incoming messages, however often and by   *)
(* whichever way the platform hands one over: it is stored once, it is     *)
(* announced to the team at most once, and only the death of the process   *)
(* that stored it leaves it unannounced.                                   *)
(***************************************************************************)
EXTENDS Integers

CONSTANT Msg

VARIABLES stored,  \* messages in the inbox
          told,    \* announcements made of each
          dropped  \* messages whose announcement died with its process

vars == << stored, told, dropped >>

Init ==
  /\ stored = {} /\ dropped = {}
  /\ told = [m \in Msg |-> 0]

Store(m) ==
  /\ m \notin stored
  /\ stored' = stored \cup {m}
  /\ UNCHANGED << told, dropped >>

Open(m) == m \in stored \ dropped /\ told[m] = 0

Announce(m) ==
  /\ Open(m)
  /\ told' = [told EXCEPT ![m] = 1]
  /\ UNCHANGED << stored, dropped >>

Drop(m) ==
  /\ Open(m)
  /\ dropped' = dropped \cup {m}
  /\ UNCHANGED << stored, told >>

Next == \E m \in Msg : Store(m) \/ Announce(m) \/ Drop(m)

Spec == Init /\ [][Next]_vars /\ \A m \in Msg : WF_vars(Announce(m) \/ Drop(m))
=============================================================================
