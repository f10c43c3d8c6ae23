----------------------------- MODULE PublishCall -----------------------------
(***************************************************************************)
(* What the publishing engine may count on when it hands a post to a       *)
(* platform, whichever platform it is: the call returns, and returns with  *)
(* success only when the post is public; it fails only when the post is    *)
(* not - but for a lost answer - and a post that was accepted is never     *)
(* handed over again.  It is what CallProvider of Publisher takes for      *)
(* granted.                                                                *)
(***************************************************************************)
EXTENDS Integers

CONSTANT Row

VARIABLES phase,     \* how far the post is
          delivered, \* times it is public
          lost       \* times it went public and the call failed

vars == << phase, delivered, lost >>

Init ==
  /\ phase = [r \in Row |-> "idle"]
  /\ delivered = [r \in Row |-> 0]
  /\ lost = [r \in Row |-> 0]

Moves(r, from, to) == phase[r] = from /\ phase' = [phase EXCEPT ![r] = to]

Call(r)   == Moves(r, "idle", "calling") /\ UNCHANGED << delivered, lost >>
Refuse(r) == Moves(r, "calling", "idle") /\ UNCHANGED << delivered, lost >>
Accept(r) ==
  /\ Moves(r, "calling", "accepted")
  /\ delivered' = [delivered EXCEPT ![r] = @ + 1]
  /\ UNCHANGED lost
Lose(r) ==
  /\ Moves(r, "calling", "idle")
  /\ delivered' = [delivered EXCEPT ![r] = @ + 1]
  /\ lost' = [lost EXCEPT ![r] = @ + 1]
Save(r) == Moves(r, "accepted", "done") /\ UNCHANGED << delivered, lost >>
(* The process dies; nobody takes the post up again.                       *)
Die(r)  ==
  /\ Moves(r, "calling", "dead") \/ Moves(r, "accepted", "dead")
  /\ UNCHANGED << delivered, lost >>

Returns(r) == Refuse(r) \/ Accept(r) \/ Lose(r) \/ Save(r) \/ Die(r)

Next == \E r \in Row : Call(r) \/ Returns(r)

Spec == Init /\ [][Next]_vars /\ \A r \in Row : WF_vars(Returns(r))
=============================================================================
