---------------------------- MODULE MCEditorial ----------------------------
(***************************************************************************)
(* Instances of Editorial for TLC.                                         *)
(***************************************************************************)
EXTENDS Editorial, TLC

CONSTANTS p1, p2, p3, u1, u2, u3

(* One reviewer, whole requests and everything the chip menu of one        *)
(* account can do; two reviewers of one account, whose requests and the    *)
(* author's straddle; and three accounts that no reviewer looks at.        *)
WholeRequests ==
  [accounts |-> {p1, p2}, reviewers |-> {u3}, chips |-> {p1} \X Status, straddle |-> FALSE]
TwoReviewers ==
  [accounts |-> {p1}, reviewers |-> {u1, u2}, chips |-> {}, straddle |-> TRUE]
ThreeAccounts ==
  [accounts |-> {p1, p2, p3}, reviewers |-> {}, chips |-> {}, straddle |-> FALSE]
All == {WholeRequests, TwoReviewers, ThreeAccounts}

(* The two reviewers of one account take each other's part.                *)
Symmetry == Permutations({u1, u2})
=============================================================================
