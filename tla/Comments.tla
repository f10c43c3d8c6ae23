------------------------------ MODULE Comments ------------------------------
(***************************************************************************)
(* The discussion of one post (apps/approvals/comments.py): comments and   *)
(* replies, edited by their authors and deleted, softly, by their authors  *)
(* or by who may approve posts.  A request looks its comment up and saves  *)
(* two columns of it; nothing is locked, so that others come in between.   *)
(*                                                                         *)
(* Who is notified of a mention is left out.                               *)
(***************************************************************************)
EXTENDS Integers

CONSTANTS Comment, User, Request,
          None, New, Gone,
          MaxText,    \* bound: texts are 1 .. MaxText
          MaxChanges  \* bound: roles changed

VARIABLES comment,  \* PostComment rows; all are Gone when the post is
          role,     \* WorkspaceMembership of each user
          work,     \* what each request has looked up
          changes

vars == << comment, role, work, changes >>

Idle     == [at |-> "idle"]
Rows     == {c \in Comment : comment[c] \notin {New, Gone}}
Live     == {c \in Rows : ~comment[c].deleted}
Members  == {u \in User : role[u] # None}
Roles    == {"viewer", "editor", "manager"}
Moderates(u) == role[u] = "manager"
Goes(r, w)   == work' = [work EXCEPT ![r] = w]

Init ==
  /\ comment = [c \in Comment |-> New]
  /\ role \in [User -> Roles]
  /\ work = [r \in Request |-> Idle] /\ changes = 0

(* ----- create_comment ----- *)
(* A reply is one to a comment there is; to another it is a comment of its *)
(* own.                                                                    *)
BeginAdd(r, u, c, parent, shown) ==
  /\ work[r] = Idle /\ u \in Members
  /\ comment[c] = New /\ \A q \in Request : work[q].at = "adding" => work[q].comment # c
  /\ Goes(r, [at |-> "adding", comment |-> c,
              row |-> [author |-> u, parent |-> IF parent \in Live THEN parent ELSE None,
                       text |-> 1, shown |-> shown, deleted |-> FALSE]])
  /\ UNCHANGED << comment, role, changes >>

(* The insert fails when the post is gone.                                 *)
Add(r) ==
  /\ work[r].at = "adding"
  /\ LET c == work[r].comment IN
       comment' = IF comment[c] = Gone THEN comment ELSE [comment EXCEPT ![c] = work[r].row]
  /\ Goes(r, Idle)
  /\ UNCHANGED << role, changes >>

(* ----- update_comment, delete_comment ----- *)
BeginEdit(r, u, c) ==
  /\ work[r] = Idle /\ u \in Members /\ c \in Live /\ comment[c].author = u
  /\ Goes(r, [at |-> "editing", comment |-> c, row |-> comment[c]])
  /\ UNCHANGED << comment, role, changes >>

(* Mutant of Rewritten: the whole row is saved as it was read.             *)
RewrittenWhole(c, read, text) == [read EXCEPT !.text = text]
(* The text alone.                                                         *)
Rewritten(c, read, text) == [comment[c] EXCEPT !.text = text]

(* A save of columns of a row that is gone raises.                         *)
Edit(r, text) ==
  /\ work[r].at = "editing"
  /\ LET c == work[r].comment IN
       comment' = IF comment[c] = Gone THEN comment
                  ELSE [comment EXCEPT ![c] = Rewritten(c, work[r].row, text)]
  /\ Goes(r, Idle)
  /\ UNCHANGED << role, changes >>

BeginDelete(r, u, c) ==
  /\ work[r] = Idle /\ u \in Members /\ c \in Live
  /\ comment[c].author = u \/ Moderates(u)
  /\ Goes(r, [at |-> "deleting", comment |-> c])
  /\ UNCHANGED << comment, role, changes >>

Delete(r) ==
  /\ work[r].at = "deleting"
  /\ LET c == work[r].comment IN
       comment' = IF comment[c] = Gone THEN comment ELSE [comment EXCEPT ![c].deleted = TRUE]
  /\ Goes(r, Idle)
  /\ UNCHANGED << role, changes >>

(* ----- around it ----- *)
Die(r) == work[r] # Idle /\ Goes(r, Idle) /\ UNCHANGED << comment, role, changes >>

SetRole(u, x) ==
  /\ x # role[u] /\ changes < MaxChanges /\ changes' = changes + 1
  /\ role' = [role EXCEPT ![u] = x]
  /\ UNCHANGED << comment, work >>

DeletePost ==
  /\ comment' = [c \in Comment |-> Gone]
  /\ comment' # comment /\ UNCHANGED << role, work, changes >>

Next ==
  \/ \E r \in Request :
       \/ \E u \in User, c \in Comment :
            \/ \E parent \in Comment \cup {None}, shown \in {"internal", "external"} :
                 BeginAdd(r, u, c, parent, shown)
            \/ BeginEdit(r, u, c) \/ BeginDelete(r, u, c)
       \/ Add(r) \/ Delete(r) \/ Die(r)
       \/ \E text \in 1 .. MaxText : Edit(r, text)
  \/ \E u \in User, x \in Roles \cup {None} : SetRole(u, x)
  \/ DeletePost

Spec == Init /\ [][Next]_vars

(* get_comments_for_post: what a member is shown.  Viewers get external    *)
(* threads only.                                                           *)
Threads(u) ==
  {c \in Live : comment[c].parent = None /\ (role[u] = "viewer" => comment[c].shown = "external")}
Shown(u) == Threads(u) \cup {c \in Live : comment[c].parent \in Threads(u)}

(* A deleted comment stays away, and the replies to it with it: no edit    *)
(* that was under way, no second deletion and no change of roles brings it *)
(* back, and no reply that was under way is shown.                         *)
DeletedStaysAway ==
  [][\A u \in Members, c \in Rows \ Live :
       {c} \cup {d \in Rows : comment[d].parent = c} \subseteq Comment \ Shown(u)']_vars
=============================================================================
