----------------------------- MODULE CsvImport -----------------------------
(***************************************************************************)
(* The import of posts from a file (apps/composer/views.py): a file is     *)
(* uploaded into the user's session, its columns are mapped, and a third   *)
(* request makes the posts, row by row.                                    *)
(*                                                                         *)
(* The session is one row: a request reads it whole when it begins and,    *)
(* with SESSION_SAVE_EVERY_REQUEST, writes it whole when it ends, so the   *)
(* last of two overlapping requests wins.  Any page of the application is  *)
(* such a request.  A mapping keeps the number of the file it was made     *)
(* for: nothing else ties the two together, and a file read by the mapping *)
(* of another may give any cells.                                          *)
(***************************************************************************)
EXTENDS Integers, Sequences, FiniteSets

CONSTANTS Request,
          None,
          Rows,        \* the rows of every file: [caption, date, accounts]
          Account,
          Cells,       \* what a row may read as under the mapping of another file
          MaxUploads,  \* bound: files uploaded
          MaxRequests, \* bound: requests
          MaxFaults    \* bound: requests that die, accounts disconnected

VARIABLES session,   \* [data, mapping]: the file, and the one it was mapped for
          request,   \* what each request is doing, with the session it read
          post,      \* the posts made: file, row, accounts and their status
          connected, \* accounts a post can be made for
          uploads, used, faults,
          again      \* ghost: files that were, or may be, imported again

vars == << session, request, post, connected, uploads, used, faults, again >>

Idle == [at |-> "idle"]
Ready(s) == s.data # None /\ s.mapping # None
Fault == faults < MaxFaults /\ faults' = faults + 1
Goes(r, q) == request' = [request EXCEPT ![r] = q]
Importing(q) == q.at \in {"importing", "saved"}

Init ==
  /\ session = [data |-> None, mapping |-> None]
  /\ request = [r \in Request |-> Idle]
  /\ post = << >> /\ connected = Account
  /\ uploads = 0 /\ used = 0 /\ faults = 0 /\ again = {}

(* A request reads the session; an import begins when there is something   *)
(* to import, and is a second one when another of that file is under way.  *)
Begin(r) ==
  /\ request[r] = Idle /\ used < MaxRequests /\ used' = used + 1
  /\ \/ /\ Goes(r, [at |-> "page", session |-> session])
        /\ UNCHANGED again
     \/ /\ Ready(session)
        /\ Goes(r, [at |-> "importing", session |-> session, row |-> 1])
        /\ again' = IF \E q \in Request : Importing(request[q]) /\ request[q].session.data = session.data
                    THEN again \cup {session.data} ELSE again
  /\ UNCHANGED << session, post, connected, uploads, faults >>

(* The session as the request leaves it replaces whatever is there now.    *)
Saved(r, s) ==
  /\ session' = s /\ Goes(r, Idle)
  /\ again' = IF s.data # None /\ s.data <= uploads /\ session.data # s.data
              THEN again \cup {s.data} ELSE again

Page(r) ==
  /\ request[r].at = "page" /\ Saved(r, request[r].session)
  /\ UNCHANGED << post, connected, uploads, used, faults >>

(* A new file leaves the mapping of the last one where it is.              *)
Upload(r) ==
  /\ request[r].at = "page" /\ uploads < MaxUploads /\ uploads' = uploads + 1
  /\ Saved(r, [request[r].session EXCEPT !.data = uploads + 1])
  /\ UNCHANGED << post, connected, used, faults >>

(* The preview reports errors and stores the mapping, errors or not.       *)
Preview(r) ==
  /\ request[r].at = "page" /\ request[r].session.data # None
  /\ Saved(r, [request[r].session EXCEPT !.mapping = request[r].session.data])
  /\ UNCHANGED << post, connected, uploads, used, faults >>

(* ----- the import, a row at a time, each post saved before its children *)
Reads(q) == IF q.session.mapping = q.session.data THEN {Rows[q.row]} ELSE Cells
Works(cells) == cells.caption /\ cells.date # "bad"
NextRow(q) == [at |-> "importing", session |-> q.session, row |-> q.row + 1]
Kept == UNCHANGED << session, uploads, used, again >>

(* A row without a caption, or with a date that is none, is an error.      *)
SkipRow(r) ==
  /\ request[r].at = "importing" /\ request[r].row <= Len(Rows)
  /\ \E cells \in Reads(request[r]) : ~Works(cells)
  /\ Goes(r, NextRow(request[r]))
  /\ Kept /\ UNCHANGED << post, connected, faults >>

SavePost(r) ==
  /\ request[r].at = "importing" /\ request[r].row <= Len(Rows)
  /\ \E cells \in Reads(request[r]) :
       /\ Works(cells)
       /\ post' = Append(post, [file |-> request[r].session.data, row |-> request[r].row, accounts |-> {},
                                status |-> IF cells.date = "none" THEN "draft" ELSE "scheduled"])
       /\ Goes(r, [at |-> "saved", session |-> request[r].session, row |-> request[r].row,
                   post |-> Len(post) + 1, left |-> cells.accounts])
  /\ Kept /\ UNCHANGED << connected, faults >>

(* One of the row's accounts that are connected; one deleted between the   *)
(* query and the insert is an error, and the post stays as it is.          *)
AddChild(r) ==
  /\ request[r].at = "saved"
  /\ \E a \in request[r].left \cap connected :
       /\ post' = [post EXCEPT ![request[r].post].accounts = @ \cup {a}]
       /\ Goes(r, [request[r] EXCEPT !.left = @ \ {a}])
  /\ Kept /\ UNCHANGED << connected, faults >>

EndRow(r) ==
  /\ request[r].at = "saved" /\ request[r].left \cap connected = {}
  /\ Goes(r, NextRow(request[r]))
  /\ Kept /\ UNCHANGED << post, connected, faults >>

FailRow(r) ==
  /\ request[r].at = "saved" /\ Fault
  /\ \E a \in request[r].left \cap connected : connected' = connected \ {a}
  /\ Goes(r, NextRow(request[r]))
  /\ Kept /\ UNCHANGED post

(* Mutant of Popped: the session keeps the file.                           *)
PoppedNot(s) == s
(* The session forgets the file and its mapping.                           *)
Popped(s) == [s EXCEPT !.data = None, !.mapping = None]

EndImport(r) ==
  /\ request[r].at = "importing" /\ request[r].row = Len(Rows) + 1
  /\ Saved(r, Popped(request[r].session))
  /\ UNCHANGED << post, connected, uploads, used, faults >>

(* ----- what happens around it ----- *)
Die(r) ==
  /\ request[r] # Idle /\ Fault /\ Goes(r, Idle)
  /\ again' = IF Importing(request[r]) THEN again \cup {request[r].session.data} ELSE again
  /\ UNCHANGED << session, post, connected, uploads, used >>

Disconnect(a) ==
  /\ a \in connected /\ Fault /\ connected' = connected \ {a}
  /\ UNCHANGED << session, request, post, uploads, used, again >>

Next ==
  \/ \E r \in Request :
       \/ Begin(r) \/ Page(r) \/ Upload(r) \/ Preview(r) \/ SkipRow(r) \/ SavePost(r)
       \/ AddChild(r) \/ EndRow(r) \/ FailRow(r) \/ EndImport(r) \/ Die(r)
  \/ \E a \in Account : Disconnect(a)

Spec == Init /\ [][Next]_vars

(* A row is imported once, unless two imports of its file overlap, one     *)
(* dies, or a request that read the session before the import wrote it     *)
(* back after.                                                             *)
ImportedOnce ==
  \A j, k \in 1 .. Len(post) :
    j # k /\ post[j].file = post[k].file /\ post[j].row = post[k].row => post[j].file \in again
=============================================================================
