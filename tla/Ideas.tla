------------------------------- MODULE Ideas -------------------------------
(***************************************************************************)
(* The board of ideas of one workspace (apps/composer): ideas written,     *)
(* edited, sent to review, decided on and turned into posts, the columns   *)
(* they are in, and what is deleted around them, media and posts.          *)
(*                                                                         *)
(* A request reads the row of its idea, tests what it read and then saves  *)
(* some columns of it, or, for a drag, all of them; one that makes a post  *)
(* reads the media after the row.  Nothing is locked, so other requests    *)
(* come in between.  The order of the columns on the board and of media,   *)
(* and the tags, are left out; a text stands for title, description, tags. *)
(***************************************************************************)
EXTENDS Integers, Sequences

CONSTANTS Idea, Asset, Post,
          Request,      \* requests that may be under way
          None,         \* NULL
          New, Gone,    \* a row not yet made, a deleted row
          Offered,      \* bound: the columns requests name or delete
          MaxText,      \* bound: texts of an idea are 1 .. MaxText
          MaxRequests,  \* bound: requests on an idea
          MaxColumns,   \* bound: columns ever made
          MaxDeleted    \* bound: columns, assets and posts deleted

VARIABLES idea,      \* Idea rows with their IdeaMedia
          column,    \* IdeaGroup: the name of each column, as they were made
          asset,     \* the assets of the library
          post,      \* posts made from ideas, as they were made
          held,      \* what each request has read, and at which step it is
          closing,   \* columns found empty by a request about to delete them
          deleted, used,
          reviewed,  \* ghost: what each idea held when it was submitted
          straddled  \* ghost: ideas that changed under an edit, a drag or
                     \* an approval

ghosts == << reviewed, straddled >>
vars   == << idea, column, asset, post, held, closing, deleted, used, ghosts >>

Free     == [idea |-> None]
Columns  == {c \in 1 .. Len(column) : column[c] # Gone}
Titled(name)  == {c \in Columns : column[c] = name}
(* Mutant of IsEditable: an idea is edited whatever its state.             *)
IsEditableAlways(row) == row.approval # None
IsEditable(row) == row.approval \in {"draft", "changes_requested"}
Exists(i)     == idea[i] \notin {New, Gone}

(* The columns of a new workspace.                                         *)
Defaults == << "Ideas", "Review", "Approved", "Rejected" >>

(* The media of an idea and its cover, the first of them: assets that are *)
(* gone are dropped, and the cover is saved when it differs from the one   *)
(* in memory.                                                              *)
Covers(media) == IF media = {} THEN {None} ELSE media
Synced(row, memory, media) ==
  {[row EXCEPT !.media = media \cap asset, !.cover = IF memory.cover # first THEN first ELSE @] :
     first \in Covers(media \cap asset)}

(* What goes into a post: the cover stands in when nothing is attached.    *)
Content(row) ==
  [text  |-> row.text,
   media |-> IF row.media # {} \/ row.cover = None THEN row.media ELSE {row.cover}]

Draft(c, text) ==
  [approval |-> "draft", column |-> c, text |-> text, media |-> {}, cover |-> None, post |-> None]

Init ==
  /\ idea = [i \in Idea |-> New]
  /\ column \in {<< >>, Defaults}
  /\ asset = Asset
  /\ post = [p \in Post |-> New]
  /\ held = [r \in Request |-> Free]
  /\ closing = {} /\ deleted = 0 /\ used = 0
  /\ reviewed = [i \in Idea |-> {}] /\ straddled = {}

(* A board without columns is given the four, and an idea to begin with.   *)
View(i) ==
  /\ Columns = {} /\ idea[i] = New /\ Len(column) + 4 <= MaxColumns
  /\ column' = column \o Defaults
  /\ idea' = [idea EXCEPT ![i] = Draft(Len(column) + 1, 1)]
  /\ UNCHANGED << asset, post, held, closing, deleted, used, ghosts >>

(* A new idea, written on the board or taken from a news feed: in a column *)
(* there is, or in none when the one it names is gone.                     *)
Create(i, media) ==
  /\ idea[i] = New
  /\ \E c \in (Columns \cap Offered) \cup {None} :
       \E row \in Synced(Draft(c, 1), Draft(c, 1), media) : idea' = [idea EXCEPT ![i] = row]
  /\ UNCHANGED << column, asset, post, held, closing, deleted, used, ghosts >>

AddColumn ==
  /\ Len(column) < MaxColumns /\ column' = Append(column, "Later")
  /\ UNCHANGED << idea, asset, post, held, closing, deleted, used, ghosts >>

(* A column is tested to be empty and then deleted, with whatever has come *)
(* into it in between left in no column.                                   *)
CheckEmpty(c) ==
  /\ c \notin closing /\ deleted < MaxDeleted
  /\ \A i \in Idea : Exists(i) => idea[i].column # c
  /\ closing' = closing \cup {c} /\ deleted' = deleted + 1
  /\ UNCHANGED << idea, column, asset, post, held, used, ghosts >>

DeleteColumn(c) ==
  /\ closing' = closing \ {c}
  /\ column' = [column EXCEPT ![c] = Gone]
  /\ idea' = [i \in Idea |-> IF Exists(i) /\ idea[i].column = c
                             THEN [idea[i] EXCEPT !.column = None] ELSE idea[i]]
  /\ UNCHANGED << asset, post, held, deleted, used, ghosts >>

(* Deleting an asset takes its attachments and clears the cover; deleting  *)
(* a post clears the link to it.                                           *)
DeleteAsset(a) ==
  /\ deleted < MaxDeleted /\ deleted' = deleted + 1
  /\ asset' = asset \ {a}
  /\ idea' = [i \in Idea |->
       IF Exists(i) THEN [idea[i] EXCEPT !.media = @ \ {a}, !.cover = IF @ = a THEN None ELSE @] ELSE idea[i]]
  /\ UNCHANGED << column, post, held, closing, used, ghosts >>

DeletePost(p) ==
  /\ deleted < MaxDeleted /\ deleted' = deleted + 1
  /\ post[p] \notin {New, Gone} /\ post' = [post EXCEPT ![p] = Gone]
  /\ idea' = [i \in Idea |-> IF Exists(i) /\ idea[i].post = p
                             THEN [idea[i] EXCEPT !.post = None] ELSE idea[i]]
  /\ UNCHANGED << column, asset, held, closing, used, ghosts >>

(* ----- requests on an idea: read, test, save ----- *)
Begin(r, i) ==
  /\ held[r] = Free /\ r = CHOOSE q \in Request : held[q] = Free
  /\ Exists(i) /\ used < MaxRequests /\ used' = used + 1
  /\ held' = [held EXCEPT ![r] = [idea |-> i, row |-> idea[i], at |-> "row"]]
  /\ UNCHANGED << idea, column, asset, post, closing, deleted, ghosts >>

At(r, step) == held[r] # Free /\ held[r].at = step
End(r)     == held' = [held EXCEPT ![r] = Free]
Others     == UNCHANGED << column, asset, closing, deleted, used >>

(* It is refused, its save raises, or its process dies.                    *)
GiveUp(r) == held[r] # Free /\ End(r) /\ Others /\ UNCHANGED << idea, post, ghosts >>

(* A save of named columns raises when the row is gone, and any save does  *)
(* when a row it refers to is.                                             *)
Refers(row) ==
  row.column \in Columns \cup {None} /\ row.cover \in asset \cup {None}
    /\ (row.post # None => post[row.post] # Gone)
Saves(i, row) == Exists(i) /\ Refers(row) /\ idea' = [idea EXCEPT ![i] = row]
Straddle(i, memory) ==
  straddled' = IF idea[i] # memory THEN straddled \cup {i} ELSE straddled

Edit(r, text) ==
  /\ At(r, "row") /\ IsEditable(held[r].row)
  /\ LET i == held[r].idea IN
       /\ Exists(i)
       /\ \E c \in (Columns \cap Offered) \cup {held[r].row.column} :
            LET row == [idea[i] EXCEPT !.text = text, !.column = c] IN
            \E saved \in {row} \cup UNION {Synced(row, held[r].row, m) : m \in SUBSET Asset} :
              Saves(i, saved)
       /\ Straddle(i, held[r].row)
  /\ End(r) /\ Others /\ UNCHANGED << post, reviewed >>

(* A decision and a submission save the state, and then move the card.     *)
Decided(r, row, name) ==
  /\ Saves(held[r].idea, row)
  /\ held' = [held EXCEPT ![r].at = name]
  /\ Others /\ UNCHANGED straddled

Submit(r) ==
  /\ At(r, "row") /\ IsEditable(held[r].row)
  /\ LET i == held[r].idea IN
       /\ Exists(i)
       /\ Decided(r, [idea[i] EXCEPT !.approval = "pending_review"], "Review")
       /\ reviewed' = [reviewed EXCEPT ![i] = @ \cup {Content(idea[i])}]
  /\ UNCHANGED post

Pending(row) == row.approval = "pending_review"
Refuse(r) ==
  /\ At(r, "row") /\ Pending(held[r].row) /\ Exists(held[r].idea)
  /\ \/ Decided(r, [idea[held[r].idea] EXCEPT !.approval = "rejected"], "Rejected")
     \/ Decided(r, [idea[held[r].idea] EXCEPT !.approval = "changes_requested"], "Ideas")
  /\ UNCHANGED << post, reviewed >>

(* The attachments are read, for an approval after its test.               *)
ReadMedia(r) ==
  /\ At(r, "row")
  /\ LET i == held[r].idea  row == held[r].row IN
       /\ held' = [held EXCEPT ![r] =
            [idea |-> i, at |-> "media", row |-> [row EXCEPT !.media = IF Exists(i) THEN idea[i].media ELSE {}]]]
       /\ straddled' = IF /\ Pending(row) /\ Exists(i)
                          /\ idea[i].text # row.text \/ idea[i].approval # row.approval
                       THEN straddled \cup {i} ELSE straddled
  /\ Others /\ UNCHANGED << idea, post, reviewed >>

(* The post, its media and its accounts, and the link to it: all or none.  *)
Makes(r, p, approval) ==
  LET i == held[r].idea  content == Content(held[r].row) IN
    /\ Exists(i) /\ post[p] = New /\ content.media \subseteq asset
    /\ post' = [post EXCEPT ![p] = [idea |-> i, content |-> content, approved |-> approval = "approved"]]

Approve(r, p) ==
  /\ At(r, "media") /\ Pending(held[r].row)
  /\ Makes(r, p, "approved")
  /\ Decided(r, [idea[held[r].idea] EXCEPT !.approval = "approved", !.post = p], "Approved")
  /\ UNCHANGED reviewed

CreatePost(r, p) ==
  /\ At(r, "media") /\ Makes(r, p, "as it is")
  /\ Saves(held[r].idea, [idea[held[r].idea] EXCEPT !.post = p])
  /\ End(r) /\ Others /\ UNCHANGED ghosts

(* The card goes to the column of that name, if there is one and it is not *)
(* the one the card was in when it was read.                               *)
MoveToColumn(r) ==
  /\ held[r] # Free /\ held[r].at \notin {"row", "media"}
  /\ LET i == held[r].idea  there == Titled(held[r].at) IN
       IF there = {} \/ held[r].row.column \in there THEN UNCHANGED idea
       ELSE \E c \in there : Saves(i, [idea[i] EXCEPT !.column = c])
  /\ End(r) /\ Others /\ UNCHANGED << post, ghosts >>

Delete(r) ==
  /\ At(r, "row")
  /\ idea' = [idea EXCEPT ![held[r].idea] = Gone]
  /\ End(r) /\ Others /\ UNCHANGED << post, ghosts >>

(* A drag saves every column of the row as it was read, and makes it anew, *)
(* without attachments, when it is gone.                                   *)
Drag(r) ==
  /\ At(r, "row")
  /\ LET i == held[r].idea IN
       /\ \E c \in (Columns \cap Offered) \cup {held[r].row.column} :
            LET row == [held[r].row EXCEPT !.column = c,
                                           !.media = IF Exists(i) THEN idea[i].media ELSE {}] IN
            Refers(row) /\ idea' = [idea EXCEPT ![i] = row]
       /\ Straddle(i, held[r].row)
  /\ End(r) /\ Others /\ UNCHANGED << post, reviewed >>

Next ==
  \/ \E i \in Idea : View(i) \/ \E m \in SUBSET Asset : Create(i, m)
  \/ AddColumn
  \/ \E c \in Columns \cap Offered : CheckEmpty(c)
  \/ \E c \in closing : DeleteColumn(c)
  \/ \E a \in asset : DeleteAsset(a)
  \/ \E p \in Post : DeletePost(p)
  \/ \E r \in Request :
       \/ \E i \in Idea : Begin(r, i)
       \/ GiveUp(r) \/ ReadMedia(r) \/ Submit(r) \/ Refuse(r) \/ MoveToColumn(r) \/ Delete(r) \/ Drag(r)
       \/ \E text \in 1 .. MaxText : Edit(r, text)
       \/ \E p \in Post : Approve(r, p) \/ CreatePost(r, p)

Spec == Init /\ [][Next]_vars

(* A post made by an approval holds what was submitted for review: a text  *)
(* the creator sent in and no medium that was not there then.  Neither a   *)
(* second decision nor a medium taken off in between changes that; only an *)
(* edit or a drag that saves over a change does, or an approval that reads *)
(* the row and the media of two versions, for nothing is locked.           *)
ApprovedAsReviewed ==
  \A p \in Post : post[p] \notin {New, Gone} =>
    (post[p].approved /\ post[p].idea \notin straddled =>
       \E c \in reviewed[post[p].idea] :
         post[p].content.text = c.text /\ post[p].content.media \subseteq c.media)
=============================================================================
