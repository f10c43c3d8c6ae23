------------------------------ MODULE Drafting ------------------------------
(***************************************************************************)
(* A new post in the composer (apps/composer/views.py) of one user in one  *)
(* workspace, until it has a row: pages of the composer, the media chosen  *)
(* on them, which wait in the session, and the autosave or the save that   *)
(* makes the row.                                                          *)
(*                                                                         *)
(* The session is one row: a request reads it whole when it begins and,    *)
(* with SESSION_SAVE_EVERY_REQUEST, writes it whole when it ends.  All     *)
(* pages share the list of pending media.  A page sends the id of its post *)
(* once the answer to an autosave has told it; that of a save is heard by  *)
(* nothing.  A page is open; one that is loaded again blank is another.    *)
(***************************************************************************)
EXTENDS Integers, FiniteSets

CONSTANTS Page, Request, Post,
          Asset,       \* media that may be uploaded or are in the library
          Library,     \* those in the workspace's library to begin with
          Shared,      \* those in the library of the organization
          None, New, Gone,
          MaxRequests, \* bound: requests
          MaxFaults    \* bound: requests that die

VARIABLES pending,  \* session["pending_media_..."]
          asset,    \* "own", "shared", New or Gone
          post,     \* Post rows: their PostMedia, and the page they are from
          known,    \* the post each page knows of
          request,  \* what each request is doing, with what it read
          used, faults,
          chosen,   \* ghost: media chosen for a new post
          dropped,  \* ghost: media taken out by the user, with a post, or by a
                    \* page that loads
          lost,     \* ghost: media a request wrote out of a session it had not read
          twice     \* ghost: pages whose requests overlapped, died or lost their
                    \* post, or that were saved before an autosave

rows   == << asset, post >>
bounds == << used, faults >>
ghosts == << chosen, dropped, lost, twice >>
vars   == << pending, rows, known, request, bounds, ghosts >>

Idle    == [at |-> "idle"]
Posts   == {p \in Post : post[p] \notin {New, Gone}}
Lost    == {p \in Post : post[p] = Gone}
Own(S)  == {a \in S : asset[a] = "own"}
Usable  == {a \in Asset : asset[a] \in {"own", "shared"}}
Serves(r) == request[r].page
Working(r) == request[r].at = "begun"

Init ==
  /\ pending = {} /\ known = [g \in Page |-> None]
  /\ asset = [a \in Asset |-> IF a \in Library THEN "own" ELSE IF a \in Shared THEN "shared" ELSE New]
  /\ post = [p \in Post |-> New]
  /\ request = [r \in Request |-> Idle]
  /\ used = 0 /\ faults = 0
  /\ chosen = {} /\ dropped = {} /\ lost = {} /\ twice = {}

Begin(r, g) ==
  /\ request[r] = Idle /\ used < MaxRequests /\ used' = used + 1
  /\ request' = [request EXCEPT ![r] = [at |-> "begun", page |-> g, pending |-> pending, post |-> known[g]]]
  /\ twice' = IF \E q \in Request : request[q] # Idle /\ Serves(q) = g THEN twice \cup {g} ELSE twice
  /\ UNCHANGED << pending, rows, known, faults, chosen, dropped, lost >>

(* The request ends, and the session is what it makes of what it read.     *)
Ends(r, list) ==
  /\ pending' = list
  /\ request' = [request EXCEPT ![r] = Idle]
  /\ lost' = lost \cup (pending \ (list \cup request[r].pending))
Unknown(r) == request[r].post = None

(* ----- media of a post that has no row yet; the picker of a page goes on *)
(* adding to the list when it has one.                                     *)
Choose(r, a) ==
  /\ Working(r) /\ Ends(r, request[r].pending \cup {a})
  /\ chosen' = chosen \cup {a}
  /\ UNCHANGED << post, known, bounds, dropped, twice >>

UploadPending(r, a) ==
  /\ Choose(r, a) /\ Unknown(r)
  /\ asset[a] = New /\ asset' = [asset EXCEPT ![a] = "own"]
PickPending(r, a) == a \in Usable /\ Choose(r, a) /\ UNCHANGED asset

(* Taken off the page, a medium of the workspace is deleted as well, also  *)
(* one picked from its library, unless the deletion fails.                 *)
RemovePending(r, a) ==
  /\ Working(r) /\ a \in request[r].pending
  /\ Ends(r, request[r].pending \ {a})
  /\ \/ asset[a] = "own" /\ asset' = [asset EXCEPT ![a] = Gone]
        /\ post' = [p \in Post |-> IF p \in Posts THEN [post[p] EXCEPT !.media = @ \ {a}] ELSE post[p]]
     \/ UNCHANGED rows
  /\ dropped' = dropped \cup {a}
  /\ UNCHANGED << known, bounds, chosen, twice >>

(* ----- the row ----- *)
(* Mutant of Creates: the post the page knows of is not looked up.         *)
CreatesAlways(r) == TRUE
(* A request without an id makes a post, and so does an autosave whose     *)
(* post was deleted.                                                       *)
Creates(r) == request[r].post \in {None} \cup Lost

(* The row, by an autosave or by save_post.                                *)
Save(r, p, by) ==
  /\ Working(r) /\ Creates(r) /\ post[p] = New
  /\ by = "saved" => Unknown(r)
  /\ post' = [post EXCEPT ![p] = [media |-> {}, page |-> Serves(r)]]
  /\ request' = [request EXCEPT ![r] = [at |-> by, page |-> @.page, pending |-> @.pending, post |-> p]]
  /\ twice' = IF by = "saved" \/ request[r].post \in Lost THEN twice \cup {Serves(r)} ELSE twice
  /\ UNCHANGED << pending, asset, known, bounds, chosen, dropped, lost >>

(* Mutant of Attached: the list is dropped and nothing attached.           *)
AttachedNot(p, list) == post[p]
(* The pending media the workspace owns go to the post.                    *)
Attached(p, list) == [post[p] EXCEPT !.media = @ \cup Own(list)]

(* The pending media are attached and forgotten; the page learns the id of *)
(* an autosave, unless the post is deleted by now.                         *)
AttachPending(r) ==
  /\ request[r].at \in {"saved", "autosaved"}
  /\ LET p == request[r].post IN
       /\ p \in Posts /\ post' = [post EXCEPT ![p] = Attached(p, request[r].pending)]
       /\ Ends(r, {})
       /\ known' = IF request[r].at = "saved" THEN known ELSE [known EXCEPT ![Serves(r)] = p]
  /\ UNCHANGED << asset, bounds, chosen, dropped, twice >>

(* Submitting, resubmitting and the two queue actions return before that.  *)
Return(r) ==
  /\ request[r].at = "saved" /\ Ends(r, request[r].pending)
  /\ UNCHANGED << rows, known, bounds, chosen, dropped, twice >>

(* compose: every page that loads, of a new post or of one that has a row, *)
(* takes all that is pending out of the session.                           *)
Load(r) ==
  /\ Working(r) /\ Ends(r, {})
  /\ dropped' = dropped \cup request[r].pending
  /\ UNCHANGED << rows, known, bounds, chosen, twice >>

(* Saves of a post that has a row leave the list alone.                    *)
SaveAgain(r) ==
  /\ Working(r) /\ ~Creates(r) /\ Ends(r, request[r].pending)
  /\ UNCHANGED << rows, known, bounds, chosen, dropped, twice >>

(* An upload to a post that has a row takes what is pending along.         *)
UploadTo(r, a) ==
  /\ Working(r) /\ ~Unknown(r) /\ asset[a] = New
  /\ asset' = [asset EXCEPT ![a] = "own"]
  /\ LET p == request[r].post IN
       IF p \in Posts
       THEN /\ post' = [post EXCEPT ![p].media = Attached(p, request[r].pending).media \cup {a}]
            /\ Ends(r, {})
       ELSE UNCHANGED post /\ Ends(r, request[r].pending)
  /\ UNCHANGED << known, bounds, chosen, dropped, twice >>

Attach(r, a) ==
  /\ Working(r) /\ request[r].post \in Posts /\ a \in Usable
  /\ post' = [post EXCEPT ![request[r].post].media = @ \cup {a}]
  /\ Ends(r, request[r].pending)
  /\ UNCHANGED << asset, known, bounds, chosen, dropped, twice >>

Detach(r, a) ==
  /\ Working(r) /\ request[r].post \in Posts /\ a \in post[request[r].post].media
  /\ post' = [post EXCEPT ![request[r].post].media = @ \ {a}]
  /\ dropped' = dropped \cup {a}
  /\ Ends(r, request[r].pending)
  /\ UNCHANGED << asset, known, bounds, chosen, twice >>

DeletePost(r) ==
  /\ Working(r) /\ request[r].post \in Posts
  /\ dropped' = dropped \cup post[request[r].post].media
  /\ post' = [post EXCEPT ![request[r].post] = Gone]
  /\ Ends(r, request[r].pending)
  /\ UNCHANGED << asset, known, bounds, chosen, twice >>

(* A request dies or raises, and the session is not saved.                 *)
Die(r) ==
  /\ request[r] # Idle
  /\ \/ faults < MaxFaults /\ faults' = faults + 1
     \/ request[r].at \in {"saved", "autosaved"} /\ request[r].post \notin Posts /\ UNCHANGED faults
  /\ request' = [request EXCEPT ![r] = Idle]
  /\ twice' = twice \cup {Serves(r)}
  /\ UNCHANGED << pending, rows, known, used, chosen, dropped, lost >>

Next ==
  \E r \in Request :
    \/ \E g \in Page : Begin(r, g)
    \/ \E a \in Asset : \/ UploadPending(r, a) \/ PickPending(r, a) \/ RemovePending(r, a)
                        \/ UploadTo(r, a) \/ Attach(r, a) \/ Detach(r, a)
    \/ \E p \in Post, by \in {"autosaved", "saved"} : Save(r, p, by)
    \/ AttachPending(r) \/ Return(r) \/ SaveAgain(r) \/ DeletePost(r) \/ Load(r) \/ Die(r)

Spec == Init /\ [][Next]_vars

(* What was chosen for a new post waits in the session or is in a post,    *)
(* also when the post is submitted or queued without it, until it is taken *)
(* out, a page loads, or a request that had not read of it writes the      *)
(* session over it.                                                        *)
ChosenIsKept ==
  \A a \in chosen : a \in pending \cup dropped \cup lost \/ \E p \in Posts : a \in post[p].media

(* A page makes one post, however often it saves, unless two of its        *)
(* requests overlap, one dies, its post is deleted under it, or it is saved*)
(* before an autosave has told it the id.                                  *)
OneDraftPerPage ==
  \A p, q \in Post \ {x \in Post : post[x] = New} :
    p # q /\ {p, q} \subseteq Posts /\ post[p].page = post[q].page => post[p].page \in twice
=============================================================================
