------------------------------ MODULE Dispatch -------------------------------
(***************************************************************************)
(* One call of a platform, request by request: _dispatch_to_provider of    *)
(* the engine downloads the media and runs publish_post of the provider;   *)
(* when it has published, a background task runs publish_comment.          *)
(*                                                                         *)
(* Every request may be refused, every answer lost, and the process may    *)
(* die between any two.  Publisher takes the same call as one step, and    *)
(* models what surrounds it: claims, edits, the other accounts.            *)
(***************************************************************************)
EXTENDS Providers, FiniteSets

CONSTANTS Row,        \* PlatformPosts
          Drafts,     \* what they may be: site, media, hint, extra, comment
          MaxRetries, \* MAX_RETRIES
          MaxPolls,   \* CONTAINER_POLL_MAX_ATTEMPTS
          MaxFaults   \* bound: refused requests, lost answers, deaths

VARIABLES draft,   \* the content of each row
          row,     \* status, retry_count and the post's number on the platform
          call,    \* the call of a provider for it: what is left to do
          made,    \* the platform's last container for it
          public,  \* its posts on the platform: the media of each
          replies, \* the posts its first comment went to
          task,    \* the comment task: "none", "waiting", "done"
          lost,    \* ghost: posts and comments that took effect and failed
          died,    \* ghost: deaths of the process during a call
          faults

vars == << draft, row, call, made, public, replies, task, lost, died, faults >>

Idle == [for |-> "nothing"]
Fault == faults < MaxFaults /\ faults' = faults + 1
Head1(r) == call[r].todo[1]
Rest(r)  == [call[r] EXCEPT !.todo = Tail(@), !.polls = 0]
Busy(r)  == call[r] # Idle /\ call[r].todo # << >>

Init ==
  /\ draft \in [Row -> Drafts]
  /\ row = [r \in Row |-> [status |-> "scheduled", retries |-> 0, id |-> 0]]
  /\ call = [r \in Row |-> Idle]
  /\ made = [r \in Row |-> "none"]
  /\ public = [r \in Row |-> << >>]
  /\ replies = [r \in Row |-> << >>]
  /\ task = [r \in Row |-> "none"]
  /\ lost = [r \in Row |-> [post |-> 0, comment |-> 0]]
  /\ died = [r \in Row |-> 0]
  /\ faults = 0
-----------------------------------------------------------------------------
(* A file for each attachment, one for the thumbnail, one for the cover.   *)
Downloads(site, d) ==
  [i \in 1 .. Len(Attached(site, d.media)) + Cardinality(d.extra \cap {"thumbnail_file", "cover_image_file"})
     |-> Step("file", << >>)]

(* The engine takes up a row that is due.                                  *)
Begin(r) ==
  /\ row[r].status = "scheduled" /\ call[r] = Idle
  /\ row' = [row EXCEPT ![r].status = "publishing"]
  /\ LET d == draft[r]
     IN  call' = [call EXCEPT ![r] =
           [for |-> "post", on |-> Len(public[r]), polls |-> 0,
            todo |-> Downloads(d.site, d) \o Program(d.site, Content(d.site, d))]]
  /\ made' = [made EXCEPT ![r] = "none"]
  /\ UNCHANGED << draft, public, replies, task, lost, died, faults >>

(* _post_first_comment_task                                                *)
BeginComment(r) ==
  /\ task[r] = "waiting" /\ call[r] = Idle
  /\ IF draft[r].comment
     THEN /\ call' = [call EXCEPT ![r] =
                [for |-> "comment", on |-> row[r].id, polls |-> 0, todo |-> Comment(draft[r].site)]]
          /\ UNCHANGED task
     ELSE task' = [task EXCEPT ![r] = "done"] /\ UNCHANGED call
  /\ made' = [made EXCEPT ![r] = "none"]
  /\ UNCHANGED << draft, row, public, replies, lost, died, faults >>

(* _schedule_retry                                                         *)
Retried(x) ==
  IF x.retries < MaxRetries THEN [x EXCEPT !.status = "scheduled", !.retries = @ + 1]
  ELSE [x EXCEPT !.status = "failed"]

(* Mutant of Due: the comment is scheduled whatever the outcome.           *)
DueAlways(ok) == TRUE
Due(ok) == ok

(* The call ends; the comment task logs its exceptions.                    *)
Ends(r, ok) ==
  /\ call' = [call EXCEPT ![r] = Idle]
  /\ IF call[r].for = "comment"
     THEN task' = [task EXCEPT ![r] = "done"] /\ UNCHANGED row
     ELSE /\ row' = [row EXCEPT ![r] = IF ok THEN [@ EXCEPT !.status = "published", !.id = Len(public[r])]
                                       ELSE Retried(@)]
          /\ task' = [task EXCEPT ![r] = IF draft[r].comment /\ Due(ok) THEN "waiting" ELSE @]

Goes(r) == call' = [call EXCEPT ![r] = Rest(r)] /\ UNCHANGED << row, task >>

Finish(r) ==
  /\ call[r] # Idle /\ call[r].todo = << >>
  /\ Ends(r, TRUE)
  /\ UNCHANGED << draft, made, public, replies, lost, died, faults >>

(* What a request does on the platform.  A container is published when it  *)
(* has been processed, and a comment is a post under the one it is on.     *)
Effect(r) ==
  CASE Head1(r).do = "make" ->
         made' = [made EXCEPT ![r] = "processing"] /\ UNCHANGED << public, replies >>
    [] Head1(r).do = "post" /\ call[r].for = "post" ->
         public' = [public EXCEPT ![r] = Append(@, Head1(r).media)] /\ UNCHANGED << made, replies >>
    [] Head1(r).do = "post" /\ call[r].for = "comment" ->
         replies' = [replies EXCEPT ![r] = Append(@, call[r].on)] /\ UNCHANGED << made, public >>
    [] OTHER -> UNCHANGED << made, public, replies >>
Takes(r) == Head1(r).do = "post" => made[r] \in {"none", "ready"}

Request(r) ==
  /\ Busy(r) /\ Head1(r).do \in {"file", "ask", "load", "make", "post", "try"}
  /\ Takes(r)
  /\ Effect(r)
  /\ Goes(r)
  /\ UNCHANGED << draft, lost, died, faults >>

(* _request raises on every error status.  A container that is not ready   *)
(* is refused; anything may be.                                            *)
Refused(r) ==
  /\ Busy(r) /\ Head1(r).do \in {"file", "ask", "load", "make", "post", "wait"}
  /\ IF Takes(r) THEN Fault ELSE UNCHANGED faults
  /\ Ends(r, FALSE)
  /\ UNCHANGED << draft, made, public, replies, lost, died >>

(* The answer does not come back in time.                                  *)
Lost(r) ==
  /\ Busy(r) /\ Head1(r).do \in {"make", "post"} /\ Takes(r)
  /\ Fault
  /\ Effect(r)
  /\ Ends(r, FALSE)
  /\ lost' = [lost EXCEPT ![r][call[r].for] = IF Head1(r).do = "post" THEN @ + 1 ELSE @]
  /\ UNCHANGED << draft, died >>

(* Mutant of Caught: the exception of the thumbnail ends the call.         *)
CaughtNot(r) == Ends(r, FALSE)
Caught(r) == Goes(r)

TryFails(r) ==
  /\ Busy(r) /\ Head1(r).do = "try"
  /\ Fault
  /\ Caught(r)
  /\ UNCHANGED << draft, made, public, replies, lost, died >>

Raises(r) ==
  /\ Busy(r) /\ Head1(r).do = "raise"
  /\ Ends(r, FALSE)
  /\ UNCHANGED << draft, made, public, replies, lost, died, faults >>

(* The platform has processed the container, or cannot.                    *)
Process(r) ==
  /\ made[r] = "processing"
  /\ made' \in {[made EXCEPT ![r] = s] : s \in {"ready", "error"}}
  /\ UNCHANGED << draft, row, call, public, replies, task, lost, died, faults >>

(* Mutant of TimedOut: the loop falls through when it is used up.          *)
TimedOutQuietly(r) == Goes(r)
TimedOut(r) == Ends(r, FALSE)

(* One round of _wait_for_container.                                       *)
Poll(r) ==
  /\ Busy(r) /\ Head1(r).do = "wait"
  /\ CASE made[r] = "ready" -> Goes(r)
       [] made[r] = "error" -> Ends(r, FALSE)
       [] made[r] = "processing" /\ call[r].polls + 1 = MaxPolls -> TimedOut(r)
       [] OTHER -> call' = [call EXCEPT ![r].polls = @ + 1] /\ UNCHANGED << row, task >>
  /\ UNCHANGED << draft, made, public, replies, lost, died, faults >>

(* The process dies.  The row stays in publishing; the task queue runs an  *)
(* unfinished task again.                                                  *)
Crash(r) ==
  /\ call[r] # Idle
  /\ Fault
  /\ call' = [call EXCEPT ![r] = Idle]
  /\ died' = [died EXCEPT ![r] = @ + 1]
  /\ UNCHANGED << draft, row, made, public, replies, task, lost >>

(* The author takes the first comment away.                                *)
Recant(r) ==
  /\ draft[r].comment /\ task[r] = "waiting" /\ call[r] = Idle
  /\ draft' = [draft EXCEPT ![r].comment = FALSE]
  /\ UNCHANGED << row, call, made, public, replies, task, lost, died, faults >>
-----------------------------------------------------------------------------
Runs(r) ==
  \/ Finish(r) \/ Request(r) \/ Refused(r) \/ Lost(r) \/ TryFails(r)
  \/ Raises(r) \/ Poll(r)

Next ==
  \E r \in Row : Begin(r) \/ BeginComment(r) \/ Runs(r) \/ Process(r) \/ Crash(r) \/ Recant(r)

(* A call goes on; httpx gives up on a request after its timeout.          *)
Spec == Init /\ [][Next]_vars /\ \A r \in Row : WF_vars(Runs(r))
-----------------------------------------------------------------------------
TypeOK ==
  /\ draft \in [Row -> Drafts \cup {[d EXCEPT !.comment = FALSE] : d \in Drafts}]
  /\ row \in [Row -> [status : {"scheduled", "publishing", "published", "failed"},
                      retries : 0 .. MaxRetries, id : 0 .. 2 + MaxFaults]]
  /\ \A r \in Row : call[r] = Idle \/ (call[r].for \in {"post", "comment"} /\ call[r].polls < MaxPolls)
  /\ made \in [Row -> {"none", "processing", "ready", "error"}]
  /\ task \in [Row -> {"none", "waiting", "done"}]
  /\ lost \in [Row -> [post : 0 .. MaxFaults, comment : 0 .. MaxFaults]]
  /\ died \in [Row -> 0 .. MaxFaults]

(* How far a row is, in the terms of PublishCall: a call has been accepted *)
(* as soon as there is a post more than when it began.                     *)
Phase(r) ==
  IF call[r] # Idle /\ call[r].for = "post"
  THEN IF Len(public[r]) > call[r].on THEN "accepted" ELSE "calling"
  ELSE IF row[r].status = "published" THEN "done"
  ELSE IF row[r].status = "publishing" THEN "dead"
  ELSE "idle"

Promise == INSTANCE PublishCall WITH
  phase <- [r \in Row |-> Phase(r)],
  delivered <- [r \in Row |-> Len(public[r])],
  lost <- [r \in Row |-> lost[r].post]

(* The engine's view of every platform: PublishCall, whatever the program  *)
(* of the platform is and wherever it fails.  Nothing that can fail comes  *)
(* after the request that publishes, and every call returns.               *)
Promised == Promise!Spec

(* No client but that of Threads asks for a container to be published      *)
(* before the platform has said that it is ready.                          *)
FinishedFirst ==
  \A r \in Row :
    Busy(r) /\ Head1(r).do = "post" /\ made[r] # "none" /\ draft[r].site # "threads"
      => made[r] = "ready"

(* A first comment goes under the post that the row has on the platform,   *)
(* no duplicate of it, and goes there once - once more for each death of   *)
(* the process.                                                            *)
CommentOnPost ==
  \A r \in Row :
    /\ \A k \in DOMAIN replies[r] : replies[r][k] \in DOMAIN public[r] /\ replies[r][k] = row[r].id
    /\ Len(replies[r]) <= 1 + died[r]
=============================================================================
