------------------------------ MODULE Publisher ------------------------------
(***************************************************************************)
(* The publishing engine (apps/publisher/engine.py): workers that poll for *)
(* due PlatformPosts, claim them, call the platform and store the outcome, *)
(* with the retries, next to the web requests that edit the same rows.     *)
(*                                                                         *)
(* A worker holds Python objects (job[w][p].mem) that it read from the     *)
(* database earlier; Model.save() writes every column of the object back,  *)
(* save(update_fields=...) only the named ones.                            *)
(***************************************************************************)
EXTENDS PostStatus

CONSTANTS PP,             \* PlatformPosts
          Post,           \* their parent Posts
          PostOf,         \* the parent of a PlatformPost
          Virtual,        \* the PlatformPosts on virtual accounts
          Commented,      \* the PlatformPosts with a first comment text
          Worker,         \* processes that run poll_and_publish
          MaxRetries,     \* MAX_RETRIES
          Backoff,        \* RETRY_BACKOFF, in ticks
          MaxConcurrent,  \* MAX_CONCURRENT_PUBLISHES
          MaxTime,        \* bound: the clock stops here
          MaxEdits,       \* bound: edit requests per behaviour
          Edits,          \* the edit requests users send
          Faults          \* the faults the environment may produce

(***************************************************************************)
(* reject: the platform refuses a call or it times out before it counts;   *)
(* lost: the platform accepts a call but the answer is an exception;       *)
(* db: a write after the provider call fails; crash: a worker process      *)
(* dies; straddle: other steps fall between the read and the write of one  *)
(* edit request.                                                           *)
(***************************************************************************)
FaultKinds == {"reject", "lost", "db", "crash", "straddle"}

Deleted == "deleted"      \* the row does not exist
Never   == MaxTime + 1    \* NULL in a datetime column
Time    == 0 .. MaxTime
When    == Time \cup {Never}

(***************************************************************************)
(* An edit request: transition to the status arg, reschedule to the time   *)
(* arg, save the composer form, or remove the account from the post.       *)
(***************************************************************************)
EditRequest ==
       [kind : {"transition"}, p : PP, arg : Status]
  \cup [kind : {"reschedule"}, p : PP, arg : Time]
  \cup [kind : {"save", "remove"}, p : PP, arg : {0}]

ASSUME PublisherAssumption ==
  /\ PostOf \in [PP -> Post]
  /\ Virtual \subseteq PP
  /\ Commented \subseteq PP
  /\ MaxRetries \in Nat /\ MaxConcurrent \in Nat \ {0}
  /\ MaxTime \in Nat /\ MaxEdits \in Nat
  /\ Backoff \in Seq(Nat) /\ Backoff # << >>
  /\ Edits \subseteq EditRequest
  /\ Faults \subseteq FaultKinds

(***************************************************************************)
(* A PlatformPost row.  at is the effective publish time                   *)
(* Coalesce(scheduled_at, post.scheduled_at).                              *)
(***************************************************************************)
Row == [status : Status \cup {Deleted}, at : When, retries : Nat,
        retryAt : Nat, publishedAt : When]

(***************************************************************************)
(* Where a worker stands with one PlatformPost: due - in a polled group    *)
(* not yet locked; queued - in the list of retries; ready - claimed;       *)
(* accepted - the platform took the post; saved - PUBLISHED is stored;     *)
(* raised - in the except branch; won / lost - the result is known.        *)
(***************************************************************************)
JobPc == {"none", "due", "queued", "ready", "accepted", "saved", "raised",
          "won", "lost"}
Busy  == JobPc \ {"none", "due", "queued"}
Ended == {"won", "lost"}

NoReq == [kind |-> "none"]

VARIABLES now,            \* the clock
          row,            \* PlatformPost table
          postPublished,  \* Post.published_at
          phase,          \* of each worker: idle, publish or retry
          job,            \* of each worker and PlatformPost
          request,        \* the edit request between its read and its write
          edits,          \* edit requests so far
          delivered,      \* how often the platform accepted the PlatformPost
          logs,           \* PublishLog rows written so far
          comments        \* first-comment tasks scheduled

dbVars     == << row, postPublished >>
workerVars == << phase, job >>
editVars   == << request, edits >>
ghosts     == << delivered, logs, comments >>
vars       == << now, dbVars, workerVars, editVars, ghosts >>
-----------------------------------------------------------------------------
(***************************************************************************)
(* A scheduled row as the composer or the calendar leaves it.              *)
(***************************************************************************)
Scheduled(t) == [status |-> "scheduled", at |-> t, retries |-> 0,
                 retryAt |-> 0, publishedAt |-> Never]

NoJob == [pc |-> "none", mem |-> Scheduled(Never)]

Init ==
  /\ now = 0
  /\ row \in [PP -> {Scheduled(0), Scheduled(1)}]
  /\ postPublished = [q \in Post |-> Never]
  /\ phase = [w \in Worker |-> "idle"]
  /\ job = [w \in Worker |-> [p \in PP |-> NoJob]]
  /\ request = NoReq
  /\ edits = 0
  /\ delivered = [p \in PP |-> 0]
  /\ logs = [p \in PP |-> 0]
  /\ comments = [p \in PP |-> 0]
-----------------------------------------------------------------------------
(***************************************************************************)
(* The poll loop                                                           *)
(***************************************************************************)
IsDue(p) == row[p].status = "scheduled" /\ row[p].at <= now

(* order_by("effective_at")[:MAX_CONCURRENT_PUBLISHES]; ties in any order. *)
FirstDue(S) ==
  /\ \A p \in S : IsDue(p)
  /\ Cardinality(S) <= MaxConcurrent
  /\ \A q \in PP \ S : IsDue(q) =>
        /\ Cardinality(S) = MaxConcurrent
        /\ \A p \in S : row[p].at <= row[q].at

(* poll_and_publish: _get_due_platform_posts reads the due rows.           *)
Poll(w) ==
  /\ phase[w] = "idle"
  /\ \E S \in SUBSET PP :
       /\ FirstDue(S)
       /\ job' = [job EXCEPT ![w] =
            [p \in PP |-> IF p \in S THEN [pc |-> "due", mem |-> row[p]] ELSE NoJob]]
  /\ phase' = [phase EXCEPT ![w] = "publish"]
  /\ UNCHANGED << now, dbVars, editVars, ghosts >>

Group(q) == {p \in PP : PostOf[p] = q}

(* Mutant of Lockable: the status is not checked again under the lock.     *)
LockablePolled(w, q) == {p \in Group(q) : job[w][p].pc = "due"}

(* The children of the polled group that are still SCHEDULED.              *)
Lockable(w, q) ==
  {p \in Group(q) : job[w][p].pc = "due" /\ row[p].status = "scheduled"}

(* _publish_post_group, first half: under select_for_update the rows still *)
(* SCHEDULED are re-read and set to PUBLISHING in one transaction; the     *)
(* objects passed on keep the values they were read with.                  *)
ClaimGroup(w, q) ==
  LET due  == {p \in Group(q) : job[w][p].pc = "due"}
      mine == Lockable(w, q)
  IN  /\ phase[w] = "publish" /\ due # {}
      /\ row' = [p \in PP |-> IF p \in mine
                              THEN [row[p] EXCEPT !.status = "publishing"] ELSE row[p]]
      /\ job' = [job EXCEPT ![w] = [p \in PP |->
                   IF p \in mine THEN [pc |-> "ready", mem |-> row[p]]
                   ELSE IF p \in due THEN NoJob ELSE job[w][p]]]
      /\ UNCHANGED << now, postPublished, phase, editVars, ghosts >>

(* _sync_parent_published_at: the latest published_at of the children.     *)
LatestPublished(q) ==
  LET times == {row[p].publishedAt : p \in
                  {c \in Group(q) : row[c].status # Deleted /\ row[c].publishedAt # Never}}
  IN  IF times = {} THEN postPublished[q]
      ELSE CHOOSE t \in times : \A u \in times : u <= t

(* Mutant of Told: every child of the group, whatever its result.          *)
ToldAnyway(w, q) == {p \in Group(q) \cap Commented : job[w][p].pc # "none"}

(* The children of the group whose first comment is to be scheduled.       *)
Told(w, q) ==
  {p \in Group(q) \cap Commented :
     job[w][p].pc # "none" /\ row[p].status = "published"}

(* _publish_post_group, second half: every future has a result.  A deleted *)
(* child makes refresh_from_db raise, which drops the comments not yet     *)
(* scheduled.                                                              *)
EndGroup(w, q) ==
  LET mine == {p \in Group(q) : job[w][p].pc # "none"}
      told == Told(w, q)
  IN  /\ phase[w] = "publish" /\ mine # {}
      /\ \A p \in mine : job[w][p].pc \in Ended
      /\ postPublished' = [postPublished EXCEPT ![q] = LatestPublished(q)]
      /\ \E C \in SUBSET told :
           /\ (\A p \in mine : row[p].status # Deleted) => C = told
           /\ comments' = [p \in PP |-> IF p \in C THEN comments[p] + 1 ELSE comments[p]]
      /\ job' = [job EXCEPT ![w] = [p \in PP |-> IF p \in mine THEN NoJob ELSE job[w][p]]]
      /\ UNCHANGED << now, row, phase, editVars, delivered, logs >>

(* The filter of _process_retries.                                         *)
RetryIsDue(p) ==
  /\ row[p].status = "scheduled"
  /\ row[p].retries > 0 /\ row[p].retries <= MaxRetries
  /\ row[p].retryAt <= now

(* _process_retries: the query, run once all groups have ended.            *)
StartRetries(w) ==
  /\ phase[w] = "publish"
  /\ \A p \in PP : job[w][p].pc = "none"
  /\ phase' = [phase EXCEPT ![w] = "retry"]
  /\ job' = [job EXCEPT ![w] = [p \in PP |->
               IF RetryIsDue(p) THEN [pc |-> "queued", mem |-> row[p]] ELSE NoJob]]
  /\ UNCHANGED << now, dbVars, editVars, ghosts >>

(* The loop body of _process_retries takes the next row of the list and    *)
(* writes PUBLISHING over whatever its status has become; a deleted row    *)
(* makes save(update_fields=...) raise and the loop goes on.               *)
ClaimRetry(w, p) ==
  /\ phase[w] = "retry"
  /\ job[w][p].pc = "queued"
  /\ \A q \in PP : job[w][q].pc \notin Busy
  /\ IF row[p].status = Deleted
     THEN job' = [job EXCEPT ![w][p] = NoJob] /\ UNCHANGED row
     ELSE /\ row' = [row EXCEPT ![p].status = "publishing"]
          /\ job' = [job EXCEPT ![w][p] =
               [pc |-> "ready", mem |-> [@.mem EXCEPT !.status = "publishing"]]]
  /\ UNCHANGED << now, postPublished, phase, editVars, ghosts >>

(* The retry returns to the loop, which syncs the parent after a success.  *)
EndRetry(w, p) ==
  /\ phase[w] = "retry" /\ job[w][p].pc \in Ended
  /\ IF job[w][p].pc = "won"
     THEN postPublished' = [postPublished EXCEPT ![PostOf[p]] = LatestPublished(PostOf[p])]
     ELSE UNCHANGED postPublished
  /\ job' = [job EXCEPT ![w][p] = NoJob]
  /\ UNCHANGED << now, row, phase, editVars, ghosts >>

(* poll_and_publish returns; the next tick polls again.                    *)
EndCycle(w) ==
  /\ phase[w] = "retry"
  /\ \A p \in PP : job[w][p].pc = "none"
  /\ phase' = [phase EXCEPT ![w] = "idle"]
  /\ UNCHANGED << now, dbVars, job, editVars, ghosts >>
-----------------------------------------------------------------------------
(***************************************************************************)
(* _publish_platform_post, one call per claimed PlatformPost               *)
(***************************************************************************)
(* Full save(): UPDATE, or INSERT when the row has gone.                   *)
Save(w, p, m, pc) ==
  /\ row' = [row EXCEPT ![p] = m]
  /\ job' = [job EXCEPT ![w][p] = [pc |-> pc, mem |-> m]]

MarkReady(w, p) ==
  /\ job[w][p].pc = "ready" /\ p \in Virtual
  /\ Save(w, p, [job[w][p].mem EXCEPT !.status = "ready_to_post", !.publishedAt = now], "won")
  /\ UNCHANGED << now, postPublished, phase, editVars, ghosts >>

(* provider.publish_post: accepted; accepted with the answer lost; refused.*)
CallProvider(w, p) ==
  /\ job[w][p].pc = "ready" /\ p \notin Virtual
  /\ \/ /\ job' = [job EXCEPT ![w][p].pc = "accepted"]
        /\ delivered' = [delivered EXCEPT ![p] = @ + 1]
     \/ /\ "lost" \in Faults
        /\ job' = [job EXCEPT ![w][p].pc = "raised"]
        /\ delivered' = [delivered EXCEPT ![p] = @ + 1]
     \/ /\ "reject" \in Faults
        /\ job' = [job EXCEPT ![w][p].pc = "raised"]
        /\ UNCHANGED delivered
  /\ UNCHANGED << now, dbVars, phase, editVars, logs, comments >>

Published(m) == [m EXCEPT !.status = "published", !.publishedAt = now]

SavePublished(w, p) ==
  /\ job[w][p].pc = "accepted"
  /\ Save(w, p, Published(job[w][p].mem), "saved")
  /\ UNCHANGED << now, postPublished, phase, editVars, ghosts >>

(* PublishLog and the notification of a success; a log for a deleted row   *)
(* breaks its foreign key, here and again in the except branch.            *)
LogPublished(w, p) ==
  /\ job[w][p].pc = "saved"
  /\ IF row[p].status = Deleted
     THEN job' = [job EXCEPT ![w][p].pc = "lost"] /\ UNCHANGED logs
     ELSE /\ job' = [job EXCEPT ![w][p].pc = "won"]
          /\ logs' = [logs EXCEPT ![p] = @ + 1]
  /\ UNCHANGED << now, dbVars, phase, editVars, delivered, comments >>

(* An exception after the platform took the post - from the save, the log  *)
(* or the notification - lands in the same except branch as a refusal.     *)
FailAfterAccept(w, p) ==
  /\ "db" \in Faults
  /\ \/ /\ job[w][p].pc = "accepted"
        /\ job' = [job EXCEPT ![w][p] = [pc |-> "raised", mem |-> Published(@.mem)]]
        /\ UNCHANGED logs
     \/ /\ job[w][p].pc = "saved" /\ row[p].status # Deleted
        /\ job' = [job EXCEPT ![w][p].pc = "raised"]
        /\ \E n \in {0, 1} : logs' = [logs EXCEPT ![p] = @ + n]
  /\ UNCHANGED << now, dbVars, phase, editVars, delivered, comments >>

(* RETRY_BACKOFF[min(retry_count, len(RETRY_BACKOFF) - 1)].                *)
BackoffAfter(n) == Backoff[IF n + 1 <= Len(Backoff) THEN n + 1 ELSE Len(Backoff)]

(* Mutants of Retried: out of retries one too early; not dropped back to   *)
(* SCHEDULED.                                                              *)
Again(m, s) ==
  [m EXCEPT !.status = s, !.retries = @ + 1, !.retryAt = now + BackoffAfter(m.retries)]
RetriedShort(m) ==
  IF m.retries + 1 >= MaxRetries THEN [m EXCEPT !.status = "failed"]
  ELSE Again(m, "scheduled")
RetriedInPlace(m) ==
  IF m.retries >= MaxRetries THEN [m EXCEPT !.status = "failed"]
  ELSE Again(m, m.status)

(* _schedule_retry: what is stored after a failed attempt.                 *)
Retried(m) ==
  IF m.retries >= MaxRetries
  THEN [m EXCEPT !.status = "failed"]
  ELSE [m EXCEPT !.status = "scheduled", !.retries = @ + 1,
                 !.retryAt = now + BackoffAfter(m.retries)]

(* The except branch: log the attempt, then _schedule_retry.               *)
ScheduleRetry(w, p) ==
  /\ job[w][p].pc = "raised" /\ row[p].status # Deleted
  /\ Save(w, p, Retried(job[w][p].mem), "lost")
  /\ logs' = [logs EXCEPT ![p] = @ + 1]
  /\ UNCHANGED << now, postPublished, phase, editVars, delivered, comments >>

(* The log of the failure fails too: the exception leaves the function and *)
(* the row keeps its status.                                               *)
FailToLog(w, p) ==
  /\ job[w][p].pc = "raised"
  /\ row[p].status = Deleted \/ "db" \in Faults
  /\ job' = [job EXCEPT ![w][p].pc = "lost"]
  /\ UNCHANGED << now, dbVars, phase, editVars, ghosts >>

(* The process dies with everything it holds in memory.                    *)
Crash(w) ==
  /\ "crash" \in Faults /\ phase[w] # "idle"
  /\ phase' = [phase EXCEPT ![w] = "idle"]
  /\ job' = [job EXCEPT ![w] = [p \in PP |-> NoJob]]
  /\ UNCHANGED << now, dbVars, editVars, ghosts >>
-----------------------------------------------------------------------------
(***************************************************************************)
(* Edit requests: transition_platform_post, reschedule_post, the save of   *)
(* _sync_platform_posts and the removal of an account by autosave.         *)
(***************************************************************************)
Permitted(e, seen) ==
  /\ seen.status # Deleted
  /\ CASE e.kind = "transition" -> CanTransition(seen.status, e.arg)
       [] e.kind = "reschedule" -> seen.status \in {"draft", "approved", "scheduled"}
       [] OTHER -> TRUE

(* What the request stores, given the row it read and the row it meets: an *)
(* UPDATE of named columns fails on a deleted row.                         *)
Edited(e, seen, cur) ==
  CASE e.kind = "save" -> seen
    [] e.kind = "remove" -> [cur EXCEPT !.status = Deleted]
    [] e.kind \in {"transition", "reschedule"} /\ cur.status = Deleted -> cur
    [] e.kind = "transition" /\ cur.status # Deleted ->
         [cur EXCEPT !.status = e.arg,
                     !.publishedAt = IF e.arg = "published" THEN now ELSE seen.publishedAt]
    [] e.kind = "reschedule" /\ cur.status # Deleted ->
         [cur EXCEPT !.status = IF seen.status = "draft" THEN "scheduled" ELSE seen.status,
                     !.at = e.arg]

Edit(e) ==
  /\ request = NoReq /\ edits < MaxEdits
  /\ Permitted(e, row[e.p])
  /\ row' = [row EXCEPT ![e.p] = Edited(e, @, @)]
  /\ edits' = edits + 1
  /\ UNCHANGED << now, postPublished, workerVars, request, ghosts >>

BeginEdit(e) ==
  /\ "straddle" \in Faults
  /\ request = NoReq /\ edits < MaxEdits
  /\ Permitted(e, row[e.p])
  /\ request' = [kind |-> "open", edit |-> e, seen |-> row[e.p]]
  /\ edits' = edits + 1
  /\ UNCHANGED << now, dbVars, workerVars, ghosts >>

EndEdit ==
  /\ request # NoReq
  /\ row' = [row EXCEPT ![request.edit.p] = Edited(request.edit, request.seen, @)]
  /\ request' = NoReq
  /\ UNCHANGED << now, postPublished, workerVars, edits, ghosts >>

Tick ==
  /\ now < MaxTime
  /\ now' = now + 1
  /\ UNCHANGED << dbVars, workerVars, editVars, ghosts >>
-----------------------------------------------------------------------------
Attempt(w, p) ==
  \/ MarkReady(w, p) \/ CallProvider(w, p) \/ SavePublished(w, p)
  \/ LogPublished(w, p) \/ FailAfterAccept(w, p)
  \/ ScheduleRetry(w, p) \/ FailToLog(w, p)

Cycle(w) ==
  \/ Poll(w) \/ StartRetries(w) \/ EndCycle(w)
  \/ \E q \in Post : ClaimGroup(w, q) \/ EndGroup(w, q)
  \/ \E p \in PP : ClaimRetry(w, p) \/ EndRetry(w, p) \/ Attempt(w, p)

Next ==
  \/ Tick
  \/ \E w \in Worker : Cycle(w) \/ Crash(w)
  \/ \E e \in Edits : Edit(e) \/ BeginEdit(e)
  \/ EndEdit

Spec == Init /\ [][Next]_vars

(***************************************************************************)
(* A running worker keeps polling and every provider call returns or times *)
(* out, so a worker's cycle never stops; users and the clock are free.     *)
(***************************************************************************)
FairSpec == Spec /\ \A w \in Worker : WF_vars(Cycle(w))
-----------------------------------------------------------------------------
TypeOK ==
  /\ now \in Time
  /\ row \in [PP -> Row]
  /\ postPublished \in [Post -> When]
  /\ phase \in [Worker -> {"idle", "publish", "retry"}]
  /\ job \in [Worker -> [PP -> [pc : JobPc, mem : Row]]]
  /\ request \in {NoReq} \cup [kind : {"open"}, edit : Edits, seen : Row]
  /\ edits \in 0 .. MaxEdits
  /\ delivered \in [PP -> Nat] /\ logs \in [PP -> Nat] /\ comments \in [PP -> Nat]

(* The platform receives a post at most once: neither the snapshots of the *)
(* poll and of the retry list nor the full-row saves of a worker that read *)
(* the row earlier make the engine send it again.                          *)
AtMostOnce == \A p \in PP : delivered[p] <= 1

(* A first comment is scheduled at most once per delivered post: the       *)
(* comment of a group never repeats one and never precedes its post.       *)
CommentsFollowDelivery == \A p \in PP : comments[p] <= delivered[p]

(* "failed" is the end of the retry schedule: all of its attempts wrote    *)
(* their PublishLog, whatever workers, crashes and saves of stale objects  *)
(* did to retry_count in between.                                          *)
FailedIsExhausted == \A p \in PP : row[p].status = "failed" => logs[p] > MaxRetries

(* A due post reaches an outcome: no order of failures, no batch limit and *)
(* no retry list starves it.                                               *)
Settled(p) == row[p].at > now \/ row[p].status \notin {"scheduled", "publishing"}
DueIsSettled == \A p \in PP : IsDue(p) ~> Settled(p)
=============================================================================
