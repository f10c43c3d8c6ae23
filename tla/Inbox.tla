------------------------------- MODULE Inbox --------------------------------
(***************************************************************************)
(* The inbox of one social account (apps/inbox): the sync worker polls the *)
(* platform and then checks the response targets, the backfill command     *)
(* polls too, webhooks push, and the team reads, answers and files what    *)
(* came in.  Every one of them works on the row it read; none locks it.    *)
(***************************************************************************)
EXTENDS Integers, FiniteSets

CONSTANTS Msg,         \* messages people leave on the platform
          Top,         \* the message that opened the conversation of each
          Sites,       \* platforms the account may be on
          MaxTime,     \* bound: the clock
          Target,      \* target_response_minutes, in ticks
          Days,        \* --days of the backfill command, in ticks
          Web,         \* request and webhook threads
          MaxRequests, \* bound: requests of the team and backfills
          MaxFaults    \* bound: crashes, refused polls, switches, shifts

Platforms == INSTANCE Providers

ASSUME InboxAssumption ==
  /\ Sites \subseteq Platforms!Site /\ Top \in [Msg -> Msg]
  /\ MaxTime \in Nat /\ Target \in Nat /\ Days \in Nat
  /\ MaxRequests \in Nat /\ MaxFaults \in Nat
  /\ "worker" \notin Web /\ "backfill" \notin Web

Poller  == {"worker", "backfill"}
Process == Poller \cup Web
Time    == 0 .. MaxTime
Never   == -1
Status  == {"unread", "open", "resolved", "archived"}

NoRow == [status |-> "none", marked |-> FALSE, at |-> Never]
Idle  == [pc |-> "idle"]

VARIABLES site,    \* the account's platform
          video,   \* the messages that are videos of a YouTube channel
          now,
          posted,  \* when each message appeared on the platform
          beyond,  \* the messages a poll does not reach: what is newer fills
                   \* the pages it reads
          conn,    \* the account's connection_status is CONNECTED
          row,     \* InboxMessage: status, "sla_notified" in extra, received_at
          config,  \* InboxSLAConfig: "off", "alert", or "resolve" on reply too
          job,     \* what each process is doing
          told,    \* "new message" notifications sent for each message
          dropped, \* messages whose announcement died with its process
          used, faults

acct == << site, video, conn, beyond >>
vars == << now, posted, acct, row, config, job, told, dropped, used, faults >>

Init ==
  /\ site \in Sites /\ conn = TRUE
  /\ video \in IF site = "youtube" THEN SUBSET {m \in Msg : \A k \in Msg \ {m} : Top[k] # m}
               ELSE {{}}
  /\ now = 0 /\ config = "off"
  /\ posted = [m \in Msg |-> Never] /\ beyond = {}
  /\ row = [m \in Msg |-> NoRow]
  /\ job = [p \in Process |-> Idle]
  /\ told = [m \in Msg |-> 0]
  /\ dropped = {}
  /\ used = 0 /\ faults = 0

Stored   == {m \in Msg : row[m] # NoRow}
Request  == used < MaxRequests /\ used' = used + 1
Fault    == faults < MaxFaults /\ faults' = faults + 1
Goes(p, j) == job' = [job EXCEPT ![p] = j]
-----------------------------------------------------------------------------
(* The platform and the connection, as the inbox sees them.                *)

Post(m) ==
  /\ posted[m] = Never
  /\ m \notin video => Top[m] = m \/ posted[Top[m]] # Never
  /\ posted' = [posted EXCEPT ![m] = now]
  /\ UNCHANGED << now, acct, row, config, job, told, dropped, used, faults >>

(* The health check or a reconnect changes connection_status.              *)
Switch ==
  /\ Fault
  /\ conn' = ~conn /\ UNCHANGED << site, video, beyond >>
  /\ UNCHANGED << now, posted, row, config, job, told, dropped, used >>

(* Newer posts, conversations, notifications or replies push a message out *)
(* of what a poll reads, before it appears or after; when they are deleted,*)
(* or its conversation goes on, it comes back.                             *)
Shift(S) ==
  /\ Fault
  /\ site = "youtube" => \A m \in S : Top[m] # m
  /\ beyond' = S /\ UNCHANGED << site, video, conn >>
  /\ UNCHANGED << now, posted, row, config, job, told, dropped, used >>

Tick ==
  /\ now < MaxTime
  /\ now' = now + 1
  /\ UNCHANGED << posted, acct, row, config, job, told, dropped, used, faults >>
-----------------------------------------------------------------------------
(* Polling.                                                                *)

(* received_at of the newest message of the account.                       *)
Newest == IF Stored = {} THEN Never
          ELSE CHOOSE t \in {row[m].at : m \in Stored} : \A m \in Stored : row[m].at <= t

(* What the platform lists: not the videos.                                *)
Posted == {m \in Msg \ video : posted[m] # Never}
(* Mutant of Fresh: the platform is asked for what came after since.       *)
FreshAfter(since) == {m \in Posted : posted[m] > since}
(* get_messages(since): every provider includes the instant itself.        *)
Fresh(since) == {m \in Posted : Platforms!Since(site, m, [n \in Posted |-> posted[n]], Top, since, beyond)}

(* A call that raises returns none.                                        *)
Fetch(p, since) ==
  \/ Goes(p, [pc |-> "poll", todo |-> Fresh(since)]) /\ UNCHANGED faults
  \/ Goes(p, [pc |-> "poll", todo |-> {}]) /\ Fault

(* sync_all polls an account only while it is connected.                   *)
StartSync ==
  /\ job["worker"] = Idle
  /\ IF conn THEN Fetch("worker", Newest)
     ELSE Goes("worker", [pc |-> "poll", todo |-> {}]) /\ UNCHANGED faults
  /\ UNCHANGED << now, posted, acct, row, config, told, dropped, used >>

(* backfill_inbox                                                          *)
StartBackfill ==
  /\ job["backfill"] = Idle /\ conn
  /\ Request
  /\ Fetch("backfill", now - Days)
  /\ UNCHANGED << now, posted, acct, row, config, told, dropped >>

(* Mutant of IsNew: nothing is recognised.                                 *)
IsNewAlways(m) == TRUE
(* created, of update_or_create and get_or_create: the account and the     *)
(* platform's id are unique together.                                      *)
IsNew(m) == row[m] = NoRow

NewRow(t) == [status |-> "unread", marked |-> FALSE, at |-> t]

(* Mutant of Rewritten: the defaults name the status as well.              *)
RewrittenUnread(m) == NewRow(posted[m])
(* The defaults of update_or_create name extra and received_at, so the     *)
(* mark of the SLA check is lost; they do not name the status.             *)
Rewritten(m) == [row[m] EXCEPT !.marked = FALSE, !.at = posted[m]]

(* _upsert_message, for one message of the list.  The sentiment saved      *)
(* before the announcement is not kept.                                    *)
Upsert(p, m) ==
  /\ job[p].pc = "poll" /\ m \in job[p].todo
  /\ LET rest == job[p].todo \ {m}
     IN  IF IsNew(m)
         THEN /\ row' = [row EXCEPT ![m] = NewRow(posted[m])]
              /\ Goes(p, [pc |-> "tell", msg |-> m, todo |-> rest])
         ELSE /\ row' = [row EXCEPT ![m] = Rewritten(m)]
              /\ Goes(p, [pc |-> "poll", todo |-> rest])
  /\ UNCHANGED << now, posted, acct, config, told, dropped, used, faults >>

(* _notify_new_message                                                     *)
Tell(p) ==
  /\ job[p].pc = "tell"
  /\ told' = [told EXCEPT ![job[p].msg] = @ + 1]
  /\ Goes(p, IF p \in Poller THEN [pc |-> "poll", todo |-> job[p].todo] ELSE Idle)
  /\ UNCHANGED << now, posted, acct, row, config, dropped, used, faults >>

(* A webhook hands over a message; the platform may do so again.           *)
(* _create_if_new stamps it with the time of its arrival.                  *)
Arrives(h, m) ==
  /\ job[h] = Idle /\ posted[m] # Never
  /\ conn
  /\ IsNew(m)
  /\ row' = [row EXCEPT ![m] = NewRow(now)]
  /\ Goes(h, [pc |-> "tell", msg |-> m])
  /\ UNCHANGED << now, posted, acct, config, told, dropped, used, faults >>

(* facebook_webhook and instagram_login_webhook                            *)
Hook(h, m) ==
  site \in {"facebook", "instagram", "instagram_login"} /\ Arrives(h, m)

(* youtube_webhook hears of the videos of the channel and of nothing else. *)
YouTubeHook(h, m) == m \in video /\ Arrives(h, m)
-----------------------------------------------------------------------------
(* check_sla                                                               *)

(* Mutant of Overdue: opened messages count as answered.                   *)
OverdueUnread(m) ==
  /\ row[m].status = "unread" /\ row[m].at + Target <= now /\ ~row[m].marked
Overdue(m) ==
  /\ row[m].status \in {"unread", "open"} /\ row[m].at + Target <= now /\ ~row[m].marked

(* After the accounts the worker reads the overdue messages.               *)
EndPoll(p) ==
  /\ job[p].pc = "poll" /\ job[p].todo = {}
  /\ Goes(p, IF p = "worker" /\ config # "off" /\ \E m \in Stored : Overdue(m)
             THEN [pc |-> "sla", todo |-> {m \in Stored : Overdue(m)}] ELSE Idle)
  /\ UNCHANGED << now, posted, acct, row, config, told, dropped, used, faults >>

(* _notify_sla_overdue, of each message that was read                      *)
Alert(m) ==
  /\ job["worker"].pc = "sla" /\ m \in job["worker"].todo
  /\ Goes("worker", [pc |-> "mark", msg |-> m, todo |-> job["worker"].todo \ {m}])
  /\ UNCHANGED << now, posted, acct, row, config, told, dropped, used, faults >>

(* extra["sla_notified"] = True, in the extra that was read                *)
Mark ==
  /\ job["worker"].pc = "mark"
  /\ row' = [row EXCEPT ![job["worker"].msg].marked = TRUE]
  /\ LET rest == job["worker"].todo
     IN  Goes("worker", IF rest = {} THEN Idle ELSE [pc |-> "sla", todo |-> rest])
  /\ UNCHANGED << now, posted, acct, config, told, dropped, used, faults >>

(* A process dies, or a query raises in check_sla, which catches nothing.  *)
Crash(p) ==
  /\ job[p] # Idle
  /\ Fault
  /\ Goes(p, Idle)
  /\ dropped' = IF job[p].pc = "tell" THEN dropped \cup {job[p].msg} ELSE dropped
  /\ UNCHANGED << now, posted, acct, row, config, told, used >>
-----------------------------------------------------------------------------
(* The team.                                                               *)

(* message_detail: a message read as unread is saved as open.              *)
View(h, m) ==
  /\ job[h] = Idle /\ row[m].status = "unread"
  /\ Request
  /\ Goes(h, [pc |-> "view", msg |-> m, was |-> "unread"])
  /\ UNCHANGED << now, posted, acct, row, config, told, dropped, faults >>

Seen(h) ==
  /\ job[h].pc = "view"
  /\ row' = [row EXCEPT ![job[h].msg].status = "open"]
  /\ Goes(h, Idle)
  /\ UNCHANGED << now, posted, acct, config, told, dropped, used, faults >>

(* send_reply reads the message, calls the platform, whatever it answers,  *)
(* and records the reply.                                                  *)
Reply(h, m) ==
  /\ job[h] = Idle /\ m \in Stored
  /\ Request
  /\ Goes(h, [pc |-> "reply", msg |-> m, was |-> row[m].status])
  /\ UNCHANGED << now, posted, acct, row, config, told, dropped, faults >>

(* The status after a reply: from the one that was read and the one that   *)
(* is there.                                                               *)
Answered(was, is) ==
  IF config = "resolve" THEN "resolved" ELSE IF was = "unread" THEN "open" ELSE is

Replied(h) ==
  /\ job[h].pc = "reply"
  /\ row' = [row EXCEPT ![job[h].msg].status = Answered(job[h].was, @)]
  /\ Goes(h, Idle)
  /\ UNCHANGED << now, posted, acct, config, told, dropped, used, faults >>

(* change_status                                                           *)
ChangeStatus(m, s) ==
  /\ m \in Stored
  /\ Request
  /\ row' = [row EXCEPT ![m].status = s]
  /\ UNCHANGED << now, posted, acct, config, job, told, dropped, faults >>

(* The statuses an action of bulk_action applies to, and the one it gives. *)
Bulk == { [from |-> {"unread"}, to |-> "open"],
          [from |-> Status \ {"archived"}, to |-> "resolved"],
          [from |-> Status, to |-> "archived"] }

BulkAction(S, b) ==
  /\ S \subseteq Stored /\ S # {}
  /\ Request
  /\ row' = [m \in Msg |-> IF m \in S /\ row[m].status \in b.from
                           THEN [row[m] EXCEPT !.status = b.to] ELSE row[m]]
  /\ UNCHANGED << now, posted, acct, config, job, told, dropped, faults >>

(* sla_config                                                              *)
Configure(c) ==
  /\ c # config
  /\ Request
  /\ config' = c
  /\ UNCHANGED << now, posted, acct, row, job, told, dropped, faults >>
-----------------------------------------------------------------------------
WorkerStep ==
  \/ StartSync \/ Tell("worker") \/ EndPoll("worker") \/ Mark
  \/ \E m \in Msg : Upsert("worker", m) \/ Alert(m)
BackfillStep == Tell("backfill") \/ EndPoll("backfill") \/ \E m \in Msg : Upsert("backfill", m)
WebStep(h)   == Tell(h) \/ Seen(h) \/ Replied(h)

Next ==
  \/ WorkerStep \/ BackfillStep \/ StartBackfill
  \/ Switch \/ Tick \/ \E m \in Msg : Post(m)
  \/ \E S \in SUBSET Msg : Shift(S)
  \/ \E p \in Process : Crash(p)
  \/ \E h \in Web :
       \/ WebStep(h)
       \/ \E m \in Msg : Hook(h, m) \/ YouTubeHook(h, m) \/ View(h, m) \/ Reply(h, m)
  \/ \E m \in Msg, s \in Status : ChangeStatus(m, s)
  \/ \E S \in SUBSET Msg, b \in Bulk : BulkAction(S, b)
  \/ \E c \in {"off", "alert", "resolve"} : Configure(c)

(* run_inbox_sync loops for ever and a backfill runs to its end; the web   *)
(* server finishes the requests it has begun.                              *)
Fairness ==
  /\ WF_vars(WorkerStep) /\ WF_vars(BackfillStep)
  /\ \A h \in Web : WF_vars(WebStep(h))

Spec == Init /\ [][Next]_vars /\ Fairness
-----------------------------------------------------------------------------
TypeOK ==
  /\ now \in Time /\ conn \in BOOLEAN
  /\ posted \in [Msg -> Time \cup {Never}]
  /\ \A m \in Msg : row[m] = NoRow
       \/ row[m] \in [status : Status, marked : BOOLEAN, at : Time]
  /\ config \in {"off", "alert", "resolve"}
  /\ \A p \in Process : job[p].pc \in {"idle", "poll", "tell", "sla", "mark", "view", "reply"}
  /\ dropped \subseteq Msg /\ beyond \subseteq Msg
  /\ used \in 0 .. MaxRequests /\ faults \in 0 .. MaxFaults

(* The inbox keeps what Intake promises, by whichever of the two pollers   *)
(* and the webhook a message comes in, again and in any order.             *)
Promise == INSTANCE Intake WITH stored <- Stored
AnnouncesOnce == Promise!Spec

(* What the team has resolved or archived comes back to its list only when *)
(* someone asks for it, or when a page or a reply had read the message as  *)
(* unread before: no poll, webhook, alert or later reply reopens it.       *)
ClosedStaysClosed ==
  [][\A m \in Msg :
       row[m].status \in {"resolved", "archived"} /\ row'[m].status \in {"unread", "open"}
       => \/ used' = used + 1
          \/ \E h \in Web : "was" \in DOMAIN job[h] /\ job[h].was = "unread" /\ job'[h] = Idle]_vars

(* A poll asks for what is not older than the newest message it knows, so  *)
(* a message is passed over only if a later one came in before it: by      *)
(* webhook, from the end of a list, or from a poll that died on the way.   *)
(* On YouTube a video that came in by webhook counts as well, and a reply  *)
(* is also passed over when anything is known that is later than the       *)
(* comment it replies to.  Or so much that is newer has come in that a poll*)
(* does not reach it.                                                      *)
Overtaken(m) ==
  \E k \in Stored : row[k].at > posted[IF site = "youtube" THEN Top[m] ELSE m]
NoneSkipped ==
  \A m \in Msg : (m \in Posted /\ conn) ~> (m \in Stored \/ Overtaken(m) \/ m \in beyond \/ ~conn)

(* While the targets are on, a message that waits past them is alerted of, *)
(* unless it is answered or filed before, also while its account is not    *)
(* connected.                                                              *)
OverdueIsAlerted ==
  \A m \in Msg :
    (m \in Stored /\ Overdue(m) /\ config # "off")
      ~> (row[m].marked \/ row[m].status \in {"resolved", "archived"} \/ config = "off")
=============================================================================
