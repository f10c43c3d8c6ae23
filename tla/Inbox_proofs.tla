---------------------------- MODULE Inbox_proofs -----------------------------
(***************************************************************************)
(* Theorems about Inbox, for any messages, processes and bounds: the inbox *)
(* keeps the safety part of what Intake promises, and what the team closed *)
(* stays closed.                                                           *)
(***************************************************************************)
EXTENDS Inbox, TLAPS

(* What a process may be doing.                                            *)
Polls   == [pc : {"poll"}, todo : SUBSET Msg]
Tells   == [pc : {"tell"}, msg : Msg, todo : SUBSET Msg] \cup [pc : {"tell"}, msg : Msg]
Alerts  == [pc : {"sla"}, todo : SUBSET Msg] \cup [pc : {"mark"}, msg : Msg, todo : SUBSET Msg]
Answers == [pc : {"view"}, msg : Msg, was : {"unread"}] \cup [pc : {"reply"}, msg : Msg, was : Status]
Job     == {Idle} \cup Polls \cup Tells \cup Alerts \cup Answers

Row == [status : Status, marked : BOOLEAN, at : Time]

Typed ==
  /\ TypeOK
  /\ row \in [Msg -> Row \cup {NoRow}]
  /\ job \in [Process -> Job]
  /\ told \in [Msg -> Nat]

Appeared == {m \in Msg : posted[m] # Never}

(* A poll lists messages that have appeared, a poller goes on with its     *)
(* list after an announcement, and whoever works on a message found its    *)
(* row.                                                                    *)
Fine(p, j, appeared, stored) ==
  /\ j.pc = "poll" => j.todo \subseteq appeared
  /\ j.pc = "tell" /\ p \in Poller =>
       j \in [pc : {"tell"}, msg : Msg, todo : SUBSET Msg] /\ j.todo \subseteq appeared
  /\ j.pc = "sla" => j.todo \subseteq stored
  /\ j.pc \in {"mark", "view", "reply"} => j.msg \in stored
  /\ j.pc = "mark" => j.todo \subseteq stored

JobInv == \A p \in Process : Fine(p, job[p], Appeared, Stored)

(* A message is announced by the process that stored it and by no other:   *)
(* while it holds the message nobody has been told of it, and before the   *)
(* message is stored neither.                                              *)
TellInv ==
  /\ \A m \in Msg \ Stored : told[m] = 0 /\ m \notin dropped
  /\ \A p \in Process : job[p].pc = "tell" =>
       job[p].msg \in Stored \ dropped /\ told[job[p].msg] = 0
  /\ \A p, q \in Process :
       job[p].pc = "tell" /\ job[q].pc = "tell" /\ job[p].msg = job[q].msg => p = q

Inv == Typed /\ JobInv /\ TellInv
-----------------------------------------------------------------------------
(* A job is one of its forms, told by its pc.                              *)
LEMMA JobIs ==
  ASSUME NEW j \in Job
  PROVE  /\ j.pc \in {"idle", "poll", "tell", "sla", "mark", "view", "reply"}
         /\ j.pc = "idle" <=> j = Idle
         /\ j.pc = "poll" => j \in Polls /\ j.todo \in SUBSET Msg
         /\ j.pc = "tell" => j \in Tells /\ j.msg \in Msg
         /\ j.pc = "sla" => j.todo \in SUBSET Msg
         /\ j.pc = "mark" => j.msg \in Msg /\ j.todo \in SUBSET Msg
         /\ j.pc = "view" => j.msg \in Msg /\ j.was = "unread" /\ "was" \in DOMAIN j
         /\ j.pc = "reply" => j.msg \in Msg /\ j.was \in Status /\ "was" \in DOMAIN j
BY DEF Job, Polls, Tells, Alerts, Answers, Idle

(* A row that is there is not NoRow, whatever is written of it.            *)
LEMMA RowIs ==
  /\ NoRow \notin Row
  /\ \A r \in Row : r.status \in Status /\ r.at \in Time
  /\ \A r \in Row, s \in Status : [r EXCEPT !.status = s] \in Row /\ [r EXCEPT !.status = s].status = s
  /\ \A r \in Row : [r EXCEPT !.marked = TRUE] \in Row /\ [r EXCEPT !.marked = TRUE].status = r.status
  /\ \A r \in Row, t \in Time :
       [r EXCEPT !.marked = FALSE, !.at = t] \in Row /\ [r EXCEPT !.marked = FALSE, !.at = t].status = r.status
  /\ \A t \in Time : NewRow(t) \in Row
BY DEF Row, NoRow, Status, NewRow

(* A message is stored when it has a row.                                  *)
LEMMA StoredIs ==
  ASSUME Typed
  PROVE  \A m \in Msg : m \in Stored <=> row[m] \in Row
BY RowIs DEF Typed, Stored

(* The variables a step bounds one by one, and the platform's messages,    *)
(* which never disappear.                                                  *)
Bounds ==
  /\ now \in Time /\ conn \in BOOLEAN /\ beyond \subseteq Msg
  /\ posted \in [Msg -> Time \cup {Never}]
  /\ config \in {"off", "alert", "resolve"}
  /\ used \in 0 .. MaxRequests /\ faults \in 0 .. MaxFaults

(* The bounds hold, and what has appeared stays.                           *)
LEMMA BoundsStep ==
  ASSUME Typed, [Next]_vars
  PROVE  Bounds' /\ Appeared \subseteq Appeared'
<1> USE InboxAssumption DEF Typed, TypeOK, Bounds, Time, Never, Request, Fault, acct, Appeared
<1>1. CASE UNCHANGED vars
  BY <1>1 DEF vars
<1>2. CASE WorkerStep \/ BackfillStep
  <2>1. ASSUME NEW p \in Process, NEW m \in Msg, Upsert(p, m) \/ Alert(m) PROVE Bounds' /\ Appeared \subseteq Appeared'
    BY <2>1 DEF Upsert, Alert
  <2>2. ASSUME NEW p \in Process, Tell(p) \/ EndPoll(p) PROVE Bounds' /\ Appeared \subseteq Appeared'
    BY <2>2 DEF Tell, EndPoll
  <2>3. CASE StartSync
    BY <2>3 DEF StartSync, Fetch
  <2>4. CASE Mark
    BY <2>4 DEF Mark
  <2> QED BY <1>2, <2>1, <2>2, <2>3, <2>4 DEF WorkerStep, BackfillStep, Process, Poller
<1>3. CASE StartBackfill
  BY <1>3 DEF StartBackfill, Fetch
<1>4. CASE Switch \/ Tick \/ \E S \in SUBSET Msg : Shift(S)
  <2>1. CASE Switch
    <3>1. conn' \in BOOLEAN
      BY <2>1, Zenon DEF Switch
    <3> QED BY <2>1, <3>1 DEF Switch
  <2>2. CASE Tick
    BY <2>2 DEF Tick
  <2>3. ASSUME NEW S \in SUBSET Msg, Shift(S) PROVE Bounds' /\ Appeared \subseteq Appeared'
    BY <2>3 DEF Shift
  <2> QED BY <1>4, <2>1, <2>2, <2>3
<1>5. ASSUME NEW m \in Msg, Post(m) PROVE Bounds' /\ Appeared \subseteq Appeared'
  BY <1>5 DEF Post
<1>6. ASSUME NEW p \in Process, Crash(p) PROVE Bounds' /\ Appeared \subseteq Appeared'
  BY <1>6 DEF Crash
<1>7. ASSUME NEW h \in Web, WebStep(h) PROVE Bounds' /\ Appeared \subseteq Appeared'
  BY <1>7 DEF WebStep, Tell, Seen, Replied
<1>8. ASSUME NEW h \in Web, NEW m \in Msg, Hook(h, m) \/ YouTubeHook(h, m) \/ View(h, m) \/ Reply(h, m)
      PROVE  Bounds' /\ Appeared \subseteq Appeared'
  BY <1>8 DEF Hook, YouTubeHook, Arrives, View, Reply
<1>9. ASSUME NEW m \in Msg, NEW s \in Status, ChangeStatus(m, s) PROVE Bounds' /\ Appeared \subseteq Appeared'
  BY <1>9 DEF ChangeStatus
<1>10. ASSUME NEW S \in SUBSET Msg, NEW b \in Bulk, BulkAction(S, b) PROVE Bounds' /\ Appeared \subseteq Appeared'
  BY <1>10 DEF BulkAction
<1>11. ASSUME NEW c \in {"off", "alert", "resolve"}, Configure(c) PROVE Bounds' /\ Appeared \subseteq Appeared'
  BY <1>11 DEF Configure
<1> QED BY <1>1, <1>2, <1>3, <1>4, <1>5, <1>6, <1>7, <1>8, <1>9, <1>10, <1>11 DEF Next

(* What a step has to show for the types.                                  *)
LEMMA TypedFrom ==
  ASSUME Bounds', row' \in [Msg -> Row \cup {NoRow}], job' \in [Process -> Job],
         told' \in [Msg -> Nat], dropped' \subseteq Msg
  PROVE  Typed'
<1>1. \A p \in Process : job'[p].pc \in {"idle", "poll", "tell", "sla", "mark", "view", "reply"}
  BY JobIs
<1>2. \A m \in Msg : row'[m] = NoRow \/ row'[m] \in [status : Status, marked : BOOLEAN, at : Time]
  BY DEF Row
<1> QED BY <1>1, <1>2 DEF Typed, TypeOK, Bounds

(* A step that announces nothing: the rows stay or have their status, mark *)
(* or time written, and one process may go on with another job.            *)
Kept(d) == d \in [Msg -> Row \cup {NoRow}] /\ \A m \in Msg : d[m] = NoRow <=> row[m] = NoRow

(* A step that stores nothing and tells nobody keeps the invariant.        *)
LEMMA Quiet ==
  ASSUME Inv, [Next]_vars, Kept(row'), told' = told, dropped' = dropped,
         job' = job \/ \E p \in Process, j \in Job :
           j.pc # "tell" /\ Fine(p, j, Appeared, Stored) /\ job' = [job EXCEPT ![p] = j]
  PROVE  Inv' /\ Stored' = Stored
<1>1. Bounds' /\ Appeared \subseteq Appeared'
  BY BoundsStep DEF Inv
<1>2. Stored' = Stored
  BY DEF Kept, Stored
<1>3. Typed' /\ job \in [Process -> Job]
  BY <1>1, TypedFrom DEF Inv, Typed, TypeOK, Kept
<1>4. \A q \in Process : Fine(q, job'[q], Appeared, Stored)
  BY <1>3 DEF Inv, JobInv
<1>5. JobInv'
  BY <1>1, <1>2, <1>4 DEF JobInv, Fine
<1>6. \A q \in Process : job'[q].pc = "tell" => job'[q] = job[q]
  BY <1>3
<1>7. TellInv'
  BY <1>2, <1>6 DEF Inv, TellInv
<1> QED BY <1>2, <1>3, <1>5, <1>7 DEF Inv

(* What every step must do: keep the invariant, and on the messages take a *)
(* step of Intake or none.                                                 *)
Good == Inv' /\ [Promise!Next]_(Promise!vars)

(* To Intake it is a stutter.                                              *)
LEMMA QuietIsGood ==
  ASSUME Inv, [Next]_vars, Kept(row'), told' = told, dropped' = dropped,
         job' = job \/ \E p \in Process, j \in Job :
           j.pc # "tell" /\ Fine(p, j, Appeared, Stored) /\ job' = [job EXCEPT ![p] = j]
  PROVE  Good
BY Quiet DEF Good, Promise!vars

(* A new message is stored by the process that announces it next.          *)
LEMMA StoreIsGood ==
  ASSUME Inv, [Next]_vars, NEW m \in Msg, NEW t \in Time, row[m] = NoRow,
         row' = [row EXCEPT ![m] = NewRow(t)], told' = told, dropped' = dropped,
         NEW p \in Process, job[p].pc # "tell", NEW j \in Tells, j.msg = m, Fine(p, j, Appeared, Stored),
         job' = [job EXCEPT ![p] = j]
  PROVE  Good
<1>0. /\ row \in [Msg -> Row \cup {NoRow}] /\ job \in [Process -> Job] /\ j \in Job /\ NewRow(t) \in Row
      /\ j.pc = "tell" /\ told' \in [Msg -> Nat] /\ dropped' \subseteq Msg
  BY RowIs DEF Inv, Typed, TypeOK, Job, Tells
<1>1. Bounds' /\ Appeared \subseteq Appeared'
  BY BoundsStep DEF Inv
<1>2. Stored' = Stored \cup {m} /\ m \notin Stored
  BY <1>0, RowIs DEF Stored
<1>3. Typed'
  BY <1>0, <1>1, TypedFrom
<1>4. \A q \in Process : Fine(q, job'[q], Appeared, Stored)
  BY <1>0 DEF Inv, JobInv
<1>5. JobInv'
  BY <1>1, <1>2, <1>4 DEF JobInv, Fine
<1>6. \A q \in Process : q # p => job'[q] = job[q]
  BY <1>0
<1>7. TellInv'
  BY <1>0, <1>2, <1>6 DEF Inv, TellInv
<1>8. Promise!Store(m)
  BY <1>2 DEF Promise!Store
<1> QED BY <1>3, <1>5, <1>7, <1>8 DEF Inv, Good, Promise!Next

(* A poll stores a message, and then tells of it,                          *)
LEMMA UpsertIsGood ==
  ASSUME Inv, [Next]_vars, NEW p \in Poller, NEW m \in Msg, Upsert(p, m)
  PROVE  Good
<1>0. /\ p \in Process /\ job[p] \in Job /\ job[p].pc = "poll" /\ job[p].todo \in SUBSET Appeared
      /\ row \in [Msg -> Row \cup {NoRow}] /\ job \in [Process -> Job]
  BY JobIs DEF Upsert, Inv, Typed, JobInv, Fine, Process
<1>1. posted[m] \in Time /\ job[p].todo \ {m} \in SUBSET Appeared /\ Appeared \subseteq Msg
  BY <1>0 DEF Upsert, Inv, Typed, TypeOK, Appeared
<1>2. CASE IsNew(m)
  <2> DEFINE j == [pc |-> "tell", msg |-> m, todo |-> job[p].todo \ {m}]
  <2>1. j \in Tells /\ j.msg = m /\ Fine(p, j, Appeared, Stored)
    BY <1>0, <1>1 DEF Tells, Fine
  <2>2. row' = [row EXCEPT ![m] = NewRow(posted[m])] /\ job' = [job EXCEPT ![p] = j]
        /\ told' = told /\ dropped' = dropped /\ row[m] = NoRow
    BY <1>2 DEF Upsert, Goes, IsNew
  <2> HIDE DEF j
  <2> QED BY <1>0, <1>1, <2>1, <2>2, StoreIsGood
<1>3. CASE ~ IsNew(m)
  <2> DEFINE j == [pc |-> "poll", todo |-> job[p].todo \ {m}]
  <2>1. j \in Job /\ j.pc # "tell" /\ Fine(p, j, Appeared, Stored)
    BY <1>0, <1>1 DEF Job, Polls, Fine
  <2>2. row' = [row EXCEPT ![m] = Rewritten(m)] /\ job' = [job EXCEPT ![p] = j]
        /\ told' = told /\ dropped' = dropped /\ row[m] \in Row
    BY <1>0, <1>3 DEF Upsert, Goes, IsNew
  <2>3. Kept(row')
    <3>1. Rewritten(m) \in Row /\ NoRow \notin Row
      BY <1>1, <2>2, RowIs DEF Rewritten
    <3> HIDE DEF Row
    <3> QED BY <1>0, <2>2, <3>1 DEF Kept
  <2> HIDE DEF j
  <2> QED BY <1>0, <2>1, <2>2, <2>3, QuietIsGood
<1> QED BY <1>2, <1>3

(* and so does a webhook.                                                  *)
LEMMA ArrivesIsGood ==
  ASSUME Inv, [Next]_vars, NEW h \in Web, NEW m \in Msg, Arrives(h, m)
  PROVE  Good
<1> DEFINE j == [pc |-> "tell", msg |-> m]
<1>0. h \in Process /\ h \notin Poller /\ now \in Time
  BY InboxAssumption DEF Process, Poller, Inv, Typed, TypeOK
<1>1. j \in Tells /\ j.msg = m /\ Fine(h, j, Appeared, Stored)
  BY <1>0 DEF Tells, Fine
<1>2. row' = [row EXCEPT ![m] = NewRow(now)] /\ job' = [job EXCEPT ![h] = j]
      /\ told' = told /\ dropped' = dropped /\ row[m] = NoRow /\ job[h].pc # "tell"
  BY DEF Arrives, Goes, IsNew, Idle
<1> HIDE DEF j
<1> QED BY <1>0, <1>1, <1>2, StoreIsGood

(* The announcement: nobody has been told before.                          *)
LEMMA TellIsGood ==
  ASSUME Inv, [Next]_vars, NEW p \in Process, Tell(p)
  PROVE  Good
<1> DEFINE m == job[p].msg
           j == IF p \in Poller THEN [pc |-> "poll", todo |-> job[p].todo] ELSE Idle
<1>0. /\ job[p].pc = "tell" /\ job[p] \in Tells /\ m \in Msg /\ job \in [Process -> Job]
      /\ Fine(p, job[p], Appeared, Stored) /\ told \in [Msg -> Nat] /\ dropped \subseteq Msg
      /\ m \in Stored \ dropped /\ told[m] = 0
  BY JobIs DEF Tell, Inv, Typed, TypeOK, JobInv, TellInv
<1>1. j \in Job /\ j.pc # "tell" /\ Fine(p, j, Appeared, Stored)
  BY <1>0 DEF Fine, Job, Polls, Idle
<1>2. told' = [told EXCEPT ![m] = 1] /\ job' = [job EXCEPT ![p] = j] /\ row' = row /\ dropped' = dropped
  BY <1>0 DEF Tell, Goes
<1> HIDE DEF j
<1>3. Stored' = Stored /\ Bounds' /\ Appeared \subseteq Appeared'
  BY <1>2, BoundsStep DEF Inv, Stored
<1>4. Typed'
  BY <1>0, <1>1, <1>2, <1>3, TypedFrom DEF Inv, Typed
<1>5. \A q \in Process : Fine(q, job'[q], Appeared, Stored)
  BY <1>0, <1>1, <1>2 DEF Inv, JobInv
<1>6. JobInv'
  BY <1>3, <1>5 DEF JobInv, Fine
<1>7. \A q \in Process : job'[q].pc = "tell" => q # p /\ job'[q] = job[q] /\ job[q].msg # m
  BY <1>0, <1>1, <1>2 DEF Inv, TellInv
<1>8. TellInv'
  <2>1. \A q \in Process : job'[q].pc = "tell" =>
          job'[q].msg \in Stored' \ dropped' /\ job'[q].msg \in Msg /\ told'[job'[q].msg] = 0
    BY <1>0, <1>2, <1>3, <1>7 DEF Inv, TellInv, Stored
  <2>2. \A n \in Msg \ Stored' : told'[n] = 0 /\ n \notin dropped'
    BY <1>0, <1>2, <1>3 DEF Inv, TellInv
  <2>3. \A q, r \in Process :
          job'[q].pc = "tell" /\ job'[r].pc = "tell" /\ job'[q].msg = job'[r].msg => q = r
    BY <1>7 DEF Inv, TellInv
  <2> QED BY <2>1, <2>2, <2>3 DEF TellInv
<1>9. Promise!Announce(m)
  BY <1>0, <1>2, <1>3 DEF Promise!Announce, Promise!Open
<1> QED BY <1>0, <1>4, <1>6, <1>8, <1>9 DEF Inv, Good, Promise!Next

(* A process dies: the message it was to announce is dropped.              *)
LEMMA CrashIsGood ==
  ASSUME Inv, [Next]_vars, NEW p \in Process, Crash(p)
  PROVE  Good
<1>0. /\ job \in [Process -> Job] /\ job' = [job EXCEPT ![p] = Idle] /\ row' = row /\ told' = told
      /\ Idle \in Job /\ Idle.pc = "idle" /\ Fine(p, Idle, Appeared, Stored)
  BY DEF Crash, Goes, Inv, Typed, Job, Idle, Fine
<1>1. CASE job[p].pc # "tell"
  <2>1. Kept(row') /\ dropped' = dropped
    BY <1>0, <1>1 DEF Crash, Kept, Inv, Typed
  <2> QED BY <1>0, <2>1, QuietIsGood
<1>2. CASE job[p].pc = "tell"
  <2> DEFINE m == job[p].msg
  <2>0. /\ m \in Msg /\ m \in Stored \ dropped /\ told[m] = 0 /\ dropped' = dropped \cup {m} /\ dropped \subseteq Msg
        /\ told \in [Msg -> Nat] /\ row \in [Msg -> Row \cup {NoRow}]
    BY <1>2, JobIs DEF Crash, Inv, Typed, TypeOK, TellInv
  <2>1. Stored' = Stored /\ Bounds' /\ Appeared \subseteq Appeared'
    BY <1>0, BoundsStep DEF Inv, Stored
  <2>2. Typed'
    BY <1>0, <2>0, <2>1, TypedFrom
  <2>3. \A q \in Process : Fine(q, job'[q], Appeared, Stored)
    BY <1>0 DEF Inv, JobInv
  <2>4. JobInv'
    BY <2>1, <2>3 DEF JobInv, Fine
  <2>5. \A q \in Process : job'[q].pc = "tell" => q # p /\ job'[q] = job[q] /\ job[q].msg # m
    BY <1>0, <1>2 DEF Inv, TellInv
  <2>6. TellInv'
    BY <1>0, <2>0, <2>1, <2>5 DEF Inv, TellInv
  <2>7. Promise!Drop(m)
    BY <1>0, <2>0, <2>1 DEF Promise!Drop, Promise!Open
  <2> QED BY <2>0, <2>2, <2>4, <2>6, <2>7 DEF Inv, Good, Promise!Next
<1> QED BY <1>1, <1>2

(* The worker's other steps, and the requests of the team.                 *)
LEMMA WorkIsGood ==
  ASSUME Inv, [Next]_vars,
         \/ StartSync \/ StartBackfill \/ Mark
         \/ \E p \in Poller : EndPoll(p)
         \/ \E m \in Msg : Alert(m)
  PROVE  Good
<1>0. /\ job \in [Process -> Job] /\ row \in [Msg -> Row \cup {NoRow}] /\ Idle \in Job /\ Idle.pc = "idle"
      /\ {"worker", "backfill"} \subseteq Process /\ Stored \subseteq Msg /\ JobInv /\ Kept(row)
  BY DEF Inv, Typed, Job, Idle, Process, Poller, Stored, Kept
<1>1. ASSUME NEW p \in Poller, NEW since, Fetch(p, since), row' = row, told' = told, dropped' = dropped PROVE Good
  <2> DEFINE j(S) == [pc |-> "poll", todo |-> S]
  <2>1. \A S \in SUBSET Appeared : j(S) \in Job /\ j(S).pc # "tell" /\ Fine(p, j(S), Appeared, Stored)
    BY DEF Job, Polls, Fine, Appeared
  <2>2. Fresh(since) \in SUBSET Appeared /\ {} \in SUBSET Appeared
    BY DEF Fresh, Posted, Appeared
  <2>3. \E S \in SUBSET Appeared : job' = [job EXCEPT ![p] = j(S)]
    BY <1>1, <2>2 DEF Fetch, Goes
  <2> HIDE DEF j
  <2> QED BY <1>0, <1>1, <2>1, <2>3, QuietIsGood DEF Process, Poller
<1>2. CASE StartSync
  <2>1. CASE conn
    BY <1>1, <1>2, <2>1 DEF StartSync, Poller
  <2>2. CASE ~ conn
    <3> DEFINE j == [pc |-> "poll", todo |-> {}]
    <3>1. j \in Job /\ j.pc # "tell" /\ Fine("worker", j, Appeared, Stored)
      BY DEF Job, Polls, Fine
    <3>2. job' = [job EXCEPT !["worker"] = j] /\ row' = row /\ told' = told /\ dropped' = dropped
      BY <1>2, <2>2 DEF StartSync, Goes
    <3> HIDE DEF j
    <3> QED BY <1>0, <3>1, <3>2, QuietIsGood
  <2> QED BY <2>1, <2>2
<1>3. CASE StartBackfill
  BY <1>1, <1>3 DEF StartBackfill, Poller
<1>4. ASSUME NEW p \in Poller, EndPoll(p) PROVE Good
  <2> DEFINE late == {m \in Stored : Overdue(m)}
             j == IF p = "worker" /\ config # "off" /\ \E m \in Stored : Overdue(m)
                  THEN [pc |-> "sla", todo |-> late] ELSE Idle
  <2>1. late \in SUBSET Msg /\ late \subseteq Stored
    BY <1>0
  <2>2. j \in Job /\ j.pc # "tell" /\ Fine(p, j, Appeared, Stored)
    <3> HIDE DEF late
    <3> QED BY <1>0, <2>1 DEF Job, Alerts, Fine
  <2>3. job' = [job EXCEPT ![p] = j] /\ row' = row /\ told' = told /\ dropped' = dropped
    BY <1>4 DEF EndPoll, Goes
  <2> HIDE DEF j
  <2> QED BY <1>0, <2>2, <2>3, QuietIsGood DEF Process
<1>5. ASSUME NEW m \in Msg, Alert(m) PROVE Good
  <2> DEFINE j == [pc |-> "mark", msg |-> m, todo |-> job["worker"].todo \ {m}]
  <2>1. job["worker"] \in Job /\ job["worker"].todo \in SUBSET Msg /\ job["worker"].todo \subseteq Stored
        /\ m \in job["worker"].todo
    BY <1>0, <1>5, JobIs DEF Alert, JobInv, Fine
  <2>2. j \in Job /\ j.pc # "tell" /\ Fine("worker", j, Appeared, Stored)
    BY <2>1 DEF Job, Alerts, Fine
  <2>3. job' = [job EXCEPT !["worker"] = j] /\ row' = row /\ told' = told /\ dropped' = dropped
    BY <1>5 DEF Alert, Goes
  <2> HIDE DEF j
  <2> QED BY <1>0, <2>2, <2>3, QuietIsGood
<1>6. CASE Mark
  <2> DEFINE rest == job["worker"].todo
             j == IF rest = {} THEN Idle ELSE [pc |-> "sla", todo |-> rest]
             m == job["worker"].msg
  <2>1. rest \in SUBSET Msg /\ rest \subseteq Stored /\ m \in Stored /\ m \in Msg
    BY <1>0, <1>6, JobIs DEF Mark, JobInv, Fine
  <2>2. j \in Job /\ j.pc # "tell" /\ Fine("worker", j, Appeared, Stored)
    BY <1>0, <2>1 DEF Job, Alerts, Fine
  <2>3. job' = [job EXCEPT !["worker"] = j] /\ told' = told /\ dropped' = dropped
        /\ row' = [row EXCEPT ![m].marked = TRUE]
    BY <1>6 DEF Mark, Goes
  <2>4. [row[m] EXCEPT !.marked = TRUE] \in Row /\ row[m] # NoRow /\ NoRow \notin Row
    BY <1>0, <2>1, RowIs DEF Stored
  <2>5. Kept(row')
    <3> HIDE DEF Row
    <3> QED BY <1>0, <2>1, <2>3, <2>4 DEF Kept
  <2> HIDE DEF j
  <2> QED BY <1>0, <2>2, <2>3, <2>5, QuietIsGood
<1> QED BY <1>2, <1>3, <1>4, <1>5, <1>6

(* What the team does is nothing to Intake.                                *)
LEMMA TeamIsGood ==
  ASSUME Inv, [Next]_vars,
         \/ \E h \in Web : Seen(h) \/ Replied(h) \/ \E m \in Msg : View(h, m) \/ Reply(h, m)
         \/ \E m \in Msg, s \in Status : ChangeStatus(m, s)
         \/ \E S \in SUBSET Msg, b \in Bulk : BulkAction(S, b)
  PROVE  Good
<1>0. /\ job \in [Process -> Job] /\ row \in [Msg -> Row \cup {NoRow}] /\ Idle \in Job /\ Idle.pc = "idle"
      /\ Web \subseteq Process /\ Stored \subseteq Msg /\ JobInv /\ Kept(row) /\ NoRow \notin Row
      /\ \A p \in Process : Fine(p, Idle, Appeared, Stored)
  BY RowIs DEF Inv, Typed, Job, Idle, Process, Stored, Kept, Fine
<1>set. ASSUME NEW m \in Stored, NEW s \in Status, row' = [row EXCEPT ![m].status = s] PROVE Kept(row')
  <2>1. m \in Msg /\ [row[m] EXCEPT !.status = s] \in Row /\ row[m] # NoRow
    BY <1>0, RowIs DEF Stored
  <2> HIDE DEF Row
  <2> QED BY <1>0, <1>set, <2>1 DEF Kept
<1>1. ASSUME NEW h \in Web, NEW m \in Msg, View(h, m) \/ Reply(h, m) PROVE Good
  <2>1. m \in Stored /\ row[m].status \in Status
    <3>1. row[m] # NoRow
      BY <1>1 DEF View, Reply, Stored, NoRow
    <3>2. row[m] \in Row
      BY <1>0, <3>1
    <3> QED BY <3>1, <3>2, RowIs DEF Stored
  <2> DEFINE j(pc) == [pc |-> pc, msg |-> m, was |-> row[m].status]
  <2>2. \A pc \in {"view", "reply"} : (pc = "view" => row[m].status = "unread") =>
          j(pc) \in Job /\ j(pc).pc # "tell" /\ Fine(h, j(pc), Appeared, Stored)
    BY <2>1 DEF Job, Answers, Fine
  <2>3. \E pc \in {"view", "reply"} : (pc = "view" => row[m].status = "unread") /\ job' = [job EXCEPT ![h] = j(pc)]
    BY <1>1 DEF View, Reply, Goes
  <2>4. row' = row /\ told' = told /\ dropped' = dropped
    BY <1>1 DEF View, Reply
  <2> HIDE DEF j
  <2> QED BY <1>0, <2>2, <2>3, <2>4, QuietIsGood
<1>2. ASSUME NEW h \in Web, Seen(h) \/ Replied(h) PROVE Good
  <2> DEFINE m == job[h].msg
  <2>1. m \in Stored /\ m \in Msg /\ job[h].was \in Status /\ row[m].status \in Status
    <3>1. job[h] \in Job /\ h \in Process
      BY <1>0
    <3>2. m \in Stored /\ m \in Msg /\ job[h].was \in Status
      BY <1>0, <1>2, <3>1, JobIs DEF Seen, Replied, JobInv, Fine, Status
    <3>3. row[m] \in Row
      BY <1>0, <3>2 DEF Stored
    <3> QED BY <3>2, <3>3, RowIs
  <2>2. \E s \in Status : row' = [row EXCEPT ![m].status = s]
    BY <1>0, <1>2, <2>1 DEF Seen, Replied, Answered, Status
  <2>3. job' = [job EXCEPT ![h] = Idle] /\ told' = told /\ dropped' = dropped
    BY <1>2 DEF Seen, Replied, Goes
  <2> QED BY <1>0, <1>set, <2>1, <2>2, <2>3, QuietIsGood
<1>3. ASSUME NEW m \in Msg, NEW s \in Status, ChangeStatus(m, s) PROVE Good
  BY <1>3, <1>set, QuietIsGood DEF ChangeStatus
<1>4. ASSUME NEW S \in SUBSET Msg, NEW b \in Bulk, BulkAction(S, b) PROVE Good
  <2>1. b.to \in Status
    BY DEF Bulk, Status
  <2>2. \A m \in S : [row[m] EXCEPT !.status = b.to] \in Row /\ row[m] # NoRow
    BY <1>0, <1>4, <2>1, RowIs DEF BulkAction, Stored
  <2>3. row' = [m \in Msg |-> IF m \in S /\ row[m].status \in b.from
                              THEN [row[m] EXCEPT !.status = b.to] ELSE row[m]]
    BY <1>4 DEF BulkAction
  <2>4. Kept(row')
    <3> HIDE DEF Row
    <3> QED BY <1>0, <2>2, <2>3 DEF Kept
  <2> QED BY <1>4, <2>4, QuietIsGood DEF BulkAction
<1> QED BY <1>1, <1>2, <1>3, <1>4

(* Every step keeps the invariant and is one of Intake or none.            *)
LEMMA StepIsGood ==
  ASSUME Inv, [Next]_vars
  PROVE  Good
<1>0. Kept(row)
  BY DEF Inv, Typed, Kept
<1>1. CASE \/ UNCHANGED vars \/ Switch \/ Tick \/ \E S \in SUBSET Msg : Shift(S)
           \/ \E m \in Msg : Post(m)
           \/ \E c \in {"off", "alert", "resolve"} : Configure(c)
  <2>1. row' = row /\ job' = job /\ told' = told /\ dropped' = dropped
    BY <1>1 DEF vars, Switch, Tick, Shift, Post, Configure
  <2> QED BY <1>0, <2>1, QuietIsGood
<1>2. ASSUME NEW p \in Process, Tell(p) PROVE Good
  BY <1>2, TellIsGood
<1>3. ASSUME NEW p \in Process, Crash(p) PROVE Good
  BY <1>3, CrashIsGood
<1>4. ASSUME NEW p \in Poller, NEW m \in Msg, Upsert(p, m) PROVE Good
  BY <1>4, UpsertIsGood
<1>5. ASSUME NEW h \in Web, NEW m \in Msg, Hook(h, m) \/ YouTubeHook(h, m) PROVE Good
  BY <1>5, ArrivesIsGood DEF Hook, YouTubeHook
<1> QED BY <1>1, <1>2, <1>3, <1>4, <1>5, WorkIsGood, TeamIsGood
        DEF Next, WorkerStep, BackfillStep, WebStep, Process, Poller

(* The initial states are those of Intake.                                 *)
LEMMA InitIsGood == Init => Inv /\ Promise!Init
<1> SUFFICES ASSUME Init PROVE Inv /\ Promise!Init
  OBVIOUS
<1>1. Stored = {}
  BY DEF Init, Stored
<1>2. Typed
  BY InboxAssumption DEF Init, Typed, TypeOK, Time, Never, Job, Idle
<1>3. JobInv /\ TellInv
  BY <1>1 DEF Init, JobInv, TellInv, Fine, Idle
<1> QED BY <1>1, <1>2, <1>3 DEF Inv, Init, Promise!Init

(* The invariant holds in every state.                                     *)
LEMMA AlwaysInv == Init /\ [][Next]_vars => []Inv
<1>1. Inv /\ [Next]_vars => Inv'
  BY StepIsGood DEF Good
<1> QED BY <1>1, InitIsGood, PTL

(***************************************************************************)
(* Every message, notification, job and bound has its type.                *)
(***************************************************************************)
THEOREM TypeCorrect == Spec => []TypeOK
<1>1. Inv => TypeOK
  BY DEF Inv, Typed
<1> QED BY <1>1, AlwaysInv, PTL DEF Spec

(***************************************************************************)
(* The safety part of what Intake promises: whichever of the pollers and   *)
(* webhooks hand a message over, how often and in what order, it is stored *)
(* once, announced at most once, and left unannounced only by the death of *)
(* the process that stored it.                                             *)
(***************************************************************************)
THEOREM AnnouncedOnce == Spec => Promise!Init /\ [][Promise!Next]_(Promise!vars)
<1>1. Inv /\ [Next]_vars => [Promise!Next]_(Promise!vars)
  BY StepIsGood DEF Good
<1> QED BY <1>1, InitIsGood, AlwaysInv, PTL DEF Spec

(***************************************************************************)
(* What the team resolved or archived is reopened only by a request that   *)
(* says so, or by one that had read the message as unread.                 *)
(***************************************************************************)
THEOREM ClosedStays == Spec => ClosedStaysClosed
<1>1. Inv /\ [Next]_vars =>
        [\A m \in Msg :
           row[m].status \in {"resolved", "archived"} /\ row'[m].status \in {"unread", "open"}
           => \/ used' = used + 1
              \/ \E h \in Web : "was" \in DOMAIN job[h] /\ job[h].was = "unread" /\ job'[h] = Idle]_vars
  <2> SUFFICES ASSUME Inv, Next, NEW m \in Msg,
                      row[m].status \in {"resolved", "archived"}, row'[m].status \in {"unread", "open"}
               PROVE  \/ used' = used + 1
                      \/ \E h \in Web : "was" \in DOMAIN job[h] /\ job[h].was = "unread" /\ job'[h] = Idle
    OBVIOUS
  <2>0. /\ job \in [Process -> Job] /\ row \in [Msg -> Row \cup {NoRow}] /\ Web \subseteq Process
        /\ row[m] \in Row /\ row'[m].status # row[m].status /\ row[m].status \notin {"unread", "open"}
        /\ JobInv /\ Stored \subseteq Msg
    BY DEF Inv, Typed, Process, NoRow, Stored
  <2>1. ASSUME row' = row PROVE FALSE
    BY <2>0, <2>1
  <2>2. ASSUME NEW p \in Poller, NEW n \in Msg, Upsert(p, n) PROVE FALSE
    <3>1. CASE row[n] = NoRow
      BY <2>0, <2>2, <3>1, RowIs DEF Upsert, IsNew
    <3>2. CASE row[n] # NoRow
      <4>1. posted[n] \in Time /\ row[n] \in Row
        BY <2>0, <2>2, <3>2, JobIs DEF Upsert, Inv, Typed, TypeOK, JobInv, Fine, Appeared, Process
      <4>2. row' = [row EXCEPT ![n] = Rewritten(n)] /\ Rewritten(n).status = row[n].status
        BY <2>2, <3>2, <4>1, RowIs DEF Upsert, IsNew, Rewritten
      <4> QED BY <2>0, <4>2
    <3> QED BY <3>1, <3>2
  <2>3. ASSUME NEW h \in Web, NEW n \in Msg, Arrives(h, n) PROVE FALSE
    BY <2>0, <2>3, RowIs DEF Arrives, IsNew
  <2>4. ASSUME Mark PROVE FALSE
    <3>1. job["worker"].msg \in Stored
      BY <2>0, <2>4 DEF Mark, JobInv, Fine, Process, Poller
    <3>2. row[job["worker"].msg] \in Row /\ row' = [row EXCEPT ![job["worker"].msg] = [row[job["worker"].msg] EXCEPT !.marked = TRUE]]
      BY <2>0, <2>4, <3>1 DEF Mark, Stored
    <3>3. [row[job["worker"].msg] EXCEPT !.marked = TRUE].status = row[job["worker"].msg].status
      BY <3>2, RowIs
    <3> QED BY <2>0, <3>2, <3>3
  <2>5. ASSUME NEW h \in Web, Seen(h) \/ Replied(h)
        PROVE  "was" \in DOMAIN job[h] /\ job[h].was = "unread" /\ job'[h] = Idle
    <3>1. job[h] \in Job /\ h \in Process /\ job'[h] = Idle
      BY <2>0, <2>5 DEF Seen, Replied, Goes
    <3>2. "was" \in DOMAIN job[h]
      BY <2>5, <3>1, JobIs DEF Seen, Replied
    <3>3. CASE Seen(h)
      BY <3>1, <3>2, <3>3, JobIs DEF Seen
    <3>4. CASE Replied(h)
      <4> DEFINE n == job[h].msg
      <4>1. n \in Stored /\ row[n] \in Row
        BY <2>0, <3>1, <3>4 DEF Replied, JobInv, Fine, Stored
      <4>2. row' = [row EXCEPT ![n] = [row[n] EXCEPT !.status = Answered(job[h].was, row[n].status)]]
        BY <2>0, <3>4, <4>1 DEF Replied
      <4>3. n = m /\ row'[n].status = Answered(job[h].was, row[n].status)
        BY <2>0, <4>1, <4>2 DEF Row
      <4> QED BY <2>0, <3>1, <3>2, <4>3 DEF Answered
    <3> QED BY <2>5, <3>3, <3>4
  <2>6. CASE \/ \E n \in Msg, s \in Status : ChangeStatus(n, s)
             \/ \E S \in SUBSET Msg, b \in Bulk : BulkAction(S, b)
    BY <2>6 DEF ChangeStatus, BulkAction, Request
  <2> QED BY <2>1, <2>2, <2>3, <2>4, <2>5, <2>6
          DEF Next, WorkerStep, BackfillStep, WebStep, StartSync, StartBackfill, Tell, EndPoll, Alert, Post,
              Switch, Tick, Shift, Crash, Hook, YouTubeHook, View, Reply, Configure, Poller
<1> QED BY <1>1, AlwaysInv, PTL DEF Spec, ClosedStaysClosed
=============================================================================
