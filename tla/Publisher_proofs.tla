-------------------------- MODULE Publisher_proofs --------------------------
(***************************************************************************)
(* Machine-checked theorems about the publishing engine, for every value   *)
(* of the constants.                                                       *)
(***************************************************************************)
EXTENDS Publisher, TLAPS, WellFoundedInduction

(***************************************************************************)
(* Operators                                                               *)
(***************************************************************************)

(* A nonempty set of naturals below a bound has a largest element: the     *)
(* max() of _sync_parent_published_at is defined.                          *)
LEMMA LargestExists ==
  ASSUME NEW b \in Nat, NEW S \in SUBSET (0 .. b), S # {}
  PROVE  \E t \in S : \A u \in S : u <= t
<1> DEFINE T == {b - t : t \in S}
<1>1. T \subseteq Nat
  <2>1. \A t \in S : b - t \in Nat
    OBVIOUS
  <2> QED BY <2>1
<1>2. T # {}
  OBVIOUS
<1>3. PICK x \in T : \A y \in T : ~ (<< y, x >> \in OpToRel(<, Nat))
  <2> HIDE DEF T
  <2> QED BY <1>1, <1>2, NatLessThanWellFounded, WFMin, Zenon
<1>4. \A y \in T : x <= y
  <2> HIDE DEF T
  <2> SUFFICES ASSUME NEW y \in T PROVE x <= y
    OBVIOUS
  <2>1. y \in Nat /\ x \in Nat
    BY <1>1
  <2>2. (y < x) => << y, x >> \in OpToRel(<, Nat)
    <3>1. OpToRel(<, Nat) = {ss \in Nat \X Nat : ss[1] < ss[2]}
      BY DEF OpToRel
    <3>2. << y, x >> \in Nat \X Nat /\ << y, x >>[1] = y /\ << y, x >>[2] = x
      BY <2>1
    <3> QED BY <3>1, <3>2, Zenon
  <2>3. ~ (y < x)
    BY <1>3, <2>2, Zenon
  <2> QED BY <2>1, <2>3
<1>5. PICK t \in S : x = b - t
  OBVIOUS
<1>6. \A u \in S : u <= t
  BY <1>4, <1>5
<1> QED BY <1>6

(* The parent's published_at is NULL or a time.                            *)
LEMMA LatestIsWhen ==
  ASSUME TypeOK, NEW q \in Post
  PROVE  LatestPublished(q) \in When
<1> DEFINE times == {row[p].publishedAt : p \in
             {c \in Group(q) : row[c].status # Deleted /\ row[c].publishedAt # Never}}
<1>1. CASE times = {}
  BY <1>1 DEF LatestPublished, TypeOK
<1>2. CASE times # {}
  <2>1. times \in SUBSET (0 .. MaxTime)
    BY DEF TypeOK, Row, When, Time, Group
  <2>2. MaxTime \in Nat
    BY PublisherAssumption
  <2> HIDE DEF times
  <2>3. \E t \in times : \A u \in times : u <= t
    BY <1>2, <2>1, <2>2, LargestExists
  <2>4. (CHOOSE t \in times : \A u \in times : u <= t) \in times
    BY <2>3
  <2>5. LatestPublished(q) = CHOOSE t \in times : \A u \in times : u <= t
    BY <1>2 DEF LatestPublished, times
  <2> QED BY <2>1, <2>4, <2>5 DEF When, Time
<1> QED BY <1>1, <1>2

(* The backoff is a number of ticks.                                       *)
LEMMA BackoffIsNat ==
  ASSUME NEW n \in Nat
  PROVE  BackoffAfter(n) \in Nat
<1>1. Backoff \in Seq(Nat) /\ Len(Backoff) \in Nat \ {0}
  BY PublisherAssumption
<1> QED BY <1>1 DEF BackoffAfter

(* What _schedule_retry stores is a row.                                   *)
LEMMA RetriedIsRow ==
  ASSUME now \in Nat, NEW m \in Row
  PROVE  Retried(m) \in Row
<1>1. m.retries \in Nat /\ BackoffAfter(m.retries) \in Nat
  BY BackoffIsNat DEF Row
<1>2. CASE m.retries >= MaxRetries
  BY <1>2 DEF Retried, Row, Status
<1>3. CASE ~ (m.retries >= MaxRetries)
  <2>1. m.retries + 1 \in Nat /\ now + BackoffAfter(m.retries) \in Nat
    BY <1>1
  <2>2. Retried(m) = [m EXCEPT !.status = "scheduled", !.retries = m.retries + 1,
                               !.retryAt = now + BackoffAfter(m.retries)]
    BY <1>3 DEF Retried
  <2> QED BY <2>1, <2>2 DEF Row, Status
<1> QED BY <1>2, <1>3

(* A published row is a row.                                               *)
LEMMA PublishedIsRow ==
  ASSUME now \in Time, NEW m \in Row
  PROVE  Published(m) \in Row
BY DEF Published, Row, Status, When

(* What an edit request stores is a row.                                   *)
LEMMA EditedIsRow ==
  ASSUME now \in Time, NEW e \in Edits, NEW seen \in Row, NEW cur \in Row
  PROVE  Edited(e, seen, cur) \in Row
<1>1. e \in EditRequest
  BY PublisherAssumption
<1>2. CASE e.kind = "save"
  BY <1>2 DEF Edited
<1>3. CASE e.kind = "remove"
  BY <1>3 DEF Edited, Row
<1>4. CASE e.kind = "transition"
  BY <1>1, <1>4 DEF Edited, EditRequest, Row, When
<1>5. CASE e.kind = "reschedule"
  BY <1>1, <1>5 DEF Edited, EditRequest, Row, When, Status
<1> QED BY <1>1, <1>2, <1>3, <1>4, <1>5 DEF EditRequest

-----------------------------------------------------------------------------
(***************************************************************************)
(* Type correctness                                                        *)
(***************************************************************************)
LEMMA TypeInit == Init => TypeOK
<1> SUFFICES ASSUME Init PROVE TypeOK
  OBVIOUS
<1>1. MaxTime \in Nat /\ MaxEdits \in Nat /\ 0 \in Time /\ 0 \in 0 .. MaxEdits
  BY PublisherAssumption DEF Time
<1>2. Never \in When
  BY DEF When
<1>3. \A t \in Nat : t \in When => Scheduled(t) \in Row
  BY <1>2 DEF Scheduled, Row, Status
<1>4. Scheduled(0) \in Row
  BY <1>1, <1>3 DEF When
<1>5. Scheduled(1) \in Row
  BY <1>1, <1>2, <1>3 DEF When, Never, Time
<1>6. Scheduled(Never) \in Row
  BY <1>1, <1>2, <1>3 DEF Never
<1>7. NoJob \in [pc : JobPc, mem : Row]
  BY <1>6 DEF NoJob, JobPc
<1> QED BY <1>1, <1>2, <1>4, <1>5, <1>7 DEF Init, TypeOK

(* Updates of one entry of the job table.                                  *)
LEMMA JobUpdate ==
  ASSUME NEW J, job \in [Worker -> [PP -> J]],
         NEW w \in Worker, NEW p \in PP, NEW x \in J
  PROVE  [job EXCEPT ![w][p] = x] \in [Worker -> [PP -> J]]
OBVIOUS

(* A step of a worker on a row keeps the types of the jobs.                *)
LEMMA PcUpdate ==
  ASSUME job \in [Worker -> [PP -> [pc : JobPc, mem : Row]]],
         NEW w \in Worker, NEW p \in PP, NEW c \in JobPc
  PROVE  [job EXCEPT ![w][p].pc = c] \in [Worker -> [PP -> [pc : JobPc, mem : Row]]]
<1>1. [job[w][p] EXCEPT !.pc = c] \in [pc : JobPc, mem : Row]
  OBVIOUS
<1> QED BY <1>1, JobUpdate

(* An update of one job, job by job,                                       *)
LEMMA JobAt ==
  ASSUME NEW J, job \in [Worker -> [PP -> J]], NEW w \in Worker, NEW p \in PP, NEW x
  PROVE  \A v \in Worker, q \in PP :
           [job EXCEPT ![w][p] = x][v][q] = IF v = w /\ q = p THEN x ELSE job[v][q]
OBVIOUS

(* and of its step.                                                        *)
LEMMA PcAt ==
  ASSUME job \in [Worker -> [PP -> [pc : JobPc, mem : Row]]],
         NEW w \in Worker, NEW p \in PP, NEW c
  PROVE  \A v \in Worker, q \in PP :
           [job EXCEPT ![w][p].pc = c][v][q]
             = [pc  |-> IF v = w /\ q = p THEN c ELSE job[v][q].pc,
                mem |-> job[v][q].mem]
<1>1. [job EXCEPT ![w][p].pc = c] = [job EXCEPT ![w][p] = [@ EXCEPT !.pc = c]]
  OBVIOUS
<1>2. [job[w][p] EXCEPT !.pc = c] = [pc |-> c, mem |-> job[w][p].mem]
  OBVIOUS
<1>3. \A v \in Worker, q \in PP : job[v][q] = [pc |-> job[v][q].pc, mem |-> job[v][q].mem]
  OBVIOUS
<1> QED BY <1>1, <1>2, <1>3, JobAt

(* Every step of a worker keeps the types.                                 *)
LEMMA TypeCycle ==
  ASSUME TypeOK, NEW w \in Worker, Cycle(w)
  PROVE  TypeOK'
<1> DEFINE Job == [pc : JobPc, mem : Row]
<1> USE DEF dbVars, editVars, ghosts, workerVars
<1>1. /\ row \in [PP -> Row] /\ job \in [Worker -> [PP -> Job]]
      /\ phase \in [Worker -> {"idle", "publish", "retry"}]
      /\ now \in Time /\ now \in Nat /\ postPublished \in [Post -> When]
  BY PublisherAssumption DEF TypeOK, Time
<1>2. NoJob \in Job
  <2>1. Never \in When
    BY DEF When
  <2> QED BY <2>1 DEF NoJob, Scheduled, Row, Status, JobPc
<1>3. CASE Poll(w)
  BY <1>1, <1>2, <1>3 DEF Poll, TypeOK, JobPc
<1>4. ASSUME NEW q \in Post, ClaimGroup(w, q) PROVE TypeOK'
  <2>1. row' \in [PP -> Row]
    BY <1>1, <1>4 DEF ClaimGroup, Row, Status
  <2>2. job' \in [Worker -> [PP -> Job]]
    BY <1>1, <1>2, <1>4 DEF ClaimGroup, JobPc
  <2> QED BY <1>4, <2>1, <2>2 DEF ClaimGroup, TypeOK
<1>5. ASSUME NEW q \in Post, EndGroup(w, q) PROVE TypeOK'
  <2>1. postPublished' \in [Post -> When]
    BY <1>1, <1>5, LatestIsWhen DEF EndGroup
  <2>2. job' \in [Worker -> [PP -> Job]]
    BY <1>1, <1>2, <1>5 DEF EndGroup
  <2>3. comments' \in [PP -> Nat]
    BY <1>5 DEF EndGroup, TypeOK
  <2> QED BY <1>5, <2>1, <2>2, <2>3 DEF EndGroup, TypeOK
<1>6. CASE StartRetries(w)
  BY <1>1, <1>2, <1>6 DEF StartRetries, TypeOK, JobPc
<1>7. ASSUME NEW p \in PP, ClaimRetry(w, p) PROVE TypeOK'
  <2>1. CASE row[p].status = Deleted
    <3>1. job' = [job EXCEPT ![w][p] = NoJob] /\ row' = row
      BY <1>7, <2>1 DEF ClaimRetry
    <3>2. job' \in [Worker -> [PP -> Job]]
      BY <1>1, <1>2, <3>1, JobUpdate
    <3> QED BY <1>7, <3>1, <3>2 DEF ClaimRetry, TypeOK
  <2>2. CASE row[p].status # Deleted
    <3> DEFINE x == [pc |-> "ready", mem |-> [job[w][p].mem EXCEPT !.status = "publishing"]]
    <3>1. /\ row' = [row EXCEPT ![p].status = "publishing"]
          /\ job' = [job EXCEPT ![w][p] = x]
      BY <1>7, <2>2 DEF ClaimRetry
    <3>2. row' \in [PP -> Row]
      BY <1>1, <3>1 DEF Row, Status
    <3>3. x \in Job
      <4>1. job[w][p].mem \in Row
        BY <1>1
      <4>2. [job[w][p].mem EXCEPT !.status = "publishing"] \in Row
        BY <4>1 DEF Row, Status
      <4> QED BY <4>2 DEF JobPc
    <3>4. job' \in [Worker -> [PP -> Job]]
      <4> HIDE DEF x
      <4> QED BY <1>1, <3>1, <3>3, JobUpdate
    <3> QED BY <1>7, <3>2, <3>4 DEF ClaimRetry, TypeOK
  <2> QED BY <2>1, <2>2
<1>8. ASSUME NEW p \in PP, EndRetry(w, p) PROVE TypeOK'
  <2>1. postPublished' \in [Post -> When]
    <3>1. PostOf[p] \in Post
      BY PublisherAssumption
    <3> QED BY <1>1, <1>8, <3>1, LatestIsWhen DEF EndRetry
  <2> QED BY <1>1, <1>2, <1>8, <2>1 DEF EndRetry, TypeOK
<1>9. CASE EndCycle(w)
  BY <1>1, <1>9 DEF EndCycle, TypeOK
<1>10. ASSUME NEW p \in PP, Attempt(w, p) PROVE TypeOK'
  <2> DEFINE m == job[w][p].mem
  <2>1. m \in Row /\ now \in When
    BY <1>1 DEF When
  <2>2. ASSUME NEW r \in Row, NEW pc \in JobPc, Save(w, p, r, pc)
        PROVE  row' \in [PP -> Row] /\ job' \in [Worker -> [PP -> Job]]
    BY <1>1, <2>2 DEF Save
  <2>. DEFINE Pc(c) == [job EXCEPT ![w][p].pc = c]
  <2>a. \A c \in {"accepted", "raised", "won", "lost"} : Pc(c) \in [Worker -> [PP -> Job]]
    BY <1>1, PcUpdate DEF JobPc
  <2>3. CASE MarkReady(w, p)
    <3>1. [m EXCEPT !.status = "ready_to_post", !.publishedAt = now] \in Row
      BY <2>1 DEF Row, Status
    <3> QED BY <2>2, <2>3, <3>1 DEF MarkReady, TypeOK, JobPc
  <2>4. CASE CallProvider(w, p)
    <3>1. job' \in [Worker -> [PP -> Job]]
      BY <2>4, <2>a DEF CallProvider
    <3>2. delivered' \in [PP -> Nat]
      BY <2>4 DEF CallProvider, TypeOK
    <3> QED BY <2>4, <3>1, <3>2 DEF CallProvider, TypeOK
  <2>5. CASE SavePublished(w, p)
    <3>1. row' \in [PP -> Row] /\ job' \in [Worker -> [PP -> Job]]
      BY <1>1, <2>1, <2>2, <2>5, PublishedIsRow DEF SavePublished, JobPc
    <3> QED BY <2>5, <3>1 DEF SavePublished, TypeOK
  <2>6. CASE LogPublished(w, p)
    <3>1. job' \in [Worker -> [PP -> Job]]
      BY <2>6, <2>a DEF LogPublished
    <3>2. logs' \in [PP -> Nat]
      <4>1. logs \in [PP -> Nat] /\ (logs' = logs \/ logs' = [logs EXCEPT ![p] = @ + 1])
        BY <2>6 DEF LogPublished, TypeOK
      <4> QED BY <4>1
    <3> QED BY <2>6, <3>1, <3>2 DEF LogPublished, TypeOK
  <2>7. CASE FailAfterAccept(w, p)
    <3>1. [pc |-> "raised", mem |-> Published(m)] \in Job
      BY <1>1, <2>1, PublishedIsRow DEF JobPc
    <3>0. [job EXCEPT ![w][p] = [pc |-> "raised", mem |-> Published(m)]]
            \in [Worker -> [PP -> Job]]
      BY <1>1, <3>1, JobUpdate
    <3>2. job' \in [Worker -> [PP -> Job]]
      BY <2>7, <2>a, <3>0 DEF FailAfterAccept
    <3>3. logs' \in [PP -> Nat]
      BY <2>7 DEF FailAfterAccept, TypeOK
    <3> QED BY <2>7, <3>2, <3>3 DEF FailAfterAccept, TypeOK
  <2>8. CASE ScheduleRetry(w, p)
    <3>1. row' \in [PP -> Row] /\ job' \in [Worker -> [PP -> Job]]
      BY <1>1, <2>1, <2>2, <2>8, RetriedIsRow DEF ScheduleRetry, JobPc
    <3>2. logs' \in [PP -> Nat]
      BY <2>8 DEF ScheduleRetry, TypeOK
    <3> QED BY <2>8, <3>1, <3>2 DEF ScheduleRetry, TypeOK
  <2>9. CASE FailToLog(w, p)
    <3>1. job' \in [Worker -> [PP -> Job]]
      BY <2>9, <2>a DEF FailToLog
    <3> QED BY <2>9, <3>1 DEF FailToLog, TypeOK
  <2> QED BY <1>10, <2>3, <2>4, <2>5, <2>6, <2>7, <2>8, <2>9 DEF Attempt
<1> QED BY <1>3, <1>4, <1>5, <1>6, <1>7, <1>8, <1>9, <1>10 DEF Cycle

(* So does every step of a user, of the clock, and a crash.                *)
LEMMA TypeStep ==
  ASSUME TypeOK, [Next]_vars
  PROVE  TypeOK'
<1> USE DEF dbVars, editVars, ghosts, workerVars
<1>1. /\ row \in [PP -> Row] /\ now \in Time
      /\ MaxTime \in Nat /\ MaxEdits \in Nat /\ edits \in 0 .. MaxEdits
  BY PublisherAssumption DEF TypeOK
<1>2. CASE Tick
  BY <1>1, <1>2 DEF Tick, TypeOK, Time
<1>3. ASSUME NEW w \in Worker, Cycle(w) PROVE TypeOK'
  BY <1>3, TypeCycle
<1>4. ASSUME NEW w \in Worker, Crash(w) PROVE TypeOK'
  <2>1. NoJob \in [pc : JobPc, mem : Row]
    <3>1. Never \in When
      BY DEF When
    <3> QED BY <3>1 DEF NoJob, Scheduled, Row, Status, JobPc
  <2> QED BY <1>4, <2>1 DEF Crash, TypeOK
<1>5. ASSUME NEW e \in Edits, Edit(e) PROVE TypeOK'
  <2>1. e.p \in PP
    BY PublisherAssumption DEF EditRequest
  <2>2. Edited(e, row[e.p], row[e.p]) \in Row
    BY <1>1, <2>1, EditedIsRow
  <2>3. row' \in [PP -> Row] /\ edits' \in 0 .. MaxEdits
    <3>1. row' = [row EXCEPT ![e.p] = Edited(e, row[e.p], row[e.p])] /\ edits' = edits + 1
      BY <1>1, <1>5, <2>1 DEF Edit
    <3> QED BY <1>1, <1>5, <2>1, <2>2, <3>1 DEF Edit
  <2> QED BY <1>5, <2>3 DEF Edit, TypeOK
<1>6. ASSUME NEW e \in Edits, BeginEdit(e) PROVE TypeOK'
  <2>1. e.p \in PP
    BY PublisherAssumption DEF EditRequest
  <2>2. request' \in [kind : {"open"}, edit : Edits, seen : Row]
    BY <1>1, <1>6, <2>1 DEF BeginEdit
  <2>3. edits' \in 0 .. MaxEdits
    BY <1>1, <1>6 DEF BeginEdit
  <2> QED BY <1>6, <2>2, <2>3 DEF BeginEdit, TypeOK
<1>7. CASE EndEdit
  <2>1. request \in [kind : {"open"}, edit : Edits, seen : Row]
    BY <1>7 DEF EndEdit, TypeOK
  <2>2. request.edit \in Edits /\ request.seen \in Row /\ request.edit.p \in PP
    BY <2>1, PublisherAssumption DEF EditRequest
  <2>3. row' \in [PP -> Row]
    BY <1>1, <1>7, <2>2, EditedIsRow DEF EndEdit
  <2> QED BY <1>7, <2>3 DEF EndEdit, TypeOK
<1>8. CASE UNCHANGED vars
  BY <1>8 DEF vars, TypeOK
<1> QED BY <1>2, <1>3, <1>4, <1>5, <1>6, <1>7, <1>8 DEF Next

(***************************************************************************)
(* Every row, every object a worker holds and every request in flight has  *)
(* the types the model gives it, in every system.                          *)
(***************************************************************************)
THEOREM TypeCorrect == Spec => []TypeOK
<1>1. Init => TypeOK
  BY TypeInit
<1>2. TypeOK /\ [Next]_vars => TypeOK'
  BY TypeStep
<1> QED BY <1>1, <1>2, PTL DEF Spec

-----------------------------------------------------------------------------
(***************************************************************************)
(* Failed is exhausted.  retry_count travels in every copy of a row - the  *)
(* table, the objects of the workers, the object of an edit request - and  *)
(* any of them may be the next to be saved, so the bound has to hold of    *)
(* all of them.                                                            *)
(***************************************************************************)
Counted(m, n) == m.retries <= n /\ (m.status = "failed" => n > MaxRetries)

LogsCoverRetries ==
  /\ \A p \in PP : Counted(row[p], logs[p])
  /\ \A w \in Worker, p \in PP : Counted(job[w][p].mem, logs[p])
  /\ request # NoReq => Counted(request.seen, logs[request.edit.p])

(* No user marks a post as failed: only _schedule_retry does.              *)
NoForcedFailure == \A e \in Edits : e.kind = "transition" => e.arg # "failed"

(* A retry counts one attempt more.                                        *)
LEMMA CountedRetried ==
  ASSUME NEW m \in Row, NEW n \in Nat, Counted(m, n)
  PROVE  Counted(Retried(m), n + 1)
<1>1. m.retries \in Nat /\ MaxRetries \in Nat
  BY PublisherAssumption DEF Row
<1>2. CASE m.retries >= MaxRetries
  <2>1. Retried(m) = [m EXCEPT !.status = "failed"]
    BY <1>2 DEF Retried
  <2> QED BY <1>1, <1>2, <2>1 DEF Counted, Row
<1>3. CASE ~ (m.retries >= MaxRetries)
  <2>1. Retried(m) = [m EXCEPT !.status = "scheduled", !.retries = m.retries + 1,
                               !.retryAt = now + BackoffAfter(m.retries)]
    BY <1>3 DEF Retried
  <2>2. Retried(m).status = "scheduled" /\ Retried(m).retries = m.retries + 1
    BY <2>1 DEF Row
  <2> QED BY <1>1, <2>2 DEF Counted
<1> QED BY <1>2, <1>3

(* More log rows never hurt.                                               *)
LEMMA CountedMore ==
  ASSUME NEW m \in Row, NEW n \in Nat, NEW k \in Nat, n <= k, Counted(m, n)
  PROVE  Counted(m, k)
BY PublisherAssumption DEF Counted, Row

(* A change of status to anything but failed keeps the count.              *)
LEMMA CountedEdited ==
  ASSUME NoForcedFailure, NEW e \in Edits, NEW seen \in Row, NEW cur \in Row, NEW n \in Nat,
         Counted(seen, n), Counted(cur, n)
  PROVE  Counted(Edited(e, seen, cur), n)
<1>1. e \in EditRequest
  BY PublisherAssumption
<1>2. CASE e.kind = "save"
  BY <1>2 DEF Edited
<1>3. CASE e.kind = "remove"
  BY <1>3 DEF Edited, Row, Counted, Deleted
<1>4. CASE e.kind = "transition"
  BY <1>4 DEF Edited, Row, Counted, NoForcedFailure
<1>5. CASE e.kind = "reschedule"
  BY <1>5 DEF Edited, Row, Counted
<1> QED BY <1>1, <1>2, <1>3, <1>4, <1>5 DEF EditRequest

(* Every step of a worker logs what it counts.                             *)
LEMMA CountedCycle ==
  ASSUME TypeOK, LogsCoverRetries, NEW w \in Worker, Cycle(w)
  PROVE  LogsCoverRetries'
<1> USE DEF dbVars, editVars, ghosts, workerVars
<1>1. /\ row \in [PP -> Row] /\ job \in [Worker -> [PP -> [pc : JobPc, mem : Row]]]
      /\ logs \in [PP -> Nat] /\ request \in {NoReq} \cup [kind : {"open"}, edit : Edits, seen : Row]
      /\ \A e \in Edits : e.p \in PP
  BY PublisherAssumption DEF TypeOK, EditRequest
<1>2. \A n \in Nat : Counted(NoJob.mem, n)
  BY DEF NoJob, Scheduled, Counted
<1>3. \A m \in Row, n \in Nat : Counted(m, n) => Counted([m EXCEPT !.status = "publishing"], n)
  BY DEF Counted, Row
<1>pc. ASSUME NEW p \in PP, NEW c, job' = [job EXCEPT ![w][p].pc = c]
       PROVE  \A v \in Worker, q \in PP : job'[v][q].mem = job[v][q].mem
  BY <1>1, <1>pc, PcAt
<1>mem. ASSUME NEW p \in PP, NEW x, job' = [job EXCEPT ![w][p] = x], Counted(x.mem, logs[p])
        PROVE  \A v \in Worker, q \in PP : Counted(job'[v][q].mem, logs[q])
  <2>1. \A v \in Worker, q \in PP : job'[v][q] = IF v = w /\ q = p THEN x ELSE job[v][q]
    BY <1>1, <1>mem, JobAt
  <2> QED BY <1>mem, <2>1 DEF LogsCoverRetries
<1>4. CASE Poll(w)
  BY <1>1, <1>2, <1>4 DEF Poll, LogsCoverRetries
<1>5. ASSUME NEW q \in Post, ClaimGroup(w, q) PROVE LogsCoverRetries'
  <2>1. \A p \in PP : Counted(row'[p], logs[p])
    BY <1>1, <1>3, <1>5 DEF ClaimGroup, LogsCoverRetries
  <2>2. \A v \in Worker, p \in PP : Counted(job'[v][p].mem, logs[p])
    BY <1>1, <1>2, <1>5 DEF ClaimGroup, LogsCoverRetries
  <2> QED BY <1>5, <2>1, <2>2 DEF ClaimGroup, LogsCoverRetries
<1>6. ASSUME NEW q \in Post, EndGroup(w, q) PROVE LogsCoverRetries'
  <2>1. \A v \in Worker, p \in PP : Counted(job'[v][p].mem, logs[p])
    BY <1>1, <1>2, <1>6 DEF EndGroup, LogsCoverRetries
  <2> QED BY <1>6, <2>1 DEF EndGroup, LogsCoverRetries
<1>7. CASE StartRetries(w)
  BY <1>1, <1>2, <1>7 DEF StartRetries, LogsCoverRetries
<1>8. ASSUME NEW p \in PP, ClaimRetry(w, p) PROVE LogsCoverRetries'
  <2>1. CASE row[p].status = Deleted
    <3>1. job' = [job EXCEPT ![w][p] = NoJob] /\ row' = row
      BY <1>8, <2>1 DEF ClaimRetry
    <3>2. \A v \in Worker, q \in PP : Counted(job'[v][q].mem, logs[q])
      BY <1>1, <1>2, <1>mem, <3>1
    <3> QED BY <1>8, <3>1, <3>2 DEF ClaimRetry, LogsCoverRetries
  <2>2. CASE row[p].status # Deleted
    <3> DEFINE x == [pc |-> "ready", mem |-> [job[w][p].mem EXCEPT !.status = "publishing"]]
    <3>1. /\ row' = [row EXCEPT ![p].status = "publishing"]
          /\ job' = [job EXCEPT ![w][p] = x]
      BY <1>8, <2>2 DEF ClaimRetry
    <3>2. \A q \in PP : Counted(row'[q], logs[q])
      BY <1>1, <1>3, <3>1 DEF LogsCoverRetries
    <3>3. Counted(x.mem, logs[p])
      BY <1>1, <1>3 DEF LogsCoverRetries
    <3>4. \A v \in Worker, q \in PP : Counted(job'[v][q].mem, logs[q])
      <4> HIDE DEF x
      <4> QED BY <1>mem, <3>1, <3>3
    <3> QED BY <1>8, <3>2, <3>4 DEF ClaimRetry, LogsCoverRetries
  <2> QED BY <2>1, <2>2
<1>9. ASSUME NEW p \in PP, EndRetry(w, p) PROVE LogsCoverRetries'
  BY <1>1, <1>2, <1>9 DEF EndRetry, LogsCoverRetries
<1>10. CASE EndCycle(w)
  BY <1>1, <1>10 DEF EndCycle, LogsCoverRetries
<1>11. ASSUME NEW p \in PP, Attempt(w, p) PROVE LogsCoverRetries'
  <2> DEFINE m == job[w][p].mem
  <2>1. m \in Row /\ Counted(m, logs[p]) /\ logs[p] \in Nat
    BY <1>1 DEF LogsCoverRetries
  <2>2. Counted(Published(m), logs[p]) /\ Published(m) \in Row
    BY <2>1, PublishedIsRow DEF Published, Counted, Row, TypeOK
  <2>3. CASE MarkReady(w, p)
    <3>1. Counted([m EXCEPT !.status = "ready_to_post", !.publishedAt = now], logs[p])
      BY <2>1 DEF Counted, Row
    <3> QED BY <1>1, <2>3, <3>1 DEF MarkReady, Save, LogsCoverRetries
  <2>6. ASSUME row' = row, request' = request, logs' \in [PP -> Nat],
               \A q \in PP : logs[q] <= logs'[q],
               \A v \in Worker, q \in PP : job'[v][q].mem = job[v][q].mem
        PROVE  LogsCoverRetries'
    <3>1. \A q \in PP : Counted(row[q], logs'[q])
      BY <1>1, <2>6, CountedMore DEF LogsCoverRetries
    <3>2. \A v \in Worker, q \in PP : Counted(job[v][q].mem, logs'[q])
      BY <1>1, <2>6, CountedMore DEF LogsCoverRetries
    <3>3. request # NoReq => Counted(request.seen, logs'[request.edit.p])
      BY <1>1, <2>6, CountedMore DEF LogsCoverRetries
    <3> QED BY <2>6, <3>1, <3>2, <3>3 DEF LogsCoverRetries
  <2>4. CASE CallProvider(w, p)
    <3>1. \A v \in Worker, q \in PP : job'[v][q].mem = job[v][q].mem
      BY <1>pc, <2>4 DEF CallProvider
    <3> QED BY <1>1, <2>4, <2>6, <3>1 DEF CallProvider
  <2>5. CASE SavePublished(w, p)
    BY <1>1, <2>2, <2>5 DEF SavePublished, Save, LogsCoverRetries
  <2>7. CASE LogPublished(w, p)
    <3>1. row' = row /\ request' = request
      BY <2>7 DEF LogPublished
    <3>2. logs' = logs \/ logs' = [logs EXCEPT ![p] = @ + 1]
      BY <2>7 DEF LogPublished
    <3>3. \A v \in Worker, q \in PP : job'[v][q].mem = job[v][q].mem
      BY <1>pc, <2>7 DEF LogPublished
    <3>4. logs' \in [PP -> Nat] /\ \A q \in PP : logs[q] <= logs'[q]
      BY <1>1, <3>2
    <3> QED BY <2>6, <3>1, <3>3, <3>4
  <2>8. CASE FailAfterAccept(w, p)
    <3>1. CASE job[w][p].pc = "accepted"
      <4> DEFINE x == [pc |-> "raised", mem |-> Published(m)]
      <4>1. job' = [job EXCEPT ![w][p] = x] /\ logs' = logs
        BY <2>8, <3>1 DEF FailAfterAccept
      <4>2. Counted(x.mem, logs[p])
        BY <2>2
      <4>3. \A v \in Worker, q \in PP : Counted(job'[v][q].mem, logs[q])
        <5> HIDE DEF x
        <5> QED BY <1>mem, <4>1, <4>2
      <4> QED BY <2>8, <4>1, <4>3 DEF FailAfterAccept, LogsCoverRetries
    <3>2. CASE job[w][p].pc = "saved"
      <4>1. row' = row /\ request' = request
        BY <2>8 DEF FailAfterAccept
      <4>2. PICK n \in {0, 1} : logs' = [logs EXCEPT ![p] = @ + n]
        BY <2>8, <3>2 DEF FailAfterAccept
      <4>3. \A v \in Worker, q \in PP : job'[v][q].mem = job[v][q].mem
        BY <1>pc, <2>8, <3>2 DEF FailAfterAccept
      <4> QED BY <1>1, <2>6, <4>1, <4>2, <4>3
    <3> QED BY <2>8, <3>1, <3>2 DEF FailAfterAccept
  <2>9. CASE ScheduleRetry(w, p)
    <3>1. Counted(Retried(m), logs[p] + 1) /\ logs' = [logs EXCEPT ![p] = @ + 1]
      BY <2>1, <2>9, CountedRetried DEF ScheduleRetry
    <3>2. logs' \in [PP -> Nat] /\ (\A q \in PP : logs[q] <= logs'[q]) /\ request' = request
      BY <1>1, <2>9, <3>1 DEF ScheduleRetry
    <3>3. \A q \in PP : row'[q] = (IF q = p THEN Retried(m) ELSE row[q])
      BY <1>1, <2>9 DEF ScheduleRetry, Save
    <3>4. \A v \in Worker, q \in PP :
            job'[v][q].mem = (IF v = w /\ q = p THEN Retried(m) ELSE job[v][q].mem)
      BY <1>1, <2>9 DEF ScheduleRetry, Save
    <3>5. Counted(Retried(m), logs'[p])
      BY <1>1, <3>1
    <3>6. \A q \in PP : Counted(row'[q], logs'[q])
      BY <1>1, <3>2, <3>3, <3>5, CountedMore DEF LogsCoverRetries
    <3>7. \A v \in Worker, q \in PP : Counted(job'[v][q].mem, logs'[q])
      BY <1>1, <3>2, <3>4, <3>5, CountedMore DEF LogsCoverRetries
    <3>8. request # NoReq => Counted(request.seen, logs'[request.edit.p])
      BY <1>1, <3>2, CountedMore DEF LogsCoverRetries
    <3> QED BY <3>2, <3>6, <3>7, <3>8 DEF LogsCoverRetries
  <2>10. CASE FailToLog(w, p)
    <3>1. \A v \in Worker, q \in PP : job'[v][q].mem = job[v][q].mem
      BY <1>pc, <2>10 DEF FailToLog
    <3> QED BY <1>1, <2>6, <2>10, <3>1 DEF FailToLog
  <2> QED BY <1>11, <2>3, <2>4, <2>5, <2>7, <2>8, <2>9, <2>10 DEF Attempt
<1> QED BY <1>4, <1>5, <1>6, <1>7, <1>8, <1>9, <1>10, <1>11 DEF Cycle

(* Every step keeps the count covered by the logs.                         *)
LEMMA CountedStep ==
  ASSUME NoForcedFailure, TypeOK, LogsCoverRetries, [Next]_vars
  PROVE  LogsCoverRetries'
<1> USE DEF dbVars, editVars, ghosts, workerVars
<1>1. /\ row \in [PP -> Row] /\ job \in [Worker -> [PP -> [pc : JobPc, mem : Row]]]
      /\ logs \in [PP -> Nat] /\ request \in {NoReq} \cup [kind : {"open"}, edit : Edits, seen : Row]
      /\ \A e \in Edits : e.p \in PP
  BY PublisherAssumption DEF TypeOK, EditRequest
<1>2. CASE Tick
  BY <1>2 DEF Tick, LogsCoverRetries
<1>3. ASSUME NEW w \in Worker, Cycle(w) PROVE LogsCoverRetries'
  BY <1>3, CountedCycle
<1>4. ASSUME NEW w \in Worker, Crash(w) PROVE LogsCoverRetries'
  <2>1. \A n \in Nat : Counted(NoJob.mem, n)
    BY DEF NoJob, Scheduled, Counted
  <2> QED BY <1>1, <1>4, <2>1 DEF Crash, LogsCoverRetries
<1>5. ASSUME NEW e \in Edits, Edit(e) PROVE LogsCoverRetries'
  <2>1. Counted(Edited(e, row[e.p], row[e.p]), logs[e.p])
    BY <1>1, CountedEdited DEF LogsCoverRetries
  <2>2. row' = [row EXCEPT ![e.p] = Edited(e, row[e.p], row[e.p])]
    BY <1>1, <1>5 DEF Edit
  <2>3. \A p \in PP : Counted(row'[p], logs[p])
    BY <1>1, <2>1, <2>2 DEF LogsCoverRetries
  <2> QED BY <1>5, <2>3 DEF Edit, LogsCoverRetries
<1>6. ASSUME NEW e \in Edits, BeginEdit(e) PROVE LogsCoverRetries'
  <2>1. request'.seen = row[e.p] /\ request'.edit = e /\ logs' = logs
    BY <1>6 DEF BeginEdit
  <2> QED BY <1>1, <1>6, <2>1 DEF BeginEdit, LogsCoverRetries
<1>7. CASE EndEdit
  <2>1. request # NoReq /\ request.edit \in Edits /\ request.seen \in Row
    BY <1>1, <1>7 DEF EndEdit
  <2> DEFINE e == request.edit
             new == Edited(e, request.seen, row[e.p])
  <2>2. Counted(new, logs[e.p])
    BY <1>1, <2>1, CountedEdited DEF LogsCoverRetries
  <2>3. row' = [row EXCEPT ![e.p] = new]
    BY <1>7 DEF EndEdit
  <2>4. \A p \in PP : Counted(row'[p], logs[p])
    <3> HIDE DEF new
    <3> QED BY <1>1, <2>1, <2>2, <2>3 DEF LogsCoverRetries
  <2> QED BY <1>7, <2>4 DEF EndEdit, LogsCoverRetries
<1>8. CASE UNCHANGED vars
  BY <1>8 DEF vars, LogsCoverRetries
<1> QED BY <1>2, <1>3, <1>4, <1>5, <1>6, <1>7, <1>8 DEF Next

(***************************************************************************)
(* A PlatformPost is FAILED only after all its attempts wrote a PublishLog *)
(* row: for any number of workers, any mix of refusals, lost answers,      *)
(* failed writes and crashes, and edit requests whose read and write are   *)
(* apart, as long as no user sets the status to failed.                    *)
(***************************************************************************)
THEOREM FailedExhausted ==
  ASSUME NoForcedFailure
  PROVE  Spec => []FailedIsExhausted
<1>1. Init => LogsCoverRetries
  <2> SUFFICES ASSUME Init PROVE LogsCoverRetries
    OBVIOUS
  <2>1. \A t, n \in Nat : Counted(Scheduled(t), n)
    BY DEF Scheduled, Counted
  <2>2. Counted(NoJob.mem, 0)
    BY DEF NoJob, Scheduled, Counted
  <2> QED BY <2>1, <2>2 DEF Init, LogsCoverRetries
<1>2. TypeOK /\ LogsCoverRetries /\ [Next]_vars => LogsCoverRetries'
  BY CountedStep
<1>3. LogsCoverRetries => FailedIsExhausted
  BY DEF LogsCoverRetries, FailedIsExhausted, Counted
<1> QED BY <1>1, <1>2, <1>3, TypeCorrect, PTL DEF Spec

-----------------------------------------------------------------------------
(***************************************************************************)
(* At most once.  One worker, a platform that refuses calls but never      *)
(* loses an answer, requests that read and write at once: then the only    *)
(* danger is the engine's own copies of the row.                           *)
(***************************************************************************)
Solo == \A v, w \in Worker : v = w

(* Past the provider call the copies can no longer bring the post back.    *)
SentIsOver(p) ==
  /\ delivered[p] \in {0, 1}
  /\ delivered[p] = 1 => \A w \in Worker :
       \/ job[w][p].pc = "accepted"
       \/ /\ row[p].status \in {"published", Deleted}
          /\ job[w][p].pc \in {"none", "saved", "won", "lost"}

OnceInv ==
  /\ request = NoReq
  /\ \A w \in Worker : phase[w] = "idle" => \A p \in PP : job[w][p].pc = "none"
  /\ \A p \in PP : SentIsOver(p)

(* Every step of an attempt delivers at most once.                         *)
LEMMA OnceAttempt ==
  ASSUME Solo, Faults \subseteq {"reject"}, TypeOK, OnceInv,
         NEW w \in Worker, NEW p \in PP, Attempt(w, p)
  PROVE  OnceInv'
<1> USE DEF dbVars, editVars, ghosts, workerVars
<1>1. /\ row \in [PP -> Row] /\ job \in [Worker -> [PP -> [pc : JobPc, mem : Row]]]
      /\ delivered \in [PP -> Nat] /\ job[w][p].mem \in Row
  BY DEF TypeOK
<1>2. request' = NoReq /\ phase' = phase
  BY DEF Attempt, MarkReady, CallProvider, SavePublished, LogPublished, FailAfterAccept,
         ScheduleRetry, FailToLog, OnceInv
<1>3. job[w][p].pc # "none"
  BY DEF Attempt, MarkReady, CallProvider, SavePublished, LogPublished, FailAfterAccept,
         ScheduleRetry, FailToLog
(* It is enough to follow p itself.                                        *)
<1>4. ASSUME NEW x, job' = [job EXCEPT ![w][p] = x], SentIsOver(p)',
             \A q \in PP \ {p} : row'[q] = row[q] /\ delivered'[q] = delivered[q]
      PROVE  OnceInv'
  <2>1. \A v \in Worker, q \in PP : job'[v][q] = IF v = w /\ q = p THEN x ELSE job[v][q]
    BY <1>1, <1>4, JobAt
  <2>2. \A q \in PP \ {p} : SentIsOver(q)'
    BY <1>4, <2>1 DEF OnceInv, SentIsOver
  <2>3. phase[w] # "idle"
    BY <1>3 DEF OnceInv
  <2>4. \A v \in Worker : phase'[v] = "idle" => \A q \in PP : job'[v][q].pc = "none"
    BY <1>2, <2>3 DEF Solo
  <2> QED BY <1>2, <1>4, <2>2, <2>4 DEF OnceInv
<1>5. ASSUME NEW x, job' = [job EXCEPT ![w][p] = x]
      PROVE  \A v \in Worker : job'[v][p] = x
  BY <1>1, <1>5, JobAt DEF Solo
<1>6. ASSUME NEW c, job' = [job EXCEPT ![w][p].pc = c]
      PROVE  \E x : x.pc = c /\ job' = [job EXCEPT ![w][p] = x]
  <2>1. [job[w][p] EXCEPT !.pc = c].pc = c
    BY <1>1
  <2>2. job' = [job EXCEPT ![w][p] = [job[w][p] EXCEPT !.pc = c]]
    BY <1>6
  <2> QED BY <2>1, <2>2
<1>7. SentIsOver(p)
  BY DEF OnceInv
(* Nothing to show before the provider has accepted p.                     *)
<1>unsent. ASSUME delivered[p] = 0, delivered' = delivered PROVE SentIsOver(p)'
  BY <1>unsent DEF SentIsOver
<1>8. CASE MarkReady(w, p)
  <2>1. delivered[p] = 0 /\ delivered' = delivered
    BY <1>7, <1>8 DEF MarkReady, SentIsOver
  <2>2. \A q \in PP \ {p} : row'[q] = row[q]
    BY <1>1, <1>8 DEF MarkReady, Save
  <2>3. \E x : job' = [job EXCEPT ![w][p] = x]
    BY <1>8 DEF MarkReady, Save
  <2> QED BY <1>4, <1>unsent, <2>1, <2>2, <2>3
<1>9. CASE CallProvider(w, p)
  <2>1. delivered[p] = 0 /\ row' = row
    BY <1>7, <1>9 DEF CallProvider, SentIsOver
  <2>2. \/ job' = [job EXCEPT ![w][p].pc = "accepted"] /\ delivered' = [delivered EXCEPT ![p] = @ + 1]
        \/ job' = [job EXCEPT ![w][p].pc = "raised"] /\ delivered' = delivered
    BY <1>9 DEF CallProvider
  <2>3. CASE delivered' = delivered
    <3>1. PICK x : job' = [job EXCEPT ![w][p] = x]
      BY <1>6, <2>2
    <3> QED BY <1>4, <1>unsent, <2>1, <2>3, <3>1
  <2>4. CASE job' = [job EXCEPT ![w][p].pc = "accepted"] /\ delivered' = [delivered EXCEPT ![p] = @ + 1]
    <3>1. PICK x : x.pc = "accepted" /\ job' = [job EXCEPT ![w][p] = x]
      BY <1>6, <2>4
    <3>2. delivered'[p] = 1
      BY <1>1, <2>1, <2>4
    <3>4. \A v \in Worker : job'[v][p].pc = "accepted"
      BY <1>5, <3>1
    <3>5. SentIsOver(p)'
      BY <3>2, <3>4 DEF SentIsOver
    <3>3. \A q \in PP \ {p} : row'[q] = row[q] /\ delivered'[q] = delivered[q]
      BY <1>1, <2>1, <2>4
    <3> QED BY <1>4, <3>1, <3>3, <3>5
  <2> QED BY <2>2, <2>3, <2>4
<1>10. CASE SavePublished(w, p)
  <2> DEFINE x == [pc |-> "saved", mem |-> Published(job[w][p].mem)]
  <2>1. job' = [job EXCEPT ![w][p] = x] /\ row' = [row EXCEPT ![p] = Published(job[w][p].mem)]
    BY <1>10 DEF SavePublished, Save
  <2>2. delivered' = delivered /\ Published(job[w][p].mem).status = "published"
    BY <1>1, <1>10 DEF SavePublished, Published, Row
  <2>3. row'[p].status = "published" /\ \A v \in Worker : job'[v][p].pc = "saved"
    <3>1. row'[p].status = "published"
      BY <1>1, <2>1, <2>2
    <3>2. x.pc = "saved"
      OBVIOUS
    <3> HIDE DEF x
    <3> QED BY <1>5, <2>1, <3>1, <3>2
  <2>4. SentIsOver(p)'
    BY <1>7, <2>2, <2>3 DEF SentIsOver
  <2>5. \A q \in PP \ {p} : row'[q] = row[q] /\ delivered'[q] = delivered[q]
    BY <1>1, <2>1, <2>2
  <2> QED BY <1>4, <2>1, <2>4, <2>5
<1>11. CASE LogPublished(w, p)
  <2>1. row' = row /\ delivered' = delivered
    BY <1>11 DEF LogPublished
  <2>2. PICK c \in {"won", "lost"} : job' = [job EXCEPT ![w][p].pc = c]
    BY <1>11 DEF LogPublished
  <2>3. PICK x : x.pc = c /\ job' = [job EXCEPT ![w][p] = x]
    BY <1>6, <2>2
  <2>4. \A v \in Worker : job'[v][p].pc \in {"won", "lost"}
    <3>1. \A v \in Worker : job'[v][p] = x
      BY <1>5, <2>3
    <3> QED BY <2>2, <2>3, <3>1
  <2>5. SentIsOver(p)'
    BY <1>7, <1>11, <2>1, <2>4 DEF SentIsOver, LogPublished
  <2> QED BY <1>4, <2>1, <2>3, <2>5
<1>12. CASE ScheduleRetry(w, p)
  <2>1. delivered[p] = 0 /\ delivered' = delivered
    BY <1>7, <1>12 DEF ScheduleRetry, SentIsOver
  <2>2. \A q \in PP \ {p} : row'[q] = row[q]
    BY <1>1, <1>12 DEF ScheduleRetry, Save
  <2>3. \E x : job' = [job EXCEPT ![w][p] = x]
    BY <1>12 DEF ScheduleRetry, Save
  <2> QED BY <1>4, <1>unsent, <2>1, <2>2, <2>3
<1>13. CASE FailToLog(w, p)
  <2>1. delivered[p] = 0 /\ delivered' = delivered /\ row' = row
    BY <1>7, <1>13 DEF FailToLog, SentIsOver
  <2>2. PICK x : job' = [job EXCEPT ![w][p] = x]
    BY <1>6, <1>13 DEF FailToLog
  <2> QED BY <1>4, <1>unsent, <2>1, <2>2
<1>14. ~ FailAfterAccept(w, p)
  BY DEF FailAfterAccept
<1> QED BY <1>8, <1>9, <1>10, <1>11, <1>12, <1>13, <1>14 DEF Attempt

(* Every step keeps deliveries single.                                     *)
LEMMA OnceStep ==
  ASSUME Solo, Faults \subseteq {"reject"}, TypeOK, OnceInv, [Next]_vars
  PROVE  OnceInv'
<1> USE DEF dbVars, editVars, ghosts, workerVars
<1>1. /\ row \in [PP -> Row] /\ job \in [Worker -> [PP -> [pc : JobPc, mem : Row]]]
      /\ phase \in [Worker -> {"idle", "publish", "retry"}]
      /\ \A e \in Edits : e.p \in PP
  BY PublisherAssumption DEF TypeOK, EditRequest
<1>2. NoJob.pc = "none"
  BY DEF NoJob
<1>3. ASSUME NEW w \in Worker, Cycle(w) PROVE OnceInv'
  <2>1. CASE Poll(w)
    BY <1>1, <1>2, <2>1 DEF Poll, OnceInv, SentIsOver, FirstDue, IsDue, Deleted, Solo
  <2>2. ASSUME NEW q \in Post, ClaimGroup(w, q) PROVE OnceInv'
    <3>1. \A p \in PP : delivered[p] = 1 => job'[w][p] = job[w][p] /\ row'[p] = row[p]
      BY <1>1, <2>2 DEF ClaimGroup, OnceInv, SentIsOver, Lockable, Group
    <3> QED BY <1>1, <2>2, <3>1 DEF ClaimGroup, OnceInv, SentIsOver, Solo
  <2>3. ASSUME NEW q \in Post, EndGroup(w, q) PROVE OnceInv'
    BY <1>1, <1>2, <2>3 DEF EndGroup, OnceInv, SentIsOver, Solo, Ended
  <2>4. CASE StartRetries(w)
    BY <1>1, <1>2, <2>4 DEF StartRetries, RetryIsDue, OnceInv, SentIsOver, Deleted, Solo
  <2>5. ASSUME NEW p \in PP, ClaimRetry(w, p) PROVE OnceInv'
    <3>1. delivered[p] = 0
      BY <2>5 DEF ClaimRetry, OnceInv, SentIsOver
    <3>2. \A q \in PP \ {p} : job'[w][q] = job[w][q] /\ row'[q] = row[q]
      BY <1>1, <2>5 DEF ClaimRetry
    <3> QED BY <1>1, <2>5, <3>1, <3>2 DEF ClaimRetry, OnceInv, SentIsOver, Solo
  <2>6. ASSUME NEW p \in PP, EndRetry(w, p) PROVE OnceInv'
    <3>1. \A q \in PP : job'[w][q] = IF q = p THEN NoJob ELSE job[w][q]
      BY <1>1, <2>6 DEF EndRetry
    <3> QED BY <1>1, <1>2, <2>6, <3>1 DEF EndRetry, OnceInv, SentIsOver, Solo, Ended
  <2>7. CASE EndCycle(w)
    BY <1>1, <2>7 DEF EndCycle, OnceInv, SentIsOver
  <2>8. ASSUME NEW p \in PP, Attempt(w, p) PROVE OnceInv'
    BY <2>8, OnceAttempt
  <2> QED BY <1>3, <2>1, <2>2, <2>3, <2>4, <2>5, <2>6, <2>7, <2>8 DEF Cycle
<1>4. ASSUME NEW e \in Edits, Edit(e) PROVE OnceInv'
  <2>1. /\ row' = [row EXCEPT ![e.p] = Edited(e, row[e.p], row[e.p])]
        /\ Permitted(e, row[e.p]) /\ e \in EditRequest /\ e.p \in PP /\ row[e.p] \in Row
    BY <1>1, <1>4, PublisherAssumption DEF Edit
  <2>2. row[e.p].status = "published" => row'[e.p].status \in {"published", Deleted}
    <3>1. CASE e.kind = "transition"
      BY <2>1, <3>1 DEF Permitted, CanTransition, ValidTransitions
    <3>2. CASE e.kind = "reschedule"
      BY <2>1, <3>2 DEF Permitted
    <3>3. CASE e.kind = "save"
      BY <1>1, <2>1, <3>3 DEF Edited
    <3>4. CASE e.kind = "remove"
      BY <1>1, <2>1, <3>4 DEF Edited, Row
    <3> QED BY <2>1, <3>1, <3>2, <3>3, <3>4 DEF EditRequest
  <2>3. row[e.p].status # Deleted
    BY <2>1 DEF Permitted
  <2>4. \A p \in PP : row[p].status \in {"published", Deleted}
                        => row'[p].status \in {"published", Deleted}
    BY <1>1, <2>1, <2>2, <2>3
  <2> QED BY <1>4, <2>4 DEF Edit, OnceInv, SentIsOver
<1>5. CASE Tick
  BY <1>5 DEF Tick, OnceInv, SentIsOver
<1>6. CASE UNCHANGED vars
  BY <1>6 DEF vars, OnceInv, SentIsOver
<1>7. /\ \A w \in Worker : ~ Crash(w)
      /\ \A e \in Edits : ~ BeginEdit(e)
      /\ ~ EndEdit
  BY DEF Crash, BeginEdit, EndEdit, OnceInv
<1> QED BY <1>3, <1>4, <1>5, <1>6, <1>7 DEF Next

(***************************************************************************)
(* A single worker sends a PlatformPost at most once, whatever its users   *)
(* edit meanwhile and however often the platform refuses it, provided no   *)
(* answer is lost, no write fails after an accepted call, the worker does  *)
(* not die and an edit request reads and writes at once.  A second worker  *)
(* breaks it: the retry list is claimed without a lock.                    *)
(***************************************************************************)
THEOREM SentOnce ==
  ASSUME Solo, Faults \subseteq {"reject"}
  PROVE  Spec => []AtMostOnce
<1>1. Init => OnceInv
  BY DEF Init, OnceInv, SentIsOver, NoJob
<1>2. TypeOK /\ OnceInv /\ [Next]_vars => OnceInv'
  BY OnceStep
<1>3. OnceInv => AtMostOnce
  BY DEF OnceInv, SentIsOver, AtMostOnce
<1> QED BY <1>1, <1>2, <1>3, TypeCorrect, PTL DEF Spec

-----------------------------------------------------------------------------
(***************************************************************************)
(* First comments.  A row is PUBLISHED only after the provider accepted    *)
(* the post, and stays so until the worker that stored it has ended the    *)
(* group; what comes between - refusals, lost answers, failed writes, the  *)
(* death of the worker, edits - never lets a second group tell the same    *)
(* delivery.                                                               *)
(***************************************************************************)
Undone == {"saved", "won", "raised", "lost"}

CommentDue(p) ==
  /\ comments[p] <= delivered[p]
  /\ p \notin Commented => comments[p] = 0
  /\ p \in Commented /\ row[p].status = "published" => \A w \in Worker :
       job[w][p].pc = "none" \/ (job[w][p].pc \in Undone /\ comments[p] < delivered[p])
  /\ \A w \in Worker : job[w][p].pc = "accepted" => comments[p] < delivered[p]

CommentInv ==
  /\ request = NoReq
  /\ \A w \in Worker : phase[w] = "idle" => \A p \in PP : job[w][p].pc = "none"
  /\ \A p \in PP : CommentDue(p)

(* Nobody marks a post with a first comment as published by hand.          *)
NoForcedPublish ==
  \A e \in Edits : e.kind = "transition" /\ e.arg = "published" => e.p \notin Commented

(* Every step of an attempt keeps the comments behind the deliveries.      *)
LEMMA CommentAttempt ==
  ASSUME Solo, TypeOK, CommentInv, NEW w \in Worker, NEW p \in PP, Attempt(w, p)
  PROVE  CommentInv'
<1> USE DEF dbVars, editVars, ghosts, workerVars
<1>1. /\ row \in [PP -> Row] /\ job \in [Worker -> [PP -> [pc : JobPc, mem : Row]]]
      /\ delivered \in [PP -> Nat] /\ comments \in [PP -> Nat] /\ job[w][p].mem \in Row
  BY DEF TypeOK
<1>2. request' = NoReq /\ phase' = phase /\ comments' = comments /\ job[w][p].pc # "none"
  BY DEF Attempt, MarkReady, CallProvider, SavePublished, LogPublished, FailAfterAccept,
         ScheduleRetry, FailToLog, CommentInv
<1>3. CommentDue(p)
  BY DEF CommentInv
(* It is enough to follow p itself.                                        *)
<1>4. ASSUME NEW x, job' = [job EXCEPT ![w][p] = x],
             \A q \in PP \ {p} : row'[q] = row[q] /\ delivered'[q] = delivered[q],
             (\A v \in Worker : job'[v][p] = x) => CommentDue(p)'
      PROVE  CommentInv'
  <2>1. \A v \in Worker, q \in PP : job'[v][q] = IF v = w /\ q = p THEN x ELSE job[v][q]
    BY <1>1, <1>4, JobAt
  <2>2. \A q \in PP \ {p} : CommentDue(q)'
    BY <1>2, <1>4, <2>1 DEF CommentInv, CommentDue
  <2>3. CommentDue(p)'
    BY <1>4, <2>1 DEF Solo
  <2>4. \A v \in Worker : phase'[v] = "idle" => \A q \in PP : job'[v][q].pc = "none"
    BY <1>2 DEF Solo, CommentInv
  <2> QED BY <1>2, <2>2, <2>3, <2>4 DEF CommentInv
<1>5. ASSUME NEW c, job' = [job EXCEPT ![w][p].pc = c]
      PROVE  \E x : x.pc = c /\ job' = [job EXCEPT ![w][p] = x]
  <2>1. [job[w][p] EXCEPT !.pc = c].pc = c
    BY <1>1
  <2>2. job' = [job EXCEPT ![w][p] = [job[w][p] EXCEPT !.pc = c]]
    BY <1>5
  <2> QED BY <2>1, <2>2
<1>6. CASE MarkReady(w, p)
  <2> DEFINE m == [job[w][p].mem EXCEPT !.status = "ready_to_post", !.publishedAt = now]
             x == [pc |-> "won", mem |-> m]
  <2>1. job' = [job EXCEPT ![w][p] = x] /\ row' = [row EXCEPT ![p] = m] /\ delivered' = delivered
    BY <1>6 DEF MarkReady, Save
  <2>2. m.status = "ready_to_post" /\ x.pc = "won"
    BY <1>1 DEF Row
  <2> HIDE DEF m, x
  <2>3. (\A v \in Worker : job'[v][p] = x) => CommentDue(p)'
    BY <1>1, <1>2, <1>3, <2>1, <2>2 DEF CommentDue
  <2> QED BY <1>1, <1>4, <2>1, <2>3
<1>7. CASE CallProvider(w, p)
  <2>1. row' = row /\ job[w][p].pc = "ready"
    BY <1>7 DEF CallProvider
  <2>2. PICK c \in {"accepted", "raised"} :
          /\ job' = [job EXCEPT ![w][p].pc = c]
          /\ \/ delivered' = [delivered EXCEPT ![p] = @ + 1]
             \/ delivered' = delivered /\ c = "raised"
    BY <1>7 DEF CallProvider
  <2>3. PICK x : x.pc = c /\ job' = [job EXCEPT ![w][p] = x]
    BY <1>5, <2>2
  <2>4. p \in Commented => row[p].status # "published"
    BY <1>3, <2>1 DEF CommentDue, Undone
  <2>5. delivered[p] <= delivered'[p] /\ (c = "accepted" => delivered[p] < delivered'[p])
    BY <1>1, <2>2
  <2>6. comments[p] <= delivered'[p] /\ (c = "accepted" => comments[p] < delivered'[p])
    BY <1>1, <1>3, <2>2, <2>5 DEF CommentDue
  <2>7. (\A v \in Worker : job'[v][p] = x) => CommentDue(p)'
    BY <1>2, <1>3, <2>1, <2>3, <2>4, <2>6 DEF CommentDue
  <2>8. \A q \in PP \ {p} : row'[q] = row[q] /\ delivered'[q] = delivered[q]
    BY <1>1, <2>1, <2>2
  <2> QED BY <1>4, <2>3, <2>7, <2>8
<1>8. CASE SavePublished(w, p)
  <2> DEFINE m == Published(job[w][p].mem)
             x == [pc |-> "saved", mem |-> m]
  <2>1. /\ job' = [job EXCEPT ![w][p] = x] /\ row' = [row EXCEPT ![p] = m] /\ delivered' = delivered
        /\ job[w][p].pc = "accepted"
    BY <1>8 DEF SavePublished, Save
  <2>2. x.pc = "saved"
    OBVIOUS
  <2> HIDE DEF m, x
  <2>3. (\A v \in Worker : job'[v][p] = x) => CommentDue(p)'
    BY <1>1, <1>2, <1>3, <2>1, <2>2 DEF CommentDue, Undone
  <2> QED BY <1>1, <1>4, <2>1, <2>3
<1>9. CASE LogPublished(w, p) \/ FailToLog(w, p) \/ (FailAfterAccept(w, p) /\ job[w][p].pc = "saved")
  <2>1. row' = row /\ delivered' = delivered /\ job[w][p].pc \in Undone
    BY <1>9 DEF LogPublished, FailToLog, FailAfterAccept, Undone
  <2>2. PICK c \in Undone : job' = [job EXCEPT ![w][p].pc = c]
    BY <1>9 DEF LogPublished, FailToLog, FailAfterAccept, Undone
  <2>3. PICK x : x.pc = c /\ job' = [job EXCEPT ![w][p] = x]
    BY <1>5, <2>2
  <2>4. (\A v \in Worker : job'[v][p] = x) => CommentDue(p)'
    BY <1>2, <1>3, <2>1, <2>2, <2>3 DEF CommentDue, Undone
  <2> QED BY <1>4, <2>1, <2>3, <2>4
<1>10. CASE FailAfterAccept(w, p) /\ job[w][p].pc = "accepted"
  <2> DEFINE x == [pc |-> "raised", mem |-> Published(job[w][p].mem)]
  <2>1. job' = [job EXCEPT ![w][p] = x] /\ row' = row /\ delivered' = delivered
    BY <1>10 DEF FailAfterAccept
  <2>2. x.pc = "raised"
    OBVIOUS
  <2> HIDE DEF x
  <2>3. (\A v \in Worker : job'[v][p] = x) => CommentDue(p)'
    BY <1>2, <1>3, <1>10, <2>1, <2>2 DEF CommentDue, Undone
  <2> QED BY <1>4, <2>1, <2>3
<1>11. CASE ScheduleRetry(w, p)
  <2> DEFINE m == Retried(job[w][p].mem)
             x == [pc |-> "lost", mem |-> m]
  <2>1. job' = [job EXCEPT ![w][p] = x] /\ row' = [row EXCEPT ![p] = m] /\ delivered' = delivered
    BY <1>11 DEF ScheduleRetry, Save
  <2>2. m.status # "published"
    <3>1. job[w][p].mem \in Row
      BY <1>1
    <3> QED BY <3>1 DEF Retried, Row
  <2>3. x.pc = "lost"
    OBVIOUS
  <2> HIDE DEF m, x
  <2>4. (\A v \in Worker : job'[v][p] = x) => CommentDue(p)'
    BY <1>1, <1>2, <1>3, <2>1, <2>2, <2>3 DEF CommentDue
  <2> QED BY <1>1, <1>4, <2>1, <2>4
<1>12. FailAfterAccept(w, p) => job[w][p].pc \in {"accepted", "saved"}
  BY DEF FailAfterAccept
<1> QED BY <1>6, <1>7, <1>8, <1>9, <1>10, <1>11, <1>12 DEF Attempt

(* So does every other step.                                               *)
LEMMA CommentStep ==
  ASSUME Solo, "straddle" \notin Faults, NoForcedPublish, TypeOK, CommentInv, [Next]_vars
  PROVE  CommentInv'
<1> USE DEF dbVars, editVars, ghosts, workerVars
<1>1. /\ row \in [PP -> Row] /\ job \in [Worker -> [PP -> [pc : JobPc, mem : Row]]]
      /\ phase \in [Worker -> {"idle", "publish", "retry"}]
      /\ delivered \in [PP -> Nat] /\ comments \in [PP -> Nat]
      /\ \A e \in Edits : e.p \in PP
  BY PublisherAssumption DEF TypeOK, EditRequest
<1>2. NoJob.pc = "none"
  BY DEF NoJob
(* Every step but the end of a group.                                      *)
<1>3. ASSUME delivered' = delivered, comments' = comments, request' = request,
             \A w \in Worker, p \in PP :
               \/ job'[w][p] = job[w][p] \/ job'[w][p].pc = "none"
               \/ job'[w][p].pc # "accepted" /\ row'[p].status # "published",
             \A p \in PP : p \in Commented /\ row'[p].status = "published" => row[p].status = "published",
             \A w \in Worker : phase'[w] = "idle" => \A p \in PP : job'[w][p].pc = "none"
      PROVE  CommentInv'
  <2>1. ASSUME NEW p \in PP PROVE CommentDue(p)'
    BY <1>3, <2>1 DEF CommentInv, CommentDue
  <2> QED BY <1>3, <2>1 DEF CommentInv
<1>4. ASSUME NEW w \in Worker, Cycle(w) PROVE CommentInv'
  <2>1. CASE Poll(w)
    <3>1. PICK S \in SUBSET PP :
            /\ FirstDue(S)
            /\ job' = [job EXCEPT ![w] = [p \in PP |-> IF p \in S THEN [pc |-> "due", mem |-> row[p]] ELSE NoJob]]
      BY <2>1 DEF Poll
    <3>2. \A p \in S : row[p].status # "published"
      BY <3>1 DEF FirstDue, IsDue
    <3>3. \A v \in Worker, p \in PP :
            job'[v][p] = IF v # w THEN job[v][p] ELSE IF p \in S THEN [pc |-> "due", mem |-> row[p]] ELSE NoJob
      BY <1>1, <3>1
    <3> QED BY <1>1, <1>2, <1>3, <2>1, <3>2, <3>3 DEF Poll, CommentInv
  <2>2. ASSUME NEW q \in Post, ClaimGroup(w, q) PROVE CommentInv'
    <3>1. /\ \A p \in PP : row'[p] = IF p \in Lockable(w, q) THEN [row[p] EXCEPT !.status = "publishing"] ELSE row[p]
          /\ \A v \in Worker, p \in PP :
               \/ job'[v][p] = job[v][p] \/ job'[v][p].pc = "none"
               \/ job'[v][p].pc = "ready" /\ p \in Lockable(w, q)
      BY <1>1, <1>2, <2>2 DEF ClaimGroup
    <3>2. \A p \in PP : p \in Lockable(w, q) => row'[p].status = "publishing"
      <4>1. \A p \in PP : [row[p] EXCEPT !.status = "publishing"].status = "publishing"
        BY <1>1 DEF Row
      <4> QED BY <3>1, <4>1
    <3>3. phase' = phase /\ phase[w] # "idle"
      BY <2>2 DEF ClaimGroup
    <3>4. \A v \in Worker : phase'[v] = "idle" => \A p \in PP : job'[v][p].pc = "none"
      BY <3>3 DEF Solo
    <3> QED BY <1>3, <2>2, <3>1, <3>2, <3>4 DEF ClaimGroup
  <2>3. ASSUME NEW q \in Post, EndGroup(w, q) PROVE CommentInv'
    <3> DEFINE mine == {p \in Group(q) : job[w][p].pc # "none"}
    <3>1. PICK C \in SUBSET Told(w, q) : comments' = [p \in PP |-> IF p \in C THEN comments[p] + 1 ELSE comments[p]]
      BY <2>3 DEF EndGroup
    <3>2. \A v \in Worker, p \in PP : job'[v][p] = IF v = w /\ p \in mine THEN NoJob ELSE job[v][p]
      BY <1>1, <2>3 DEF EndGroup
    <3>3. row' = row /\ delivered' = delivered /\ phase' = phase /\ request' = request /\ phase[w] # "idle"
      BY <2>3 DEF EndGroup
    <3>4. C \subseteq mine /\ \A p \in C : p \in PP /\ p \in Commented /\ row[p].status = "published"
      BY <3>1 DEF Told, Group
    <3>5. ASSUME NEW p \in PP PROVE CommentDue(p)'
      <4>0. CommentDue(p) /\ comments[p] \in Nat /\ delivered[p] \in Nat
        BY <1>1 DEF CommentInv
      <4>1. CASE p \in C
        <5>1. job[w][p].pc \in Undone /\ comments[p] < delivered[p]
          BY <3>4, <4>0, <4>1 DEF CommentDue
        <5>2. comments'[p] = comments[p] + 1 /\ \A v \in Worker : job'[v][p].pc = "none"
          BY <1>2, <3>1, <3>2, <3>4, <4>1 DEF Solo
        <5> QED BY <3>3, <3>4, <4>0, <4>1, <5>1, <5>2 DEF CommentDue
      <4>2. CASE p \notin C
        <5>1. comments'[p] = comments[p]
          BY <3>1, <4>2
        <5>2. \A v \in Worker : job'[v][p] = job[v][p] \/ job'[v][p].pc = "none"
          BY <1>2, <3>2
        <5> QED BY <3>3, <4>0, <5>1, <5>2 DEF CommentDue
      <4> QED BY <4>1, <4>2
    <3> QED BY <3>3, <3>5 DEF CommentInv, Solo
  <2>4. CASE StartRetries(w)
    <3>1. \A v \in Worker, p \in PP :
            job'[v][p] = IF v # w THEN job[v][p] ELSE IF RetryIsDue(p) THEN [pc |-> "queued", mem |-> row[p]] ELSE NoJob
      BY <1>1, <2>4 DEF StartRetries
    <3> QED BY <1>1, <1>2, <1>3, <2>4, <3>1 DEF StartRetries, RetryIsDue, CommentInv
  <2>5. ASSUME NEW p \in PP, ClaimRetry(w, p) PROVE CommentInv'
    <3>0. phase' = phase /\ phase[w] # "idle" /\ \A v \in Worker : v = w
      BY <2>5 DEF ClaimRetry, Solo
    <3>1. CASE row[p].status = Deleted
      <4>1. row' = row /\ job' = [job EXCEPT ![w][p] = NoJob]
        BY <2>5, <3>1 DEF ClaimRetry
      <4>2. \A v \in Worker, q \in PP : job'[v][q] = job[v][q] \/ job'[v][q].pc = "none"
        BY <1>1, <1>2, <4>1
      <4> QED BY <1>3, <2>5, <3>0, <4>1, <4>2 DEF ClaimRetry
    <3>2. CASE row[p].status # Deleted
      <4> DEFINE x == [pc |-> "ready", mem |-> [job[w][p].mem EXCEPT !.status = "publishing"]]
      <4>1. row' = [row EXCEPT ![p].status = "publishing"] /\ job' = [job EXCEPT ![w][p] = x]
        BY <2>5, <3>2 DEF ClaimRetry
      <4>2. x.pc = "ready"
        OBVIOUS
      <4>3. \A q \in PP : row'[q] = IF q = p THEN [row[p] EXCEPT !.status = "publishing"] ELSE row[q]
        BY <1>1, <4>1
      <4>4. row'[p].status = "publishing"
        BY <1>1, <4>3 DEF Row
      <4> HIDE DEF x
      <4>5. \A v \in Worker, q \in PP : job'[v][q] = IF v = w /\ q = p THEN x ELSE job[v][q]
        BY <1>1, <4>1, JobAt
      <4>6. \A v \in Worker, q \in PP :
              job'[v][q] = job[v][q] \/ (job'[v][q].pc # "accepted" /\ row'[q].status # "published")
        BY <4>2, <4>4, <4>5
      <4>7. \A q \in PP : row'[q].status = "published" => row[q].status = "published"
        BY <4>3, <4>4
      <4> QED BY <1>3, <2>5, <3>0, <4>6, <4>7 DEF ClaimRetry
    <3> QED BY <3>1, <3>2
  <2>6. ASSUME NEW p \in PP, EndRetry(w, p) PROVE CommentInv'
    <3>0. phase' = phase /\ phase[w] # "idle" /\ \A v \in Worker : v = w
      BY <2>6 DEF EndRetry, Solo
    <3>1. \A v \in Worker, q \in PP : job'[v][q] = job[v][q] \/ job'[v][q].pc = "none"
      BY <1>1, <1>2, <2>6 DEF EndRetry
    <3> QED BY <1>3, <2>6, <3>0, <3>1 DEF EndRetry
  <2>7. CASE EndCycle(w)
    BY <1>1, <1>3, <2>7 DEF EndCycle, CommentInv, Solo
  <2>8. ASSUME NEW p \in PP, Attempt(w, p) PROVE CommentInv'
    BY <2>8, CommentAttempt
  <2> QED BY <1>4, <2>1, <2>2, <2>3, <2>4, <2>5, <2>6, <2>7, <2>8 DEF Cycle
<1>5. ASSUME NEW w \in Worker, Crash(w) PROVE CommentInv'
  <2>1. \A v \in Worker, p \in PP : job'[v][p].pc = "none"
    BY <1>1, <1>2, <1>5 DEF Crash, Solo
  <2> QED BY <1>3, <1>5, <2>1 DEF Crash
<1>6. ASSUME NEW e \in Edits, Edit(e) PROVE CommentInv'
  <2>1. /\ row' = [row EXCEPT ![e.p] = Edited(e, row[e.p], row[e.p])]
        /\ Permitted(e, row[e.p]) /\ e \in EditRequest /\ e.p \in PP /\ row[e.p] \in Row
    BY <1>1, <1>6, PublisherAssumption DEF Edit
  <2>2. e.p \in Commented /\ row'[e.p].status = "published" => row[e.p].status = "published"
    <3>0. row'[e.p] = Edited(e, row[e.p], row[e.p])
      BY <1>1, <2>1
    <3>1. CASE e.kind = "transition"
      BY <2>1, <3>0, <3>1 DEF Permitted, Edited, NoForcedPublish, Row
    <3>2. CASE e.kind = "reschedule"
      BY <2>1, <3>0, <3>2 DEF Permitted, Edited, Row
    <3>3. CASE e.kind = "save"
      BY <3>0, <3>3 DEF Edited
    <3>4. CASE e.kind = "remove"
      BY <2>1, <3>0, <3>4 DEF Edited, Row, Deleted
    <3> QED BY <2>1, <3>1, <3>2, <3>3, <3>4 DEF EditRequest
  <2>3. \A p \in PP : p \in Commented /\ row'[p].status = "published" => row[p].status = "published"
    BY <1>1, <2>1, <2>2
  <2> QED BY <1>3, <1>6, <2>3 DEF Edit, CommentInv
<1>7. CASE Tick
  BY <1>7 DEF Tick, CommentInv, CommentDue
<1>8. CASE UNCHANGED vars
  BY <1>8 DEF vars, CommentInv, CommentDue
<1>9. (\A e \in Edits : ~ BeginEdit(e)) /\ ~ EndEdit
  BY DEF BeginEdit, EndEdit, CommentInv
<1> QED BY <1>4, <1>5, <1>6, <1>7, <1>8, <1>9 DEF Next

(***************************************************************************)
(* A first comment follows a delivery of its post, one for each at most:   *)
(* for a single worker, under refusals, lost answers, failed writes and    *)
(* the death of the worker, with requests that read and write at once, and *)
(* as long as nobody marks a post with a first comment as published by     *)
(* hand while its group is being published.                                *)
(***************************************************************************)
THEOREM CommentsFollow ==
  ASSUME Solo, "straddle" \notin Faults, NoForcedPublish
  PROVE  Spec => []CommentsFollowDelivery
<1>1. Init => CommentInv
  BY DEF Init, CommentInv, CommentDue, NoJob
<1>2. TypeOK /\ CommentInv /\ [Next]_vars => CommentInv'
  BY CommentStep
<1>3. CommentInv => CommentsFollowDelivery
  BY DEF CommentInv, CommentDue, CommentsFollowDelivery
<1> QED BY <1>1, <1>2, <1>3, TypeCorrect, PTL DEF Spec
=============================================================================
