------------------------------ MODULE Delivery ------------------------------
(***************************************************************************)
(* Delivery of notifications over one channel                              *)
(* (apps/notifications/engine.py): notify creates a NotificationDelivery   *)
(* and tries it in the request; retry_failed_deliveries, run every minute, *)
(* tries the pending ones again.  Neither locks the row: each works on the *)
(* object it read and saves the fields it names.                           *)
(***************************************************************************)
EXTENDS Integers, Sequences, FiniteSets

CONSTANTS Delivery,     \* NotificationDelivery rows
          Runner,       \* runs of retry_failed_deliveries, perhaps overlapping
          MaxAttempts,  \* MAX_RETRY_ATTEMPTS
          Backoff,      \* RETRY_BACKOFF_MINUTES, in ticks
          Faults        \* the faults the environment may produce

(* reject: the channel refuses; lost: it delivers but raises; crash: the   *)
(* process dies.                                                           *)
ASSUME DeliveryAssumption ==
  /\ MaxAttempts \in Nat \ {0}
  /\ Backoff \in Seq(Nat) /\ Backoff # << >>
  /\ Faults \subseteq {"reject", "lost", "crash"}
  /\ "web" \notin Runner

Process == Runner \cup {"web"}
Null    == -1

(* wait is what is left until next_retry_at.                               *)
NoRow  == [status |-> "none", attempts |-> 0, wait |-> Null]
NewRow == [status |-> "pending", attempts |-> 0, wait |-> Null]
NoJob  == [pc |-> "none", mem |-> NoRow]

VARIABLES row,     \* NotificationDelivery table
          job,     \* of each process and row: the object in hand
          tries,   \* calls to the channel
          sent,    \* deliveries that reached the user
          lost,    \* answers lost after the delivery
          taken    \* crashes that took an attempt, or the first one's request

vars == << row, job, tries, sent, lost, taken >>

-----------------------------------------------------------------------------
Init ==
  /\ row = [d \in Delivery |-> NoRow]
  /\ job = [w \in Process |-> [d \in Delivery |-> NoJob]]
  /\ tries = [d \in Delivery |-> 0]
  /\ sent = [d \in Delivery |-> 0]
  /\ lost = [d \in Delivery |-> 0]
  /\ taken = [d \in Delivery |-> 0]

(* notify creates the row and dispatches the object it created.            *)
Notify(d) ==
  /\ row[d].status = "none"
  /\ row' = [row EXCEPT ![d] = NewRow]
  /\ job' = [job EXCEPT !["web"][d] = [pc |-> "queued", mem |-> NewRow]]
  /\ UNCHANGED << tries, sent, lost, taken >>

(* Mutant of Retryable: the status is not compared.                        *)
RetryableAny(d) ==
  row[d].wait = 0 /\ row[d].attempts < MaxAttempts
(* The filter of retry_failed_deliveries.                                  *)
Retryable(d) ==
  row[d].status = "pending" /\ row[d].wait = 0 /\ row[d].attempts < MaxAttempts

StartRetries(w) ==
  /\ \A d \in Delivery : job[w][d] = NoJob
  /\ \E d \in Delivery : Retryable(d)
  /\ job' = [job EXCEPT ![w] =
       [d \in Delivery |-> IF Retryable(d) THEN [pc |-> "queued", mem |-> row[d]] ELSE NoJob]]
  /\ UNCHANGED << row, tries, sent, lost, taken >>

(* save(update_fields=["attempts"])                                        *)
Counted(r, n) == [r EXCEPT !.attempts = n]

(* _dispatch counts the attempt first.  A run takes one row at a time.     *)
Begin(w, d) ==
  /\ job[w][d].pc = "queued"
  /\ w \in Runner => \A e \in Delivery : job[w][e].pc \in {"none", "queued"}
  /\ LET n == job[w][d].mem.attempts + 1
     IN  /\ job' = [job EXCEPT ![w][d] = [pc |-> "sending", mem |-> [@.mem EXCEPT !.attempts = n]]]
         /\ row' = [row EXCEPT ![d] = Counted(@, n)]
  /\ UNCHANGED << tries, sent, lost, taken >>

(* _dispatch_email, _dispatch_webhook                                      *)
Send(w, d) ==
  /\ job[w][d].pc = "sending"
  /\ tries' = [tries EXCEPT ![d] = @ + 1]
  /\ \/ /\ job' = [job EXCEPT ![w][d].pc = "sent"]
        /\ sent' = [sent EXCEPT ![d] = @ + 1]
        /\ UNCHANGED lost
     \/ /\ "lost" \in Faults
        /\ job' = [job EXCEPT ![w][d].pc = "raised"]
        /\ sent' = [sent EXCEPT ![d] = @ + 1]
        /\ lost' = [lost EXCEPT ![d] = @ + 1]
     \/ /\ "reject" \in Faults
        /\ job' = [job EXCEPT ![w][d].pc = "raised"]
        /\ UNCHANGED << sent, lost >>
  /\ UNCHANGED << row, taken >>

(* save(update_fields=["status", "delivered_at"])                          *)
Delivered(w, d) ==
  /\ job[w][d].pc = "sent"
  /\ row' = [row EXCEPT ![d].status = "delivered"]
  /\ job' = [job EXCEPT ![w][d] = NoJob]
  /\ UNCHANGED << tries, sent, lost, taken >>

BackoffAfter(n) == Backoff[IF n <= Len(Backoff) THEN n ELSE Len(Backoff)]

(* Mutant of Failed: keeps next_retry_at.                                  *)
FailedUnscheduled(r, m) ==
  IF m.attempts >= MaxAttempts THEN [r EXCEPT !.status = "failed", !.wait = m.wait]
  ELSE [r EXCEPT !.status = "pending", !.wait = m.wait]
(* The except branch saves status and next_retry_at.                       *)
Failed(r, m) ==
  IF m.attempts >= MaxAttempts THEN [r EXCEPT !.status = "failed", !.wait = m.wait]
  ELSE [r EXCEPT !.status = "pending", !.wait = BackoffAfter(m.attempts)]

Fail(w, d) ==
  /\ job[w][d].pc = "raised"
  /\ row' = [row EXCEPT ![d] = Failed(@, job[w][d].mem)]
  /\ job' = [job EXCEPT ![w][d] = NoJob]
  /\ UNCHANGED << tries, sent, lost, taken >>

Crash(w) ==
  /\ "crash" \in Faults /\ \E d \in Delivery : job[w][d] # NoJob
  /\ job' = [job EXCEPT ![w] = [d \in Delivery |-> NoJob]]
  /\ taken' = [d \in Delivery |->
       IF job[w][d].pc = "none" \/ (job[w][d].pc = "queued" /\ w \in Runner)
       THEN taken[d] ELSE taken[d] + 1]
  /\ UNCHANGED << row, tries, sent, lost >>

Tick ==
  /\ \E d \in Delivery : row[d].wait > 0
  /\ row' = [d \in Delivery |->
       IF row[d].wait > 0 THEN [row[d] EXCEPT !.wait = @ - 1] ELSE row[d]]
  /\ UNCHANGED << job, tries, sent, lost, taken >>
-----------------------------------------------------------------------------
Dispatch(w) ==
  \E d \in Delivery : Begin(w, d) \/ Send(w, d) \/ Delivered(w, d) \/ Fail(w, d)

Next ==
  \/ \E d \in Delivery : Notify(d)
  \/ \E w \in Runner : StartRetries(w)
  \/ \E w \in Process : Dispatch(w) \/ Crash(w)
  \/ Tick

Spec == Init /\ [][Next]_vars

(* Requests end, the retry run is started every minute, time goes on, and  *)
(* no process is killed every time before it has done anything.            *)
Fairness ==
  /\ WF_vars(Tick)
  /\ \A w \in Process : SF_vars(Dispatch(w))
  /\ \A w \in Runner : WF_vars(StartRetries(w))
FairSpec == Spec /\ Fairness
-----------------------------------------------------------------------------
Status == {"none", "pending", "delivered", "failed"}
Row    == [status : Status, attempts : Nat, wait : {Null} \cup Nat]

TypeOK ==
  /\ row \in [Delivery -> Row]
  /\ job \in [Process -> [Delivery ->
               [pc : {"none", "queued", "sending", "sent", "raised"}, mem : Row]]]
  /\ tries \in [Delivery -> Nat] /\ sent \in [Delivery -> Nat]
  /\ lost \in [Delivery -> Nat] /\ taken \in [Delivery -> Nat]

(* The user hears of an event once per channel, and once more for each lost*)
(* answer or crash, however the request and the retry run interleave.      *)
SentOnce == \A d \in Delivery : sent[d] <= 1 + lost[d] + taken[d]

(* The channel is called at most MAX_RETRY_ATTEMPTS times: a crash costs an*)
(* attempt, it does not win one.                                           *)
CallsBounded == \A d \in Delivery : tries[d] <= MaxAttempts

(* A delivery is given up only after MAX_RETRY_ATTEMPTS calls, less those  *)
(* that a crash took.                                                      *)
FailedIsExhausted ==
  \A d \in Delivery : row[d].status = "failed" => tries[d] + taken[d] >= MaxAttempts

(* A pending delivery is in some process's hands or will be found by the   *)
(* retry filter: without a crash none is forgotten.                        *)
PendingIsKept ==
  \A d \in Delivery : row[d].status = "pending" =>
     \/ \E w \in Process : job[w][d].pc # "none"
     \/ row[d].wait # Null /\ row[d].attempts < MaxAttempts
     \/ taken[d] > 0

(* A delivered notification keeps its status, whatever copy of its row a   *)
(* retry run or the request still holds.                                   *)
DeliveredIsFinal ==
  [][\A d \in Delivery : row[d].status = "delivered" => row'[d].status = "delivered"]_vars

(* A retry calls the channel only once its backoff has passed.             *)
BackoffRespected ==
  [][\A d \in Delivery : row'[d].attempts > row[d].attempts => row[d].wait \in {0, Null}]_vars

(* Every notification ends delivered or given up, unless a process died    *)
(* with it.                                                                *)
Settles ==
  \A d \in Delivery : row[d].status = "pending" ~>
     row[d].status \in {"delivered", "failed"} \/ taken[d] > 0
=============================================================================
