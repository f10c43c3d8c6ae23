--------------------------- MODULE Outgoing_proofs ---------------------------
(***************************************************************************)
(* Machine-checked theorems about what goes out of the system, for every   *)
(* value of the constants: the delivery of notifications, the calls of the *)
(* platforms, and the reminders of posts that wait in review.              *)
(***************************************************************************)
EXTENDS Outgoing, FiniteSetTheorems, SequenceTheorems, WellFoundedInduction, TLAPS

Pc  == {"none", "queued", "sending", "sent", "raised"}
Job == [pc : Pc, mem : Row]

(* _dispatch counts before it calls the channel.                           *)
Started ==
  \A w \in Process, d \in Delivery :
    job[w][d].pc \in {"sending", "sent", "raised"} => job[w][d].mem.attempts >= 1

-----------------------------------------------------------------------------
(***************************************************************************)
(* Operators and updates                                                   *)
(***************************************************************************)

(* RETRY_BACKOFF_MINUTES has an entry for every attempt made.              *)
LEMMA BackoffIsNat ==
  ASSUME NEW n \in Nat, n >= 1
  PROVE  BackoffAfter(n) \in Nat
<1>1. Backoff \in Seq(Nat) /\ Len(Backoff) \in Nat \ {0}
  BY DeliveryAssumption
<1> QED BY <1>1 DEF BackoffAfter

(* What the except branch stores is a row.                                 *)
LEMMA FailedIsRow ==
  ASSUME NEW r \in Row, NEW m \in Row, m.attempts >= 1
  PROVE  Failed(r, m) \in Row
<1>1. m.attempts \in Nat /\ m.wait \in {Null} \cup Nat /\ BackoffAfter(m.attempts) \in Nat
  BY BackoffIsNat DEF Row
<1> QED BY <1>1 DEF Failed, Row, Status

(* The empty rows and jobs have their types.                               *)
LEMMA ConstantsTyped == NoRow \in Row /\ NewRow \in Row /\ NoJob \in Job
BY DEF NoRow, NewRow, NoJob, Row, Status, Job, Pc, Null

(* One entry of the job table changes.                                     *)
LEMMA JobUpdate ==
  ASSUME job \in [Process -> [Delivery -> Job]],
         NEW w \in Process, NEW d \in Delivery, NEW x,
         job' = [job EXCEPT ![w][d] = x]
  PROVE  /\ x \in Job => job' \in [Process -> [Delivery -> Job]]
         /\ \A v \in Process, e \in Delivery :
              job'[v][e] = IF v = w /\ e = d THEN x ELSE job[v][e]
OBVIOUS

(* pc of one entry changes.                                                *)
LEMMA PcUpdate ==
  ASSUME job \in [Process -> [Delivery -> Job]],
         NEW w \in Process, NEW d \in Delivery, NEW c \in Pc,
         job' = [job EXCEPT ![w][d].pc = c]
  PROVE  /\ job' \in [Process -> [Delivery -> Job]]
         /\ job'[w][d].pc = c /\ job'[w][d].mem = job[w][d].mem
         /\ \A v \in Process, e \in Delivery : (v # w \/ e # d) => job'[v][e] = job[v][e]
<1> DEFINE x == [job[w][d] EXCEPT !.pc = c]
<1>1. job[w][d] \in Job
  OBVIOUS
<1>2. x \in Job /\ x.pc = c /\ x.mem = job[w][d].mem
  BY <1>1 DEF Job
<1>3. job' = [job EXCEPT ![w][d] = x]
  OBVIOUS
<1> HIDE DEF x
<1>4. \A v \in Process, e \in Delivery :
        job'[v][e] = IF v = w /\ e = d THEN x ELSE job[v][e]
  BY <1>3, JobUpdate
<1>5. job' \in [Process -> [Delivery -> Job]]
  BY <1>2, <1>3, JobUpdate
<1> QED BY <1>2, <1>4, <1>5

(* The object in the hands of _dispatch after it has counted.              *)
LEMMA BeginUpdate ==
  ASSUME TypeOK, NEW w \in Process, NEW d \in Delivery, Begin(w, d)
  PROVE  /\ job' \in [Process -> [Delivery -> Job]]
         /\ job'[w][d].pc = "sending"
         /\ job'[w][d].mem.attempts = job[w][d].mem.attempts + 1
         /\ \A v \in Process, e \in Delivery : (v # w \/ e # d) => job'[v][e] = job[v][e]
<1> DEFINE n == job[w][d].mem.attempts + 1
           x == [pc |-> "sending", mem |-> [job[w][d].mem EXCEPT !.attempts = n]]
<1>1. job \in [Process -> [Delivery -> Job]]
  BY DEF TypeOK, Job, Pc
<1>2. job[w][d].mem \in Row /\ n \in Nat
  BY <1>1 DEF Job, Row
<1>3. x \in Job /\ x.pc = "sending" /\ x.mem.attempts = n
  BY <1>2 DEF Job, Row, Pc
<1>4. job' = [job EXCEPT ![w][d] = x]
  BY <1>1 DEF Begin
<1> HIDE DEF x
<1>5. /\ job' \in [Process -> [Delivery -> Job]]
      /\ \A v \in Process, e \in Delivery :
           job'[v][e] = IF v = w /\ e = d THEN x ELSE job[v][e]
  BY <1>1, <1>3, <1>4, JobUpdate
<1> QED BY <1>3, <1>5

-----------------------------------------------------------------------------
(***************************************************************************)
(* Type correctness                                                        *)
(***************************************************************************)
LEMMA TypeInit == Init => TypeOK /\ Started
<1> SUFFICES ASSUME Init PROVE TypeOK /\ Started
  OBVIOUS
<1>1. TypeOK
  BY ConstantsTyped DEF Init, TypeOK, Job, Pc
<1>2. Started
  BY DEF Init, Started, NoJob
<1> QED BY <1>1, <1>2

(* An attempt keeps the types.                                             *)
LEMMA TypeDispatch ==
  ASSUME TypeOK, Started, NEW w \in Process, Dispatch(w)
  PROVE  TypeOK' /\ Started'
<1>1. /\ row \in [Delivery -> Row] /\ job \in [Process -> [Delivery -> Job]]
      /\ tries \in [Delivery -> Nat] /\ sent \in [Delivery -> Nat]
      /\ lost \in [Delivery -> Nat] /\ taken \in [Delivery -> Nat]
  BY DEF TypeOK, Job, Pc
<1>2. ASSUME NEW d \in Delivery, Begin(w, d) PROVE TypeOK' /\ Started'
  <2> DEFINE n == job[w][d].mem.attempts + 1
  <2>1. n \in Nat /\ n >= 1
    BY <1>1 DEF Job, Row
  <2>2. row' \in [Delivery -> Row]
    <3>1. row' = [row EXCEPT ![d] = [row[d] EXCEPT !.attempts = n]]
      BY <1>1, <1>2 DEF Begin, Counted
    <3>2. [row[d] EXCEPT !.attempts = n] \in Row
      BY <1>1, <2>1 DEF Row
    <3> QED BY <1>1, <3>1, <3>2
  <2>3. job' \in [Process -> [Delivery -> Job]]
    BY <1>2, BeginUpdate
  <2>4. Started'
    <3>1. \A v \in Process, e \in Delivery :
            job'[v][e] = job[v][e] \/ job'[v][e].mem.attempts = n
      BY <1>2, BeginUpdate
    <3> QED BY <2>1, <3>1 DEF Started
  <2>5. TypeOK'
    BY <1>1, <1>2, <2>2, <2>3 DEF Begin, TypeOK, Job, Pc
  <2> QED BY <2>4, <2>5
<1>3. ASSUME NEW d \in Delivery, Send(w, d) PROVE TypeOK' /\ Started'
  <2>1. PICK c \in Pc : job' = [job EXCEPT ![w][d].pc = c]
    BY <1>3 DEF Send, Pc
  <2>2. /\ job' \in [Process -> [Delivery -> Job]]
        /\ \A v \in Process, e \in Delivery : job'[v][e].mem = job[v][e].mem
        /\ \A v \in Process, e \in Delivery :
             job'[v][e].pc = job[v][e].pc \/ job[v][e].pc = "sending"
    <3>1. job[w][d].pc = "sending"
      BY <1>3 DEF Send
    <3>2. job \in [Process -> [Delivery -> Job]]
      BY <1>1
    <3>3. /\ job' \in [Process -> [Delivery -> Job]]
          /\ job'[w][d].mem = job[w][d].mem
          /\ \A v \in Process, e \in Delivery : (v # w \/ e # d) => job'[v][e] = job[v][e]
      BY <2>1, <3>2, PcUpdate
    <3>4. ASSUME NEW v \in Process, NEW e \in Delivery
          PROVE  /\ job'[v][e].mem = job[v][e].mem
                 /\ job'[v][e].pc = job[v][e].pc \/ job[v][e].pc = "sending"
      BY <3>1, <3>3
    <3> QED BY <3>3, <3>4
  <2>3. Started'
    BY <1>1, <2>2 DEF Started
  <2>4. /\ tries' \in [Delivery -> Nat] /\ sent' \in [Delivery -> Nat]
        /\ lost' \in [Delivery -> Nat] /\ row' = row /\ taken' = taken
    BY <1>1, <1>3 DEF Send
  <2>5. TypeOK'
    BY <1>1, <2>2, <2>4 DEF TypeOK, Job, Pc
  <2> QED BY <2>3, <2>5
<1>4. ASSUME NEW d \in Delivery, Delivered(w, d) \/ Fail(w, d) PROVE TypeOK' /\ Started'
  <2>1. job' = [job EXCEPT ![w][d] = NoJob]
    BY <1>4 DEF Delivered, Fail
  <2>2. /\ job' \in [Process -> [Delivery -> Job]]
        /\ \A v \in Process, e \in Delivery :
             job'[v][e] = IF v = w /\ e = d THEN NoJob ELSE job[v][e]
    BY <1>1, <2>1, JobUpdate, ConstantsTyped
  <2>3. Started'
    BY <2>2 DEF Started, NoJob
  <2>4. row' \in [Delivery -> Row]
    <3>1. CASE Delivered(w, d)
      BY <1>1, <3>1 DEF Delivered, Row, Status
    <3>2. CASE Fail(w, d)
      <4>1. job[w][d].mem \in Row /\ job[w][d].mem.attempts >= 1
        BY <1>1, <3>2 DEF Started, Fail, Job
      <4>2. Failed(row[d], job[w][d].mem) \in Row
        BY <1>1, <4>1, FailedIsRow
      <4> QED BY <1>1, <3>2, <4>2 DEF Fail
    <3> QED BY <1>4, <3>1, <3>2
  <2>5. UNCHANGED << tries, sent, lost, taken >>
    BY <1>4 DEF Delivered, Fail
  <2>6. TypeOK'
    BY <1>1, <2>2, <2>4, <2>5 DEF TypeOK, Job, Pc
  <2> QED BY <2>3, <2>6
<1> QED BY <1>2, <1>3, <1>4 DEF Dispatch

(* Every step keeps the types.                                             *)
LEMMA TypeStep ==
  ASSUME TypeOK, Started, [Next]_vars
  PROVE  TypeOK' /\ Started'
<1>1. /\ row \in [Delivery -> Row] /\ job \in [Process -> [Delivery -> Job]]
      /\ tries \in [Delivery -> Nat] /\ sent \in [Delivery -> Nat]
      /\ lost \in [Delivery -> Nat] /\ taken \in [Delivery -> Nat]
  BY DEF TypeOK, Job, Pc
<1>2. ASSUME NEW d \in Delivery, Notify(d) PROVE TypeOK' /\ Started'
  <2> DEFINE x == [pc |-> "queued", mem |-> NewRow]
  <2>1. x \in Job /\ "web" \in Process
    BY ConstantsTyped DEF Job, Pc, Process
  <2>2. job' = [job EXCEPT !["web"][d] = x]
    BY <1>2 DEF Notify
  <2>3. /\ job' \in [Process -> [Delivery -> Job]]
        /\ \A v \in Process, e \in Delivery :
             job'[v][e] = IF v = "web" /\ e = d THEN x ELSE job[v][e]
    <3> HIDE DEF x
    <3> QED BY <1>1, <2>1, <2>2, JobUpdate
  <2>4. Started'
    BY <2>3 DEF Started
  <2>5. TypeOK'
    BY <1>1, <1>2, <2>3, ConstantsTyped DEF Notify, TypeOK, Job, Pc
  <2> QED BY <2>4, <2>5
<1>3. ASSUME NEW w \in Runner, StartRetries(w) PROVE TypeOK' /\ Started'
  <2> DEFINE g == [d \in Delivery |->
                     IF Retryable(d) THEN [pc |-> "queued", mem |-> row[d]] ELSE NoJob]
  <2>1. job' = [job EXCEPT ![w] = g] /\ w \in Process
    BY <1>3 DEF StartRetries, Process
  <2>2. g \in [Delivery -> Job] /\ \A d \in Delivery : g[d].pc \in {"queued", "none"}
    BY <1>1, ConstantsTyped DEF Job, Pc, NoJob
  <2>3. /\ job' \in [Process -> [Delivery -> Job]]
        /\ \A v \in Process, e \in Delivery : job'[v][e] = IF v = w THEN g[e] ELSE job[v][e]
    <3> HIDE DEF g
    <3> QED BY <1>1, <2>1, <2>2
  <2>4. Started'
    <3> HIDE DEF g
    <3> QED BY <2>2, <2>3 DEF Started
  <2>5. TypeOK'
    BY <1>1, <1>3, <2>3 DEF StartRetries, TypeOK, Job, Pc
  <2> QED BY <2>4, <2>5
<1>4. ASSUME NEW w \in Process, Dispatch(w) PROVE TypeOK' /\ Started'
  BY <1>4, TypeDispatch
<1>5. ASSUME NEW w \in Process, Crash(w) PROVE TypeOK' /\ Started'
  <2>1. /\ job' \in [Process -> [Delivery -> Job]]
        /\ \A v \in Process, e \in Delivery : job'[v][e] = IF v = w THEN NoJob ELSE job[v][e]
    BY <1>1, <1>5, ConstantsTyped DEF Crash
  <2>2. Started'
    BY <2>1 DEF Started, NoJob
  <2>3. taken' \in [Delivery -> Nat]
    BY <1>1, <1>5 DEF Crash
  <2>4. TypeOK'
    BY <1>1, <1>5, <2>1, <2>3 DEF Crash, TypeOK, Job, Pc
  <2> QED BY <2>2, <2>4
<1>6. CASE Tick
  <2>1. row' \in [Delivery -> Row]
    BY <1>1, <1>6 DEF Tick, Row, Null
  <2> QED BY <1>6, <2>1 DEF Tick, TypeOK, Started
<1>7. CASE UNCHANGED vars
  BY <1>7 DEF vars, TypeOK, Started
<1> QED BY <1>2, <1>3, <1>4, <1>5, <1>6, <1>7 DEF Next

(***************************************************************************)
(* Every variable keeps its type, whatever processes, faults and attempts: *)
(* in particular the backoff is looked up inside its list.                 *)
(***************************************************************************)
THEOREM TypeCorrect == Spec => []TypeOK
<1>1. Init => TypeOK /\ Started
  BY TypeInit
<1>2. TypeOK /\ Started /\ [Next]_vars => (TypeOK /\ Started)'
  BY TypeStep
<1> QED BY <1>1, <1>2, PTL DEF Spec

-----------------------------------------------------------------------------
(***************************************************************************)
(* One retry run at a time                                                 *)
(*                                                                         *)
(* The invariant relates each delivery's row to the object that a process  *)
(* holds and to what the channel has seen.  It is needed because counting, *)
(* calling and storing are three steps: between them the row alone says    *)
(* neither how often the channel was called nor who will store the outcome.*)
(***************************************************************************)
OneRunner == \A v, w \in Runner : v = w

(* A delivery is in the hands of one process, ...                          *)
Sole(d) ==
  \A v, w \in Process : job[v][d].pc # "none" /\ job[w][d].pc # "none" => v = w

(* ... whose object is current: the request's before the first retry time, *)
(* the retry run's at one.                                                 *)
InHand(d) ==
  \A w \in Process : job[w][d].pc # "none" =>
    /\ row[d].status = "pending" /\ job[w][d].mem.attempts = row[d].attempts
    /\ row[d].wait = IF w = "web" THEN Null ELSE 0
    /\ job[w][d].pc = "queued" => row[d].attempts < MaxAttempts

Sending(d)  == \E w \in Process : job[w][d].pc = "sending"
Received(d) == row[d].status = "delivered" \/ \E w \in Process : job[w][d].pc = "sent"

(* Every counted attempt is a call, a crash, or a call that comes next.    *)
CallsCounted(d) ==
  /\ row[d].status = "none" => row[d].attempts = 0
  /\ row[d].attempts <= MaxAttempts
  /\ tries[d] <= row[d].attempts /\ (Sending(d) => tries[d] < row[d].attempts)
  /\ row[d].attempts <= tries[d] + taken[d] + 1
  /\ ~ Sending(d) => row[d].attempts <= tries[d] + taken[d]

(* Every message is the one on record, a lost answer or a crash.           *)
SendsCounted(d) ==
  /\ sent[d] <= lost[d] + taken[d] + 1
  /\ ~ Received(d) => sent[d] <= lost[d] + taken[d]

GivenUp(d) == row[d].status = "failed" => tries[d] + taken[d] >= MaxAttempts

Kept(d) == row[d].status = "pending" =>
  \/ \E w \in Process : job[w][d].pc # "none"
  \/ row[d].wait # Null /\ row[d].attempts < MaxAttempts
  \/ taken[d] > 0

Local(d) ==
  /\ Sole(d) /\ InHand(d) /\ CallsCounted(d)
  /\ SendsCounted(d) /\ GivenUp(d) /\ Kept(d)

DeliveryInv == \A d \in Delivery : Local(d)

(* The types in the form the steps use.                                    *)
Typed ==
  /\ row \in [Delivery -> Row] /\ job \in [Process -> [Delivery -> Job]]
  /\ tries \in [Delivery -> Nat] /\ sent \in [Delivery -> Nat]
  /\ lost \in [Delivery -> Nat] /\ taken \in [Delivery -> Nat]

(* The types, delivery by delivery.                                        *)
LEMMA TypedIsTypeOK == TypeOK => Typed
BY DEF TypeOK, Typed, Job, Pc

(* The invariant holds to begin with.                                      *)
LEMMA InvInit == Init => DeliveryInv
<1> SUFFICES ASSUME Init, NEW d \in Delivery PROVE Local(d)
  BY DEF DeliveryInv
<1>1. /\ row[d] = NoRow /\ tries[d] = 0 /\ sent[d] = 0 /\ lost[d] = 0 /\ taken[d] = 0
      /\ \A w \in Process : job[w][d].pc = "none"
  BY DEF Init, NoJob
<1>2. NoRow.status = "none" /\ NoRow.attempts = 0 /\ MaxAttempts \in Nat
  BY DeliveryAssumption DEF NoRow
<1> QED BY <1>1, <1>2 DEF Local, Sole, InHand, CallsCounted, SendsCounted, GivenUp,
                          Kept, Sending, Received

(* A delivery that a step does not touch.                                  *)
LEMMA Untouched ==
  ASSUME NEW d \in Delivery, Local(d),
         \A w \in Process : job'[w][d] = job[w][d],
         row'[d] = row[d], tries'[d] = tries[d], sent'[d] = sent[d],
         lost'[d] = lost[d], taken'[d] = taken[d]
  PROVE  Local(d)'
BY DEF Local, Sole, InHand, CallsCounted, SendsCounted, GivenUp, Kept, Sending, Received

(* Nobody else holds a delivery that w holds.                              *)
LEMMA OthersIdle ==
  ASSUME NEW d \in Delivery, Local(d), NEW w \in Process, job[w][d].pc # "none"
  PROVE  \A v \in Process : v # w => job[v][d].pc = "none"
BY DEF Local, Sole

(* A notification that is made keeps it,                                   *)
LEMMA InvNotify ==
  ASSUME Typed, DeliveryInv, NEW d \in Delivery, Notify(d)
  PROVE  DeliveryInv'
<1>1. /\ row[d].status = "none" /\ row' = [row EXCEPT ![d] = NewRow]
      /\ UNCHANGED << tries, sent, lost, taken >>
  BY DEF Notify
<1> DEFINE x == [pc |-> "queued", mem |-> NewRow]
<1>2. /\ "web" \in Process /\ x.pc = "queued" /\ x.mem.attempts = 0
      /\ NewRow.status = "pending" /\ NewRow.attempts = 0 /\ NewRow.wait = Null
  BY DEF Process, NewRow
<1>3. job' = [job EXCEPT !["web"][d] = x]
  BY DEF Notify
<1> HIDE DEF x
<1>4. \A v \in Process, e \in Delivery :
        job'[v][e] = IF v = "web" /\ e = d THEN x ELSE job[v][e]
  BY <1>2, <1>3, JobUpdate DEF Typed
<1>5. ASSUME NEW e \in Delivery, e # d PROVE Local(e)'
  BY <1>1, <1>4, <1>5, Untouched DEF DeliveryInv, Typed
<1>6. Local(d)'
  <2>1. Local(d) /\ row'[d] = NewRow /\ MaxAttempts \in Nat \ {0}
    BY <1>1, DeliveryAssumption DEF DeliveryInv, Typed
  <2>2. \A v \in Process : job[v][d].pc = "none"
    BY <1>1, <2>1 DEF Local, InHand
  <2>3. \A v \in Process : job'[v][d] = IF v = "web" THEN x ELSE job[v][d]
    BY <1>4
  <2>4. /\ tries[d] = 0 /\ sent[d] <= lost[d] + taken[d] /\ taken[d] \in Nat
    <3>1. tries[d] \in Nat /\ taken[d] \in Nat /\ row[d].attempts = 0
      BY <1>1, <2>1 DEF Typed, Local, CallsCounted
    <3>2. ~ Received(d)
      BY <1>1, <2>2 DEF Received
    <3> QED BY <2>1, <3>1, <3>2 DEF Local, CallsCounted, SendsCounted
  <2>5. ~ Sending(d)' /\ sent[d] \in Nat /\ lost[d] \in Nat
    BY <1>2, <2>2, <2>3 DEF Sending, Typed
  <2>6. Sole(d)' /\ InHand(d)'
    BY <1>2, <2>1, <2>2, <2>3 DEF Sole, InHand
  <2>7. CallsCounted(d)' /\ SendsCounted(d)' /\ GivenUp(d)'
    BY <1>1, <1>2, <2>1, <2>4, <2>5 DEF CallsCounted, SendsCounted, GivenUp
  <2>8. Kept(d)'
    BY <1>2, <2>3 DEF Kept
  <2> QED BY <2>6, <2>7, <2>8 DEF Local
<1> QED BY <1>5, <1>6 DEF DeliveryInv

(* a retry run that begins,                                                *)
LEMMA InvStartRetries ==
  ASSUME OneRunner, Typed, DeliveryInv, NEW w \in Runner, StartRetries(w)
  PROVE  DeliveryInv'
<1> SUFFICES ASSUME NEW d \in Delivery PROVE Local(d)'
  BY DEF DeliveryInv
<1>1. /\ w \in Process /\ w # "web" /\ job[w][d].pc = "none" /\ Local(d)
      /\ UNCHANGED << row, tries, sent, lost, taken >>
  BY DeliveryAssumption DEF StartRetries, Process, NoJob, DeliveryInv
<1> DEFINE x == IF Retryable(d) THEN [pc |-> "queued", mem |-> row[d]] ELSE NoJob
<1>2. /\ job'[w][d] = x
      /\ \A v \in Process : v # w => job'[v][d] = job[v][d]
  BY <1>1 DEF StartRetries, Typed
<1>3. x.pc = (IF Retryable(d) THEN "queued" ELSE "none")
  BY DEF NoJob
<1>4. ~ Sending(d)' <=> ~ Sending(d)
  BY <1>1, <1>2, <1>3 DEF Sending
<1>5. ~ Received(d)' <=> ~ Received(d)
  BY <1>1, <1>2, <1>3 DEF Received
<1>6. CallsCounted(d)' /\ SendsCounted(d)' /\ GivenUp(d)'
  BY <1>1, <1>4, <1>5 DEF Local, CallsCounted, SendsCounted, GivenUp
<1>7. CASE Retryable(d)
  <2>1. x.pc = "queued" /\ x.mem = row[d]
    BY <1>7
  <2>2. \A v \in Process : job[v][d].pc = "none"
    BY <1>1, <1>7 DEF Retryable, Local, InHand, OneRunner, Process, Null
  <2>3. row[d].status = "pending" /\ row[d].wait = 0 /\ row[d].attempts < MaxAttempts
    BY <1>7 DEF Retryable
  <2> HIDE DEF x
  <2>4. Sole(d)' /\ InHand(d)' /\ Kept(d)'
    BY <1>1, <1>2, <2>1, <2>2, <2>3 DEF Sole, InHand, Kept
  <2> QED BY <1>6, <2>4 DEF Local
<1>8. CASE ~ Retryable(d)
  <2>1. \A v \in Process : job'[v][d].pc = job[v][d].pc /\ (v # w => job'[v][d] = job[v][d])
    BY <1>1, <1>2, <1>3, <1>8
  <2> HIDE DEF x
  <2>2. Sole(d)' /\ InHand(d)' /\ Kept(d)'
    BY <1>1, <2>1 DEF Local, Sole, InHand, Kept
  <2> QED BY <1>6, <2>2 DEF Local
<1> QED BY <1>7, <1>8

(* an attempt that begins,                                                 *)
LEMMA InvBegin ==
  ASSUME Typed, TypeOK, DeliveryInv, NEW w \in Process, NEW d \in Delivery, Begin(w, d)
  PROVE  DeliveryInv'
<1> DEFINE n == job[w][d].mem.attempts + 1
<1>1. /\ job[w][d].pc = "queued" /\ row' = [row EXCEPT ![d] = [row[d] EXCEPT !.attempts = n]]
      /\ UNCHANGED << tries, sent, lost, taken >>
  BY DEF Begin, Counted, Typed
<1>2. /\ job'[w][d].pc = "sending" /\ job'[w][d].mem.attempts = n
      /\ \A v \in Process, e \in Delivery : (v # w \/ e # d) => job'[v][e] = job[v][e]
  BY BeginUpdate
<1>3. ASSUME NEW e \in Delivery, e # d PROVE Local(e)'
  BY <1>1, <1>2, <1>3, Untouched DEF DeliveryInv, Typed
<1>4. Local(d)'
  <2>1. Local(d) /\ \A v \in Process : v # w => job[v][d].pc = "none"
    BY <1>1, OthersIdle DEF DeliveryInv
  <2>2. /\ row[d] \in Row /\ tries[d] \in Nat /\ sent[d] \in Nat
        /\ lost[d] \in Nat /\ taken[d] \in Nat /\ MaxAttempts \in Nat
    BY DeliveryAssumption DEF Typed
  <2>3. /\ row[d].status = "pending" /\ row[d].attempts < MaxAttempts
        /\ row[d].wait = (IF w = "web" THEN Null ELSE 0) /\ n = row[d].attempts + 1
    BY <1>1, <2>1 DEF Local, InHand
  <2>4. /\ row'[d].status = "pending" /\ row'[d].wait = row[d].wait
        /\ row'[d].attempts = row[d].attempts + 1 /\ row[d].attempts \in Nat
    BY <1>1, <2>2, <2>3 DEF Typed, Row
  <2>5. ~ Sending(d) /\ Sending(d)' /\ ~ Received(d) /\ ~ Received(d)'
    BY <1>1, <1>2, <2>1, <2>3, <2>4 DEF Sending, Received
  <2>6. Sole(d)' /\ InHand(d)' /\ Kept(d)'
    BY <1>2, <2>1, <2>3, <2>4 DEF Sole, InHand, Kept
  <2>7. CallsCounted(d)' /\ SendsCounted(d)' /\ GivenUp(d)'
    BY <1>1, <2>1, <2>2, <2>3, <2>4, <2>5 DEF Local, CallsCounted, SendsCounted, GivenUp
  <2> QED BY <2>6, <2>7 DEF Local
<1> QED BY <1>3, <1>4 DEF DeliveryInv

(* a call of the channel,                                                  *)
LEMMA InvSend ==
  ASSUME Typed, DeliveryInv, NEW w \in Process, NEW d \in Delivery, Send(w, d)
  PROVE  DeliveryInv'
<1>1. PICK c \in {"sent", "raised"} :
        /\ job' = [job EXCEPT ![w][d].pc = c]
        /\ c = "sent" => sent' = [sent EXCEPT ![d] = @ + 1] /\ lost' = lost
        /\ c = "raised" => \/ sent' = [sent EXCEPT ![d] = @ + 1] /\ lost' = [lost EXCEPT ![d] = @ + 1]
                           \/ UNCHANGED << sent, lost >>
  BY DEF Send
<1>2. /\ job[w][d].pc = "sending" /\ UNCHANGED << row, taken >>
      /\ tries' = [tries EXCEPT ![d] = @ + 1]
  BY DEF Send
<1>3. /\ job'[w][d].pc = c /\ job'[w][d].mem = job[w][d].mem
      /\ \A v \in Process, e \in Delivery : (v # w \/ e # d) => job'[v][e] = job[v][e]
  <2>1. job \in [Process -> [Delivery -> Job]] /\ c \in Pc
    BY DEF Typed, Pc
  <2> QED BY <1>1, <2>1, PcUpdate
<1>4. ASSUME NEW e \in Delivery, e # d PROVE Local(e)'
  BY <1>1, <1>2, <1>3, <1>4, Untouched DEF DeliveryInv, Typed
<1>5. Local(d)'
  <2>1. Local(d) /\ \A v \in Process : v # w => job[v][d].pc = "none"
    BY <1>2, OthersIdle DEF DeliveryInv
  <2>2. /\ row[d] \in Row /\ tries[d] \in Nat /\ sent[d] \in Nat
        /\ lost[d] \in Nat /\ taken[d] \in Nat /\ MaxAttempts \in Nat
        /\ row[d].attempts \in Nat
    BY DeliveryAssumption DEF Typed, Row
  <2>3. row[d].status = "pending"
    BY <1>2, <2>1 DEF Local, InHand
  <2>4. Sending(d) /\ ~ Sending(d)' /\ ~ Received(d)
    BY <1>2, <1>3, <2>1, <2>3 DEF Sending, Received
  <2>5. c = "sent" => Received(d)'
    BY <1>3 DEF Received
  <2>6. Sole(d)' /\ InHand(d)' /\ Kept(d)'
    BY <1>2, <1>3, <2>1 DEF Local, Sole, InHand, Kept
  <2>7. tries'[d] = tries[d] + 1
    BY <1>2 DEF Typed
  <2>8. CallsCounted(d)' /\ GivenUp(d)'
    BY <1>2, <2>1, <2>2, <2>3, <2>4, <2>7 DEF Local, CallsCounted, GivenUp
  <2>9. SendsCounted(d)'
    <3>1. sent[d] <= lost[d] + taken[d]
      BY <2>1, <2>4 DEF Local, SendsCounted
    <3>2. CASE c = "sent"
      BY <1>1, <1>2, <2>2, <2>5, <3>1, <3>2 DEF SendsCounted, Typed
    <3>3. CASE c = "raised"
      BY <1>1, <1>2, <2>2, <3>1, <3>3 DEF SendsCounted, Typed
    <3> QED BY <3>2, <3>3
  <2> QED BY <2>6, <2>8, <2>9 DEF Local
<1> QED BY <1>4, <1>5 DEF DeliveryInv

(* a row saved,                                                            *)
LEMMA InvStore ==
  ASSUME Typed, Started, DeliveryInv, NEW w \in Process, NEW d \in Delivery,
         Delivered(w, d) \/ Fail(w, d)
  PROVE  DeliveryInv'
<1>1. /\ job' = [job EXCEPT ![w][d] = NoJob] /\ job[w][d].pc \in {"sent", "raised"}
      /\ UNCHANGED << tries, sent, lost, taken >>
  BY DEF Delivered, Fail
<1>2. /\ \A v \in Process, e \in Delivery :
           job'[v][e] = IF v = w /\ e = d THEN NoJob ELSE job[v][e]
      /\ NoJob.pc = "none"
  BY <1>1, JobUpdate DEF Typed, NoJob
<1>3. ASSUME NEW e \in Delivery, e # d PROVE Local(e)'
  <2>1. row'[e] = row[e]
    BY <1>3 DEF Delivered, Fail, Typed
  <2> QED BY <1>1, <1>2, <1>3, <2>1, Untouched DEF DeliveryInv
<1>4. Local(d)'
  <2>1. Local(d) /\ \A v \in Process : v # w => job[v][d].pc = "none"
    BY <1>1, OthersIdle DEF DeliveryInv
  <2>2. /\ row[d] \in Row /\ tries[d] \in Nat /\ sent[d] \in Nat
        /\ lost[d] \in Nat /\ taken[d] \in Nat /\ MaxAttempts \in Nat
        /\ row[d].attempts \in Nat /\ job[w][d].mem \in Row
    BY DeliveryAssumption DEF Typed, Row, Job
  <2>3. /\ row[d].status = "pending" /\ job[w][d].mem.attempts = row[d].attempts
        /\ job[w][d].mem.attempts >= 1
    BY <1>1, <2>1 DEF Local, InHand, Started
  <2>4. \A v \in Process : job'[v][d].pc = "none"
    BY <1>2, <2>1
  <2>5. ~ Sending(d) /\ ~ Sending(d)'
    BY <1>1, <2>1, <2>4 DEF Sending
  <2>6. Sole(d)' /\ InHand(d)'
    BY <2>4 DEF Sole, InHand
  <2>7. tries[d] <= row[d].attempts /\ row[d].attempts <= tries[d] + taken[d]
    BY <2>1, <2>5 DEF Local, CallsCounted
  <2>8. CASE Delivered(w, d)
    <3>1. row'[d].status = "delivered" /\ row'[d].attempts = row[d].attempts
      BY <2>2, <2>8 DEF Delivered, Typed, Row
    <3>2. Received(d)' /\ CallsCounted(d)' /\ GivenUp(d)' /\ Kept(d)'
      BY <1>1, <2>1, <2>2, <2>5, <2>7, <3>1 DEF Local, Received, CallsCounted, GivenUp, Kept
    <3>3. SendsCounted(d)'
      BY <1>1, <2>1, <3>2 DEF Local, SendsCounted
    <3> QED BY <2>6, <3>2, <3>3 DEF Local
  <2>9. CASE Fail(w, d)
    <3> DEFINE m == job[w][d].mem
    <3>1. row'[d] = Failed(row[d], m) /\ job[w][d].pc = "raised"
      BY <2>9 DEF Fail, Typed
    <3>2. /\ row'[d].attempts = row[d].attempts
          /\ \/ m.attempts >= MaxAttempts /\ row'[d].status = "failed"
             \/ /\ ~ (m.attempts >= MaxAttempts) /\ row'[d].status = "pending"
                /\ row'[d].wait = BackoffAfter(m.attempts)
      BY <2>2, <3>1 DEF Failed, Row
    <3>3. BackoffAfter(m.attempts) # Null
      BY <2>2, <2>3, BackoffIsNat DEF Row, Null
    <3>4. ~ Received(d)
      BY <2>1, <2>3, <3>1 DEF Received
    <3>5. CallsCounted(d)' /\ SendsCounted(d)'
      BY <1>1, <2>1, <2>2, <2>5, <2>7, <3>2, <3>4 DEF Local, CallsCounted, SendsCounted
    <3>6. GivenUp(d)' /\ Kept(d)'
      BY <1>1, <2>2, <2>3, <2>7, <3>2, <3>3 DEF GivenUp, Kept
    <3> QED BY <2>6, <3>5, <3>6 DEF Local
  <2> QED BY <2>8, <2>9
<1> QED BY <1>3, <1>4 DEF DeliveryInv

(* a process that dies,                                                    *)
LEMMA InvCrash ==
  ASSUME Typed, DeliveryInv, NEW w \in Process, Crash(w)
  PROVE  DeliveryInv'
<1> SUFFICES ASSUME NEW d \in Delivery PROVE Local(d)'
  BY DEF DeliveryInv
<1>1. /\ Local(d) /\ UNCHANGED << row, tries, sent, lost >>
      /\ \A v \in Process : job'[v][d] = IF v = w THEN NoJob ELSE job[v][d]
      /\ NoJob.pc = "none"
  BY DEF Crash, DeliveryInv, Typed, NoJob
<1>2. taken'[d] = IF job[w][d].pc = "none" \/ (job[w][d].pc = "queued" /\ w \in Runner)
                  THEN taken[d] ELSE taken[d] + 1
  BY DEF Crash
<1>3. /\ row[d] \in Row /\ tries[d] \in Nat /\ sent[d] \in Nat
      /\ lost[d] \in Nat /\ taken[d] \in Nat /\ MaxAttempts \in Nat
      /\ row[d].attempts \in Nat
  BY DeliveryAssumption DEF Typed, Row
<1>4. CASE job[w][d].pc = "none"
  <2>1. \A v \in Process : job'[v][d].pc = job[v][d].pc /\ (v # w => job'[v][d] = job[v][d])
    BY <1>1, <1>4
  <2>2. (Sending(d)' <=> Sending(d)) /\ (Received(d)' <=> Received(d)) /\ taken'[d] = taken[d]
    BY <1>1, <1>2, <1>4, <2>1 DEF Sending, Received
  <2>3. Sole(d)' /\ InHand(d)' /\ Kept(d)'
    BY <1>1, <1>4, <2>1, <2>2 DEF Local, Sole, InHand, Kept
  <2>4. CallsCounted(d)' /\ SendsCounted(d)' /\ GivenUp(d)'
    BY <1>1, <2>2 DEF Local, CallsCounted, SendsCounted, GivenUp
  <2> QED BY <2>3, <2>4 DEF Local
<1>5. CASE job[w][d].pc # "none"
  <2>1. \A v \in Process : v # w => job[v][d].pc = "none"
    BY <1>1, <1>5, OthersIdle
  <2>2. \A v \in Process : job'[v][d].pc = "none"
    BY <1>1, <2>1
  <2>3. /\ row[d].status = "pending" /\ row[d].wait = (IF w = "web" THEN Null ELSE 0)
        /\ job[w][d].pc = "queued" => row[d].attempts < MaxAttempts
    BY <1>1, <1>5 DEF Local, InHand
  <2>4. ~ Sending(d)' /\ Sole(d)' /\ InHand(d)'
    BY <2>2 DEF Sending, Sole, InHand
  <2>5. GivenUp(d)'
    BY <1>1, <2>3 DEF GivenUp
  <2>6. CASE job[w][d].pc = "queued" /\ w \in Runner
    <3>1. ~ Sending(d) /\ ~ Received(d) /\ taken'[d] = taken[d]
      BY <1>2, <2>1, <2>3, <2>6 DEF Sending, Received
    <3>2. row[d].wait # Null
      BY <2>3, <2>6, DeliveryAssumption DEF Null
    <3>3. CallsCounted(d)' /\ SendsCounted(d)' /\ Kept(d)'
      BY <1>1, <1>3, <2>3, <2>4, <2>6, <3>1, <3>2 DEF Local, CallsCounted, SendsCounted, Kept
    <3> QED BY <2>4, <2>5, <3>3 DEF Local
  <2>7. CASE ~ (job[w][d].pc = "queued" /\ w \in Runner)
    <3>1. taken'[d] = taken[d] + 1
      BY <1>2, <1>5, <2>7
    <3>2. CallsCounted(d)' /\ SendsCounted(d)' /\ Kept(d)'
      BY <1>1, <1>3, <2>3, <2>4, <3>1 DEF Local, CallsCounted, SendsCounted, Kept
    <3> QED BY <2>4, <2>5, <3>2 DEF Local
  <2> QED BY <2>6, <2>7
<1> QED BY <1>4, <1>5

(* and time.                                                               *)
LEMMA InvTick ==
  ASSUME Typed, DeliveryInv, Tick
  PROVE  DeliveryInv'
<1> SUFFICES ASSUME NEW d \in Delivery PROVE Local(d)'
  BY DEF DeliveryInv
<1>1. Local(d) /\ UNCHANGED << job, tries, sent, lost, taken >> /\ row[d] \in Row
  BY DEF Tick, DeliveryInv, Typed
<1>2. /\ row'[d].status = row[d].status /\ row'[d].attempts = row[d].attempts
      /\ row'[d].wait = IF row[d].wait > 0 THEN row[d].wait - 1 ELSE row[d].wait
  BY <1>1 DEF Tick, Row
<1>3. row[d].wait \in {Null} \cup Nat
  BY <1>1 DEF Row
<1>4. /\ (row[d].wait = Null <=> row'[d].wait = Null)
      /\ (row[d].wait = 0 => row'[d].wait = 0)
  BY <1>2, <1>3 DEF Null
<1>5. Sole(d)' /\ CallsCounted(d)' /\ SendsCounted(d)' /\ GivenUp(d)'
  BY <1>1, <1>2 DEF Local, Sole, CallsCounted, SendsCounted, GivenUp, Sending, Received
<1>6. InHand(d)' /\ Kept(d)'
  BY <1>1, <1>2, <1>4 DEF Local, InHand, Kept
<1> QED BY <1>5, <1>6 DEF Local

(* Every step keeps the invariant.                                         *)
LEMMA InvStep ==
  ASSUME OneRunner, TypeOK, Started, DeliveryInv, [Next]_vars
  PROVE  DeliveryInv'
<1>1. Typed
  BY TypedIsTypeOK
<1>2. ASSUME NEW d \in Delivery, Notify(d) PROVE DeliveryInv'
  BY <1>1, <1>2, InvNotify
<1>3. ASSUME NEW w \in Runner, StartRetries(w) PROVE DeliveryInv'
  BY <1>1, <1>3, InvStartRetries
<1>4. ASSUME NEW w \in Process, Dispatch(w) PROVE DeliveryInv'
  BY <1>1, <1>4, InvBegin, InvSend, InvStore DEF Dispatch
<1>5. ASSUME NEW w \in Process, Crash(w) PROVE DeliveryInv'
  BY <1>1, <1>5, InvCrash
<1>6. CASE Tick
  BY <1>1, <1>6, InvTick
<1>7. CASE UNCHANGED vars
  BY <1>7 DEF vars, DeliveryInv, Local, Sole, InHand, CallsCounted, SendsCounted,
              GivenUp, Kept, Sending, Received
<1> QED BY <1>2, <1>3, <1>4, <1>5, <1>6, <1>7 DEF Next

(* It holds in every state, with one retry run at a time.                  *)
LEMMA InvHolds ==
  ASSUME OneRunner
  PROVE  Spec => [](TypeOK /\ DeliveryInv)
<1>1. Init => TypeOK /\ Started /\ DeliveryInv
  BY TypeInit, InvInit
<1>2. TypeOK /\ Started /\ DeliveryInv /\ [Next]_vars => (TypeOK /\ Started /\ DeliveryInv)'
  BY TypeStep, InvStep
<1> QED BY <1>1, <1>2, PTL DEF Spec

(***************************************************************************)
(* With one retry run at a time, the user hears of an event once, and once *)
(* more for each lost answer and each crash, however requests, retries and *)
(* the clock interleave (notify, _dispatch, retry_failed_deliveries).      *)
(***************************************************************************)
THEOREM MessagesCounted ==
  ASSUME OneRunner
  PROVE  Spec => []SentOnce
<1>1. TypeOK /\ DeliveryInv => SentOnce
  <2> SUFFICES ASSUME TypeOK, NEW d \in Delivery, Local(d)
               PROVE  sent[d] <= 1 + lost[d] + taken[d]
    BY DEF DeliveryInv, SentOnce
  <2>1. lost[d] \in Nat /\ taken[d] \in Nat
    BY DEF TypeOK
  <2> QED BY <2>1 DEF Local, SendsCounted
<1> QED BY <1>1, InvHolds, PTL

(***************************************************************************)
(* With one retry run at a time, a channel is called at most               *)
(* MAX_RETRY_ATTEMPTS times for a delivery, crashes or not: _dispatch      *)
(* saves the attempt before it calls.                                      *)
(***************************************************************************)
THEOREM CallsLimited ==
  ASSUME OneRunner
  PROVE  Spec => []CallsBounded
<1>1. TypeOK /\ DeliveryInv => CallsBounded
  <2> SUFFICES ASSUME TypeOK, NEW d \in Delivery, Local(d)
               PROVE  tries[d] <= MaxAttempts
    BY DEF DeliveryInv, CallsBounded
  <2>1. tries[d] \in Nat /\ row[d].attempts \in Nat /\ MaxAttempts \in Nat
    BY DeliveryAssumption DEF TypeOK, Row
  <2> QED BY <2>1 DEF Local, CallsCounted
<1> QED BY <1>1, InvHolds, PTL

(***************************************************************************)
(* With one retry run at a time, a delivery is given up only when its      *)
(* attempts are used up by calls and crashes (the except branch).          *)
(***************************************************************************)
THEOREM FailedExhausted ==
  ASSUME OneRunner
  PROVE  Spec => []FailedIsExhausted
<1>1. DeliveryInv => FailedIsExhausted
  BY DEF DeliveryInv, Local, GivenUp, FailedIsExhausted
<1> QED BY <1>1, InvHolds, PTL

(***************************************************************************)
(* With one retry run at a time, a pending delivery is in hand or will be  *)
(* found by retry_failed_deliveries, unless a crash took it.               *)
(***************************************************************************)
THEOREM NoneForgotten ==
  ASSUME OneRunner
  PROVE  Spec => []PendingIsKept
<1>1. DeliveryInv => PendingIsKept
  BY DEF DeliveryInv, Local, Kept, PendingIsKept
<1> QED BY <1>1, InvHolds, PTL

(***************************************************************************)
(* With one retry run at a time, what was delivered stays delivered: no    *)
(* copy of its row is left to be saved over it.                            *)
(***************************************************************************)
THEOREM DeliveredStays ==
  ASSUME OneRunner
  PROVE  Spec => DeliveredIsFinal
<1>1. TypeOK /\ DeliveryInv /\ [Next]_vars =>
        [\A d \in Delivery : row[d].status = "delivered" => row'[d].status = "delivered"]_vars
  <2> SUFFICES ASSUME TypeOK, DeliveryInv, [Next]_vars,
                      NEW d \in Delivery, row[d].status = "delivered"
               PROVE  row'[d].status = "delivered"
    OBVIOUS
  <2>1. row[d] \in Row /\ row \in [Delivery -> Row]
    BY DEF TypeOK
  <2>2. \A w \in Process : job[w][d].pc = "none"
    BY DEF DeliveryInv, Local, InHand
  <2>3. ASSUME NEW e \in Delivery, Notify(e) PROVE row'[d] = row[d]
    BY <2>1, <2>3 DEF Notify
  <2>4. ASSUME NEW w \in Process, Dispatch(w) PROVE row'[d] = row[d]
    BY <2>1, <2>2, <2>4 DEF Dispatch, Begin, Send, Delivered, Fail
  <2>5. CASE Tick
    BY <2>1, <2>5 DEF Tick, Row
  <2> QED BY <2>3, <2>4, <2>5 DEF Next, StartRetries, Crash, vars
<1> QED BY <1>1, InvHolds, PTL DEF Spec, DeliveredIsFinal

(***************************************************************************)
(* With one retry run at a time, an attempt is made only when the row's    *)
(* backoff has passed, or as the first one (next_retry_at, _dispatch).     *)
(***************************************************************************)
THEOREM BackoffKept ==
  ASSUME OneRunner
  PROVE  Spec => BackoffRespected
<1>1. TypeOK /\ DeliveryInv /\ [Next]_vars =>
        [\A d \in Delivery :
           row'[d].attempts > row[d].attempts => row[d].wait \in {0, Null}]_vars
  <2> SUFFICES ASSUME TypeOK, DeliveryInv, [Next]_vars,
                      NEW d \in Delivery, ~ (row[d].wait \in {0, Null})
               PROVE  ~ (row'[d].attempts > row[d].attempts)
    OBVIOUS
  <2>1. /\ row[d] \in Row /\ row \in [Delivery -> Row] /\ row[d].attempts \in Nat
        /\ job \in [Process -> [Delivery -> Job]]
    BY DEF TypeOK, Row, Job, Pc
  <2>2. \A w \in Process : job[w][d].pc = "none"
    BY DEF DeliveryInv, Local, InHand
  <2>3. row'[d] = row[d] => ~ (row'[d].attempts > row[d].attempts)
    BY <2>1
  <2>4. ASSUME NEW e \in Delivery, Notify(e) PROVE ~ (row'[d].attempts > row[d].attempts)
    BY <2>1, <2>4 DEF Notify, NewRow
  <2>5. ASSUME NEW w \in Process, Dispatch(w) PROVE row'[d] = row[d]
    BY <2>1, <2>2, <2>5 DEF Dispatch, Begin, Send, Delivered, Fail
  <2>6. ASSUME Tick PROVE ~ (row'[d].attempts > row[d].attempts)
    BY <2>1, <2>6 DEF Tick, Row
  <2>7. ASSUME NEW w \in Process, Crash(w) \/ StartRetries(w) PROVE row'[d] = row[d]
    BY <2>7 DEF Crash, StartRetries
  <2>8. CASE UNCHANGED vars
    BY <2>1, <2>8 DEF vars
  <2>9. CASE Next
    BY <2>3, <2>4, <2>5, <2>6, <2>7, <2>9 DEF Next, Process
  <2> QED BY <2>8, <2>9
<1> QED BY <1>1, InvHolds, PTL DEF Spec, BackoffRespected
-----------------------------------------------------------------------------
(***************************************************************************)
(* The programs of the platforms                                           *)
(***************************************************************************)
Does     == {"file", "ask", "load", "make", "wait", "post", "try", "raise"}
Part(K)  == [do : K, media : Seq(Nat)]
Waits(s) == \A i \in 1 .. Len(s) : s[i].do = "make" => i + 1 \in 1 .. Len(s) /\ s[i + 1].do = "wait"

(* What may come before the request that publishes.                        *)
Before(site) == {s \in Seq(Part(Does \ {"post"})) : site # "threads" => Waits(s)}

(* A program publishes, or raises before it does, and only what may fail   *)
(* comes after the request that publishes.                                 *)
Posts(s) == \E i \in 1 .. Len(s) : s[i].do \in {"post", "raise"}
TriesAfter(s) ==
  \A i \in 1 .. Len(s), j \in 1 .. Len(s) : i < j /\ s[i].do = "post" => s[j].do = "try"
Sound(site) ==
  {s \in Seq(Part(Does)) : Posts(s) /\ TriesAfter(s) /\ (site # "threads" => Waits(s))}

(* Every set of naturals has a smallest member.                            *)
LEMMA SmallestExists ==
  ASSUME NEW S \in SUBSET Nat, S # {}
  PROVE  \E t \in S : \A u \in S : t <= u
<1>1. PICK x \in S : \A y \in S : ~ (<< y, x >> \in OpToRel(<, Nat))
  BY NatLessThanWellFounded, WFMin, Zenon
<1>2. ASSUME NEW y \in S PROVE x <= y
  <2>1. y \in Nat /\ x \in Nat
    OBVIOUS
  <2>2. (y < x) => << y, x >> \in OpToRel(<, Nat)
    <3>1. OpToRel(<, Nat) = {ss \in Nat \X Nat : ss[1] < ss[2]}
      BY DEF OpToRel
    <3>2. << y, x >> \in Nat \X Nat /\ << y, x >>[1] = y /\ << y, x >>[2] = x
      BY <2>1
    <3> QED BY <3>1, <3>2, Zenon
  <2>3. ~ (y < x)
    BY <1>1, <2>2, Zenon
  <2> QED BY <2>1, <2>3
<1> QED BY <1>2

(* f puts the first n of parts together, as Joined does.                   *)
UpTo(f, parts, n) == f = [i \in 0 .. n |-> IF i = 0 THEN << >> ELSE f[i - 1] \o parts[i]]

(* Parts put together make something of the kind of the parts, whatever    *)
(* that is (by the smallest number of parts for which they would not).     *)
LEMMA JoinedIsIn ==
  ASSUME NEW parts, Len(parts) \in Nat,
         NEW G, << >> \in G, \A i \in 1 .. Len(parts) : parts[i] \in G, \A a \in G, b \in G : a \o b \in G
  PROVE  P!Joined(parts) \in G
<1> DEFINE n == Len(parts)
           Bad == {m \in 0 .. n : ~ \E f : UpTo(f, parts, m)}
           F == CHOOSE f : UpTo(f, parts, n)
           Out == {m \in 0 .. n : F[m] \notin G}
<1>1. Bad = {}
  <2> SUFFICES ASSUME Bad # {} PROVE FALSE
    OBVIOUS
  <2>0. Bad \in SUBSET Nat
    OBVIOUS
  <2>1. PICK m \in Bad : \A k \in Bad : m <= k
    <3> HIDE DEF Bad
    <3> QED BY <2>0, SmallestExists
  <2>2. m # 0
    <3>1. UpTo([i \in 0 .. 0 |-> << >>], parts, 0)
      BY DEF UpTo
    <3> QED BY <2>1, <3>1
  <2>3. m \in Nat /\ m - 1 \in 0 .. n /\ m - 1 \notin Bad
    BY <2>1, <2>2
  <2>4. PICK f : UpTo(f, parts, m - 1)
    BY <2>3
  <2> DEFINE h == [i \in 0 .. m |-> IF i = m THEN f[m - 1] \o parts[m] ELSE f[i]]
  <2>5. h = [i \in 0 .. m |-> IF i = 0 THEN << >> ELSE h[i - 1] \o parts[i]]
    <3>1. ASSUME NEW i \in 0 .. m PROVE h[i] = IF i = 0 THEN << >> ELSE h[i - 1] \o parts[i]
      <4>1. CASE i = m
        <5>1. m - 1 \in 0 .. m /\ m - 1 # m /\ m \in 0 .. m
          BY <2>3
        <5>2. h[m] = f[m - 1] \o parts[m] /\ h[m - 1] = f[m - 1]
          BY <5>1
        <5> HIDE DEF h
        <5> QED BY <2>2, <4>1, <5>2
      <4>2. CASE i # m
        <5>1. i \in 0 .. m - 1 /\ (i # 0 => i - 1 \in 0 .. m /\ i - 1 # m)
          BY <2>3, <4>2
        <5>2. f[i] = IF i = 0 THEN << >> ELSE f[i - 1] \o parts[i]
          BY <2>4, <5>1 DEF UpTo
        <5> QED BY <4>2, <5>1, <5>2
      <4> QED BY <4>1, <4>2
    <3> HIDE DEF h
    <3>2. h = [i \in 0 .. m |-> h[i]]
      BY DEF h
    <3> QED BY <3>1, <3>2
  <2> QED BY <2>1, <2>5 DEF UpTo
<1>2. UpTo(F, parts, n)
  <2>1. n \in 0 .. n /\ n \notin Bad
    BY <1>1
  <2> QED BY <2>1
<1> HIDE DEF F
<1>3. Out = {}
  <2> SUFFICES ASSUME Out # {} PROVE FALSE
    OBVIOUS
  <2>0. Out \in SUBSET Nat
    OBVIOUS
  <2>1. PICK m \in Out : \A k \in Out : m <= k
    <3> HIDE DEF Out
    <3> QED BY <2>0, SmallestExists
  <2>2. F[m] = IF m = 0 THEN << >> ELSE F[m - 1] \o parts[m]
    BY <1>2, <2>1 DEF UpTo
  <2>3. m # 0 => m - 1 \in 0 .. n /\ m \in 1 .. n /\ m - 1 \notin Out
    BY <2>1
  <2> QED BY <2>1, <2>2, <2>3
<1>4. P!Joined(parts) = F[n]
  BY DEF P!Joined, F, UpTo
<1>5. n \in 0 .. n /\ n \notin Out
  BY <1>3
<1> QED BY <1>4, <1>5

(* What comes before may be longer, and a sound program follows it.        *)
LEMMA BeforeClosed ==
  ASSUME NEW site
  PROVE  /\ << >> \in Before(site)
         /\ \A a \in Before(site), b \in Before(site) : a \o b \in Before(site)
         /\ \A a \in Before(site), b \in Sound(site) : a \o b \in Sound(site)
<1>1. << >> \in Before(site)
  BY DEF Before, Waits
<1>2. ASSUME NEW a \in Seq(Part(Does)), NEW b \in Seq(Part(Does))
      PROVE  /\ a \o b \in Seq(Part(Does)) /\ Len(a \o b) = Len(a) + Len(b)
             /\ Len(a) \in Nat /\ Len(b) \in Nat
             /\ \A i \in 1 .. Len(a) : i \in 1 .. Len(a \o b) /\ (a \o b)[i] = a[i]
             /\ \A i \in 1 .. Len(b) : i + Len(a) \in 1 .. Len(a \o b) /\ (a \o b)[i + Len(a)] = b[i]
             /\ \A i \in 1 .. Len(a \o b) : i \in 1 .. Len(a) \/ (i - Len(a) \in 1 .. Len(b) /\ (a \o b)[i] = b[i - Len(a)])
  BY ConcatProperties, LenProperties
<1>3. ASSUME NEW a \in Seq(Part(Does)), NEW b \in Seq(Part(Does)), Waits(a), Waits(b)
      PROVE  Waits(a \o b)
  <2> SUFFICES ASSUME NEW i \in 1 .. Len(a \o b), (a \o b)[i].do = "make"
               PROVE  i + 1 \in 1 .. Len(a \o b) /\ (a \o b)[i + 1].do = "wait"
    BY DEF Waits
  <2>1. CASE i \in 1 .. Len(a)
    <3>1. i + 1 \in 1 .. Len(a) /\ a[i + 1].do = "wait"
      BY <1>2, <1>3, <2>1 DEF Waits
    <3> QED BY <1>2, <3>1
  <2>2. CASE i - Len(a) \in 1 .. Len(b) /\ (a \o b)[i] = b[i - Len(a)]
    <3> DEFINE k == i - Len(a) + 1
    <3>1. k \in 1 .. Len(b) /\ b[k].do = "wait"
      BY <1>3, <2>2 DEF Waits
    <3>2. k + Len(a) = i + 1
      BY <1>2
    <3> HIDE DEF k
    <3>3. k + Len(a) \in 1 .. Len(a \o b) /\ (a \o b)[k + Len(a)] = b[k]
      BY <1>2, <3>1
    <3> QED BY <3>1, <3>2, <3>3
  <2> QED BY <1>2, <2>1, <2>2
<1>4. ASSUME NEW a \in Before(site), NEW b \in Before(site) PROVE a \o b \in Before(site)
  <2>1. a \in Seq(Part(Does)) /\ b \in Seq(Part(Does)) /\ a \o b \in Seq(Part(Does \ {"post"}))
    <3>1. a \in Seq(Part(Does \ {"post"})) /\ b \in Seq(Part(Does \ {"post"}))
      BY DEF Before
    <3>2. Part(Does \ {"post"}) \subseteq Part(Does)
      BY DEF Part
    <3> QED BY <3>1, <3>2, ConcatProperties, SeqMonotonic
  <2> QED BY <1>3, <2>1 DEF Before
<1>5. ASSUME NEW a \in Before(site), NEW b \in Sound(site) PROVE a \o b \in Sound(site)
  <2>1. a \in Seq(Part(Does)) /\ b \in Seq(Part(Does)) /\ \A i \in 1 .. Len(a) : a[i].do # "post"
    <3>1. a \in Seq(Part(Does \ {"post"})) /\ b \in Seq(Part(Does))
      BY DEF Before, Sound
    <3>2. Part(Does \ {"post"}) \subseteq Part(Does)
      BY DEF Part
    <3>3. \A i \in 1 .. Len(a) : a[i] \in Part(Does \ {"post"})
      BY <3>1, ElementOfSeq
    <3>4. \A i \in 1 .. Len(a) : a[i].do # "post"
      BY <3>3 DEF Part
    <3> QED BY <3>1, <3>2, <3>4, SeqMonotonic
  <2>2. Posts(a \o b)
    <3>1. PICK i \in 1 .. Len(b) : b[i].do \in {"post", "raise"}
      BY DEF Sound, Posts
    <3> QED BY <1>2, <2>1, <3>1 DEF Posts
  <2>3. TriesAfter(a \o b)
    <3> SUFFICES ASSUME NEW i \in 1 .. Len(a \o b), NEW j \in 1 .. Len(a \o b), i < j, (a \o b)[i].do = "post"
                 PROVE  (a \o b)[j].do = "try"
      BY DEF TriesAfter
    <3>1. i - Len(a) \in 1 .. Len(b) /\ (a \o b)[i] = b[i - Len(a)]
      BY <1>2, <2>1
    <3>2. j - Len(a) \in 1 .. Len(b) /\ (a \o b)[j] = b[j - Len(a)] /\ i - Len(a) < j - Len(a)
      BY <1>2, <2>1, <3>1
    <3> QED BY <3>1, <3>2 DEF Sound, TriesAfter
  <2> QED BY <1>2, <1>3, <2>1, <2>2, <2>3 DEF Before, Sound
<1> QED BY <1>1, <1>4, <1>5

(* The steps that programs are made of.                                    *)
LEMMA StepsAreSound ==
  ASSUME NEW site, NEW m \in Seq(Nat)
  PROVE  /\ P!Ask \in Before(site) /\ P!Wait \in Before(site) /\ P!Try \in Before(site)
         /\ P!Load(m) \in Before(site) /\ P!Make(m) \o P!Wait \in Before(site)
         /\ site = "threads" => P!Make(m) \in Before(site)
         /\ P!Raise \in Sound(site) /\ P!Send(m) \in Sound(site) /\ P!Send(m) \o P!Try \in Sound(site)
<1>0. << >> \in Seq(Nat)
  OBVIOUS
<1>1. ASSUME NEW do \in Does, NEW s \in Seq(Nat)
      PROVE  << P!Step(do, s) >> \in Seq(Part(Does)) /\ (do # "post" => << P!Step(do, s) >> \in Seq(Part(Does \ {"post"})))
  BY DEF P!Step, Part
<1>2. ASSUME NEW do \in Does \ {"make", "post"}, NEW s \in Seq(Nat)
      PROVE  << P!Step(do, s) >> \in Before(site)
  <2> DEFINE t == << P!Step(do, s) >>
  <2>1. Len(t) = 1 /\ t[1].do = do
    BY DEF P!Step
  <2>2. t \in Seq(Part(Does \ {"post"}))
    BY <1>1, <1>2
  <2> HIDE DEF t
  <2>3. Waits(t)
    BY <1>2, <2>1 DEF Waits
  <2> QED BY <2>2, <2>3 DEF Before, t
<1>8. ASSUME NEW x \in Part(Does), NEW y \in Part(Does) PROVE << x >> \o << y >> = << x, y >>
  <2>1. << x >> \in Seq(Part(Does)) /\ << y >> \in Seq(Part(Does)) /\ << x, y >> \in Seq(Part(Does))
        /\ Len(<< x >>) = 1 /\ Len(<< y >>) = 1 /\ Len(<< x, y >>) = 2
        /\ << x >>[1] = x /\ << y >>[1] = y /\ << x, y >>[1] = x /\ << x, y >>[2] = y
    OBVIOUS
  <2> DEFINE a == << x >>
             b == << y >>
             c == << x, y >>
  <2> HIDE DEF a, b, c
  <2>2. a \o b \in Seq(Part(Does)) /\ Len(a \o b) = 2 /\ (a \o b)[1] = a[1] /\ (a \o b)[2] = b[1]
    BY <2>1, ConcatProperties DEF a, b, c
  <2>3. \A i \in 1 .. Len(a \o b) : (a \o b)[i] = c[i]
    BY <2>1, <2>2 DEF a, b, c
  <2>4. a \o b = c
    BY <2>1, <2>2, <2>3, SeqEqual DEF c
  <2> QED BY <2>4 DEF a, b, c
<1>3. P!Ask \in Before(site) /\ P!Wait \in Before(site) /\ P!Try \in Before(site) /\ P!Load(m) \in Before(site)
  BY <1>0, <1>2 DEF P!Ask, P!Wait, P!Try, P!Load, Does
<1>4. P!Make(m) \o P!Wait \in Before(site)
  <2> DEFINE s == << P!Step("make", m), P!Step("wait", << >>) >>
  <2>1. P!Make(m) \o P!Wait = s
    BY <1>0, <1>8 DEF P!Make, P!Wait, P!Step, Part, Does
  <2>2. s \in Seq(Part(Does \ {"post"}))
    BY <1>0 DEF P!Step, Part, Does
  <2>3. Waits(s)
    BY DEF Waits, P!Step
  <2> QED BY <2>1, <2>2, <2>3 DEF Before
<1>5. site = "threads" => P!Make(m) \in Before(site)
  BY <1>1 DEF Before, P!Make, Does
<1>6. P!Raise \in Sound(site) /\ P!Send(m) \in Sound(site)
  <2>1. ASSUME NEW do \in {"post", "raise"}, NEW s \in Seq(Nat) PROVE << P!Step(do, s) >> \in Sound(site)
    BY <1>1, <2>1 DEF Sound, Posts, TriesAfter, Waits, P!Step, Does
  <2> QED BY <1>0, <2>1 DEF P!Raise, P!Send
<1>7. P!Send(m) \o P!Try \in Sound(site)
  <2> DEFINE s == << P!Step("post", m), P!Step("try", << >>) >>
  <2>1. P!Send(m) \o P!Try = s
    BY <1>0, <1>8 DEF P!Send, P!Try, P!Step, Part, Does
  <2>2. s \in Seq(Part(Does))
    BY <1>0 DEF P!Step, Part, Does
  <2>3. Len(s) = 2 /\ s[1].do = "post" /\ s[2].do = "try"
    BY DEF P!Step
  <2> HIDE DEF s
  <2>4. Posts(s) /\ TriesAfter(s) /\ Waits(s)
    BY <2>3 DEF Posts, TriesAfter, Waits
  <2> QED BY <2>1, <2>2, <2>4 DEF Sound
<1> QED BY <1>3, <1>4, <1>5, <1>6, <1>7

(* The media a request may name.                                           *)
LEMMA MediaAreNumbers ==
  ASSUME NEW K, NEW c, c.media \in Seq(K)
  PROVE  /\ Len(c.media) \in Nat /\ DOMAIN c.media = 1 .. Len(c.media)
         /\ P!All(c) \in Seq(Nat) /\ P!First(c) \in Seq(Nat) /\ P!Embed(c) \in Seq(Nat)
         /\ << 1 >> \in Seq(Nat) /\ << >> \in Seq(Nat) /\ \A i \in Nat : << i >> \in Seq(Nat)
<1>1. Len(c.media) \in Nat /\ DOMAIN c.media = 1 .. Len(c.media)
  BY LenProperties
<1>2. << 1 >> \in Seq(Nat) /\ << >> \in Seq(Nat) /\ \A i \in Nat : << i >> \in Seq(Nat)
  OBVIOUS
<1>3. P!All(c) \in Seq(Nat) /\ Len(P!All(c)) = Len(c.media)
  BY <1>1 DEF P!All
<1>4. P!First(c) \in Seq(Nat)
  BY <1>2 DEF P!First
<1>5. P!Embed(c) \in Seq(Nat)
  <2>1. SubSeq(P!All(c), 1, IF Len(c.media) < 4 THEN Len(c.media) ELSE 4) \in Seq(Nat)
    BY <1>1, <1>3, SubSeqProperties
  <2> QED BY <1>2, <1>4, <2>1 DEF P!Embed
<1> QED BY <1>1, <1>2, <1>3, <1>4, <1>5

(* A request for each of several media.                                    *)
LEMMA EachIsBefore ==
  ASSUME NEW site, NEW n \in Nat
  PROVE  /\ P!Joined([i \in 1 .. n |-> P!Load(<< i >>)]) \in Before(site)
         /\ P!Joined([i \in 1 .. n |-> P!Make(<< i >>) \o P!Wait]) \in Before(site)
         /\ site = "threads" => P!Joined([i \in 1 .. n |-> P!Make(<< i >>)]) \in Before(site)
<1>1. \A i \in 1 .. n : << i >> \in Seq(Nat)
  OBVIOUS
<1>2. ASSUME NEW parts \in [1 .. n -> Before(site)] PROVE P!Joined(parts) \in Before(site)
  <2>1. Len(parts) = n /\ \A i \in 1 .. Len(parts) : parts[i] \in Before(site)
    BY <1>2
  <2> QED BY <2>1, BeforeClosed, JoinedIsIn
<1>3. /\ [i \in 1 .. n |-> P!Load(<< i >>)] \in [1 .. n -> Before(site)]
      /\ [i \in 1 .. n |-> P!Make(<< i >>) \o P!Wait] \in [1 .. n -> Before(site)]
      /\ site = "threads" => [i \in 1 .. n |-> P!Make(<< i >>)] \in [1 .. n -> Before(site)]
  <2>1. \A i \in 1 .. n : /\ P!Load(<< i >>) \in Before(site) /\ P!Make(<< i >>) \o P!Wait \in Before(site)
                          /\ site = "threads" => P!Make(<< i >>) \in Before(site)
    BY <1>1, StepsAreSound
  <2> QED BY <2>1
<1> QED BY <1>2, <1>3

(* publish_post of every platform publishes once, or raises, and nothing   *)
(* that can fail it comes after.                                           *)
LEMMA ProgramIsSound ==
  ASSUME NEW site \in P!Site, NEW K, NEW c, c.media \in Seq(K)
  PROVE  P!Program(site, c) \in Sound(site)
<1>1. /\ Len(c.media) \in Nat /\ DOMAIN c.media = 1 .. Len(c.media)
      /\ P!All(c) \in Seq(Nat) /\ P!First(c) \in Seq(Nat) /\ P!Embed(c) \in Seq(Nat)
      /\ << 1 >> \in Seq(Nat) /\ << >> \in Seq(Nat)
  BY MediaAreNumbers
<1>2. \A m \in Seq(Nat) :
        /\ P!Load(m) \in Before(site) /\ P!Make(m) \o P!Wait \in Before(site)
        /\ site = "threads" => P!Make(m) \in Before(site)
        /\ P!Send(m) \in Sound(site) /\ P!Send(m) \o P!Try \in Sound(site)
  BY StepsAreSound
<1>3. P!Ask \in Before(site) /\ P!Try \in Before(site) /\ P!Raise \in Sound(site)
  BY <1>1, StepsAreSound
<1>4. /\ << >> \in Before(site)
      /\ \A a \in Before(site), b \in Before(site) : a \o b \in Before(site)
      /\ \A a \in Before(site), b \in Sound(site) : a \o b \in Sound(site)
  BY BeforeClosed
<1>5. /\ P!Unless(c, "ig_user_id", P!Ask) \in Before(site) /\ P!Unless(c, "user_id", P!Ask) \in Before(site)
      /\ P!Unless(c, "author", P!Ask) \in Before(site) /\ P!Unless(c, "account_id", P!Ask) \in Before(site)
      /\ P!Unless(c, "location_id", P!Ask) \in Before(site)
  BY <1>3, <1>4 DEF P!Unless
<1>6. P!Single(c) \in Sound(site)
  BY <1>1, <1>2, <1>3, <1>4 DEF P!Single
<1>7. P!Carousel(c) \in Sound(site)
  <2> DEFINE J == P!Joined([i \in DOMAIN c.media |-> P!Make(<< i >>) \o P!Wait])
             M == P!Make(P!All(c))
  <2>1. J \in Before(site)
    BY <1>1, EachIsBefore
  <2>2. J \o (M \o P!Wait) \in Before(site)
    BY <1>1, <1>2, <1>4, <2>1
  <2>3. J \o (M \o P!Wait) = (J \o M) \o P!Wait
    <3>1. J \in Seq(Part(Does)) /\ M \in Seq(Part(Does)) /\ P!Wait \in Seq(Part(Does))
      <4>1. J \in Seq(Part(Does \ {"post"})) /\ Part(Does \ {"post"}) \subseteq Part(Does)
        BY <2>1 DEF Before, Part
      <4>2. J \in Seq(Part(Does))
        BY <4>1, SeqMonotonic
      <4>3. M \in Seq(Part(Does)) /\ P!Wait \in Seq(Part(Does))
        BY <1>1 DEF P!Make, P!Wait, P!Step, Part, Does
      <4> QED BY <4>2, <4>3
    <3> QED BY <3>1, ConcatAssociative
  <2>4. J \o M \o P!Wait \in Before(site)
    BY <2>2, <2>3
  <2> HIDE DEF J, M
  <2>5. J \o M \o P!Wait \o P!Send(P!All(c)) \in Sound(site)
    BY <1>1, <1>2, <1>4, <2>4
  <2> QED BY <2>5 DEF P!Carousel, J, M
<1>8. ASSUME site = "threads" PROVE P!ThreadsCarousel(c) \in Sound(site)
  <2>1. P!Joined([i \in DOMAIN c.media |-> P!Make(<< i >>)]) \in Before(site)
    BY <1>1, <1>8, EachIsBefore
  <2> QED BY <1>1, <1>2, <1>4, <1>8, <2>1 DEF P!ThreadsCarousel
<1>9. CASE site = "facebook"
  <2>1. P!Facebook(c) \in Sound(site)
    BY <1>1, <1>2, <1>3 DEF P!Facebook
  <2> QED BY <1>9, <2>1 DEF P!Program
<1>10. CASE site = "instagram"
  <2>1. P!Instagram(c) \in Sound(site)
    BY <1>4, <1>5, <1>6, <1>7 DEF P!Instagram
  <2> QED BY <1>10, <2>1 DEF P!Program
<1>11. CASE site = "instagram_login"
  <2>1. P!InstagramLogin(c) \in Sound(site)
    BY <1>6, <1>7 DEF P!InstagramLogin
  <2> QED BY <1>11, <2>1 DEF P!Program
<1>12. CASE site = "threads"
  <2>1. P!ThreadsSingle(c) \in Sound(site)
    BY <1>1, <1>2, <1>4, <1>12 DEF P!ThreadsSingle
  <2>2. P!Threads(c) \in Sound(site)
    BY <1>4, <1>5, <1>8, <1>12, <2>1 DEF P!Threads
  <2> QED BY <1>12, <2>2 DEF P!Program
<1>13. CASE site = "linkedin"
  <2>1. P!LinkedInText \in Sound(site) /\ P!LinkedInPoll(c) \in Sound(site)
    BY <1>1, <1>2, <1>3 DEF P!LinkedInText, P!LinkedInPoll
  <2>2. P!LinkedInImage \in Sound(site) /\ P!LinkedInVideo \in Sound(site)
    BY <1>1, <1>2, <1>3, <1>4 DEF P!LinkedInImage, P!LinkedInVideo
  <2>3. P!LinkedIn(c) \in Sound(site)
    BY <1>4, <1>5, <2>1, <2>2 DEF P!LinkedIn
  <2> QED BY <1>13, <2>3 DEF P!Program
<1>14. CASE site = "tiktok"
  <2>1. P!TikTok(c) \in Sound(site)
    BY <1>1, <1>2, <1>3 DEF P!TikTok
  <2> QED BY <1>14, <2>1 DEF P!Program
<1>15. CASE site = "youtube"
  <2>1. P!Send(<< 1 >>) \o << >> = P!Send(<< 1 >>)
    <3>1. P!Send(<< 1 >>) \in Seq(Part(Does))
      BY <1>1, <1>2 DEF Sound
    <3> QED BY <3>1, ConcatEmptySeq
  <2>2. P!Send(<< 1 >>) \o (IF "thumbnail_file" \in c.extra THEN P!Try ELSE << >>) \in Sound(site)
    BY <1>1, <1>2, <2>1
  <2>3. P!YouTube(c) \in Sound(site)
    BY <1>3, <1>4, <2>2 DEF P!YouTube
  <2> QED BY <1>15, <2>3 DEF P!Program
<1>16. CASE site = "mastodon"
  <2>1. P!Joined([i \in DOMAIN c.media |-> P!Load(<< i >>)]) \in Before(site)
    BY <1>1, EachIsBefore
  <2>2. P!Mastodon(c) \in Sound(site)
    BY <1>1, <1>2, <1>4, <2>1 DEF P!Mastodon
  <2> QED BY <1>16, <2>2 DEF P!Program
<1>17. CASE site = "bluesky"
  <2> DEFINE J == P!Joined([i \in DOMAIN P!Embed(c) |-> P!Load(<< i >>)])
             Q == IF "mention" \in c.extra THEN P!Try ELSE << >>
  <2>1. J \in Before(site)
    <3>1. Len(P!Embed(c)) \in Nat /\ DOMAIN P!Embed(c) = 1 .. Len(P!Embed(c))
      BY <1>1, LenProperties
    <3> QED BY <3>1, EachIsBefore
  <2>2. Q \in Before(site)
    BY <1>3, <1>4
  <2> HIDE DEF J, Q
  <2>3. P!Ask \o Q \o J \o P!Send(P!Embed(c)) \in Sound(site)
    BY <1>1, <1>2, <1>3, <1>4, <2>1, <2>2
  <2>4. P!Bluesky(c) \in Sound(site)
    BY <1>3, <2>3 DEF P!Bluesky, J, Q
  <2> QED BY <1>17, <2>4 DEF P!Program
<1>18. CASE site = "pinterest"
  <2>1. P!PinterestVideo(c) \in Sound(site)
    BY <1>1, <1>2, <1>3, <1>4 DEF P!PinterestVideo
  <2>2. P!Pinterest(c) \in Sound(site)
    BY <1>1, <1>2, <1>3, <2>1 DEF P!Pinterest
  <2> QED BY <1>18, <2>2 DEF P!Program
<1>19. CASE site = "google_business"
  <2>1. P!GoogleIds(c) \in Before(site)
    BY <1>4, <1>5 DEF P!GoogleIds
  <2>2. P!Google(c) \in Sound(site)
    BY <1>1, <1>2, <1>3, <1>4, <2>1 DEF P!Google
  <2> QED BY <1>19, <2>2 DEF P!Program
<1> QED BY <1>9, <1>10, <1>11, <1>12, <1>13, <1>14, <1>15, <1>16, <1>17, <1>18, <1>19 DEF P!Site

(* publish_comment does not try anything: what publishes comes last.       *)
Replies(site) == Sound(site) \cap Seq(Part(Does \ {"try"}))

(* A comment goes out last, after all that may fail.                       *)
LEMMA CommentIsSound ==
  ASSUME NEW site \in P!Site
  PROVE  P!Comment(site) \in Replies(site)
<1>1. << >> \in Seq(Nat)
  OBVIOUS
<1>2. P!Ask \in Before(site) /\ P!Send(<< >>) \in Sound(site) /\ P!Raise \in Sound(site)
      /\ (site = "threads" => P!Make(<< >>) \in Before(site))
  BY <1>1, StepsAreSound
<1>3. /\ P!Ask \in Seq(Part(Does \ {"try"})) /\ P!Send(<< >>) \in Seq(Part(Does \ {"try"}))
      /\ P!Raise \in Seq(Part(Does \ {"try"})) /\ P!Make(<< >>) \in Seq(Part(Does \ {"try"}))
  BY <1>1 DEF P!Ask, P!Send, P!Raise, P!Make, P!Step, Part, Does
<1>4. P!Send(<< >>) \in Replies(site) /\ P!Raise \in Replies(site)
  BY <1>2, <1>3 DEF Replies
<1>5. P!Ask \o P!Send(<< >>) \in Replies(site)
  BY <1>2, <1>3, BeforeClosed, ConcatProperties DEF Replies
<1>6. ASSUME site = "threads" PROVE P!ThreadsReply \in Replies(site)
  <2>1. P!Ask \o P!Make(<< >>) \in Before(site) /\ P!Ask \o P!Make(<< >>) \in Seq(Part(Does \ {"try"}))
    BY <1>2, <1>3, <1>6, BeforeClosed, ConcatProperties
  <2>2. P!Ask \o P!Make(<< >>) \o P!Send(<< >>) \in Replies(site)
    BY <1>2, <1>3, <2>1, BeforeClosed, ConcatProperties DEF Replies
  <2> QED BY <2>2 DEF P!ThreadsReply
<1> QED BY <1>4, <1>5, <1>6 DEF P!Comment, P!Site, P!FacebookReply, P!InstagramReply, P!InstagramLoginReply,
          P!LinkedInReply, P!YouTubeReply, P!MastodonReply, P!NoReply

-----------------------------------------------------------------------------
Draft(K) == [site : P!Site, media : Seq(K), hint : STRING, extra : SUBSET STRING, comment : BOOLEAN]
Kind == {"image", "video"}

(* What the engine runs for a row: the downloads and the program.          *)
LEMMA CallIsSound ==
  ASSUME NEW d \in Draft(Kind)
  PROVE  P!Downloads(d.site, d) \o P!Program(d.site, P!Content(d.site, d)) \in Sound(d.site)
<1>1. d.site \in P!Site /\ d.media \in Seq(Kind)
  BY DEF Draft
<1>2. P!Attached(d.site, d.media) \in Seq(Kind)
  <2> DEFINE parts == [i \in DOMAIN d.media |-> IF d.media[i] = "video" THEN << d.media[i] >> ELSE << >>]
  <2>1. Len(d.media) \in Nat /\ DOMAIN d.media = 1 .. Len(d.media)
    BY <1>1, LenProperties
  <2>2. parts \in [1 .. Len(d.media) -> Seq(Kind)]
    <3>1. \A i \in 1 .. Len(d.media) : d.media[i] \in Kind
      BY <1>1, ElementOfSeq
    <3>2. << >> \in Seq(Kind) /\ \A k \in Kind : << k >> \in Seq(Kind)
      OBVIOUS
    <3> QED BY <2>1, <3>1, <3>2
  <2> HIDE DEF parts
  <2>3. Len(parts) \in Nat /\ \A i \in 1 .. Len(parts) : parts[i] \in Seq(Kind)
    BY <2>1, <2>2
  <2>4. << >> \in Seq(Kind) /\ \A a \in Seq(Kind), b \in Seq(Kind) : a \o b \in Seq(Kind)
    BY ConcatProperties
  <2>5. P!Joined(parts) \in Seq(Kind)
    BY <2>3, <2>4, JoinedIsIn
  <2> QED BY <1>1, <2>5 DEF P!Attached, parts
<1>3. P!Program(d.site, P!Content(d.site, d)) \in Sound(d.site)
  <2>1. P!Content(d.site, d).media \in Seq(Kind)
    BY <1>2 DEF P!Content
  <2> QED BY <1>1, <2>1, ProgramIsSound
<1>4. P!Downloads(d.site, d) \in Before(d.site)
  <2> DEFINE n == Len(P!Attached(d.site, d.media)) + Cardinality(d.extra \cap {"thumbnail_file", "cover_image_file"})
             s == [i \in 1 .. n |-> P!Step("file", << >>)]
  <2>1. n \in Nat
    <3>1. IsFiniteSet({"thumbnail_file", "cover_image_file"})
      <4>1. {"thumbnail_file", "cover_image_file"} = ({} \cup {"thumbnail_file"}) \cup {"cover_image_file"}
        OBVIOUS
      <4>2. IsFiniteSet({} \cup {"thumbnail_file"})
        BY FS_EmptySet, FS_AddElement
      <4> QED BY <4>1, <4>2, FS_AddElement
    <3>2. IsFiniteSet(d.extra \cap {"thumbnail_file", "cover_image_file"})
      BY <3>1, FS_Subset
    <3>3. Cardinality(d.extra \cap {"thumbnail_file", "cover_image_file"}) \in Nat
      BY <3>2, FS_CardinalityType
    <3>4. Len(P!Attached(d.site, d.media)) \in Nat
      BY <1>2, LenProperties
    <3> QED BY <3>3, <3>4
  <2> HIDE DEF n
  <2>2. P!Step("file", << >>) \in Part(Does \ {"post"}) /\ P!Step("file", << >>).do = "file"
    BY DEF P!Step, Part, Does
  <2>3. s \in Seq(Part(Does \ {"post"})) /\ Len(s) = n /\ \A i \in 1 .. Len(s) : s[i].do = "file"
    BY <2>1, <2>2
  <2> HIDE DEF s
  <2>4. s \in Before(d.site)
    BY <2>3 DEF Before, Waits
  <2>5. \A S : P!Cardinality(S) = Cardinality(S)
    BY DEF P!Cardinality, Cardinality
  <2>6. P!Downloads(d.site, d) = s
    BY <2>5 DEF P!Downloads, n, s
  <2> QED BY <2>4, <2>6
<1> QED BY <1>3, <1>4, BeforeClosed

(* A program without its first step.                                       *)
LEMMA RestOfProgram ==
  ASSUME NEW site, NEW s \in Seq(Part(Does)), s # << >>
  PROVE  /\ s[1] \in Part(Does) /\ Tail(s) \in Seq(Part(Does))
         /\ s[1].do \notin {"post", "raise"} =>
              (s \in Sound(site) => Tail(s) \in Sound(site)) /\ (s \in Replies(site) => Tail(s) \in Replies(site))
         /\ s[1].do = "post" =>
              (s \in Sound(site) => Tail(s) \in Seq(Part({"try"}))) /\ (s \in Replies(site) => Tail(s) = << >>)
         /\ s \in Seq(Part({"try"})) => s[1].do = "try" /\ Tail(s) \in Seq(Part({"try"}))
         /\ Waits(s) => Waits(Tail(s)) /\ (s[1].do = "make" => Tail(s) # << >> /\ Tail(s)[1].do = "wait")
<1> DEFINE t == Tail(s)
           n == Len(s)
<1>1. /\ n \in Nat \ {0} /\ s[1] \in Part(Does) /\ t \in Seq(Part(Does)) /\ Len(t) = n - 1
      /\ \A i \in 1 .. n - 1 : t[i] = s[i + 1]
  BY EmptySeq, ElementOfSeq, HeadTailProperties
<1>2. \A K : s \in Seq(Part(K)) => t \in Seq(Part(K)) /\ s[1] \in Part(K)
  BY <1>1, ElementOfSeq, HeadTailProperties
<1>3. \A i \in 1 .. n : i = 1 \/ (i - 1 \in 1 .. n - 1 /\ t[i - 1] = s[i])
  BY <1>1
<1>4. \A i \in 1 .. n - 1 : i + 1 \in 1 .. n /\ t[i] = s[i + 1] /\ 1 < i + 1
  BY <1>1
<1> HIDE DEF t, n
<1>5. ASSUME s[1].do \notin {"post", "raise"}, s \in Sound(site) PROVE Posts(t) /\ TriesAfter(t)
  <2>1. Posts(t)
    BY <1>1, <1>3, <1>5 DEF Sound, Posts, n
  <2>2. TriesAfter(t)
    <3> SUFFICES ASSUME NEW i \in 1 .. Len(t), NEW j \in 1 .. Len(t), i < j, t[i].do = "post" PROVE t[j].do = "try"
      BY DEF TriesAfter
    <3>1. i + 1 \in 1 .. n /\ j + 1 \in 1 .. n /\ i + 1 < j + 1 /\ s[i + 1].do = "post" /\ t[j] = s[j + 1]
      BY <1>1, <1>4
    <3> QED BY <1>5, <3>1 DEF Sound, TriesAfter, n
  <2> QED BY <2>1, <2>2
<1>6. Waits(s) => Waits(t) /\ (s[1].do = "make" => t # << >> /\ t[1].do = "wait")
  <2> SUFFICES ASSUME Waits(s) PROVE Waits(t) /\ (s[1].do = "make" => t # << >> /\ t[1].do = "wait")
    OBVIOUS
  <2>1. ASSUME s[1].do = "make" PROVE t # << >> /\ t[1].do = "wait"
    <3>1. 1 + 1 \in 1 .. n /\ s[1 + 1].do = "wait"
      BY <1>1, <2>1 DEF Waits, n
    <3>2. 1 \in 1 .. n - 1 /\ t[1] = s[1 + 1] /\ Len(t) # 0
      BY <1>1, <3>1
    <3> QED BY <3>1, <3>2, EmptySeq
  <2>2. ASSUME NEW i \in 1 .. Len(t), t[i].do = "make" PROVE i + 1 \in 1 .. Len(t) /\ t[i + 1].do = "wait"
    <3>1. i + 1 \in 1 .. n /\ s[i + 1].do = "make"
      BY <1>1, <1>4, <2>2
    <3>2. (i + 1) + 1 \in 1 .. n /\ s[(i + 1) + 1].do = "wait"
      BY <3>1 DEF Waits, n
    <3>3. i + 1 \in 1 .. n - 1
      BY <1>1, <3>2
    <3> QED BY <1>1, <1>4, <3>2, <3>3
  <2> QED BY <2>1, <2>2 DEF Waits
<1>7. ASSUME s[1].do = "post", s \in Sound(site) PROVE t \in Seq(Part({"try"}))
  <2>1. ASSUME NEW i \in 1 .. n - 1 PROVE t[i] \in Part({"try"})
    <3>1. i + 1 \in 1 .. n /\ 1 \in 1 .. n /\ 1 < i + 1 /\ t[i] = s[i + 1]
      BY <1>1, <1>4
    <3>2. t[i].do = "try"
      BY <1>7, <3>1 DEF Sound, TriesAfter, n
    <3>3. t[i] \in Part(Does)
      BY <1>1, ElementOfSeq
    <3> QED BY <3>2, <3>3 DEF Part
  <2>2. t \in [1 .. n - 1 -> Part(Does)] /\ n - 1 \in Nat
    BY <1>1, LenProperties
  <2>3. t \in [1 .. n - 1 -> Part({"try"})]
    BY <2>1, <2>2
  <2> QED BY <2>2, <2>3
<1>8. ASSUME s[1].do = "post", s \in Replies(site) PROVE t = << >>
  <2>1. t \in Seq(Part({"try"})) /\ t \in Seq(Part(Does \ {"try"}))
    BY <1>2, <1>7, <1>8 DEF Replies
  <2>2. SUFFICES ASSUME t # << >> PROVE FALSE
    OBVIOUS
  <2>3. 1 \in 1 .. Len(t)
    BY <1>1, <2>2, EmptySeq
  <2>4. t[1] \in Part({"try"}) /\ t[1] \in Part(Does \ {"try"})
    BY <2>1, <2>3, ElementOfSeq
  <2> QED BY <2>4 DEF Part
<1>9. s \in Seq(Part({"try"})) => s[1].do = "try" /\ t \in Seq(Part({"try"}))
  <2>1. s \in Seq(Part({"try"})) => t \in Seq(Part({"try"})) /\ s[1] \in Part({"try"})
    BY <1>2
  <2> QED BY <2>1 DEF Part
<1>10. ASSUME s[1].do \notin {"post", "raise"}
       PROVE  (s \in Sound(site) => t \in Sound(site)) /\ (s \in Replies(site) => t \in Replies(site))
  BY <1>1, <1>2, <1>5, <1>6, <1>10 DEF Sound, Replies
<1> QED BY <1>1, <1>6, <1>7, <1>8, <1>9, <1>10 DEF t

-----------------------------------------------------------------------------
(***************************************************************************)
(* The calls                                                               *)
(***************************************************************************)
CallJob == [for : {"post", "comment"}, on : Nat, polls : Nat, todo : Seq(Part(Does))]

CallTypes ==
  /\ draft \in [PlatformPost -> Draft(Kind)]
  /\ post \in [PlatformPost -> [status : {"scheduled", "publishing", "published", "failed"},
                                retries : Nat, id : Nat]]
  /\ call \in [PlatformPost -> {P!Idle} \cup CallJob]
  /\ made \in [PlatformPost -> {"none", "processing", "ready", "error"}]
  /\ public \in [PlatformPost -> Seq(Seq(Nat))]
  /\ replies \in [PlatformPost -> Seq(Nat)]
  /\ task \in [PlatformPost -> {"none", "waiting", "done"}]
  /\ unheard \in [PlatformPost -> [post : Nat, comment : Nat]]
  /\ died \in [PlatformPost -> Nat]

(* A call that has published has nothing left that can fail.               *)
PostCall(q) ==
  call[q].for = "post" =>
    /\ post[q].status = "publishing" /\ task[q] = "none"
    /\ \/ Len(public[q]) = call[q].on /\ call[q].todo \in Sound(draft[q].site)
       \/ Len(public[q]) = call[q].on + 1 /\ call[q].todo \in Seq(Part({"try"}))

(* A call waits for the container it has made.                             *)
WaitsFor(q) ==
  call[q] # P!Idle /\ draft[q].site # "threads" =>
    /\ Waits(call[q].todo)
    /\ call[q].todo # << >> /\ made[q] \in {"processing", "error"} => call[q].todo[1].do = "wait"

(* A comment has a post to go to, and the call ends when it is there.      *)
CommentCall(q) ==
  call[q].for = "comment" =>
    /\ task[q] = "waiting" /\ call[q].on = post[q].id
    /\ call[q].todo = << >> \/ call[q].todo \in Replies(draft[q].site)

(* The task is scheduled for a post that is out.                           *)
TaskFollows(q) ==
  /\ task[q] # "none" => post[q].status = "published" /\ post[q].id \in 1 .. Len(public[q])
  /\ task[q] = "none" => replies[q] = << >>

Said(q) == IF task[q] = "done" \/ (call[q].for = "comment" /\ call[q].todo = << >>) THEN 1 ELSE 0
RepliesCounted(q) ==
  /\ \A k \in 1 .. Len(replies[q]) : replies[q][k] = post[q].id
  /\ Len(replies[q]) <= died[q] + Said(q)

CallLocal(q) == PostCall(q) /\ WaitsFor(q) /\ CommentCall(q) /\ TaskFollows(q) /\ RepliesCounted(q)
CallInv == CallTypes /\ \A q \in PlatformPost : CallLocal(q)

Same(q) ==
  /\ draft'[q] = draft[q] /\ post'[q] = post[q] /\ call'[q] = call[q] /\ made'[q] = made[q]
  /\ public'[q] = public[q] /\ replies'[q] = replies[q] /\ task'[q] = task[q]
  /\ unheard'[q] = unheard[q] /\ died'[q] = died[q]

(* A row that nothing happens to stays as it is.                           *)
LEMMA SameIsLocal ==
  ASSUME NEW q, Same(q), CallLocal(q)
  PROVE  CallLocal(q)'
BY DEF Same, CallLocal, PostCall, WaitsFor, CommentCall, TaskFollows, RepliesCounted, Said

(* What is there to say of a row with a call under way.                    *)
LEMMA CallIs ==
  ASSUME CallInv, NEW r \in PlatformPost
  PROVE  /\ draft[r] \in Draft(Kind) /\ draft[r].site \in P!Site /\ post[r].retries \in Nat /\ post[r].id \in Nat
         /\ post[r].status \in {"scheduled", "publishing", "published", "failed"}
         /\ Len(public[r]) \in Nat /\ Len(replies[r]) \in Nat /\ died[r] \in Nat /\ CallLocal(r)
         /\ call[r] # P!Idle => call[r] \in CallJob /\ call[r].for \in {"post", "comment"} /\ call[r].todo \in Seq(Part(Does))
         /\ call[r].for = "post" => call[r] # P!Idle /\ call[r].for # "comment"
         /\ call[r].for = "comment" => call[r] # P!Idle /\ call[r].for # "post"
         /\ P!Idle.for = "nothing" /\ << >> \notin Sound(draft[r].site)
<1>1. P!Idle.for = "nothing"
  BY DEF P!Idle
<1>2. draft[r] \in Draft(Kind) /\ draft[r].site \in P!Site
  BY DEF CallInv, CallTypes, Draft
<1>3. << >> \notin Sound(draft[r].site)
  BY DEF Sound, Posts
<1>4. Len(public[r]) \in Nat /\ Len(replies[r]) \in Nat
  BY LenProperties DEF CallInv, CallTypes
<1>5. call[r] \in {P!Idle} \cup CallJob
  BY DEF CallInv, CallTypes
<1> QED BY <1>1, <1>2, <1>3, <1>4, <1>5 DEF CallInv, CallTypes, CallJob

(* How far the row is, by what the call of it is for.                      *)
LEMMA PhaseIs ==
  ASSUME CallInv, NEW r \in PlatformPost
  PROVE  /\ call[r].for = "post" /\ Len(public[r]) = call[r].on => P!Phase(r) = "calling"
         /\ call[r].for = "post" /\ Len(public[r]) = call[r].on + 1 => P!Phase(r) = "accepted"
         /\ call[r].for # "post" =>
              P!Phase(r) = IF post[r].status = "published" THEN "done"
                           ELSE IF post[r].status = "publishing" THEN "dead" ELSE "idle"
<1>1. call[r] # P!Idle => call[r].on \in Nat
  BY DEF CallInv, CallTypes, CallJob
<1>2. Len(public[r]) \in Nat /\ (call[r].for = "post" => call[r] # P!Idle)
  BY CallIs
<1> QED BY <1>1, <1>2 DEF P!Phase

(* A call that ends leaves the other rows alone.                           *)
LEMMA EndsIs ==
  ASSUME CallInv, NEW r \in PlatformPost, call[r] # P!Idle, NEW ok \in BOOLEAN, P!Ends(r, ok)
  PROVE  /\ call' \in [PlatformPost -> {P!Idle} \cup CallJob] /\ call'[r] = P!Idle
         /\ post' \in [PlatformPost -> [status : {"scheduled", "publishing", "published", "failed"},
                                        retries : Nat, id : Nat]]
         /\ task' \in [PlatformPost -> {"none", "waiting", "done"}]
         /\ \A q \in PlatformPost \ {r} : call'[q] = call[q] /\ post'[q] = post[q] /\ task'[q] = task[q]
         /\ call[r].for = "comment" => task'[r] = "done" /\ post'[r] = post[r]
         /\ call[r].for = "post" /\ ok =>
              /\ post'[r].status = "published" /\ post'[r].id = Len(public[r])
              /\ task'[r] \in {"waiting", task[r]}
         /\ call[r].for = "post" /\ ~ ok =>
              post'[r].status \in {"scheduled", "failed"} /\ post'[r].id = post[r].id /\ task'[r] = task[r]
<1>1. /\ call' = [call EXCEPT ![r] = P!Idle]
      /\ call \in [PlatformPost -> {P!Idle} \cup CallJob]
      /\ post \in [PlatformPost -> [status : {"scheduled", "publishing", "published", "failed"},
                                        retries : Nat, id : Nat]]
      /\ task \in [PlatformPost -> {"none", "waiting", "done"}]
  BY DEF CallInv, CallTypes, P!Ends
<1>2. Len(public[r]) \in Nat /\ call[r].for \in {"post", "comment"}
  BY CallIs
<1>3. CASE call[r].for = "comment"
  <2>1. task' = [task EXCEPT ![r] = "done"] /\ post' = post
    BY <1>3 DEF P!Ends
  <2> QED BY <1>1, <1>3, <2>1
<1>4. CASE call[r].for = "post"
  <2> DEFINE x == post[r]
             y == IF ok THEN [x EXCEPT !.status = "published", !.id = Len(public[r])] ELSE P!Retried(x)
             u == IF draft[r].comment /\ ok THEN "waiting" ELSE task[r]
  <2>1. post' = [post EXCEPT ![r] = y] /\ task' = [task EXCEPT ![r] = u]
    BY <1>4 DEF P!Ends, P!Due
  <2>2. /\ y \in [status : {"scheduled", "publishing", "published", "failed"}, retries : Nat, id : Nat]
        /\ ok => y.status = "published" /\ y.id = Len(public[r])
        /\ ~ ok => y.status \in {"scheduled", "failed"} /\ y.id = x.id
    <3>1. x \in [status : {"scheduled", "publishing", "published", "failed"}, retries : Nat, id : Nat]
      BY <1>1
    <3> HIDE DEF x
    <3>2. CASE ok
      BY <1>2, <3>1, <3>2
    <3>3. CASE ~ ok
      <4> DEFINE z == [x EXCEPT !.status = "scheduled"]
      <4>1. y = P!Retried(x)
        BY <3>3
      <4>2. P!Retried(x) = IF x.retries < MaxRetries THEN [z EXCEPT !.retries = x.retries + 1]
                           ELSE [x EXCEPT !.status = "failed"]
        BY Zenon DEF P!Retried
      <4>3. /\ z \in [status : {"scheduled", "publishing", "published", "failed"}, retries : Nat, id : Nat]
            /\ z.status = "scheduled" /\ z.id = x.id
        BY <3>1
      <4> HIDE DEF y, z
      <4> QED BY <3>1, <3>3, <4>1, <4>2, <4>3
    <3> QED BY <3>2, <3>3
  <2>3. u \in {"waiting", task[r]} /\ (~ ok => u = task[r])
    OBVIOUS
  <2> HIDE DEF y, u
  <2> QED BY <1>1, <1>4, <2>1, <2>2, <2>3
<1> QED BY <1>2, <1>3, <1>4

(* Nor does a call that goes on.                                           *)
LEMMA GoesIs ==
  ASSUME CallInv, NEW r \in PlatformPost, P!Busy(r), P!Goes(r)
  PROVE  /\ call' \in [PlatformPost -> {P!Idle} \cup CallJob]
         /\ \A q \in PlatformPost \ {r} : call'[q] = call[q]
         /\ call'[r] # P!Idle /\ call'[r].for = call[r].for /\ call'[r].on = call[r].on
         /\ call'[r].todo = Tail(call[r].todo)
         /\ post' = post /\ task' = task
<1>1. /\ call[r] \in CallJob /\ call[r].todo \in Seq(Part(Does)) /\ call[r].todo # << >>
      /\ call[r].for \in {"post", "comment"}
  BY CallIs DEF P!Busy
<1>2. Tail(call[r].todo) \in Seq(Part(Does))
  BY <1>1, RestOfProgram
<1>3. P!Rest(r) = [call[r] EXCEPT !.todo = Tail(call[r].todo), !.polls = 0]
  BY DEF P!Rest
<1>4. P!Rest(r) \in CallJob /\ P!Rest(r).for = call[r].for /\ P!Rest(r).on = call[r].on
      /\ P!Rest(r).todo = Tail(call[r].todo)
  <2> DEFINE c == call[r]
             t == Tail(call[r].todo)
             a == [c EXCEPT !.todo = t]
  <2>1. c \in CallJob /\ t \in Seq(Part(Does)) /\ P!Rest(r) = [a EXCEPT !.polls = 0]
    BY <1>1, <1>2, <1>3, Zenon
  <2> HIDE DEF c, t
  <2>2. a \in CallJob /\ a.for = c.for /\ a.on = c.on /\ a.todo = t
    BY <2>1 DEF CallJob
  <2> HIDE DEF a
  <2>3. P!Rest(r) \in CallJob /\ P!Rest(r).for = c.for /\ P!Rest(r).on = c.on /\ P!Rest(r).todo = t
    BY <2>1, <2>2 DEF CallJob
  <2> QED BY <2>3 DEF c, t
<1>5. P!Rest(r) # P!Idle
  BY <1>1, <1>4 DEF P!Idle
<1>6. call' = [call EXCEPT ![r] = P!Rest(r)] /\ post' = post /\ task' = task
  BY DEF P!Goes
<1>7. call \in [PlatformPost -> {P!Idle} \cup CallJob]
  BY DEF CallInv, CallTypes
<1> QED BY <1>4, <1>5, <1>6, <1>7

(* What a request does to the platform.                                    *)
LEMMA EffectIs ==
  ASSUME CallInv, NEW r \in PlatformPost, P!Busy(r), P!Effect(r)
  PROVE  /\ made' \in [PlatformPost -> {"none", "processing", "ready", "error"}]
         /\ public' \in [PlatformPost -> Seq(Seq(Nat))]
         /\ replies' \in [PlatformPost -> Seq(Nat)]
         /\ \A q \in PlatformPost \ {r} : made'[q] = made[q] /\ public'[q] = public[q] /\ replies'[q] = replies[q]
         /\ call[r].todo[1].do # "make" => made'[r] = made[r]
         /\ Len(public'[r]) = IF call[r].todo[1].do = "post" /\ call[r].for = "post"
                              THEN Len(public[r]) + 1 ELSE Len(public[r])
         /\ IF call[r].todo[1].do = "post" /\ call[r].for = "comment"
            THEN replies'[r] = Append(replies[r], call[r].on)
            ELSE replies'[r] = replies[r]
<1>1. /\ call[r] \in CallJob /\ call[r].todo \in Seq(Part(Does)) /\ call[r].todo # << >>
      /\ call[r].for \in {"post", "comment"} /\ call[r].on \in Nat
  BY CallIs DEF P!Busy, CallJob
<1>2. call[r].todo[1] \in Part(Does) /\ call[r].todo[1].media \in Seq(Nat)
  BY <1>1, RestOfProgram DEF Part
<1>3. /\ made \in [PlatformPost -> {"none", "processing", "ready", "error"}]
      /\ public \in [PlatformPost -> Seq(Seq(Nat))]
      /\ replies \in [PlatformPost -> Seq(Nat)]
  BY DEF CallInv, CallTypes
<1> DEFINE do == call[r].todo[1].do
<1>4. CASE do = "make"
  <2>1. made' = [made EXCEPT ![r] = "processing"] /\ public' = public /\ replies' = replies
    BY <1>4 DEF P!Effect, P!Head1
  <2> QED BY <1>3, <1>4, <2>1
<1>5. CASE do = "post" /\ call[r].for = "post"
  <2> DEFINE n == Append(public[r], call[r].todo[1].media)
  <2>1. made' = made /\ public' = [public EXCEPT ![r] = n] /\ replies' = replies
    BY <1>5 DEF P!Effect, P!Head1
  <2>2. n \in Seq(Seq(Nat)) /\ Len(n) = Len(public[r]) + 1
    BY <1>2, <1>3
  <2> HIDE DEF n
  <2> QED BY <1>3, <1>5, <2>1, <2>2
<1>6. CASE do = "post" /\ call[r].for = "comment"
  <2> DEFINE n == Append(replies[r], call[r].on)
  <2>1. made' = made /\ public' = public /\ replies' = [replies EXCEPT ![r] = n]
    BY <1>6 DEF P!Effect, P!Head1
  <2>2. n \in Seq(Nat)
    BY <1>1, <1>3
  <2> HIDE DEF n
  <2>3. replies'[r] = n /\ replies' \in [PlatformPost -> Seq(Nat)] /\ \A q \in PlatformPost \ {r} : replies'[q] = replies[q]
    BY <1>3, <2>1, <2>2
  <2> QED BY <1>3, <1>6, <2>1, <2>3 DEF n
<1>7. CASE do \notin {"make", "post"}
  <2>1. made' = made /\ public' = public /\ replies' = replies
    BY <1>7 DEF P!Effect, P!Head1
  <2> QED BY <1>3, <1>7, <2>1
<1> QED BY <1>1, <1>4, <1>5, <1>6, <1>7

(* What a step may do to a row, in the terms of PublishCall.               *)
Turns(r, from, to, sent_, lost_) ==
  /\ P!Phase(r) = from /\ P!Phase(r)' = to
  /\ Len(public'[r]) = Len(public[r]) + sent_ /\ unheard'[r].post = unheard[r].post + lost_

Moved(r) ==
  \/ P!Phase(r)' = P!Phase(r) /\ Len(public'[r]) = Len(public[r]) /\ unheard'[r].post = unheard[r].post
  \/ Turns(r, "idle", "calling", 0, 0) \/ Turns(r, "calling", "idle", 0, 0)
  \/ Turns(r, "calling", "accepted", 1, 0) \/ Turns(r, "calling", "idle", 1, 1)
  \/ Turns(r, "accepted", "done", 0, 0)
  \/ Turns(r, "calling", "dead", 0, 0) \/ Turns(r, "accepted", "dead", 0, 0)

(* A step of the row r keeps the invariant, and is a step of PublishCall.  *)
RowKept(r) ==
  CallTypes' /\ CallLocal(r)' /\ Moved(r) /\ \A q \in PlatformPost \ {r} : Same(q)

(* The engine takes up a row: the call has all of its programme to do.     *)
LEMMA BeginKeeps ==
  ASSUME CallInv, NEW r \in PlatformPost, P!Begin(r)
  PROVE  RowKept(r)
<1> DEFINE site == draft[r].site
           prog == P!Downloads(site, draft[r]) \o P!Program(site, P!Content(site, draft[r]))
           c == [for |-> "post", on |-> Len(public[r]), polls |-> 0, todo |-> prog]
           x == [post[r] EXCEPT !.status = "publishing"]
<1>1. /\ post[r].status = "scheduled" /\ call[r] = P!Idle
      /\ post' = [post EXCEPT ![r] = x]
      /\ call' = [call EXCEPT ![r] = c]
      /\ made' = [made EXCEPT ![r] = "none"]
      /\ UNCHANGED << draft, public, replies, task, unheard, died, faults >>
  BY DEF P!Begin
<1>2. /\ prog \in Sound(site) /\ prog \in Seq(Part(Does)) /\ (site # "threads" => Waits(prog))
  BY CallIs, CallIsSound DEF Sound
<1>3. Len(public[r]) \in Nat /\ died[r] \in Nat
  BY CallIs
<1> HIDE DEF prog
<1>4. c \in CallJob /\ c # P!Idle /\ c.for = "post" /\ c.on = Len(public[r]) /\ c.todo = prog
  BY <1>2, <1>3 DEF CallJob, P!Idle
<1>5. /\ x \in [status : {"scheduled", "publishing", "published", "failed"}, retries : Nat, id : Nat]
      /\ x.status = "publishing"
  BY DEF CallInv, CallTypes
<1> HIDE DEF c, x
<1>6. task[r] = "none" /\ replies[r] = << >>
  BY <1>1, CallIs DEF CallLocal, TaskFollows
<1>7. /\ call' \in [PlatformPost -> {P!Idle} \cup CallJob] /\ call'[r] = c
      /\ post' \in [PlatformPost -> [status : {"scheduled", "publishing", "published", "failed"}, retries : Nat, id : Nat]]
      /\ post'[r] = x
      /\ made' \in [PlatformPost -> {"none", "processing", "ready", "error"}] /\ made'[r] = "none"
      /\ \A q \in PlatformPost \ {r} : call'[q] = call[q] /\ post'[q] = post[q] /\ made'[q] = made[q]
  BY <1>1, <1>4, <1>5 DEF CallInv, CallTypes
<1>8. CallTypes'
  BY <1>1, <1>7 DEF CallInv, CallTypes
<1>9. CallLocal(r)'
  <2>1. PostCall(r)'
    BY <1>1, <1>2, <1>4, <1>5, <1>6, <1>7 DEF PostCall
  <2>2. WaitsFor(r)'
    BY <1>1, <1>2, <1>4, <1>7 DEF WaitsFor
  <2>3. CommentCall(r)'
    BY <1>4, <1>7 DEF CommentCall
  <2>4. TaskFollows(r)' /\ RepliesCounted(r)'
    BY <1>1, <1>3, <1>4, <1>6, <1>7 DEF TaskFollows, RepliesCounted, Said
  <2> QED BY <2>1, <2>2, <2>3, <2>4 DEF CallLocal
<1>10. Moved(r)
  <2>1. P!Phase(r) = "idle"
    BY <1>1, PhaseIs DEF P!Idle
  <2>2. P!Phase(r)' = "calling"
    BY <1>1, <1>3, <1>4, <1>7 DEF P!Phase
  <2>3. unheard[r].post \in Nat
    BY DEF CallInv, CallTypes
  <2> QED BY <1>1, <1>3, <2>1, <2>2, <2>3 DEF Moved, Turns
<1>11. \A q \in PlatformPost \ {r} : Same(q)
  BY <1>1, <1>7 DEF Same
<1> QED BY <1>8, <1>9, <1>10, <1>11 DEF RowKept

(* Ghosts that a step leaves alone.                                        *)
LEMMA GhostsAre ==
  ASSUME CallInv, NEW r \in PlatformPost
  PROVE  unheard[r].post \in Nat /\ unheard[r].comment \in Nat /\ died[r] \in Nat
BY DEF CallInv, CallTypes

(* The task takes up a first comment, for the number the row then has.     *)
LEMMA BeginCommentKeeps ==
  ASSUME CallInv, NEW r \in PlatformPost, P!BeginComment(r)
  PROVE  RowKept(r)
<1> DEFINE site == draft[r].site
           c == [for |-> "comment", on |-> post[r].id, polls |-> 0, todo |-> P!Comment(site)]
<1>1. /\ task[r] = "waiting" /\ call[r] = P!Idle /\ call[r].for = "nothing"
      /\ made' = [made EXCEPT ![r] = "none"]
      /\ UNCHANGED << draft, post, public, replies, unheard, died, faults >>
      /\ \/ call' = [call EXCEPT ![r] = c] /\ task' = task
         \/ task' = [task EXCEPT ![r] = "done"] /\ call' = call
  BY DEF P!BeginComment, P!Idle
<1>2. /\ P!Comment(site) \in Replies(site) /\ P!Comment(site) \in Sound(site)
      /\ P!Comment(site) \in Seq(Part(Does)) /\ P!Comment(site) # << >>
      /\ site # "threads" => Waits(P!Comment(site))
  BY CallIs, CommentIsSound DEF Replies, Sound
<1>3. c \in CallJob /\ c # P!Idle /\ c.for = "comment" /\ c.on = post[r].id /\ c.todo = P!Comment(site)
  BY <1>2, CallIs DEF CallJob, P!Idle
<1> HIDE DEF c
<1>4. /\ call' \in [PlatformPost -> {P!Idle} \cup CallJob]
      /\ task' \in [PlatformPost -> {"none", "waiting", "done"}]
      /\ \/ call'[r] = c /\ task'[r] = "waiting"
         \/ call'[r] = P!Idle /\ task'[r] = "done"
      /\ made' \in [PlatformPost -> {"none", "processing", "ready", "error"}] /\ made'[r] = "none"
      /\ \A q \in PlatformPost \ {r} : call'[q] = call[q] /\ task'[q] = task[q] /\ made'[q] = made[q]
  BY <1>1, <1>3 DEF CallInv, CallTypes
<1>5. CallTypes'
  BY <1>1, <1>4 DEF CallInv, CallTypes
<1>6. post[r].status = "published" /\ CallLocal(r) /\ Len(replies[r]) \in Nat /\ died[r] \in Nat
  BY <1>1, CallIs DEF CallLocal, TaskFollows
<1>7. CallLocal(r)'
  <2>1. PostCall(r)'
    BY <1>3, <1>4 DEF PostCall, P!Idle
  <2>2. WaitsFor(r)'
    BY <1>1, <1>2, <1>3, <1>4 DEF WaitsFor
  <2>3. CommentCall(r)'
    BY <1>1, <1>2, <1>3, <1>4 DEF CommentCall, P!Idle
  <2>4. TaskFollows(r)'
    BY <1>1, <1>4, <1>6 DEF CallLocal, TaskFollows
  <2>5. RepliesCounted(r)'
    BY <1>1, <1>4, <1>6 DEF CallLocal, RepliesCounted, Said
  <2> QED BY <2>1, <2>2, <2>3, <2>4, <2>5 DEF CallLocal
<1>8. Moved(r)
  <2>1. P!Phase(r) = "done"
    BY <1>1, <1>6, PhaseIs
  <2>2. P!Phase(r)' = "done"
    BY <1>1, <1>3, <1>4, <1>6 DEF P!Phase
  <2> QED BY <1>1, <2>1, <2>2 DEF Moved
<1>9. \A q \in PlatformPost \ {r} : Same(q)
  BY <1>1, <1>4 DEF Same
<1> QED BY <1>5, <1>7, <1>8, <1>9 DEF RowKept

(* The next step of a call under way.                                      *)
LEMMA HeadIs ==
  ASSUME CallInv, NEW r \in PlatformPost, P!Busy(r)
  PROVE  /\ call[r] # P!Idle /\ call[r].todo \in Seq(Part(Does)) /\ call[r].todo # << >>
         /\ P!Head1(r) = call[r].todo[1] /\ call[r].todo[1].do \in Does
         /\ call[r].for \in {"post", "comment"}
         /\ call[r].for = "post" => /\ post[r].status = "publishing" /\ task[r] = "none" /\ replies[r] = << >>
                                    /\ \/ Len(public[r]) = call[r].on /\ call[r].todo \in Sound(draft[r].site)
                                       \/ /\ Len(public[r]) = call[r].on + 1
                                          /\ call[r].todo \in Seq(Part({"try"})) /\ call[r].todo[1].do = "try"
         /\ call[r].for = "comment" => /\ task[r] = "waiting" /\ post[r].status = "published"
                                       /\ call[r].on = post[r].id /\ Said(r) = 0
                                       /\ call[r].todo \in Replies(draft[r].site) /\ call[r].todo[1].do # "try"
<1>1. /\ call[r] # P!Idle /\ call[r].todo \in Seq(Part(Does)) /\ call[r].todo # << >>
      /\ call[r].for \in {"post", "comment"} /\ CallLocal(r)
  BY CallIs DEF P!Busy
<1>2. /\ call[r].todo[1] \in Part(Does)
      /\ call[r].todo \in Seq(Part({"try"})) => call[r].todo[1].do = "try"
  BY <1>1, RestOfProgram
<1>3. call[r].todo[1].do \in Does
  BY <1>2 DEF Part
<1>4. ASSUME call[r].todo \in Replies(draft[r].site) PROVE call[r].todo[1].do # "try"
  <2>1. call[r].todo \in Seq(Part(Does \ {"try"}))
    BY <1>4 DEF Replies
  <2>2. 1 \in 1 .. Len(call[r].todo)
    BY <1>1, EmptySeq, LenProperties
  <2>3. call[r].todo[1] \in Part(Does \ {"try"})
    BY <2>1, <2>2, ElementOfSeq
  <2> QED BY <2>3 DEF Part
<1>5. CASE call[r].for = "post"
  BY <1>1, <1>2, <1>3, <1>5 DEF CallLocal, PostCall, TaskFollows, P!Head1
<1>6. CASE call[r].for = "comment"
  <2>1. task[r] = "waiting" /\ call[r].on = post[r].id /\ call[r].todo \in Replies(draft[r].site)
    BY <1>1, <1>6 DEF CallLocal, CommentCall
  <2>2. post[r].status = "published" /\ Said(r) = 0
    BY <1>1, <2>1 DEF CallLocal, TaskFollows, Said
  <2> QED BY <1>1, <1>3, <1>4, <1>6, <2>1, <2>2 DEF P!Head1
<1> QED BY <1>1, <1>5, <1>6

(* A call that fails before it has published.                              *)
LEMMA FailKeeps ==
  ASSUME CallInv, NEW r \in PlatformPost, P!Busy(r), call[r].todo[1].do # "try", P!Ends(r, FALSE),
         UNCHANGED << draft, made, public, replies, unheard, died >>
  PROVE  RowKept(r)
<1>1. /\ call' \in [PlatformPost -> {P!Idle} \cup CallJob] /\ call'[r] = P!Idle
      /\ post' \in [PlatformPost -> [status : {"scheduled", "publishing", "published", "failed"},
                                     retries : Nat, id : Nat]]
      /\ task' \in [PlatformPost -> {"none", "waiting", "done"}]
      /\ \A q \in PlatformPost \ {r} : call'[q] = call[q] /\ post'[q] = post[q] /\ task'[q] = task[q]
      /\ call[r].for = "comment" => task'[r] = "done" /\ post'[r] = post[r]
      /\ call[r].for = "post" =>
           post'[r].status \in {"scheduled", "failed"} /\ post'[r].id = post[r].id /\ task'[r] = task[r]
  BY HeadIs, EndsIs
<1>2. CallTypes'
  BY <1>1 DEF CallInv, CallTypes
<1>3. \A q \in PlatformPost \ {r} : Same(q)
  BY <1>1 DEF Same
<1>4. CallLocal(r)'
  <2>1. PostCall(r)' /\ WaitsFor(r)' /\ CommentCall(r)'
    BY <1>1 DEF PostCall, WaitsFor, CommentCall, P!Idle
  <2>2. CASE call[r].for = "post"
    BY <1>1, <2>1, <2>2, HeadIs, CallIs DEF CallLocal, TaskFollows, RepliesCounted, Said, P!Idle
  <2>3. CASE call[r].for = "comment"
    <3>1. task[r] = "waiting" /\ Said(r) = 0 /\ TaskFollows(r) /\ RepliesCounted(r) /\ died[r] \in Nat
      BY <2>3, HeadIs, CallIs DEF CallLocal
    <3>2. Said(r)' = 1
      BY <1>1, <2>3 DEF Said
    <3>3. TaskFollows(r)'
      BY <1>1, <2>3, <3>1 DEF TaskFollows
    <3>4. Len(replies[r]) <= died[r] + 1 /\ Len(replies[r]) \in Nat
      BY <3>1, CallIs DEF RepliesCounted
    <3>5. RepliesCounted(r)'
      BY <1>1, <2>3, <3>1, <3>2, <3>4 DEF RepliesCounted
    <3> QED BY <2>1, <3>3, <3>5 DEF CallLocal
  <2> QED BY <2>2, <2>3, HeadIs
<1>5. Moved(r)
  <2>1. P!Phase(r)' = IF post'[r].status = "published" THEN "done"
                      ELSE IF post'[r].status = "publishing" THEN "dead" ELSE "idle"
    BY <1>1 DEF P!Phase
  <2>2. CASE call[r].for = "post"
    <3>1. P!Phase(r) = "calling" /\ P!Phase(r)' = "idle"
      BY <1>1, <2>1, <2>2, HeadIs, PhaseIs
    <3>2. unheard[r].post \in Nat /\ Len(public[r]) \in Nat
      BY GhostsAre, CallIs
    <3> QED BY <3>1, <3>2 DEF Moved, Turns
  <2>3. CASE call[r].for = "comment"
    <3>1. P!Phase(r) = "done" /\ P!Phase(r)' = "done"
      BY <1>1, <2>1, <2>3, HeadIs, PhaseIs
    <3> QED BY <3>1 DEF Moved
  <2> QED BY <2>2, <2>3, HeadIs
<1> QED BY <1>2, <1>3, <1>4, <1>5 DEF RowKept

(* A call that has done all it had to.                                     *)
LEMMA FinishKeeps ==
  ASSUME CallInv, NEW r \in PlatformPost, P!Finish(r)
  PROVE  RowKept(r)
<1>0. call[r] # P!Idle /\ call[r].todo = << >> /\ P!Ends(r, TRUE)
      /\ UNCHANGED << draft, made, public, replies, unheard, died, faults >>
  BY DEF P!Finish
<1>1. /\ call' \in [PlatformPost -> {P!Idle} \cup CallJob] /\ call'[r] = P!Idle
      /\ post' \in [PlatformPost -> [status : {"scheduled", "publishing", "published", "failed"},
                                     retries : Nat, id : Nat]]
      /\ task' \in [PlatformPost -> {"none", "waiting", "done"}]
      /\ \A q \in PlatformPost \ {r} : call'[q] = call[q] /\ post'[q] = post[q] /\ task'[q] = task[q]
      /\ call[r].for = "comment" => task'[r] = "done" /\ post'[r] = post[r]
      /\ call[r].for = "post" =>
           /\ post'[r].status = "published" /\ post'[r].id = Len(public[r])
           /\ task'[r] \in {"waiting", task[r]}
  BY <1>0, EndsIs
<1>2. CallTypes'
  BY <1>0, <1>1 DEF CallInv, CallTypes
<1>3. \A q \in PlatformPost \ {r} : Same(q)
  BY <1>0, <1>1 DEF Same
<1>4. /\ call[r].for \in {"post", "comment"} /\ CallLocal(r) /\ died[r] \in Nat /\ Len(public[r]) \in Nat
      /\ Len(replies[r]) \in Nat /\ call[r].on \in Nat
  BY <1>0, CallIs DEF CallJob
<1>5. ASSUME call[r].for = "post"
      PROVE  task[r] = "none" /\ Len(public[r]) = call[r].on + 1 /\ replies[r] = << >>
  BY <1>0, <1>4, <1>5, CallIs DEF CallLocal, PostCall, TaskFollows
<1>6. ASSUME call[r].for = "comment"
      PROVE  task[r] = "waiting" /\ Said(r) = 1 /\ post[r].status = "published"
  BY <1>0, <1>4, <1>6 DEF CallLocal, CommentCall, TaskFollows, Said
<1>7. CallLocal(r)'
  <2>1. PostCall(r)' /\ WaitsFor(r)' /\ CommentCall(r)'
    BY <1>1 DEF PostCall, WaitsFor, CommentCall, P!Idle
  <2>2. CASE call[r].for = "post"
    BY <1>0, <1>1, <1>4, <1>5, <2>1, <2>2 DEF CallLocal, TaskFollows, RepliesCounted, Said, P!Idle
  <2>3. CASE call[r].for = "comment"
    <3>1. TaskFollows(r) /\ RepliesCounted(r) /\ Said(r)' = 1
      BY <1>1, <1>4, <2>3 DEF CallLocal, Said
    <3> QED BY <1>0, <1>1, <1>4, <1>6, <2>1, <2>3, <3>1 DEF CallLocal, TaskFollows, RepliesCounted
  <2> QED BY <1>4, <2>2, <2>3
<1>8. Moved(r)
  <2>1. P!Phase(r)' = IF post'[r].status = "published" THEN "done"
                      ELSE IF post'[r].status = "publishing" THEN "dead" ELSE "idle"
    BY <1>1 DEF P!Phase
  <2>2. CASE call[r].for = "post"
    <3>1. P!Phase(r) = "accepted" /\ P!Phase(r)' = "done"
      BY <1>1, <1>5, <2>1, <2>2, PhaseIs
    <3>2. unheard[r].post \in Nat
      BY GhostsAre
    <3> QED BY <1>0, <1>4, <3>1, <3>2 DEF Moved, Turns
  <2>3. CASE call[r].for = "comment"
    <3>1. P!Phase(r) = "done" /\ P!Phase(r)' = "done"
      BY <1>1, <1>6, <2>1, <2>3, PhaseIs
    <3> QED BY <1>0, <3>1 DEF Moved
  <2> QED BY <1>4, <2>2, <2>3
<1> QED BY <1>2, <1>3, <1>7, <1>8 DEF RowKept

(* A call that goes on, whatever the step does to the platform.            *)
LEMMA GoKeeps ==
  ASSUME CallInv, NEW r \in PlatformPost, P!Busy(r), P!Effect(r), P!Goes(r),
         call[r].todo[1].do # "raise", call[r].todo[1].do = "wait" => made[r] = "ready",
         UNCHANGED << draft, unheard, died >>
  PROVE  RowKept(r)
<1> DEFINE site == draft[r].site
           do == call[r].todo[1].do
           ahead == Tail(call[r].todo)
           posts == do = "post" /\ call[r].for = "post"
           says  == do = "post" /\ call[r].for = "comment"
<1>1. /\ call' \in [PlatformPost -> {P!Idle} \cup CallJob]
      /\ \A q \in PlatformPost \ {r} : call'[q] = call[q]
      /\ call'[r] # P!Idle /\ call'[r].for = call[r].for /\ call'[r].on = call[r].on
      /\ call'[r].todo = ahead
      /\ post' = post /\ task' = task
  BY GoesIs
<1>2. /\ made' \in [PlatformPost -> {"none", "processing", "ready", "error"}]
      /\ public' \in [PlatformPost -> Seq(Seq(Nat))]
      /\ replies' \in [PlatformPost -> Seq(Nat)]
      /\ \A q \in PlatformPost \ {r} : made'[q] = made[q] /\ public'[q] = public[q] /\ replies'[q] = replies[q]
      /\ do # "make" => made'[r] = made[r]
      /\ Len(public'[r]) = IF posts THEN Len(public[r]) + 1 ELSE Len(public[r])
      /\ IF says THEN replies'[r] = Append(replies[r], call[r].on) ELSE replies'[r] = replies[r]
  BY EffectIs
<1>3. /\ call[r].todo \in Seq(Part(Does)) /\ call[r].todo # << >> /\ do \in Does
      /\ call[r].for \in {"post", "comment"}
      /\ call[r].for = "post" => /\ post[r].status = "publishing" /\ task[r] = "none" /\ replies[r] = << >>
                                 /\ \/ Len(public[r]) = call[r].on /\ call[r].todo \in Sound(site)
                                    \/ /\ Len(public[r]) = call[r].on + 1
                                       /\ call[r].todo \in Seq(Part({"try"})) /\ do = "try"
      /\ call[r].for = "comment" => /\ task[r] = "waiting" /\ post[r].status = "published"
                                    /\ call[r].on = post[r].id /\ Said(r) = 0
                                    /\ call[r].todo \in Replies(site)
  BY HeadIs
<1>4. /\ ahead \in Seq(Part(Does))
      /\ do \notin {"post", "raise"} =>
              (call[r].todo \in Sound(site) => ahead \in Sound(site))
              /\ (call[r].todo \in Replies(site) => ahead \in Replies(site))
      /\ do = "post" =>
              (call[r].todo \in Sound(site) => ahead \in Seq(Part({"try"})))
              /\ (call[r].todo \in Replies(site) => ahead = << >>)
      /\ call[r].todo \in Seq(Part({"try"})) => ahead \in Seq(Part({"try"}))
      /\ Waits(call[r].todo) => Waits(ahead) /\ (do = "make" => ahead # << >> /\ ahead[1].do = "wait")
  BY <1>3, RestOfProgram
<1>5. /\ Len(public[r]) \in Nat /\ Len(replies[r]) \in Nat /\ died[r] \in Nat /\ CallLocal(r)
      /\ call[r] # P!Idle /\ call[r].on \in Nat /\ replies[r] \in Seq(Nat) /\ << >> \notin Sound(site)
  <2>1. call[r] # P!Idle /\ replies[r] \in Seq(Nat)
    BY DEF P!Busy, CallInv, CallTypes
  <2> QED BY <2>1, CallIs DEF CallJob
<1>6. CallTypes'
  BY <1>1, <1>2 DEF CallInv, CallTypes
<1>7. \A q \in PlatformPost \ {r} : Same(q)
  BY <1>1, <1>2 DEF Same
<1> HIDE DEF ahead
<1>8. PostCall(r)'
  <2> SUFFICES ASSUME call[r].for = "post"
               PROVE  \/ Len(public'[r]) = call[r].on /\ ahead \in Sound(site)
                      \/ Len(public'[r]) = call[r].on + 1 /\ ahead \in Seq(Part({"try"}))
    BY <1>1, <1>3 DEF PostCall
  <2>1. CASE do = "post"
    BY <1>2, <1>3, <1>4, <1>5, <2>1
  <2>2. CASE do # "post"
    BY <1>2, <1>3, <1>4, <2>2
  <2> QED BY <2>1, <2>2
<1>9. WaitsFor(r)'
  <2> SUFFICES ASSUME site # "threads"
               PROVE  Waits(ahead) /\ (ahead # << >> /\ made'[r] \in {"processing", "error"} => ahead[1].do = "wait")
    BY <1>1 DEF WaitsFor
  <2>1. Waits(call[r].todo) /\ (made[r] \in {"processing", "error"} => do = "wait")
    BY <1>3, <1>5 DEF CallLocal, WaitsFor
  <2> QED BY <1>2, <1>4, <2>1
<1>10. CommentCall(r)'
  <2> SUFFICES ASSUME call[r].for = "comment"
               PROVE  ahead = << >> \/ ahead \in Replies(site)
    BY <1>1, <1>3 DEF CommentCall
  <2> QED BY <1>3, <1>4
<1>11. TaskFollows(r)'
  <2>1. task[r] # "none" => ~ posts
    BY <1>3
  <2>2. task[r] = "none" => ~ says
    BY <1>3
  <2> QED BY <1>1, <1>2, <1>5, <2>1, <2>2 DEF CallLocal, TaskFollows
<1>12. RepliesCounted(r)'
  <2>1. CASE says
    <3>1. ahead = << >> /\ Said(r)' = 1
      BY <1>1, <1>3, <1>4, <2>1 DEF Said
    <3>2. replies'[r] = Append(replies[r], post[r].id) /\ Len(replies[r]) <= died[r]
      BY <1>2, <1>3, <1>5, <2>1 DEF CallLocal, RepliesCounted
    <3>3. \A k \in 1 .. Len(replies[r]) : replies[r][k] = post[r].id
      BY <1>5 DEF CallLocal, RepliesCounted
    <3>4. post[r].id \in Nat
      BY CallIs
    <3>5. /\ Len(Append(replies[r], post[r].id)) = Len(replies[r]) + 1
          /\ \A k \in 1 .. Len(replies[r]) + 1 : Append(replies[r], post[r].id)[k] = post[r].id
      BY <1>5, <3>3, <3>4, AppendProperties
    <3> QED BY <1>1, <1>5, <3>1, <3>2, <3>5 DEF RepliesCounted
  <2>2. CASE ~ says
    <3>1. replies'[r] = replies[r]
      BY <1>2, <2>2
    <3>2. Len(replies[r]) <= died[r] + Said(r)'
      <4>1. CASE call[r].for = "post"
        BY <1>3, <1>5, <4>1 DEF Said
      <4>2. CASE call[r].for = "comment"
        BY <1>1, <1>3, <1>5, <2>2, <4>2 DEF CallLocal, RepliesCounted, Said
      <4> QED BY <1>3, <4>1, <4>2
    <3> QED BY <1>1, <1>5, <3>1, <3>2 DEF CallLocal, RepliesCounted
  <2> QED BY <2>1, <2>2
<1>13. Moved(r)
  <2>1. unheard[r].post \in Nat
    BY GhostsAre
  <2>2. CASE call[r].for = "post"
    <3>1. P!Phase(r)' = IF Len(public'[r]) > call[r].on THEN "accepted" ELSE "calling"
      BY <1>1, <2>2 DEF P!Phase
    <3>2. P!Phase(r) = IF Len(public[r]) > call[r].on THEN "accepted" ELSE "calling"
      BY <1>5, <2>2 DEF P!Phase
    <3>3. do = "post" => Len(public[r]) = call[r].on
      BY <1>3, <2>2
    <3>4. CASE do = "post"
      <4>1. Len(public'[r]) = Len(public[r]) + 1
        BY <1>2, <2>2, <3>4
      <4>2. P!Phase(r) = "calling" /\ P!Phase(r)' = "accepted"
        BY <1>5, <3>1, <3>2, <3>3, <3>4, <4>1
      <4> QED BY <2>1, <4>1, <4>2 DEF Moved, Turns
    <3>5. CASE do # "post"
      <4>1. Len(public'[r]) = Len(public[r])
        BY <1>2, <3>5
      <4> QED BY <3>1, <3>2, <4>1 DEF Moved
    <3> QED BY <3>4, <3>5
  <2>3. CASE call[r].for = "comment"
    <3>1. P!Phase(r) = "done"
      BY <1>3, <2>3, PhaseIs
    <3>2. P!Phase(r)' = "done"
      BY <1>1, <1>3, <2>3 DEF P!Phase
    <3> QED BY <1>2, <2>3, <3>1, <3>2 DEF Moved
  <2> QED BY <1>3, <2>2, <2>3
<1> QED BY <1>6, <1>7, <1>8, <1>9, <1>10, <1>11, <1>12, <1>13 DEF RowKept, CallLocal

(* A request whose answer is lost.                                         *)
LEMMA LostKeeps ==
  ASSUME CallInv, NEW r \in PlatformPost, P!Lost(r)
  PROVE  RowKept(r)
<1> DEFINE site == draft[r].site
           do == call[r].todo[1].do
           posts == do = "post" /\ call[r].for = "post"
           says  == do = "post" /\ call[r].for = "comment"
<1>0. P!Busy(r) /\ P!Effect(r) /\ P!Ends(r, FALSE) /\ do \in {"make", "post"} /\ UNCHANGED << draft, died >>
  BY DEF P!Lost, P!Head1
<1>1. /\ call' \in [PlatformPost -> {P!Idle} \cup CallJob] /\ call'[r] = P!Idle
      /\ post' \in [PlatformPost -> [status : {"scheduled", "publishing", "published", "failed"},
                                     retries : Nat, id : Nat]]
      /\ task' \in [PlatformPost -> {"none", "waiting", "done"}]
      /\ \A q \in PlatformPost \ {r} : call'[q] = call[q] /\ post'[q] = post[q] /\ task'[q] = task[q]
      /\ call[r].for = "comment" => task'[r] = "done" /\ post'[r] = post[r]
      /\ call[r].for = "post" =>
           post'[r].status \in {"scheduled", "failed"} /\ post'[r].id = post[r].id /\ task'[r] = task[r]
  BY <1>0, HeadIs, EndsIs
<1>2. /\ made' \in [PlatformPost -> {"none", "processing", "ready", "error"}]
      /\ public' \in [PlatformPost -> Seq(Seq(Nat))]
      /\ replies' \in [PlatformPost -> Seq(Nat)]
      /\ \A q \in PlatformPost \ {r} : made'[q] = made[q] /\ public'[q] = public[q] /\ replies'[q] = replies[q]
      /\ Len(public'[r]) = IF posts THEN Len(public[r]) + 1 ELSE Len(public[r])
      /\ IF says THEN replies'[r] = Append(replies[r], call[r].on) ELSE replies'[r] = replies[r]
  BY <1>0, EffectIs
<1>3. /\ call[r].for \in {"post", "comment"}
      /\ call[r].for = "post" => /\ Len(public[r]) = call[r].on /\ task[r] = "none" /\ replies[r] = << >>
      /\ call[r].for = "comment" => /\ task[r] = "waiting" /\ post[r].status = "published"
                                    /\ call[r].on = post[r].id /\ Said(r) = 0
  BY <1>0, HeadIs
<1>4. /\ unheard' \in [PlatformPost -> [post : Nat, comment : Nat]]
      /\ \A q \in PlatformPost \ {r} : unheard'[q] = unheard[q]
      /\ unheard'[r].post = IF posts THEN unheard[r].post + 1 ELSE unheard[r].post
  <2> DEFINE x == unheard[r]
  <2>1. unheard \in [PlatformPost -> [post : Nat, comment : Nat]] /\ x \in [post : Nat, comment : Nat]
    BY DEF CallInv, CallTypes
  <2>2. CASE call[r].for = "post"
    <3> DEFINE y == [x EXCEPT !.post = IF do = "post" THEN x.post + 1 ELSE x.post]
    <3>1. unheard' = [unheard EXCEPT ![r] = y]
      BY <2>1, <2>2 DEF P!Lost, P!Head1
    <3> HIDE DEF x
    <3>2. y \in [post : Nat, comment : Nat] /\ y.post = IF do = "post" THEN x.post + 1 ELSE x.post
      BY <2>1
    <3> HIDE DEF y
    <3>3. unheard'[r] = y /\ unheard' \in [PlatformPost -> [post : Nat, comment : Nat]]
          /\ \A q \in PlatformPost \ {r} : unheard'[q] = unheard[q]
      BY <2>1, <3>1, <3>2
    <3> QED BY <2>2, <3>2, <3>3 DEF x
  <2>3. CASE call[r].for = "comment"
    <3> DEFINE y == [x EXCEPT !.comment = IF do = "post" THEN x.comment + 1 ELSE x.comment]
    <3>1. unheard' = [unheard EXCEPT ![r] = y]
      BY <2>1, <2>3 DEF P!Lost, P!Head1
    <3> HIDE DEF x
    <3>2. y \in [post : Nat, comment : Nat] /\ y.post = x.post
      BY <2>1
    <3> HIDE DEF y
    <3>3. unheard'[r] = y /\ unheard' \in [PlatformPost -> [post : Nat, comment : Nat]]
          /\ \A q \in PlatformPost \ {r} : unheard'[q] = unheard[q]
      BY <2>1, <3>1, <3>2
    <3> QED BY <2>3, <3>2, <3>3 DEF x
  <2> QED BY <1>3, <2>2, <2>3
<1>5. /\ Len(public[r]) \in Nat /\ Len(replies[r]) \in Nat /\ died[r] \in Nat /\ CallLocal(r)
      /\ replies[r] \in Seq(Nat) /\ post[r].id \in Nat
  BY CallIs DEF CallInv, CallTypes
<1>6. CallTypes'
  BY <1>0, <1>1, <1>2, <1>4 DEF CallInv, CallTypes
<1>7. \A q \in PlatformPost \ {r} : Same(q)
  BY <1>0, <1>1, <1>2, <1>4 DEF Same
<1>8. PostCall(r)' /\ WaitsFor(r)' /\ CommentCall(r)'
  BY <1>1 DEF PostCall, WaitsFor, CommentCall, P!Idle
<1>9. TaskFollows(r)'
  BY <1>1, <1>2, <1>3, <1>5 DEF CallLocal, TaskFollows
<1>10. RepliesCounted(r)'
  <2>1. CASE call[r].for = "post"
    <3>1. replies'[r] = << >> /\ Said(r)' \in Nat
      BY <1>2, <1>3, <2>1 DEF Said
    <3> QED BY <1>0, <1>5, <3>1 DEF RepliesCounted
  <2>2. CASE call[r].for = "comment"
    <3>1. Said(r)' = 1 /\ Len(replies[r]) <= died[r] /\ post'[r].id = post[r].id
      BY <1>1, <1>3, <1>5, <2>2 DEF CallLocal, RepliesCounted, Said
    <3>2. \A k \in 1 .. Len(replies[r]) : replies[r][k] = post[r].id
      BY <1>5 DEF CallLocal, RepliesCounted
    <3>3. /\ Len(Append(replies[r], post[r].id)) = Len(replies[r]) + 1
          /\ \A k \in 1 .. Len(replies[r]) + 1 : Append(replies[r], post[r].id)[k] = post[r].id
      BY <1>5, <3>2, AppendProperties
    <3>4. replies'[r] \in {replies[r], Append(replies[r], post[r].id)}
      BY <1>2, <1>3, <2>2
    <3> QED BY <1>0, <1>5, <3>1, <3>2, <3>3, <3>4 DEF RepliesCounted
  <2> QED BY <1>3, <2>1, <2>2
<1>11. Moved(r)
  <2>1. P!Phase(r)' = IF post'[r].status = "published" THEN "done"
                      ELSE IF post'[r].status = "publishing" THEN "dead" ELSE "idle"
    BY <1>1 DEF P!Phase
  <2>2. CASE call[r].for = "post"
    <3>1. P!Phase(r) = "calling" /\ P!Phase(r)' = "idle"
      BY <1>1, <1>3, <2>1, <2>2, PhaseIs
    <3>2. unheard[r].post \in Nat
      BY GhostsAre
    <3> QED BY <1>2, <1>4, <1>5, <2>2, <3>1, <3>2 DEF Moved, Turns
  <2>3. CASE call[r].for = "comment"
    <3>1. P!Phase(r) = "done" /\ P!Phase(r)' = "done"
      BY <1>1, <1>3, <2>1, <2>3, PhaseIs
    <3> QED BY <1>2, <1>4, <2>3, <3>1 DEF Moved
  <2> QED BY <1>3, <2>2, <2>3
<1> QED BY <1>6, <1>7, <1>8, <1>9, <1>10, <1>11 DEF RowKept, CallLocal

(* What asks nothing of the platform changes nothing there.                *)
LEMMA NoEffect ==
  ASSUME NEW r \in PlatformPost, call[r].todo[1].do \notin {"make", "post"},
         UNCHANGED << made, public, replies >>
  PROVE  P!Effect(r)
BY DEF P!Effect, P!Head1

(* Requests, and how they fail.                                            *)
LEMMA RunsKeep ==
  ASSUME CallInv, NEW r \in PlatformPost, P!Request(r) \/ P!Refused(r) \/ P!TryFails(r) \/ P!Raises(r)
  PROVE  RowKept(r)
<1>1. CASE P!Request(r)
  <2>1. /\ P!Busy(r) /\ P!Effect(r) /\ P!Goes(r) /\ UNCHANGED << draft, unheard, died >>
        /\ call[r].todo[1].do \in {"file", "ask", "load", "make", "post", "try"}
    BY <1>1 DEF P!Request, P!Head1
  <2> QED BY <2>1, GoKeeps
<1>2. CASE P!Refused(r)
  <2>1. /\ P!Busy(r) /\ P!Ends(r, FALSE) /\ UNCHANGED << draft, made, public, replies, unheard, died >>
        /\ call[r].todo[1].do # "try"
    BY <1>2 DEF P!Refused, P!Head1
  <2> QED BY <2>1, FailKeeps
<1>3. CASE P!TryFails(r)
  <2>1. /\ P!Busy(r) /\ P!Goes(r) /\ UNCHANGED << draft, made, public, replies, unheard, died >>
        /\ call[r].todo[1].do = "try"
    BY <1>3 DEF P!TryFails, P!Caught, P!Head1
  <2> QED BY <2>1, NoEffect, GoKeeps
<1>4. CASE P!Raises(r)
  <2>1. /\ P!Busy(r) /\ P!Ends(r, FALSE) /\ UNCHANGED << draft, made, public, replies, unheard, died >>
        /\ call[r].todo[1].do = "raise"
    BY <1>4 DEF P!Raises, P!Head1
  <2> QED BY <2>1, FailKeeps
<1> QED BY <1>1, <1>2, <1>3, <1>4

(* A step that only has to do with the call's place in its programme.      *)
LEMMA PollKeeps ==
  ASSUME CallInv, NEW r \in PlatformPost, P!Poll(r)
  PROVE  RowKept(r)
<1>1. P!Busy(r) /\ call[r].todo[1].do = "wait" /\ UNCHANGED << draft, made, public, replies, unheard, died >>
  BY DEF P!Poll, P!Head1
<1>2. CASE made[r] = "ready"
  <2>1. P!Goes(r)
    BY <1>2 DEF P!Poll
  <2> QED BY <1>1, <1>2, <2>1, NoEffect, GoKeeps
<1>3. CASE P!Ends(r, FALSE)
  BY <1>1, <1>3, FailKeeps
<1>4. CASE call' = [call EXCEPT ![r].polls = @ + 1] /\ UNCHANGED << post, task >>
  <2> DEFINE c == call[r]
             b == [c EXCEPT !.polls = c.polls + 1]
  <2>1. c \in CallJob /\ call' = [call EXCEPT ![r] = b]
    BY <1>1, <1>4, CallIs DEF P!Busy
  <2> HIDE DEF c
  <2>2. b \in CallJob /\ b.for = c.for /\ b.on = c.on /\ b.todo = c.todo
    BY <2>1 DEF CallJob
  <2> HIDE DEF b
  <2>3. b # P!Idle
    BY <2>2 DEF P!Idle, CallJob
  <2>4. /\ call' \in [PlatformPost -> {P!Idle} \cup CallJob] /\ call'[r] = b
        /\ \A q \in PlatformPost \ {r} : call'[q] = call[q]
    BY <2>1, <2>2 DEF CallInv, CallTypes
  <2>5. CallTypes'
    BY <1>1, <1>4, <2>4 DEF CallInv, CallTypes
  <2>6. \A q \in PlatformPost \ {r} : Same(q)
    BY <1>1, <1>4, <2>4 DEF Same
  <2>7. CallLocal(r) /\ call[r] # P!Idle
    BY <1>1, CallIs DEF P!Busy
  <2>8. /\ call'[r].for = call[r].for /\ call'[r].on = call[r].on /\ call'[r].todo = call[r].todo
        /\ call'[r] # P!Idle
    BY <2>2, <2>3, <2>4 DEF c
  <2>9. CallLocal(r)'
    BY <1>1, <1>4, <2>7, <2>8 DEF CallLocal, PostCall, WaitsFor, CommentCall, TaskFollows, RepliesCounted, Said
  <2>10. Moved(r)
    <3>1. P!Phase(r)' = P!Phase(r)
      BY <1>1, <1>4, <2>7, <2>8 DEF P!Phase
    <3> QED BY <1>1, <3>1 DEF Moved
  <2> QED BY <2>5, <2>6, <2>9, <2>10 DEF RowKept
<1> QED BY <1>2, <1>3, <1>4 DEF P!Poll, P!TimedOut

(* The platform answers for the container.                                 *)
LEMMA ProcessKeeps ==
  ASSUME CallInv, NEW r \in PlatformPost, P!Process(r)
  PROVE  RowKept(r)
<1>1. /\ made[r] = "processing" /\ UNCHANGED << draft, post, call, public, replies, task, unheard, died >>
      /\ made' \in [PlatformPost -> {"none", "processing", "ready", "error"}]
      /\ made'[r] \in {"ready", "error"} /\ \A q \in PlatformPost \ {r} : made'[q] = made[q]
  BY DEF P!Process, CallInv, CallTypes
<1>2. CallTypes'
  BY <1>1 DEF CallInv, CallTypes
<1>3. \A q \in PlatformPost \ {r} : Same(q)
  BY <1>1 DEF Same
<1>4. CallLocal(r)
  BY CallIs
<1>5. WaitsFor(r)'
  BY <1>1, <1>4 DEF CallLocal, WaitsFor
<1>6. (PostCall(r) /\ CommentCall(r) /\ TaskFollows(r) /\ RepliesCounted(r))'
  BY <1>1, <1>4 DEF CallLocal, PostCall, CommentCall, TaskFollows, RepliesCounted, Said
<1>7. Moved(r)
  BY <1>1 DEF Moved, P!Phase
<1> QED BY <1>2, <1>3, <1>5, <1>6, <1>7 DEF RowKept, CallLocal

(* The process dies: the row stays in publishing, the task is run again.   *)
LEMMA CrashKeeps ==
  ASSUME CallInv, NEW r \in PlatformPost, P!Crash(r)
  PROVE  RowKept(r)
<1>1. /\ call[r] # P!Idle /\ UNCHANGED << draft, post, made, public, replies, task, unheard >>
      /\ call' \in [PlatformPost -> {P!Idle} \cup CallJob] /\ call'[r] = P!Idle
      /\ died' \in [PlatformPost -> Nat] /\ died'[r] = died[r] + 1
      /\ \A q \in PlatformPost \ {r} : call'[q] = call[q] /\ died'[q] = died[q]
  BY DEF P!Crash, CallInv, CallTypes
<1>2. CallTypes'
  BY <1>1 DEF CallInv, CallTypes
<1>3. \A q \in PlatformPost \ {r} : Same(q)
  BY <1>1 DEF Same
<1>4. CallLocal(r) /\ Len(replies[r]) \in Nat /\ died[r] \in Nat /\ call[r].for \in {"post", "comment"}
  BY <1>1, CallIs
<1>5. PostCall(r)' /\ WaitsFor(r)' /\ CommentCall(r)'
  BY <1>1 DEF PostCall, WaitsFor, CommentCall, P!Idle
<1>6. TaskFollows(r)'
  BY <1>1, <1>4 DEF CallLocal, TaskFollows
<1>7. RepliesCounted(r)'
  <2>1. Said(r) \in {0, 1} /\ Said(r)' \in {0, 1}
    BY DEF Said
  <2> QED BY <1>1, <1>4, <2>1 DEF CallLocal, RepliesCounted
<1>8. Moved(r)
  <2>1. P!Phase(r)' = IF post[r].status = "published" THEN "done"
                      ELSE IF post[r].status = "publishing" THEN "dead" ELSE "idle"
    BY <1>1 DEF P!Phase
  <2>2. Len(public[r]) \in Nat /\ unheard[r].post \in Nat
    BY CallIs, GhostsAre
  <2>3. CASE call[r].for = "post"
    <3>1. P!Phase(r) \in {"calling", "accepted"} /\ P!Phase(r)' = "dead"
      BY <1>4, <2>1, <2>3, PhaseIs DEF CallLocal, PostCall
    <3> QED BY <1>1, <2>2, <3>1 DEF Moved, Turns
  <2>4. CASE call[r].for = "comment"
    <3>1. P!Phase(r)' = P!Phase(r)
      BY <2>1, <2>4, PhaseIs
    <3> QED BY <1>1, <3>1 DEF Moved
  <2> QED BY <1>4, <2>3, <2>4
<1> QED BY <1>2, <1>3, <1>4, <1>5, <1>6, <1>7, <1>8 DEF RowKept, CallLocal

(* The author takes the comment away before the task runs.                 *)
LEMMA RecantKeeps ==
  ASSUME CallInv, NEW r \in PlatformPost, P!Recant(r)
  PROVE  RowKept(r)
<1> DEFINE d == draft[r]
           e == [d EXCEPT !.comment = FALSE]
<1>1. /\ call[r] = P!Idle /\ UNCHANGED << call, post, made, public, replies, task, unheard, died >>
      /\ draft' = [draft EXCEPT ![r] = e] /\ d \in Draft(Kind)
  BY CallIs DEF P!Recant
<1> HIDE DEF d
<1>2. e \in Draft(Kind)
  BY <1>1 DEF Draft
<1> HIDE DEF e
<1>3. /\ draft' \in [PlatformPost -> Draft(Kind)] /\ \A q \in PlatformPost \ {r} : draft'[q] = draft[q]
  BY <1>1, <1>2 DEF CallInv, CallTypes
<1>4. CallTypes'
  BY <1>1, <1>3 DEF CallInv, CallTypes
<1>5. \A q \in PlatformPost \ {r} : Same(q)
  BY <1>1, <1>3 DEF Same
<1>6. CallLocal(r)
  BY CallIs
<1>7. PostCall(r)' /\ WaitsFor(r)' /\ CommentCall(r)'
  BY <1>1 DEF PostCall, WaitsFor, CommentCall, P!Idle
<1>8. TaskFollows(r)' /\ RepliesCounted(r)'
  BY <1>1, <1>6 DEF CallLocal, TaskFollows, RepliesCounted, Said
<1>9. Moved(r)
  BY <1>1 DEF Moved, P!Phase
<1> QED BY <1>4, <1>5, <1>7, <1>8, <1>9 DEF RowKept, CallLocal

(* Nothing has been called yet.                                            *)
LEMMA CallInit ==
  ASSUME P!Init
  PROVE  CallInv /\ P!Promise!Init
<1>1. /\ draft \in [PlatformPost -> Drafts] /\ Drafts \subseteq Draft(Kind)
      /\ post = [r \in PlatformPost |-> [status |-> "scheduled", retries |-> 0, id |-> 0]]
      /\ call = [r \in PlatformPost |-> P!Idle]
      /\ made = [r \in PlatformPost |-> "none"]
      /\ public = [r \in PlatformPost |-> << >>]
      /\ replies = [r \in PlatformPost |-> << >>]
      /\ task = [r \in PlatformPost |-> "none"]
      /\ unheard = [r \in PlatformPost |-> [post |-> 0, comment |-> 0]]
      /\ died = [r \in PlatformPost |-> 0]
  BY OutgoingAssumption DEF P!Init, Draft, Kind
<1>2. CallTypes
  <2>1. draft \in [PlatformPost -> Draft(Kind)]
    BY <1>1
  <2> QED BY <1>1, <2>1 DEF CallTypes
<1>3. ASSUME NEW r \in PlatformPost PROVE CallLocal(r) /\ P!Phase(r) = "idle"
  <2>1. /\ post[r].status = "scheduled" /\ call[r] = P!Idle /\ public[r] = << >> /\ replies[r] = << >>
        /\ task[r] = "none" /\ died[r] = 0
    BY <1>1
  <2>2. CallLocal(r)
    BY <2>1 DEF CallLocal, PostCall, WaitsFor, CommentCall, TaskFollows, RepliesCounted, Said, P!Idle
  <2>3. P!Phase(r) = "idle"
    BY <2>1 DEF P!Phase
  <2> QED BY <2>2, <2>3
<1>4. P!Promise!Init
  <2>1. \A r \in PlatformPost : Len(public[r]) = 0 /\ unheard[r].post = 0
    BY <1>1
  <2> QED BY <1>3, <2>1 DEF P!Promise!Init
<1> QED BY <1>2, <1>3, <1>4 DEF CallInv

(* A step of one row moves that row of PublishCall, or none.               *)
LEMMA MovedIsAStep ==
  ASSUME CallInv, NEW r \in PlatformPost, RowKept(r)
  PROVE  [P!Promise!Next]_(P!Promise!vars)
<1> DEFINE phase == [q \in PlatformPost |-> P!Phase(q)]
           sent_ == [q \in PlatformPost |-> Len(public[q])]
           lost_ == [q \in PlatformPost |-> unheard[q].post]
           phaseN == [q \in PlatformPost |-> P!Phase(q)']
           sentN  == [q \in PlatformPost |-> Len(public'[q])]
           lostN  == [q \in PlatformPost |-> unheard'[q].post]
<1>1. \A q \in PlatformPost \ {r} :
        P!Phase(q)' = P!Phase(q) /\ Len(public'[q]) = Len(public[q]) /\ unheard'[q].post = unheard[q].post
  BY DEF RowKept, Same, P!Phase
<1>2. /\ phaseN = [phase EXCEPT ![r] = P!Phase(r)']
      /\ sentN = [sent_ EXCEPT ![r] = Len(public'[r])]
      /\ lostN = [lost_ EXCEPT ![r] = unheard'[r].post]
  BY <1>1
<1>3. phase[r] = P!Phase(r) /\ sent_[r] = Len(public[r]) /\ lost_[r] = unheard[r].post
  OBVIOUS
<1>4. ASSUME NEW from, NEW to, NEW m, NEW n, Turns(r, from, to, m, n)
      PROVE  /\ phase[r] = from /\ phaseN = [phase EXCEPT ![r] = to]
             /\ sentN = [sent_ EXCEPT ![r] = sent_[r] + m]
             /\ lostN = [lost_ EXCEPT ![r] = lost_[r] + n]
  BY <1>2, <1>3, <1>4 DEF Turns
<1>5. Len(public[r]) \in Nat /\ unheard[r].post \in Nat
  BY CallIs, GhostsAre
<1>6. \A m \in Nat : m + 0 = m
  OBVIOUS
<1>7. sent_ = [sent_ EXCEPT ![r] = sent_[r] + 0] /\ lost_ = [lost_ EXCEPT ![r] = lost_[r] + 0]
  BY <1>3, <1>5, <1>6
<1>8. /\ phase' = phaseN /\ sent_' = sentN /\ lost_' = lostN
  OBVIOUS
<1> HIDE DEF phaseN, sentN, lostN
<1>9. ASSUME NEW from, NEW to, Turns(r, from, to, 0, 0)
      PROVE  P!Promise!Moves(r, from, to) /\ UNCHANGED << sent_, lost_ >>
  BY <1>4, <1>7, <1>8, <1>9 DEF P!Promise!Moves
<1>10. ASSUME NEW from, NEW to, NEW n \in {0, 1}, Turns(r, from, to, 1, n)
       PROVE  /\ P!Promise!Moves(r, from, to)
              /\ sent_' = [sent_ EXCEPT ![r] = @ + 1] /\ lost_' = [lost_ EXCEPT ![r] = @ + n]
  BY <1>4, <1>8, <1>10 DEF P!Promise!Moves
<1>11. CASE P!Phase(r)' = P!Phase(r) /\ Len(public'[r]) = Len(public[r]) /\ unheard'[r].post = unheard[r].post
  BY <1>2, <1>3, <1>8, <1>11 DEF P!Promise!vars
<1>12. CASE Turns(r, "idle", "calling", 0, 0)
  BY <1>9, <1>12 DEF P!Promise!Next, P!Promise!Call
<1>13. CASE Turns(r, "calling", "idle", 0, 0)
  BY <1>9, <1>13 DEF P!Promise!Next, P!Promise!Returns, P!Promise!Refuse
<1>14. CASE Turns(r, "calling", "accepted", 1, 0)
  BY <1>7, <1>10, <1>14 DEF P!Promise!Next, P!Promise!Returns, P!Promise!Accept
<1>15. CASE Turns(r, "calling", "idle", 1, 1)
  BY <1>10, <1>15 DEF P!Promise!Next, P!Promise!Returns, P!Promise!Lose
<1>16. CASE Turns(r, "accepted", "done", 0, 0)
  BY <1>9, <1>16 DEF P!Promise!Next, P!Promise!Returns, P!Promise!Save
<1>17. CASE Turns(r, "calling", "dead", 0, 0) \/ Turns(r, "accepted", "dead", 0, 0)
  BY <1>9, <1>17 DEF P!Promise!Next, P!Promise!Returns, P!Promise!Die
<1> QED BY <1>11, <1>12, <1>13, <1>14, <1>15, <1>16, <1>17 DEF RowKept, Moved

(* Every step keeps the invariant and is one of PublishCall.               *)
LEMMA CallStep ==
  ASSUME CallInv, [P!Next]_(P!vars)
  PROVE  CallInv' /\ [P!Promise!Next]_(P!Promise!vars)
<1>1. CASE UNCHANGED P!vars
  <2>1. CallTypes' /\ \A q \in PlatformPost : Same(q) /\ CallLocal(q)
    BY <1>1 DEF CallInv, CallTypes, Same, P!vars
  <2>2. CallInv'
    BY <2>1, SameIsLocal DEF CallInv
  <2>3. UNCHANGED P!Promise!vars
    BY <1>1 DEF P!Promise!vars, P!Phase, P!vars
  <2> QED BY <2>2, <2>3
<1>2. ASSUME NEW r \in PlatformPost,
             P!Begin(r) \/ P!BeginComment(r) \/ P!Runs(r) \/ P!Process(r) \/ P!Crash(r) \/ P!Recant(r)
      PROVE  CallInv' /\ [P!Promise!Next]_(P!Promise!vars)
  <2>1. RowKept(r)
    BY <1>2, BeginKeeps, BeginCommentKeeps, FinishKeeps, RunsKeep, LostKeeps, PollKeeps, ProcessKeeps, CrashKeeps, RecantKeeps
       DEF P!Runs
  <2>2. \A q \in PlatformPost \ {r} : CallLocal(q)'
    BY <2>1, SameIsLocal DEF RowKept, CallInv
  <2> QED BY <2>1, <2>2, MovedIsAStep DEF RowKept, CallInv
<1> QED BY <1>1, <1>2 DEF P!Next

(* The invariant says enough for the two that the run checks.              *)
LEMMA CallInvHolds ==
  ASSUME CallInv
  PROVE  FinishedFirst /\ CommentOnPost
<1>1. ASSUME NEW r \in PlatformPost, P!Busy(r), P!Head1(r).do = "post", made[r] # "none", draft[r].site # "threads"
      PROVE  made[r] = "ready"
  <2>1. made[r] \in {"none", "processing", "ready", "error"} /\ CallLocal(r)
    BY CallIs DEF CallInv, CallTypes
  <2> QED BY <1>1, <2>1 DEF CallLocal, WaitsFor, P!Busy, P!Head1
<1>2. ASSUME NEW r \in PlatformPost
      PROVE  /\ \A k \in DOMAIN replies[r] : replies[r][k] \in DOMAIN public[r] /\ replies[r][k] = post[r].id
             /\ Len(replies[r]) <= 1 + died[r]
  <2>1. /\ TaskFollows(r) /\ RepliesCounted(r) /\ Len(replies[r]) \in Nat /\ died[r] \in Nat /\ Said(r) \in {0, 1}
        /\ DOMAIN replies[r] = 1 .. Len(replies[r]) /\ DOMAIN public[r] = 1 .. Len(public[r])
    BY CallIs, LenProperties DEF CallLocal, Said, CallInv, CallTypes
  <2>2. ASSUME NEW k \in DOMAIN replies[r] PROVE task[r] # "none"
    BY <2>1 DEF TaskFollows
  <2>3. \A k \in DOMAIN replies[r] : replies[r][k] = post[r].id /\ post[r].id \in DOMAIN public[r]
    BY <2>1, <2>2 DEF TaskFollows, RepliesCounted
  <2>4. Len(replies[r]) <= 1 + died[r]
    BY <2>1 DEF RepliesCounted
  <2> QED BY <2>3, <2>4
<1> QED BY <1>1, <1>2 DEF FinishedFirst, CommentOnPost, P!FinishedFirst, P!CommentOnPost

(***************************************************************************)
(* Whatever the post is, whatever the platform's program for it is and     *)
(* wherever it fails, each step of the call is a step of PublishCall or    *)
(* none: what the engine counts on (_dispatch_to_provider, publish_post).  *)
(***************************************************************************)
THEOREM CallsKeepTheirPromise ==
  P!Spec => P!Promise!Init /\ [][P!Promise!Next]_(P!Promise!vars)
<1>1. P!Init => CallInv /\ P!Promise!Init
  BY CallInit
<1>2. CallInv /\ [P!Next]_(P!vars) => CallInv' /\ [P!Promise!Next]_(P!Promise!vars)
  BY CallStep
<1> QED BY <1>1, <1>2, PTL DEF P!Spec

(***************************************************************************)
(* No client but that of Threads asks for a container to be published      *)
(* before the platform has it ready (_wait_for_container).                 *)
(***************************************************************************)
THEOREM ContainersAreReady == P!Spec => []FinishedFirst
<1>1. P!Init => CallInv
  BY CallInit
<1>2. CallInv /\ [P!Next]_(P!vars) => CallInv'
  BY CallStep
<1>3. CallInv => FinishedFirst
  BY CallInvHolds
<1> QED BY <1>1, <1>2, <1>3, PTL DEF P!Spec

(***************************************************************************)
(* A first comment goes under the post the row has on the platform, once,  *)
(* and once more for each death of the process (_post_first_comment_task). *)
(***************************************************************************)
THEOREM CommentsGoUnderTheirPost == P!Spec => []CommentOnPost
<1>1. P!Init => CallInv
  BY CallInit
<1>2. CallInv /\ [P!Next]_(P!vars) => CallInv'
  BY CallStep
<1>3. CallInv => CommentOnPost
  BY CallInvHolds
<1> QED BY <1>1, <1>2, <1>3, PTL DEF P!Spec

-----------------------------------------------------------------------------
(***************************************************************************)
(* The reminders                                                           *)
(***************************************************************************)
(* A run works on a row that exists, and reminds only with reminders left. *)
HoldsUnused ==
  /\ reminder.count < 0 => reminder = R!NoRow /\ run.pc = "idle"
  /\ run.pc \in {"remind", "count"} => run.seen.count \in 0 .. MaxReminders - 1

(* A reminder is on record, or will be with the next save of this run, or  *)
(* a run died with it - against the row and against the object in hand,    *)
(* because a submission may reset the row in between.                      *)
OnRecord ==
  /\ run.pc = "count" => reminded <= run.seen.count + 1 + crashes
  /\ run.pc = "remind" => reminded <= run.seen.count + crashes
  /\ reminded <= (IF reminder.count < 0 THEN 0 ELSE reminder.count)
               + crashes + (IF run.pc = "count" THEN 1 ELSE 0)

(* So is an escalation.                                                    *)
Marked ==
  /\ run.pc = "escalate" => stalled <= crashes
  /\ run.pc \in {"remind", "count"} /\ stalled > crashes => reminder.escalated
  /\ stalled <= crashes + (IF reminder.escalated \/ run.pc = "mark" THEN 1 ELSE 0)

(* Unless a submission overtook it, a run holds the row as it is, and what *)
(* the row counts was sent for this submission.                            *)
Faithful ==
  ~ overtaken =>
    /\ reminded >= reminder.count
    /\ run.pc \in {"remind", "count"} => run.seen.count = reminder.count
    /\ run.pc = "count" => reminded >= reminder.count + 1
    /\ run.pc \in {"escalate", "mark"} \/ stalled > 0 => reminded >= MaxReminders

(* While no run has died, last_reminder_at tells of the latest reminder, or*)
(* a submission has touched the Post since.                                *)
Spaced ==
  crashes = 0 =>
    /\ run.pc = "remind" => gap \in {R!Never, Threshold}
    /\ run.pc = "count" => gap = 0
    /\ run.pc # "count" => gap = R!Never \/ rest = gap \/ gap >= age

RemindersInv ==
  R!TypeOK /\ HoldsUnused /\ OnRecord /\ Marked /\ Faithful /\ Spaced

(* The invariant holds to begin with.                                      *)
LEMMA ReminderInit == R!Init => RemindersInv
<1> SUFFICES ASSUME R!Init PROVE RemindersInv
  OBVIOUS
<1>1. Threshold \in Nat \ {0} /\ MaxReminders \in Nat /\ MaxCrashes \in Nat
  BY OutgoingAssumption
<1>2. R!TypeOK
  <2>1. /\ R!NoRow \in [count : -1 .. MaxReminders, escalated : BOOLEAN]
        /\ 0 \in R!Age /\ 0 \in 0 .. MaxCrashes
    BY <1>1 DEF R!NoRow, R!Age
  <2> QED BY <1>1, <2>1 DEF R!Init, R!TypeOK, R!Rest, R!Never
<1>3. HoldsUnused /\ OnRecord /\ Marked /\ Faithful /\ Spaced
  BY <1>1 DEF R!Init, HoldsUnused, OnRecord, Marked, Faithful, Spaced, R!NoRow, R!Rest, R!Never
<1> QED BY <1>2, <1>3 DEF RemindersInv

(* Every step keeps it.                                                    *)
LEMMA ReminderStep ==
  ASSUME RemindersInv, [R!Next]_(R!vars)
  PROVE  RemindersInv'
<1> USE DEF R!postVars, R!rowVars, R!ghosts
<1>1. /\ Threshold \in Nat \ {0} /\ MaxReminders \in Nat /\ MaxCrashes \in Nat
      /\ crashes \in Nat /\ reminded \in Nat /\ stalled \in Nat
      /\ reminder.count \in -1 .. MaxReminders /\ run.seen.count \in -1 .. MaxReminders
      /\ age \in R!Age /\ rest \in R!Age \cup {R!Never} /\ gap \in R!Age \cup {R!Never}
      /\ R!TypeOK /\ HoldsUnused /\ OnRecord /\ Marked /\ Faithful /\ Spaced
  BY OutgoingAssumption DEF RemindersInv, R!TypeOK
<1>2. CASE R!Tick
  <2>1. R!TypeOK'
    BY <1>1, <1>2 DEF R!Tick, R!Older, R!Age, R!Never, R!TypeOK, HoldsUnused
  <2>2. HoldsUnused'
    BY <1>1, <1>2 DEF R!Tick, R!Older, R!Age, R!Never, HoldsUnused
  <2>3. OnRecord'
    BY <1>1, <1>2 DEF R!Tick, R!Older, R!Age, R!Never, OnRecord
  <2>4. Marked'
    BY <1>1, <1>2 DEF R!Tick, R!Older, R!Age, R!Never, Marked
  <2>5. Faithful'
    BY <1>1, <1>2 DEF R!Tick, R!Older, R!Age, R!Never, Faithful
  <2>6. Spaced'
    BY <1>1, <1>2 DEF R!Tick, R!Older, R!Age, R!Never, Spaced
  <2> QED BY <2>1, <2>2, <2>3, <2>4, <2>5, <2>6 DEF RemindersInv
<1>3. CASE R!Submit
  <2>1. R!TypeOK'
    BY <1>1, <1>3 DEF R!Submit, R!ResetRow, R!Fresh, R!Age, R!Never, R!TypeOK, HoldsUnused
  <2>2. HoldsUnused'
    BY <1>1, <1>3 DEF R!Submit, R!ResetRow, R!Fresh, R!Age, R!Never, HoldsUnused
  <2>3. OnRecord'
    BY <1>1, <1>3 DEF R!Submit, R!ResetRow, R!Fresh, R!Age, R!Never, OnRecord
  <2>4. Marked'
    BY <1>1, <1>3 DEF R!Submit, R!ResetRow, R!Fresh, R!Age, R!Never, Marked
  <2>5. Faithful'
    <3>1. ~ overtaken' => run.pc = "idle"
      BY <1>3 DEF R!Submit
    <3>2. reminded' = 0 /\ stalled' = 0 /\ reminder'.count = 0 /\ run' = run
      BY <1>3 DEF R!Submit, R!ResetRow, R!Fresh
    <3> QED BY <3>1, <3>2 DEF Faithful
  <2>6. Spaced'
    BY <1>1, <1>3 DEF R!Submit, R!ResetRow, R!Fresh, R!Age, R!Never, Spaced
  <2> QED BY <2>1, <2>2, <2>3, <2>4, <2>5, <2>6 DEF RemindersInv
<1>4. CASE R!ChipSubmit \/ R!Leave \/ R!Touch
  <2>1. R!TypeOK'
    <3>1. /\ inReview' \in BOOLEAN /\ age' \in R!Age
          /\ UNCHANGED << reminder, rest, run, reminded, gap, stalled, overtaken, crashes >>
      <4>1. CASE R!ChipSubmit
        BY <1>1, <4>1 DEF R!ChipSubmit
      <4>2. CASE R!Leave
        BY <1>1, <4>2 DEF R!Leave
      <4>3. CASE R!Touch
        <5>1. inReview' = inReview /\ inReview \in BOOLEAN
          BY <1>1, <4>3 DEF R!Touch, R!TypeOK
        <5>2. 0 \in R!Age
          BY <1>1 DEF R!Age
        <5> QED BY <4>3, <5>1, <5>2 DEF R!Touch
      <4> QED BY <1>4, <4>1, <4>2, <4>3
    <3> QED BY <1>1, <3>1 DEF R!TypeOK
  <2>2. HoldsUnused'
    BY <1>1, <1>4 DEF R!ChipSubmit, R!Leave, R!Touch, R!Age, R!Never, HoldsUnused
  <2>3. OnRecord'
    BY <1>1, <1>4 DEF R!ChipSubmit, R!Leave, R!Touch, R!Age, R!Never, OnRecord
  <2>4. Marked'
    BY <1>1, <1>4 DEF R!ChipSubmit, R!Leave, R!Touch, R!Age, R!Never, Marked
  <2>5. Faithful'
    BY <1>1, <1>4 DEF R!ChipSubmit, R!Leave, R!Touch, R!Age, R!Never, Faithful
  <2>6. Spaced'
    BY <1>1, <1>4 DEF R!ChipSubmit, R!Leave, R!Touch, R!Age, R!Never, Spaced
  <2> QED BY <2>1, <2>2, <2>3, <2>4, <2>5, <2>6 DEF RemindersInv
<1>5. CASE R!Check
  <2> DEFINE r == IF reminder = R!NoRow THEN R!Fresh ELSE reminder
  <2>a. /\ r \in [count : -1 .. MaxReminders, escalated : BOOLEAN] /\ r.count >= 0
        /\ reminder.count >= 0 => r = reminder
        /\ reminder.count < 0 => r.count = 0
        /\ r.count >= reminder.count
        /\ r.escalated = reminder.escalated
    <3>1. reminder \in [count : -1 .. MaxReminders, escalated : BOOLEAN]
      BY <1>1 DEF R!TypeOK
    <3>2. CASE reminder = R!NoRow
      <4>1. r = R!Fresh /\ reminder.count = -1 /\ reminder.escalated = FALSE
        BY <3>2 DEF R!NoRow
      <4>2. R!Fresh.count = 0 /\ R!Fresh.escalated = FALSE
        BY DEF R!Fresh
      <4>3. R!Fresh \in [count : -1 .. MaxReminders, escalated : BOOLEAN]
        BY <1>1 DEF R!Fresh
      <4>4. r.count = 0 /\ r.escalated = FALSE
        BY <4>1, <4>2
      <4>5. r \in [count : -1 .. MaxReminders, escalated : BOOLEAN]
        BY <4>1, <4>3
      <4>6. r.count >= 0 /\ ~ (reminder.count >= 0) /\ r.count >= reminder.count
        BY <4>1, <4>4
      <4>7. r.escalated = reminder.escalated
        BY <4>1, <4>4
      <4> HIDE DEF r
      <4> QED BY <4>4, <4>5, <4>6, <4>7
    <3>3. CASE reminder # R!NoRow
      <4>1. r = reminder
        BY <3>3
      <4>2. ~ (reminder.count < 0)
        BY <1>1, <3>3 DEF HoldsUnused
      <4> HIDE DEF r
      <4> QED BY <1>1, <3>1, <4>1, <4>2
    <3> QED BY <3>2, <3>3
  <2>b. /\ run.pc = "idle" /\ R!Stalled /\ reminder' = r
        /\ UNCHANGED << inReview, age, rest, reminded, gap, stalled, overtaken, crashes >>
        /\ \/ run' = R!Rest
           \/ r.count >= MaxReminders /\ ~ r.escalated /\ run' = [pc |-> "escalate", seen |-> r]
           \/ ~ (r.count >= MaxReminders) /\ ~ R!Cooling /\ run' = [pc |-> "remind", seen |-> r]
    BY <1>5 DEF R!Check, R!Exhausted
  <2>c. R!Rest.pc = "idle" /\ R!Rest.seen \in [count : -1 .. MaxReminders, escalated : BOOLEAN]
    BY <1>1 DEF R!Rest, R!NoRow
  <2> HIDE DEF r
  <2>1. R!TypeOK'
    BY <1>1, <2>a, <2>b, <2>c DEF R!TypeOK, R!Rest
  <2>2. HoldsUnused'
    BY <1>1, <2>a, <2>b, <2>c DEF HoldsUnused
  <2>3. OnRecord'
    BY <1>1, <2>a, <2>b, <2>c DEF OnRecord
  <2>4. Marked'
    BY <1>1, <2>a, <2>b, <2>c DEF Marked
  <2>5. Faithful'
    BY <1>1, <2>a, <2>b, <2>c DEF Faithful
  <2>6. Spaced'
    BY <1>1, <2>a, <2>b, <2>c DEF Spaced, R!Stalled, R!Cooling, R!Age, R!Never
  <2> QED BY <2>1, <2>2, <2>3, <2>4, <2>5, <2>6 DEF RemindersInv
<1>6. CASE R!Remind
  <2>1. R!TypeOK'
    BY <1>1, <1>6 DEF R!Remind, R!Age, R!Never, R!TypeOK, HoldsUnused
  <2>2. HoldsUnused'
    BY <1>1, <1>6 DEF R!Remind, R!Age, R!Never, HoldsUnused
  <2>3. OnRecord'
    BY <1>1, <1>6 DEF R!Remind, R!Age, R!Never, OnRecord
  <2>4. Marked'
    BY <1>1, <1>6 DEF R!Remind, R!Age, R!Never, Marked
  <2>5. Faithful'
    BY <1>1, <1>6 DEF R!Remind, R!Age, R!Never, Faithful
  <2>6. Spaced'
    BY <1>1, <1>6 DEF R!Remind, R!Age, R!Never, Spaced
  <2> QED BY <2>1, <2>2, <2>3, <2>4, <2>5, <2>6 DEF RemindersInv
<1>7. CASE R!Count
  <2>1. R!TypeOK'
    BY <1>1, <1>7 DEF R!Count, R!Rest, R!NoRow, R!Age, R!Never, R!TypeOK, HoldsUnused
  <2>2. HoldsUnused'
    BY <1>1, <1>7 DEF R!Count, R!Rest, R!NoRow, R!Age, R!Never, HoldsUnused
  <2>3. OnRecord'
    BY <1>1, <1>7 DEF R!Count, R!Rest, R!NoRow, R!Age, R!Never, OnRecord
  <2>4. Marked'
    BY <1>1, <1>7 DEF R!Count, R!Rest, R!NoRow, R!Age, R!Never, Marked
  <2>5. Faithful'
    BY <1>1, <1>7 DEF R!Count, R!Rest, R!NoRow, R!Age, R!Never, Faithful
  <2>6. Spaced'
    BY <1>1, <1>7 DEF R!Count, R!Rest, R!NoRow, R!Age, R!Never, Spaced
  <2> QED BY <2>1, <2>2, <2>3, <2>4, <2>5, <2>6 DEF RemindersInv
<1>8. CASE R!Escalate
  <2>1. R!TypeOK'
    BY <1>1, <1>8 DEF R!Escalate, R!TypeOK, HoldsUnused
  <2>2. HoldsUnused'
    BY <1>1, <1>8 DEF R!Escalate, HoldsUnused
  <2>3. OnRecord'
    BY <1>1, <1>8 DEF R!Escalate, OnRecord
  <2>4. Marked'
    BY <1>1, <1>8 DEF R!Escalate, Marked
  <2>5. Faithful'
    BY <1>1, <1>8 DEF R!Escalate, Faithful
  <2>6. Spaced'
    BY <1>1, <1>8 DEF R!Escalate, Spaced
  <2> QED BY <2>1, <2>2, <2>3, <2>4, <2>5, <2>6 DEF RemindersInv
<1>9. CASE R!Mark
  <2>1. R!TypeOK'
    <3>1. reminder' \in [count : -1 .. MaxReminders, escalated : BOOLEAN]
      BY <1>1, <1>9 DEF R!Mark, R!TypeOK
    <3>2. R!Rest.pc = "idle" /\ R!Rest.seen \in [count : -1 .. MaxReminders, escalated : BOOLEAN]
      BY <1>1 DEF R!Rest, R!NoRow
    <3> QED BY <1>1, <1>9, <3>1, <3>2 DEF R!Mark, R!TypeOK, R!Rest
  <2>2. HoldsUnused'
    BY <1>1, <1>9 DEF R!Mark, R!Rest, R!NoRow, HoldsUnused
  <2>3. OnRecord'
    BY <1>1, <1>9 DEF R!Mark, R!Rest, R!NoRow, OnRecord
  <2>4. Marked'
    BY <1>1, <1>9 DEF R!Mark, R!Rest, R!NoRow, Marked
  <2>5. Faithful'
    BY <1>1, <1>9 DEF R!Mark, R!Rest, R!NoRow, Faithful
  <2>6. Spaced'
    BY <1>1, <1>9 DEF R!Mark, R!Rest, R!NoRow, Spaced
  <2> QED BY <2>1, <2>2, <2>3, <2>4, <2>5, <2>6 DEF RemindersInv
<1>10. CASE R!Crash
  <2>1. R!TypeOK'
    BY <1>1, <1>10 DEF R!Crash, R!Rest, R!NoRow, R!TypeOK, HoldsUnused
  <2>2. HoldsUnused'
    BY <1>1, <1>10 DEF R!Crash, R!Rest, R!NoRow, HoldsUnused
  <2>3. OnRecord'
    BY <1>1, <1>10 DEF R!Crash, R!Rest, R!NoRow, OnRecord
  <2>4. Marked'
    BY <1>1, <1>10 DEF R!Crash, R!Rest, R!NoRow, Marked
  <2>5. Faithful'
    BY <1>1, <1>10 DEF R!Crash, R!Rest, R!NoRow, Faithful
  <2>6. Spaced'
    BY <1>1, <1>10 DEF R!Crash, R!Rest, R!NoRow, Spaced
  <2> QED BY <2>1, <2>2, <2>3, <2>4, <2>5, <2>6 DEF RemindersInv
<1>11. CASE UNCHANGED R!vars
  BY <1>1, <1>11 DEF R!vars, RemindersInv, R!TypeOK, HoldsUnused, OnRecord, Marked, Faithful, Spaced
<1> QED BY <1>2, <1>3, <1>4, <1>5, <1>6, <1>7, <1>8, <1>9, <1>10, <1>11 DEF R!Next, R!Run

(* It holds in every state.                                                *)
LEMMA RemindersHold == R!Spec => []RemindersInv
<1>1. R!Init => RemindersInv
  BY ReminderInit
<1>2. RemindersInv /\ [R!Next]_(R!vars) => RemindersInv'
  BY ReminderStep
<1> QED BY <1>1, <1>2, PTL DEF R!Spec

(***************************************************************************)
(* The row and the copy a run holds keep to their fields, the count to     *)
(* 0 .. MAX_REMINDERS once there is a row, whatever requests fall inside   *)
(* the run and whichever runs die (_process_stage, submit_for_review).     *)
(***************************************************************************)
THEOREM RemindersTyped == R!Spec => []R!TypeOK
<1>1. RemindersInv => R!TypeOK
  BY DEF RemindersInv
<1> QED BY <1>1, RemindersHold, PTL

(***************************************************************************)
(* A submission wins at most MAX_REMINDERS reminders, and one more for     *)
(* each run that died between a reminder and its save, although a          *)
(* resubmission inside a run has its reset overwritten by that run's save. *)
(***************************************************************************)
THEOREM RemindersLimited == R!Spec => []R!RemindersBounded
<1>1. RemindersInv => R!RemindersBounded
  <2> SUFFICES ASSUME RemindersInv PROVE reminded <= MaxReminders + crashes
    BY DEF R!RemindersBounded
  <2>1. /\ MaxReminders \in Nat /\ crashes \in Nat /\ reminded \in Nat
        /\ reminder.count \in -1 .. MaxReminders
    BY OutgoingAssumption DEF RemindersInv, R!TypeOK
  <2>2. CASE run.pc = "count"
    <3>1. reminded <= run.seen.count + 1 + crashes /\ run.seen.count \in 0 .. MaxReminders - 1
      BY <2>2 DEF RemindersInv, OnRecord, HoldsUnused
    <3> QED BY <2>1, <3>1
  <2>3. CASE run.pc # "count"
    <3>1. reminded <= (IF reminder.count < 0 THEN 0 ELSE reminder.count) + crashes
      BY <2>1, <2>3 DEF RemindersInv, OnRecord
    <3> QED BY <2>1, <3>1
  <2> QED BY <2>2, <2>3
<1> QED BY <1>1, RemindersHold, PTL

(***************************************************************************)
(* Managers hear of a submission once, and once more for each run that     *)
(* died between _escalate and the save of the mark.                        *)
(***************************************************************************)
THEOREM ManagersToldOnce == R!Spec => []R!EscalatedOnce
<1>1. RemindersInv => R!EscalatedOnce
  <2> SUFFICES ASSUME RemindersInv PROVE stalled <= 1 + crashes
    BY DEF R!EscalatedOnce
  <2>1. crashes \in Nat /\ stalled \in Nat
    BY OutgoingAssumption DEF RemindersInv, R!TypeOK
  <2> QED BY <2>1 DEF RemindersInv, Marked
<1> QED BY <1>1, RemindersHold, PTL

(***************************************************************************)
(* Unless the submission fell inside a run, managers hear of it only after *)
(* MAX_REMINDERS reminders: dead runs repeat reminders and skip none.      *)
(***************************************************************************)
THEOREM ManagersToldLast == R!Spec => []EscalatedAfterReminders
<1>1. RemindersInv => EscalatedAfterReminders
  BY DEF RemindersInv, Faithful, EscalatedAfterReminders, R!EscalatedAfterReminders
<1> QED BY <1>1, RemindersHold, PTL

(***************************************************************************)
(* While no run has died, two reminders are PENDING_REVIEW_HOURS apart,    *)
(* even across a submission, which forgets last_reminder_at.               *)
(***************************************************************************)
THEOREM RemindersApart == R!Spec => R!RemindersSpaced
<1>1. RemindersInv /\ [R!Next]_(R!vars) =>
        [reminded' > reminded /\ crashes = 0 => gap \in {R!Never, Threshold}]_(R!vars)
  <2> SUFFICES ASSUME RemindersInv, R!Next, crashes = 0, reminded' > reminded
               PROVE  gap \in {R!Never, Threshold}
    OBVIOUS
  <2>1. reminded \in Nat
    BY DEF RemindersInv, R!TypeOK
  <2>2. CASE R!Remind
    BY <2>2 DEF R!Remind, RemindersInv, Spaced
  <2>3. CASE R!Tick \/ R!Submit \/ R!ChipSubmit \/ R!Leave \/ R!Touch \/ R!Check \/ R!Count
               \/ R!Escalate \/ R!Mark \/ R!Crash
    <3>1. reminded' = reminded \/ reminded' = 0
      BY <2>3 DEF R!Tick, R!Submit, R!ChipSubmit, R!Leave, R!Touch, R!Check, R!Count, R!Escalate, R!Mark,
                  R!Crash, R!ghosts
    <3> QED BY <2>1, <3>1
  <2> QED BY <2>2, <2>3 DEF R!Next, R!Run
<1> QED BY <1>1, RemindersHold, PTL DEF R!Spec, R!RemindersSpaced
=============================================================================
