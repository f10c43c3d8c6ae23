--------------------------- MODULE Editorial_proofs ---------------------------
(***************************************************************************)
(* Machine-checked theorems about the review of a Post, for every number   *)
(* of accounts, reviewers, custom stages and submissions.                  *)
(***************************************************************************)
EXTENDS Editorial, FiniteSetTheorems, SequenceTheorems, WellFoundedInduction, TLAPS

(***************************************************************************)
(* Operators                                                               *)
(***************************************************************************)
(* Every set of naturals has a smallest member.                            *)
LEMMA SmallestExists ==
  ASSUME NEW S \in SUBSET Nat, S # {}
  PROVE  \E t \in S : \A u \in S : t <= u
<1>1. PICK x \in S : \A y \in S : ~ (<< y, x >> \in OpToRel(<, Nat))
  BY NatLessThanWellFounded, WFMin, Zenon
<1>2. ASSUME NEW y \in S PROVE x <= y
  <2>1. y \in Nat /\ x \in Nat
    OBVIOUS
  <2>2. (y < x) => << y, x >> \in OpToRel(<, Nat)
    <3>1. OpToRel(<, Nat) = {ss \in Nat \X Nat : ss[1] < ss[2]}
      BY DEF OpToRel
    <3>2. << y, x >> \in Nat \X Nat /\ << y, x >>[1] = y /\ << y, x >>[2] = x
      BY <2>1
    <3> QED BY <3>1, <3>2, Zenon
  <2>3. ~ (y < x)
    BY <1>1, <2>2, Zenon
  <2> QED BY <2>1, <2>3
<1> QED BY <1>2

(* The current stage is the first that is pending.                         *)
LEMMA FirstPendingIs ==
  ASSUME stages \in Seq({"pending", "approved"})
  PROVE  /\ DOMAIN stages = 1 .. Len(stages)
         /\ Pending = {} => FirstPending = 0
         /\ Pending # {} => FirstPending \in Pending /\ \A j \in Pending : FirstPending <= j
<1>1. DOMAIN stages = 1 .. Len(stages) /\ Pending \in SUBSET Nat
  BY DEF Pending
<1>2. ASSUME Pending # {} PROVE \E i \in Pending : \A j \in Pending : i <= j
  BY <1>1, <1>2, SmallestExists
<1> HIDE DEF Pending
<1> QED BY <1>1, <1>2 DEF FirstPending

-----------------------------------------------------------------------------
(***************************************************************************)
(* Types and stages                                                        *)
(***************************************************************************)
Busy(u) == review[u] # Idle

(* The stages are approved in order, and what a request has found out      *)
(* about them stays true while they are not replaced: of the stage it      *)
(* clears, that those before it are approved; once it decides, that none   *)
(* is pending.  What the trail says is cleared is approved, and is not what *)
(* the user who cleared it goes on to clear.                               *)
StagesInv ==
  /\ \A i, j \in DOMAIN stages : i < j /\ stages[j] = "approved" => stages[i] = "approved"
  /\ \A u \in Reviewer : Busy(u) =>
       /\ review[u].round <= round
       /\ review[u].round = round /\ review[u].pc = "clear" =>
            /\ review[u].stage \in DOMAIN stages
            /\ \A i \in DOMAIN stages : i < review[u].stage => stages[i] = "approved"
       /\ review[u].round = round /\ review[u].pc = "decide" /\ review[u].op = "approve" => Pending = {}
  /\ \A c \in cleared : c[2] <= round /\ (c[2] = round => c[3] \in DOMAIN stages /\ stages[c[3]] = "approved")
  /\ \A u \in Reviewer : Busy(u) /\ review[u].pc = "clear" => << u, review[u].round, review[u].stage >> \notin cleared

Staged == TypeOK /\ StagesInv

(* What a step leaves of a request and of the stages.                      *)
LEMMA ReviewAt ==
  ASSUME TypeOK, NEW u \in Reviewer
  PROVE  /\ Busy(u) => review[u] \in Request
         /\ review[u].pc \in {"clear", "decide"} => Busy(u)
BY DEF TypeOK, Busy, Idle, Request

(* A save makes the children of the chosen accounts and removes the        *)
(* others.                                                                 *)
LEMMA SyncedIsChild ==
  ASSUME TypeOK, NEW S \in SUBSET PP, NEW s \in Status
  PROVE  /\ Synced(S, s) \in [PP -> Child]
         /\ \A p \in PP : Synced(S, s)[p] = IF p \notin S THEN (IF status[p] = New THEN New ELSE Deleted)
                                            ELSE IF status[p] = New THEN s ELSE status[p]
BY DEF TypeOK, Synced, Child

(* A child moved towards the schedule has gone along the transitions.      *)
LEMMA MovedIsStatus ==
  ASSUME NEW s \in Status
  PROVE  Moved(s) \in Status /\ (Moved(s) = s \/ (Moved(s) = "scheduled" /\
           (CanTransition(s, "scheduled") \/ (CanTransition(s, "draft") /\ CanTransition("draft", "scheduled")))))
BY DEF Moved, Status

(* What a review decision may lead to.                                     *)
LEMMA TargetIs ==
  \A op \in Review : Target[op] \in {"approved", "changes_requested", "rejected", "scheduled"}
BY DEF Review, Target

(* The stages of the requests that are gone do not matter any more.        *)
LEMMA StagedReplaced ==
  ASSUME Staged, TypeOK', review' = review, \/ UNCHANGED stageVars
                                            \/ round' = round + 1 /\ cleared' = {} /\ \A i \in DOMAIN stages' : stages'[i] = "pending"
  PROVE  Staged'
<1>1. CASE UNCHANGED stageVars
  BY <1>1 DEF Staged, StagesInv, stageVars, Busy, Pending
<1>2. CASE round' = round + 1 /\ cleared' = {} /\ \A i \in DOMAIN stages' : stages'[i] = "pending"
  <2>1. \A u \in Reviewer : Busy(u)' => review'[u].round < round'
    BY <1>2, ReviewAt DEF Staged, StagesInv, TypeOK, Busy, Request
  <2>2. \A u \in Reviewer : Busy(u)' => review'[u].round \in Nat /\ round' \in Nat
    BY <1>2, ReviewAt DEF Staged, TypeOK, Busy, Request
  <2> QED BY <1>2, <2>1, <2>2 DEF Staged, StagesInv
<1> QED BY <1>1, <1>2

(* Every step keeps the stages in order.                                   *)
LEMMA StagedStep ==
  ASSUME Staged, [Next]_vars
  PROVE  Staged'
<1>0. /\ TypeOK /\ StagesInv /\ DOMAIN stages = 1 .. Len(stages) /\ Len(stages) \in Nat
      /\ MaxStages \in Nat /\ MaxSubmits \in Nat
      /\ mode \in Modes /\ mode.reviewers \subseteq Reviewer /\ mode.chips \subseteq PP \X Status
      /\ status \in [PP -> Child] /\ stages \in Seq({"pending", "approved"}) /\ Len(stages) <= MaxStages
      /\ round \in Nat /\ review \in [Reviewer -> Request \cup {Idle}]
      /\ submits \in 0 .. MaxSubmits /\ decisions \in Nat /\ submitted \subseteq PP
      /\ gone \in BOOLEAN /\ revived \subseteq Nat \X Nat /\ cleared \subseteq Reviewer \X Nat \X Nat
  BY EditorialAssumption DEF Staged, TypeOK
<1>1. CASE UNCHANGED vars
  BY <1>0, <1>1 DEF vars, stageVars, Staged, TypeOK, StagesInv, Busy, Pending
<1>2. ASSUME NEW u \in mode.reviewers, NEW op \in Review, Begin(u, op) PROVE Staged'
  <2> DEFINE stage == IF op = "approve" THEN FirstPending ELSE 0
             r == [pc |-> IF stage = 0 THEN "decide" ELSE "clear", op |-> op,
                   seen |-> status, stage |-> stage, round |-> round]
  <2>1. review' = [review EXCEPT ![u] = r] /\ UNCHANGED << mode, status, stageVars, submits, decisions, submitted >>
    BY <1>2 DEF Begin, stageVars
  <2>2. /\ stage \in 0 .. MaxStages
        /\ stage # 0 => stage \in DOMAIN stages /\ stages[stage] = "pending"
                       /\ \A i \in DOMAIN stages : i < stage => stages[i] = "approved"
        /\ op = "approve" /\ stage = 0 => Pending = {}
    <3>1. \A i \in DOMAIN stages : stages[i] \in {"pending", "approved"}
      BY <1>0
    <3> QED BY <1>0, <3>1, FirstPendingIs DEF Pending
  <2>3. r \in Request /\ r.round = round /\ r.op = op /\ r.stage = stage
        /\ (r.pc = "clear" => stage # 0) /\ (r.pc = "decide" => stage = 0) /\ u \in Reviewer
    BY <1>0, <2>2 DEF Request
  <2> HIDE DEF r, stage
  <2>4. review' \in [Reviewer -> Request \cup {Idle}] /\ review'[u] = r
        /\ \A v \in Reviewer \ {u} : review'[v] = review[v]
    BY <1>0, <2>1, <2>3
  <2>5. TypeOK'
    BY <1>0, <2>1, <2>4 DEF TypeOK, stageVars
  <2>6. Pending' = Pending /\ UNCHANGED << stages, round, cleared >>
    BY <2>1 DEF Pending, stageVars
  <2>7. ASSUME NEW v \in Reviewer, Busy(v)'
        PROVE  /\ review'[v].round <= round'
               /\ review'[v].round = round' /\ review'[v].pc = "clear" =>
                    /\ review'[v].stage \in DOMAIN stages'
                    /\ \A i \in DOMAIN stages' : i < review'[v].stage => stages'[i] = "approved"
               /\ review'[v].round = round' /\ review'[v].pc = "decide" /\ review'[v].op = "approve" => Pending' = {}
    <3>1. CASE v = u
      BY <1>0, <2>2, <2>3, <2>4, <2>6, <3>1
    <3>2. CASE v # u
      BY <1>0, <2>4, <2>6, <2>7, <3>2 DEF StagesInv, Busy
    <3> QED BY <3>1, <3>2
  <2>8. ASSUME NEW v \in Reviewer, Busy(v)', review'[v].pc = "clear"
        PROVE  << v, review'[v].round, review'[v].stage >> \notin cleared
    <3>1. CASE v = u
      <4>1. stages[stage] = "pending" /\ r.round = round /\ r.stage = stage
        BY <2>2, <2>3, <2>4, <2>8, <3>1
      <4>2. ASSUME << u, round, stage >> \in cleared PROVE stages[stage] = "approved"
        BY <1>0, <4>2 DEF StagesInv
      <4> QED BY <2>4, <3>1, <4>1, <4>2
    <3>2. CASE v # u
      BY <1>0, <2>4, <2>8, <3>2 DEF StagesInv, Busy
    <3> QED BY <3>1, <3>2
  <2> QED BY <1>0, <2>5, <2>6, <2>7, <2>8 DEF Staged, StagesInv
<1>3. ASSUME NEW u \in mode.reviewers, ClearStage(u) PROVE Staged'
  <2> DEFINE r == [review[u] EXCEPT !.pc = "decide"]
             c == << u, review[u].round, review[u].stage >>
  <2>0. u \in Reviewer /\ Busy(u) /\ review[u] \in Request /\ review[u].pc = "clear"
    BY <1>0, <1>3, ReviewAt DEF ClearStage
  <2>1. /\ UNCHANGED << mode, status, round, gone, submits, decisions, submitted >>
        /\ review' = [review EXCEPT ![u] = IF gone \/ Ends(stages') THEN Idle ELSE r]
        /\ gone => UNCHANGED << stages, revived, cleared >>
        /\ ~ gone => Cleared(review[u]) /\ cleared' = cleared \cup {c}
    BY <1>0, <1>3 DEF ClearStage
  <2>2. /\ stages' \in Seq({"pending", "approved"}) /\ Len(stages') = Len(stages) /\ DOMAIN stages' = DOMAIN stages
        /\ \A i \in DOMAIN stages : stages'[i] = IF ~ gone /\ review[u].round = round /\ i = review[u].stage
                                                 THEN "approved" ELSE stages[i]
        /\ revived' \subseteq Nat \X Nat
    <3>1. CASE ~ gone /\ review[u].round = round
      <4>1. review[u].stage \in 1 .. Len(stages)
        BY <1>0, <2>0, <3>1 DEF StagesInv
      <4>2. stages' = [stages EXCEPT ![review[u].stage] = "approved"] /\ revived' = revived
        BY <2>1, <3>1 DEF Cleared
      <4>3. stages' \in Seq({"pending", "approved"}) /\ Len(stages') = Len(stages)
        BY <1>0, <4>1, <4>2, ExceptSeq
      <4> QED BY <1>0, <3>1, <4>1, <4>2, <4>3
    <3>2. CASE ~ gone /\ review[u].round # round
      <4>1. stages' = stages /\ revived' = revived \cup {<< review[u].round, review[u].stage >>}
        BY <2>1, <3>2 DEF Cleared
      <4>2. review[u].round \in Nat /\ review[u].stage \in Nat
        BY <1>0, <2>0 DEF Request
      <4> QED BY <1>0, <3>2, <4>1, <4>2
    <3>3. CASE gone
      BY <1>0, <2>1, <3>3
    <3> QED BY <3>1, <3>2, <3>3
  <2>3. r \in Request /\ r.round = review[u].round /\ r.pc = "decide"
    BY <2>0 DEF Request
  <2>c. c \in Reviewer \X Nat \X Nat /\ c[2] = review[u].round /\ c[3] = review[u].stage /\ review[u].round \in Nat
    BY <1>0, <2>0 DEF Request
  <2> HIDE DEF r
  <2>4. /\ review' \in [Reviewer -> Request \cup {Idle}]
        /\ review'[u] = Idle \/ (review'[u] = r /\ ~ Ends(stages'))
        /\ \A v \in Reviewer \ {u} : review'[v] = review[v]
    BY <1>0, <2>0, <2>1, <2>3
  <2>5. TypeOK'
    <3>1. cleared' \subseteq Reviewer \X Nat \X Nat
      BY <1>0, <2>1, <2>c
    <3> QED BY <1>0, <2>1, <2>2, <2>4, <3>1 DEF TypeOK
  <2>6. \A i, j \in DOMAIN stages' : i < j /\ stages'[j] = "approved" => stages'[i] = "approved"
    BY <1>0, <2>0, <2>2 DEF StagesInv
  <2>7. Pending' \subseteq Pending
    BY <2>2 DEF Pending
  <2>8. ASSUME NEW v \in Reviewer, Busy(v)'
        PROVE  /\ review'[v].round <= round'
               /\ review'[v].round = round' /\ review'[v].pc = "clear" =>
                    /\ review'[v].stage \in DOMAIN stages'
                    /\ \A i \in DOMAIN stages' : i < review'[v].stage => stages'[i] = "approved"
               /\ review'[v].round = round' /\ review'[v].pc = "decide" /\ review'[v].op = "approve" => Pending' = {}
    <3>1. CASE v = u
      <4>1. review'[u] = r /\ ~ Ends(stages')
        BY <2>4, <2>8, <3>1 DEF Busy
      <4>2. Pending' = {}
        BY <4>1 DEF Ends, Pending
      <4> QED BY <1>0, <2>0, <2>1, <2>3, <3>1, <4>1, <4>2 DEF StagesInv
    <3>2. CASE v # u
      <4>1. review'[v] = review[v] /\ Busy(v)
        BY <2>4, <2>8, <3>2 DEF Busy
      <4> QED BY <1>0, <2>1, <2>2, <2>7, <4>1 DEF StagesInv
    <3> QED BY <3>1, <3>2
  <2>9. \A d \in cleared' : d[2] <= round' /\ (d[2] = round' => d[3] \in DOMAIN stages' /\ stages'[d[3]] = "approved")
    <3> SUFFICES ASSUME NEW d \in cleared'
                 PROVE  d[2] <= round /\ (d[2] = round => d[3] \in DOMAIN stages /\ stages'[d[3]] = "approved")
      BY <2>1, <2>2
    <3>1. CASE d \in cleared
      BY <1>0, <2>2, <3>1 DEF StagesInv
    <3>2. CASE d \notin cleared
      <4>1. ~ gone /\ d = c
        BY <2>1, <3>2
      <4> QED BY <1>0, <2>0, <2>2, <2>c, <4>1 DEF StagesInv
    <3> QED BY <3>1, <3>2
  <2>10. ASSUME NEW v \in Reviewer, Busy(v)', review'[v].pc = "clear"
         PROVE  << v, review'[v].round, review'[v].stage >> \notin cleared'
    <3>1. v # u
      BY <2>3, <2>4, <2>10 DEF Busy
    <3>2. review'[v] = review[v] /\ Busy(v)
      BY <2>4, <2>10, <3>1 DEF Busy
    <3>3. << v, review[v].round, review[v].stage >> \notin cleared
      BY <1>0, <2>10, <3>2 DEF StagesInv
    <3> QED BY <2>1, <3>1, <3>2, <3>3
  <2> QED BY <2>5, <2>6, <2>8, <2>9, <2>10 DEF Staged, StagesInv
<1>4. ASSUME NEW u \in mode.reviewers, Decide(u) PROVE Staged'
  <2>0. u \in Reviewer /\ Busy(u) /\ review[u] \in Request /\ review[u].op \in Review
    BY <1>0, <1>4, ReviewAt DEF Decide, Request
  <2>1. PICK S : /\ status' = [p \in PP |-> IF p \in S THEN Target[review[u].op] ELSE status[p]]
                 /\ decisions' = decisions + DecisionRows(review[u], S)
    BY <1>4 DEF Decide
  <2>2. status' \in [PP -> Child]
    BY <1>0, <2>0, <2>1, TargetIs DEF Child, Status
  <2>3. decisions' \in Nat
    BY <1>0, <2>1 DEF DecisionRows
  <2>4. review' = [review EXCEPT ![u] = Idle] /\ UNCHANGED << mode, stageVars, submits, submitted >>
    BY <1>4 DEF Decide
  <2>5. TypeOK'
    BY <1>0, <2>2, <2>3, <2>4 DEF TypeOK, stageVars
  <2>6. \A v \in Reviewer : Busy(v)' => Busy(v) /\ review'[v] = review[v]
    BY <1>0, <2>4 DEF Busy
  <2> QED BY <1>0, <2>4, <2>5, <2>6 DEF Staged, StagesInv, Pending, stageVars
<1>5. ASSUME NEW S \in SUBSET Selectable, SaveDraft(S) PROVE Staged'
  <2>1. status' \in [PP -> Child] /\ UNCHANGED << mode, stageVars, review, submits, decisions, submitted >>
    BY <1>0, <1>5, SyncedIsChild DEF SaveDraft, stageVars, Selectable, Status, Synced, Child
  <2>2. TypeOK'
    BY <1>0, <2>1 DEF TypeOK, stageVars
  <2> QED BY <2>1, <2>2, StagedReplaced DEF stageVars
<1>6. ASSUME NEW S \in SUBSET Selectable, SaveScheduled(S) PROVE Staged'
  <2>0. UNCHANGED << mode, stageVars, review, submits, decisions, submitted >>
    BY <1>6 DEF SaveScheduled, stageVars
  <2>1. status' = [p \in PP |-> IF Synced(S, "scheduled")[p] \in Status THEN Moved(Synced(S, "scheduled")[p])
                                ELSE Synced(S, "scheduled")[p]]
    BY <1>6 DEF SaveScheduled
  <2>2. Synced(S, "scheduled") \in [PP -> Child]
    BY <1>0 DEF Synced, Child, Status
  <2>3. status' \in [PP -> Child]
    BY <2>1, <2>2, MovedIsStatus DEF Child
  <2>4. TypeOK'
    BY <1>0, <2>0, <2>3 DEF TypeOK, stageVars
  <2> QED BY <2>0, <2>4, StagedReplaced DEF stageVars
<1>sub. ASSUME NEW S, NEW from, Submitted(S, from), submits < MaxSubmits
        PROVE  status' \in [PP -> Child] /\ submits' \in 0 .. MaxSubmits /\ submitted' \subseteq PP
  <2>1. status' = [p \in PP |-> IF p \in {q \in PP : Synced(S, "draft")[q] \in from} THEN "pending_review"
                                ELSE Synced(S, "draft")[p]]
    BY <1>sub DEF Submitted
  <2>2. Synced(S, "draft") \in [PP -> Child]
    BY <1>0 DEF Synced, Child, Status
  <2>3. status' \in [PP -> Child]
    BY <2>1, <2>2 DEF Child, Status
  <2>4. submits' \in {submits, submits + 1} /\ submitted' \subseteq PP
    BY <1>0, <1>sub DEF Submitted
  <2> QED BY <1>0, <1>sub, <2>3, <2>4
<1>7. ASSUME NEW S \in SUBSET Selectable, NEW n \in 0 .. MaxStages, Submit(S, n) PROVE Staged'
  <2>1. status' \in [PP -> Child] /\ submits' \in 0 .. MaxSubmits /\ submitted' \subseteq PP
    BY <1>7, <1>sub DEF Submit
  <2>2. /\ UNCHANGED << mode, review, decisions >>
        /\ \/ UNCHANGED stageVars
           \/ /\ stages' = [i \in 1 .. n |-> "pending"] /\ round' = round + 1
              /\ revived' = {} /\ cleared' = {} /\ gone' = gone
    BY <1>7 DEF Submit
  <2>3. CASE UNCHANGED stageVars
    <3>1. TypeOK'
      BY <1>0, <2>1, <2>2, <2>3 DEF TypeOK, stageVars
    <3> QED BY <2>2, <2>3, <3>1, StagedReplaced
  <2>4. CASE /\ stages' = [i \in 1 .. n |-> "pending"] /\ round' = round + 1
             /\ revived' = {} /\ cleared' = {} /\ gone' = gone
    <3>1. /\ stages' \in Seq({"pending", "approved"}) /\ Len(stages') = n /\ round' \in Nat
          /\ \A i \in DOMAIN stages' : stages'[i] = "pending"
      BY <1>0, <2>4
    <3>2. TypeOK'
      BY <1>0, <2>1, <2>2, <3>1 DEF TypeOK, stageVars
    <3> QED BY <2>2, <2>4, <3>1, <3>2, StagedReplaced
  <2> QED BY <2>2, <2>3, <2>4
<1>8. ASSUME NEW S \in SUBSET Selectable, Resubmit(S) PROVE Staged'
  <2>1. status' \in [PP -> Child] /\ submits' \in 0 .. MaxSubmits /\ submitted' \subseteq PP
    BY <1>8, <1>sub DEF Resubmit
  <2>2. UNCHANGED << mode, stageVars, review, decisions >>
    BY <1>8 DEF Resubmit, stageVars
  <2>3. TypeOK'
    BY <1>0, <2>1, <2>2 DEF TypeOK, stageVars
  <2> QED BY <2>2, <2>3, StagedReplaced DEF stageVars
<1>9. ASSUME NEW c \in mode.chips, Chip(c[1], c[2]) PROVE Staged'
  <2>0. c[1] \in PP /\ c[2] \in Status
    BY <1>0
  <2>1. status' \in [PP -> Child] /\ submits' \in 0 .. MaxSubmits /\ submitted' \subseteq PP
    BY <1>0, <1>9, <2>0 DEF Chip, Child
  <2>2. UNCHANGED << mode, stageVars, review, decisions >>
    BY <1>9 DEF Chip, stageVars
  <2>3. TypeOK'
    BY <1>0, <2>1, <2>2 DEF TypeOK, stageVars
  <2> QED BY <2>2, <2>3, StagedReplaced DEF stageVars
<1>10. ASSUME NEW p \in PP, Remove(p) PROVE Staged'
  <2>1. status' \in [PP -> Child] /\ UNCHANGED << mode, review, submits, decisions, submitted >>
    BY <1>0, <1>10 DEF Remove, Child
  <2>2. \/ UNCHANGED stageVars
        \/ stages' = << >> /\ round' = round + 1 /\ revived' = {} /\ cleared' = {} /\ gone' = TRUE
    BY <1>10 DEF Remove
  <2>3. CASE UNCHANGED stageVars
    <3>1. TypeOK'
      BY <1>0, <2>1, <2>3 DEF TypeOK, stageVars
    <3> QED BY <2>1, <2>3, <3>1, StagedReplaced
  <2>4. CASE stages' = << >> /\ round' = round + 1 /\ revived' = {} /\ cleared' = {} /\ gone' = TRUE
    <3>1. << >> \in Seq({"pending", "approved"}) /\ Len(<< >>) = 0 /\ \A i \in DOMAIN << >> : FALSE
      OBVIOUS
    <3>2. TypeOK'
      BY <1>0, <2>1, <2>4, <3>1 DEF TypeOK
    <3> QED BY <2>1, <2>4, <3>1, <3>2, StagedReplaced
  <2> QED BY <2>2, <2>3, <2>4
<1>11. ASSUME NEW p \in PP, Engine(p) PROVE Staged'
  <2>1. status' \in [PP -> Child] /\ UNCHANGED << mode, stageVars, review, submits, decisions, submitted >>
    BY <1>0, <1>11 DEF Engine, Child, Status, stageVars
  <2>2. TypeOK'
    BY <1>0, <2>1 DEF TypeOK, stageVars
  <2> QED BY <2>1, <2>2, StagedReplaced DEF stageVars
<1> QED BY <1>1, <1>2, <1>3, <1>4, <1>5, <1>6, <1>7, <1>8, <1>9, <1>10, <1>11 DEF Next

(* There are no stages to begin with.                                      *)
LEMMA StagedInit == Init => Staged
<1> SUFFICES ASSUME Init PROVE Staged
  OBVIOUS
<1>1. stages = << >> /\ << >> \in Seq({"pending", "approved"}) /\ Len(<< >>) = 0
  BY DEF Init
<1>0. gone \in BOOLEAN /\ revived = {} /\ cleared = {} /\ round = 0 /\ submits = 0 /\ decisions = 0 /\ submitted = {}
  BY DEF Init
<1>t. mode \in Modes /\ status \in [PP -> Child] /\ review \in [Reviewer -> Request \cup {Idle}]
  BY DEF Init, Child
<1>2. TypeOK
  BY <1>0, <1>1, <1>t, EditorialAssumption DEF TypeOK
<1>3. StagesInv
  BY <1>0, <1>1 DEF Init, StagesInv, Busy
<1> QED BY <1>2, <1>3 DEF Staged

(* Stages are in order in every state.                                     *)
LEMMA AlwaysStaged == Spec => []Staged
BY StagedInit, StagedStep, PTL DEF Spec

(***************************************************************************)
(* The children, the stages and what the requests have read of them have   *)
(* the types the model gives them.                                         *)
(***************************************************************************)
THEOREM TypeCorrect == Spec => []TypeOK
<1>1. Staged => TypeOK
  BY DEF Staged
<1> QED BY <1>1, AlwaysStaged, PTL

-----------------------------------------------------------------------------
(***************************************************************************)
(* Whole requests                                                          *)
(***************************************************************************)
(* While requests do not straddle, at most one is under way, and what it   *)
(* has read of the children and of the stages is how they are; no row of a *)
(* replaced stage comes back.                                              *)
WholeInv ==
  ~ mode.straddle =>
    /\ \A u, v \in Reviewer : Busy(u) /\ Busy(v) => u = v
    /\ \A u \in Reviewer : Busy(u) => review[u].seen = status /\ review[u].round = round
    /\ \A u \in Reviewer : Busy(u) /\ review[u].pc = "clear" => stages[review[u].stage] = "pending"
    /\ revived = {}

(* A step of the author finds every reviewer idle then.                    *)
LEMMA WholeAlone ==
  ASSUME Staged, WholeInv, Alone(Reviewer), review' = review, mode' = mode, revived' \in {revived, {}}
  PROVE  WholeInv'
BY DEF WholeInv, Alone, Busy

(* At most one whole request is under way, and the rows are as it read.    *)
LEMMA WholeStep ==
  ASSUME Staged, WholeInv, [Next]_vars
  PROVE  WholeInv'
<1>0. TypeOK /\ mode.reviewers \subseteq Reviewer /\ review \in [Reviewer -> Request \cup {Idle}]
  BY EditorialAssumption DEF Staged, TypeOK
<1>1. CASE UNCHANGED vars
  BY <1>1 DEF vars, stageVars, WholeInv, Busy
<1>2. ASSUME NEW u \in mode.reviewers, NEW op \in Review, Begin(u, op) PROVE WholeInv'
  <2> DEFINE stage == IF op = "approve" THEN FirstPending ELSE 0
             r == [pc |-> IF stage = 0 THEN "decide" ELSE "clear", op |-> op,
                   seen |-> status, stage |-> stage, round |-> round]
  <2>1. /\ review' = [review EXCEPT ![u] = r] /\ r.seen = status /\ r.round = round /\ UNCHANGED stageVars
        /\ r.pc = "clear" => stages[r.stage] = "pending"
    <3>1. stage # 0 => stages[stage] = "pending"
      BY <1>0, FirstPendingIs DEF Pending, TypeOK
    <3> HIDE DEF stage
    <3> QED BY <1>2, <3>1 DEF Begin, stage
  <2> HIDE DEF r
  <2>2. review'[u] = r /\ \A v \in Reviewer \ {u} : review'[v] = review[v]
    BY <1>0, <2>1
  <2>3. mode' = mode /\ status' = status /\ (~ mode.straddle => \A v \in Reviewer \ {u} : ~ Busy(v))
    BY <1>2 DEF Begin, Alone, Busy
  <2> QED BY <1>0, <2>1, <2>2, <2>3 DEF WholeInv, Busy, stageVars
<1>3. ASSUME NEW u \in mode.reviewers, ClearStage(u) PROVE WholeInv'
  <2>0. Busy(u) /\ review[u] \in Request /\ mode' = mode /\ status' = status /\ round' = round
    BY <1>0, <1>3, ReviewAt DEF ClearStage
  <2>1. /\ [review[u] EXCEPT !.pc = "decide"].seen = review[u].seen
        /\ [review[u] EXCEPT !.pc = "decide"].round = review[u].round
        /\ [review[u] EXCEPT !.pc = "decide"].pc = "decide"
    BY <2>0 DEF Request
  <2>3. ~ mode.straddle => revived' = {}
    BY <1>0, <1>3, <2>0 DEF ClearStage, Cleared, WholeInv
  <2>2. /\ \/ review'[u] = Idle
           \/ review'[u].seen = review[u].seen /\ review'[u].round = review[u].round /\ review'[u].pc = "decide"
        /\ \A v \in Reviewer \ {u} : review'[v] = review[v]
    BY <1>0, <1>3, <2>1 DEF ClearStage
  <2> QED BY <1>0, <2>0, <2>2, <2>3 DEF WholeInv, Busy
<1>4. ASSUME NEW u \in mode.reviewers, Decide(u) PROVE WholeInv'
  <2>1. Busy(u) /\ mode' = mode /\ revived' = revived /\ review'[u] = Idle /\ \A v \in Reviewer \ {u} : review'[v] = review[v]
    BY <1>0, <1>4, ReviewAt DEF Decide, stageVars
  <2>2. ~ mode.straddle => \A v \in Reviewer : ~ Busy(v)'
    BY <1>0, <2>1 DEF WholeInv, Busy
  <2> QED BY <2>1, <2>2 DEF WholeInv
<1>5. ASSUME NEW S \in SUBSET Selectable, SaveDraft(S) \/ SaveScheduled(S) \/ Resubmit(S) PROVE WholeInv'
  BY <1>5, WholeAlone DEF SaveDraft, SaveScheduled, Resubmit, stageVars
<1>6. ASSUME NEW S \in SUBSET Selectable, NEW n \in 0 .. MaxStages, Submit(S, n) PROVE WholeInv'
  BY <1>6, WholeAlone DEF Submit, stageVars
<1>7. ASSUME NEW c \in mode.chips, Chip(c[1], c[2]) PROVE WholeInv'
  BY <1>7, WholeAlone DEF Chip, stageVars
<1>8. ASSUME NEW p \in PP, Remove(p) \/ Engine(p) PROVE WholeInv'
  BY <1>8, WholeAlone DEF Remove, Engine, stageVars
<1> QED BY <1>1, <1>2, <1>3, <1>4, <1>5, <1>6, <1>7, <1>8 DEF Next

(* So it is in every state.                                                *)
LEMMA AlwaysWhole == Spec => []WholeInv
<1>1. Init => WholeInv
  BY DEF Init, WholeInv, Busy
<1> QED BY <1>1, WholeStep, AlwaysStaged, PTL DEF Spec

(***************************************************************************)
(* Custom stages are approved in order, and no child is approved while a   *)
(* stage is pending, however the requests of any number of reviewers and   *)
(* of the author fall between each other's reads and writes, unless the    *)
(* stages are replaced between the two halves of the approval; a replaced  *)
(* stage comes back only when a review straddles the resubmission.         *)
(***************************************************************************)
THEOREM StagesAreHeld == Spec => StagesHold
<1>1. Staged => \A i, j \in DOMAIN stages : i < j /\ stages[j] = "approved" => stages[i] = "approved"
  BY DEF Staged, StagesInv
<1>2. Staged /\ [Next]_vars =>
        [\A u \in Reviewer, p \in PP :
           Decides(u) /\ review[u].round = round /\ status[p] # "approved" /\ status'[p] = "approved"
             => Pending = {}]_vars
  <2> SUFFICES ASSUME Staged, Next, NEW u \in Reviewer, NEW p \in PP,
                      Decides(u), review[u].round = round, status[p] # "approved", status'[p] = "approved"
               PROVE  Pending = {}
    BY DEF vars
  <2>0. TypeOK /\ StagesInv /\ review \in [Reviewer -> Request \cup {Idle}] /\ review[u] # review'[u]
        /\ Busy(u) /\ review[u] \in Request /\ review[u].pc = "decide" /\ mode.reviewers \subseteq Reviewer
    BY ReviewAt, EditorialAssumption DEF Staged, TypeOK, Decides, Busy
  <2>1. ASSUME NEW v \in mode.reviewers, NEW op \in Review, Begin(v, op) PROVE FALSE
    BY <2>0, <2>1 DEF Begin
  <2>2. ASSUME NEW v \in mode.reviewers, ClearStage(v) PROVE FALSE
    BY <2>0, <2>2 DEF ClearStage
  <2>3. ASSUME NEW v \in mode.reviewers, Decide(v) PROVE Pending = {}
    <3>1. v = u
      BY <2>0, <2>3 DEF Decide
    <3>2. Target[review[u].op] = "approved"
      BY <2>3, <3>1 DEF Decide
    <3>3. review[u].op = "approve"
      BY <2>0, <3>2 DEF Target, Request, Review
    <3> QED BY <2>0, <3>3 DEF StagesInv
  <2>4. review' # review
    BY <2>0
  <2> QED BY <2>1, <2>2, <2>3, <2>4 DEF Next, SaveDraft, SaveScheduled, Resubmit, Submit, Chip, Remove, Engine
<1>3. WholeInv => mode.straddle \/ revived = {}
  BY DEF WholeInv
<1> QED BY <1>1, <1>2, <1>3, AlwaysStaged, AlwaysWhole, PTL DEF Spec, StagesHold

(***************************************************************************)
(* A stage is approved once in the audit trail, or once by each of two     *)
(* reviewers who both found it pending, for any number of reviewers,       *)
(* stages and submissions.                                                 *)
(***************************************************************************)
THEOREM StageClearedOnce == Spec => StageDecidedOnce
<1>1. Staged /\ WholeInv /\ [Next]_vars =>
        [\A u \in Reviewer : Clears(u) =>
           \A v \in Reviewer : << v, review[u].round, review[u].stage >> \in cleared
                                => mode.straddle /\ v # u]_vars
  <2> SUFFICES ASSUME Staged, WholeInv, NEW u \in Reviewer, Clears(u), NEW v \in Reviewer,
                      << v, review[u].round, review[u].stage >> \in cleared
               PROVE  mode.straddle /\ v # u
    OBVIOUS
  <2>1. Busy(u) /\ review[u].pc = "clear"
    BY DEF Clears, Busy
  <2>2. v # u
    BY <2>1 DEF Staged, StagesInv
  <2>3. ASSUME ~ mode.straddle PROVE FALSE
    <3>1. review[u].round = round /\ stages[review[u].stage] = "pending"
      BY <2>1, <2>3 DEF WholeInv
    <3>2. stages[review[u].stage] = "approved"
      BY <3>1 DEF Staged, StagesInv
    <3> QED BY <3>1, <3>2
  <2> QED BY <2>2, <2>3
<1> QED BY <1>1, AlwaysStaged, AlwaysWhole, PTL DEF Spec, StageDecidedOnce

-----------------------------------------------------------------------------
(***************************************************************************)
(* Refinement of the lifecycle                                             *)
(***************************************************************************)
(* What a decision that met the rows as it had read them does to them.     *)
LEMMA DecidedWhole ==
  ASSUME Staged, NEW u \in Reviewer, Decide(u), review[u].seen = status
  PROVE  LET r == review[u]
         IN  /\ r.op \in Review
             /\ status' = [p \in PP |-> IF p \in Taken(r) THEN Target[r.op] ELSE status[p]]
             /\ decisions' = decisions + DecisionRows(r, Taken(r))
             /\ \A p \in Taken(r) : status[p] \in Eligible[r.op] /\ CanTransition(status[p], Target[r.op])
<1> DEFINE r == review[u]
           taken == Taken(r)
           here == {p \in taken : status[p] # Deleted}
<1>1. r \in Request /\ r.op \in Review
  BY ReviewAt DEF Staged, Decide, Request
<1>2. \A p \in taken : p \in PP /\ status[p] \in Eligible[r.op] /\ CanTransition(status[p], Target[r.op])
  BY DEF Taken
<1>3. here = taken
  BY <1>1, <1>2 DEF Eligible, Review, Deleted
<1>4. PICK S \in SUBSET here :
        /\ IF here = taken THEN S = taken ELSE r.op = "schedule" \/ S = {}
        /\ status' = [p \in PP |-> IF p \in S THEN Target[r.op] ELSE status[p]]
        /\ decisions' = decisions + DecisionRows(r, S)
  BY DEF Decide
<1>5. S = taken
  BY <1>3, <1>4
<1> QED BY <1>1, <1>2, <1>4, <1>5

(* Every step on the rows, but for requests that straddle, is a step of    *)
(* the lifecycle or leaves them alone.                                     *)
LEMMA LifecycleStep ==
  ASSUME Staged, Staged', WholeInv, [Next]_vars, ~ mode.straddle
  PROVE  \A p \in PP : Lifecycle!MayBecome(status[p], status'[p])
<1>0. /\ TypeOK /\ status \in [PP -> Child] /\ mode.reviewers \subseteq Reviewer /\ mode.chips \subseteq PP \X Status
      /\ Selectable \subseteq PP
  BY EditorialAssumption DEF Staged, TypeOK, Selectable
<1>t. \A s, t : Lifecycle!CanTransition(s, t) <=> CanTransition(s, t)
  BY DEF CanTransition, ValidTransitions, Lifecycle!CanTransition, Lifecycle!ValidTransitions
<1> USE DEF Lifecycle!MayBecome, Lifecycle!New, Lifecycle!Deleted
<1>s. Lifecycle!Status = Status
  BY DEF Lifecycle!Status, Status
<1>m. \A s, t \in Status : CanTransition(s, t) \/ (CanTransition(s, "draft") /\ CanTransition("draft", t))
                           => Lifecycle!MayBecome(s, t)
  BY <1>s, <1>t DEF Lifecycle!Moves
<1>c. \A s, t \in Status : CanTransition(s, t) => Lifecycle!MayBecome(s, t)
  BY <1>m
<1>1. CASE UNCHANGED status
  BY <1>1
<1>2. ASSUME NEW u \in mode.reviewers, Decide(u) PROVE \A p \in PP : Lifecycle!MayBecome(status[p], status'[p])
  <2>1. Busy(u) /\ review[u].seen = status /\ u \in Reviewer
    BY <1>0, <1>2, ReviewAt DEF Decide, WholeInv
  <2>2. \A p \in PP : status'[p] = status[p] \/
          (status[p] \in Status /\ status'[p] \in Status /\ CanTransition(status[p], status'[p]))
    BY <1>2, <2>1, DecidedWhole, TargetIs DEF Eligible, Review, Status
  <2> QED BY <1>c, <2>2
<1>syn. ASSUME NEW S \in SUBSET PP, NEW s \in {"draft", "scheduled"}, NEW p \in PP
        PROVE  \/ Synced(S, s)[p] = status[p]
               \/ Synced(S, s)[p] = Deleted
               \/ status[p] = New /\ Synced(S, s)[p] = s
  BY <1>0 DEF Synced
<1>3. ASSUME NEW S \in SUBSET Selectable, SaveDraft(S) PROVE \A p \in PP : Lifecycle!MayBecome(status[p], status'[p])
  <2>1. S \in SUBSET PP
    BY <1>0, <1>3
  <2> QED BY <1>3, <1>syn, <2>1 DEF SaveDraft, New, Deleted
<1>4. ASSUME NEW S \in SUBSET Selectable, SaveScheduled(S) PROVE \A p \in PP : Lifecycle!MayBecome(status[p], status'[p])
  <2> SUFFICES ASSUME NEW p \in PP PROVE Lifecycle!MayBecome(status[p], status'[p])
    OBVIOUS
  <2> DEFINE st == Synced(S, "scheduled")
  <2>1. status'[p] = IF st[p] \in Status THEN Moved(st[p]) ELSE st[p]
    BY <1>4 DEF SaveScheduled
  <2>2. st[p] = status[p] \/ st[p] = Deleted \/ (status[p] = New /\ st[p] = "scheduled")
    <3>1. S \in SUBSET PP
      BY <1>0, <1>4
    <3> QED BY <1>syn, <3>1
  <2> HIDE DEF st
  <2>3. CASE st[p] = Deleted
    BY <2>1, <2>3 DEF Deleted, Status
  <2>4. CASE status[p] = New /\ st[p] = "scheduled"
    BY <2>1, <2>4 DEF Moved, New, Status
  <2>5. CASE st[p] = status[p] /\ status[p] \in Status
    <3>1. status'[p] = status[p] \/ (status'[p] = "scheduled" /\
            (CanTransition(status[p], "scheduled") \/
             (CanTransition(status[p], "draft") /\ CanTransition("draft", "scheduled"))))
      BY <2>1, <2>5 DEF Moved
    <3>2. "scheduled" \in Status
      BY DEF Status
    <3> QED BY <1>m, <2>5, <3>1, <3>2
  <2>6. CASE st[p] = status[p] /\ status[p] \notin Status
    BY <2>1, <2>6
  <2> QED BY <2>2, <2>3, <2>4, <2>5, <2>6
<1>sub. ASSUME NEW S \in SUBSET PP, NEW from \in SUBSET {"draft", "changes_requested", "rejected"}, Submitted(S, from)
        PROVE  \A p \in PP : Lifecycle!MayBecome(status[p], status'[p])
  <2> SUFFICES ASSUME NEW p \in PP PROVE Lifecycle!MayBecome(status[p], status'[p])
    OBVIOUS
  <2>1. status'[p] = IF Synced(S, "draft")[p] \in from THEN "pending_review" ELSE Synced(S, "draft")[p]
    BY <1>sub DEF Submitted
  <2>2. CASE Synced(S, "draft")[p] \notin from
    BY <1>syn, <2>1, <2>2 DEF New, Deleted
  <2>3. CASE Synced(S, "draft")[p] \in from
    <3>1. status[p] = New \/ status[p] \in {"draft", "changes_requested", "rejected"}
      BY <1>syn, <2>3 DEF Deleted
    <3>2. \A s \in {"draft", "changes_requested", "rejected"} :
            s \in Status /\ "pending_review" \in Status /\ CanTransition(s, "pending_review")
      BY DEF CanTransition, ValidTransitions, Status
    <3> QED BY <1>c, <2>1, <2>3, <3>1, <3>2 DEF New
  <2> QED BY <2>2, <2>3
<1>5. ASSUME NEW S \in SUBSET Selectable, NEW n \in 0 .. MaxStages, Submit(S, n)
      PROVE  \A p \in PP : Lifecycle!MayBecome(status[p], status'[p])
  <2>1. S \in SUBSET PP /\ Submitted(S, {"draft", "changes_requested", "rejected"})
    BY <1>0, <1>5 DEF Submit
  <2> QED BY <1>sub, <2>1
<1>6. ASSUME NEW S \in SUBSET Selectable, Resubmit(S) PROVE \A p \in PP : Lifecycle!MayBecome(status[p], status'[p])
  <2>1. S \in SUBSET PP /\ Submitted(S, {"changes_requested", "rejected"})
    BY <1>0, <1>6 DEF Resubmit
  <2>2. {"changes_requested", "rejected"} \in SUBSET {"draft", "changes_requested", "rejected"}
    OBVIOUS
  <2> QED BY <1>sub, <2>1, <2>2
<1>7. ASSUME NEW c \in mode.chips, Chip(c[1], c[2]) PROVE \A p \in PP : Lifecycle!MayBecome(status[p], status'[p])
  <2>1. c[2] \in Status /\ status[c[1]] \in Status /\ CanTransition(status[c[1]], c[2])
        /\ status' = [status EXCEPT ![c[1]] = c[2]]
    BY <1>0, <1>7 DEF Chip
  <2> QED BY <1>0, <1>c, <2>1
<1>8. ASSUME NEW q \in PP, Remove(q) PROVE \A p \in PP : Lifecycle!MayBecome(status[p], status'[p])
  BY <1>0, <1>8 DEF Remove, Deleted
<1>9. ASSUME NEW q \in PP, Engine(q) PROVE \A p \in PP : Lifecycle!MayBecome(status[p], status'[p])
  <2>1. PICK s \in Status : CanTransition(status[q], s) /\ status[q] \in Status /\ status' = [status EXCEPT ![q] = s]
    BY <1>0, <1>9 DEF Engine, CanTransition, ValidTransitions, Status
  <2> QED BY <1>0, <1>c, <2>1
<1> QED BY <1>1, <1>2, <1>3, <1>4, <1>5, <1>6, <1>7, <1>8, <1>9 DEF Next, vars, Begin, ClearStage

LStatus == IF mode.straddle THEN [p \in PP |-> New] ELSE status

(***************************************************************************)
(* The editorial requests, the chip menu and the engine implement the      *)
(* lifecycle of StatusMachine: whatever the order of whole requests, a row *)
(* comes into being, moves and goes only as VALID_TRANSITIONS lets it.     *)
(***************************************************************************)
THEOREM LifecycleImplemented == Spec => FollowsLifecycle
<1>1. Init => Lifecycle!MachineInit
  BY DEF Init, Lifecycle!MachineInit, Lifecycle!New, New
<1>2. Staged /\ Staged' /\ WholeInv /\ [Next]_vars => [Lifecycle!MachineNext]_LStatus
  <2> SUFFICES ASSUME Staged, Staged', WholeInv, [Next]_vars, LStatus' # LStatus PROVE Lifecycle!MachineNext
    OBVIOUS
  <2>1. mode' = mode
    BY DEF Next, vars, Begin, ClearStage, Decide, SaveDraft, SaveScheduled, Resubmit, Submit, Chip, Remove, Engine
  <2>2. ~ mode.straddle
    BY <2>1 DEF LStatus
  <2>3. status' \in [PP -> Child]
    BY DEF Staged, TypeOK
  <2>4. \A p \in PP : Lifecycle!MayBecome(status[p], status'[p])
    BY <2>2, LifecycleStep
  <2> QED BY <2>1, <2>2, <2>3, <2>4 DEF Lifecycle!MachineNext, Child, Lifecycle!New, Lifecycle!Deleted, Lifecycle!Status, New, Deleted, Status
<1> QED BY <1>1, <1>2, AlwaysStaged, AlwaysWhole, PTL DEF Spec, FollowsLifecycle, Lifecycle!Machine, LStatus

-----------------------------------------------------------------------------
(***************************************************************************)
(* One decision per submission                                             *)
(***************************************************************************)
InReview == {p \in PP : status[p] = "pending_review"}

(* The request of u will leave a decision on children it read in review.   *)
Has(u) == Busy(u) /\ review[u].op # "schedule" /\ \E p \in PP : review[u].seen[p] = "pending_review"
Holding == {u \in mode.reviewers : Has(u)}

(* The reviewers that may yet read a child that is in review.              *)
Missing == {u \in mode.reviewers : \E p \in InReview : ~ (Has(u) /\ review[u].seen[p] = "pending_review")}

(* A submission grants every reviewer one decision: it has been taken, is  *)
(* held by a request that has read the submission, or can still be read.   *)
(* Among whole requests it is granted once.                                *)
DecisionsInv ==
  /\ ~ mode.straddle => decisions + (IF InReview = {} THEN 0 ELSE 1) <= submits
  /\ mode.straddle =>
       decisions + Cardinality(Holding) + Cardinality(Missing) <= submits * Cardinality(mode.reviewers)

(* Counting two sets of reviewers when one reviewer moves.                 *)
LEMMA Counting ==
  ASSUME NEW R, IsFiniteSet(R), NEW H \in SUBSET R, NEW M \in SUBSET R, NEW H2 \in SUBSET R, NEW M2 \in SUBSET R
  PROVE  /\ Cardinality(R) \in Nat /\ Cardinality(H) \in Nat /\ Cardinality(M) \in Nat
         /\ Cardinality(H2) \in Nat /\ Cardinality(M2) \in Nat
         /\ H2 \subseteq H => Cardinality(H2) <= Cardinality(H)
         /\ M2 \subseteq M => Cardinality(M2) <= Cardinality(M)
         /\ Cardinality(M2) <= Cardinality(R)
         /\ \A u \in R :
              /\ H2 \subseteq H \cup {u} => Cardinality(H2) <= Cardinality(H) + 1
              /\ M2 \subseteq M \cup {u} => Cardinality(M2) <= Cardinality(M) + 1
              /\ u \in H /\ H2 \subseteq H \ {u} => Cardinality(H2) + 1 <= Cardinality(H)
              /\ u \in M /\ M2 \subseteq M \ {u} => Cardinality(M2) + 1 <= Cardinality(M)
<1>1. \A X \in SUBSET R : IsFiniteSet(X) /\ Cardinality(X) \in Nat
  BY FS_Subset, FS_CardinalityType
<1>2. \A X, Y \in SUBSET R : X \subseteq Y => Cardinality(X) <= Cardinality(Y)
  BY <1>1, FS_Subset
<1>3. \A X \in SUBSET R, u \in R : Cardinality(X \cup {u}) <= Cardinality(X) + 1 /\ X \cup {u} \in SUBSET R
  <2> SUFFICES ASSUME NEW X \in SUBSET R, NEW u \in R
               PROVE  Cardinality(X \cup {u}) <= Cardinality(X) + 1 /\ X \cup {u} \in SUBSET R
    OBVIOUS
  <2>1. IsFiniteSet(X) /\ Cardinality(X) \in Nat
    BY <1>1
  <2>2. Cardinality(X \cup {u}) = IF u \in X THEN Cardinality(X) ELSE Cardinality(X) + 1
    BY <2>1, FS_AddElement
  <2> QED BY <2>1, <2>2
<1>4. \A X \in SUBSET R, u \in R : u \in X => Cardinality(X \ {u}) = Cardinality(X) - 1 /\ X \ {u} \in SUBSET R
  BY <1>1, FS_RemoveElement
<1>5. ASSUME NEW X \in SUBSET R, NEW Y \in SUBSET R, NEW u \in R
      PROVE  /\ X \subseteq Y \cup {u} => Cardinality(X) <= Cardinality(Y) + 1
             /\ u \in Y /\ X \subseteq Y \ {u} => Cardinality(X) + 1 <= Cardinality(Y)
  <2>1. Cardinality(X) \in Nat /\ Cardinality(Y) \in Nat /\ Cardinality(Y \cup {u}) \in Nat
    BY <1>1, <1>3
  <2>2. X \subseteq Y \cup {u} => Cardinality(X) <= Cardinality(Y) + 1
    <3>1. Y \cup {u} \in SUBSET R /\ Cardinality(Y \cup {u}) <= Cardinality(Y) + 1
      BY <1>3
    <3>2. X \subseteq Y \cup {u} => Cardinality(X) <= Cardinality(Y \cup {u})
      BY <1>2, <3>1
    <3> QED BY <2>1, <3>1, <3>2
  <2>3. u \in Y /\ X \subseteq Y \ {u} => Cardinality(X) + 1 <= Cardinality(Y)
    <3>1. u \in Y => Y \ {u} \in SUBSET R /\ Cardinality(Y \ {u}) = Cardinality(Y) - 1
      BY <1>4
    <3>2. u \in Y /\ X \subseteq Y \ {u} => Cardinality(X) <= Cardinality(Y \ {u})
      BY <1>2, <3>1
    <3> QED BY <2>1, <3>1, <3>2
  <2> QED BY <2>2, <2>3
<1>6. R \in SUBSET R
  OBVIOUS
<1> QED BY <1>1, <1>2, <1>5, <1>6

(* What the author and the engine do: they decide nothing, and children    *)
(* come into review only with a submission.                                *)
AuthorMoves ==
  /\ Alone(Reviewer) /\ review' = review /\ mode' = mode /\ decisions' = decisions
  /\ submits' = submits + 1 \/ (submits' = submits /\ InReview' \subseteq InReview)

ReviewMoves ==
  \E u \in mode.reviewers : (\E op \in Review : Begin(u, op)) \/ ClearStage(u) \/ Decide(u)

(* A step that is none of a reviewer is one of the author.                 *)
LEMMA AuthorSteps ==
  ASSUME TypeOK, Next, ~ ReviewMoves
  PROVE  AuthorMoves
<1>0. status \in [PP -> Child] /\ Selectable \subseteq PP /\ mode.chips \subseteq PP \X Status
  BY EditorialAssumption DEF TypeOK, Selectable
<1>syn. ASSUME NEW S, NEW s \in {"draft", "scheduled"}, NEW p \in PP
        PROVE  \/ Synced(S, s)[p] = status[p]
               \/ Synced(S, s)[p] \in {Deleted, s}
  BY <1>0 DEF Synced
<1>1. ASSUME NEW S \in SUBSET Selectable, SaveDraft(S) PROVE AuthorMoves
  BY <1>1, <1>syn DEF SaveDraft, AuthorMoves, InReview, Deleted
<1>2. ASSUME NEW S \in SUBSET Selectable, SaveScheduled(S) PROVE AuthorMoves
  <2>1. \A p \in PP : status'[p] = "pending_review" => Synced(S, "scheduled")[p] = "pending_review"
    BY <1>2 DEF SaveScheduled, Moved
  <2> QED BY <1>2, <1>syn, <2>1 DEF SaveScheduled, AuthorMoves, InReview, Deleted
<1>sub. ASSUME NEW S, NEW from, Submitted(S, from)
        PROVE  submits' = submits + 1 \/ (submits' = submits /\ InReview' \subseteq InReview)
  <2> DEFINE up == {p \in PP : Synced(S, "draft")[p] \in from}
  <2>1. /\ status' = [p \in PP |-> IF p \in up THEN "pending_review" ELSE Synced(S, "draft")[p]]
        /\ submits' = IF up = {} THEN submits ELSE submits + 1
    BY <1>sub DEF Submitted
  <2>2. CASE up = {}
    BY <1>syn, <2>1, <2>2 DEF InReview, Deleted
  <2> QED BY <2>1, <2>2
<1>3. ASSUME NEW S \in SUBSET Selectable, NEW n \in 0 .. MaxStages, Submit(S, n) PROVE AuthorMoves
  BY <1>3, <1>sub DEF Submit, AuthorMoves
<1>4. ASSUME NEW S \in SUBSET Selectable, Resubmit(S) PROVE AuthorMoves
  BY <1>4, <1>sub DEF Resubmit, AuthorMoves
<1>5. ASSUME NEW c \in mode.chips, Chip(c[1], c[2]) PROVE AuthorMoves
  BY <1>0, <1>5 DEF Chip, AuthorMoves, InReview
<1>6. ASSUME NEW p \in PP, Remove(p) PROVE AuthorMoves
  BY <1>0, <1>6 DEF Remove, AuthorMoves, InReview, Deleted
<1>7. ASSUME NEW p \in PP, Engine(p) PROVE AuthorMoves
  BY <1>0, <1>7 DEF Engine, AuthorMoves, InReview
<1> QED BY <1>1, <1>2, <1>3, <1>4, <1>5, <1>6, <1>7 DEF Next, ReviewMoves

(* A request other than a schedule takes the children it read in review.   *)
LEMMA TakenInReview ==
  ASSUME NEW r, r.op \in Review, r.op # "schedule"
  PROVE  Taken(r) = {p \in PP : r.seen[p] = "pending_review"} /\ Target[r.op] # "pending_review"
BY DEF Taken, Review, Eligible, Target, CanTransition, ValidTransitions

(* A request that begins in a submission holds it and misses it no more.   *)
LEMMA BeginHolds ==
  ASSUME Staged, NEW u \in mode.reviewers, NEW op \in Review, Begin(u, op)
  PROVE  /\ mode' = mode /\ submits' = submits /\ decisions' = decisions /\ InReview' = InReview
         /\ \/ Holding' \subseteq Holding /\ Missing' \subseteq Missing
            \/ u \in Missing /\ Holding' \subseteq Holding \cup {u} /\ Missing' \subseteq Missing \ {u}
<1>0. u \in Reviewer /\ mode.reviewers \subseteq Reviewer /\ review \in [Reviewer -> Request \cup {Idle}]
  BY EditorialAssumption DEF Staged, TypeOK
<1> DEFINE stage == IF op = "approve" THEN FirstPending ELSE 0
           r == [pc |-> IF stage = 0 THEN "decide" ELSE "clear", op |-> op,
                 seen |-> status, stage |-> stage, round |-> round]
<1>1. /\ review' = [review EXCEPT ![u] = r] /\ r.seen = status /\ r.op = op /\ ~ Busy(u)
      /\ mode' = mode /\ submits' = submits /\ decisions' = decisions /\ status' = status
  BY DEF Begin, Busy
<1>2. r # Idle
  BY DEF Idle
<1> HIDE DEF r
<1>3. review'[u] = r /\ \A v \in Reviewer \ {u} : review'[v] = review[v]
  BY <1>0, <1>1
<1>4. InReview' = InReview
  BY <1>1 DEF InReview
<1>5. \A v \in Reviewer \ {u} : Has(v)' = Has(v)
  BY <1>3 DEF Has, Busy
<1>6. ~ Has(u)
  BY <1>1 DEF Has
<1>7. Has(u)' <=> op # "schedule" /\ InReview # {}
  BY <1>1, <1>2, <1>3 DEF Has, Busy, InReview
<1>8. CASE Has(u)'
  <2>1. u \in Missing
    BY <1>6, <1>7, <1>8 DEF Missing
  <2>2. u \notin Missing'
    BY <1>1, <1>3, <1>4, <1>8 DEF Missing, InReview
  <2>3. Missing' \subseteq Missing \cup {u}
    BY <1>0, <1>1, <1>3, <1>4, <1>5 DEF Missing
  <2>4. Holding' \subseteq Holding \cup {u}
    BY <1>0, <1>1, <1>5 DEF Holding
  <2> QED BY <1>1, <1>4, <2>1, <2>2, <2>3, <2>4
<1>9. CASE ~ Has(u)'
  <2>1. Holding' \subseteq Holding
    BY <1>0, <1>1, <1>5, <1>9 DEF Holding
  <2>2. Missing' \subseteq Missing
    BY <1>0, <1>1, <1>3, <1>4, <1>5, <1>6, <1>9 DEF Missing
  <2> QED BY <1>1, <1>4, <2>1, <2>2
<1> QED BY <1>8, <1>9

(* A request that ends, or goes on with what it read, while no child comes *)
(* into review: it gives up what it held and is then missing it, unless it *)
(* held the whole submission and took it out of review.                    *)
LEMMA OthersHold ==
  ASSUME Staged, NEW u \in mode.reviewers, mode' = mode, InReview' \subseteq InReview,
         \A v \in Reviewer \ {u} : review'[v] = review[v], ~ Has(u)'
  PROVE  /\ Holding' \subseteq Holding \ {u}
         /\ Missing' \subseteq Missing \cup {u}
         /\ ~ Has(u) => Missing' \subseteq Missing
         /\ InReview' \cap {p \in PP : review[u].seen[p] = "pending_review"} = {} => Missing' \subseteq Missing
<1>0. u \in Reviewer /\ mode.reviewers \subseteq Reviewer
  BY EditorialAssumption DEF Staged, TypeOK
<1>1. \A v \in Reviewer \ {u} : Has(v)' = Has(v)
  BY DEF Has, Busy
<1>2. Holding' \subseteq Holding \ {u}
  BY <1>0, <1>1 DEF Holding
<1>3. \A v \in mode.reviewers \ {u} : v \in Missing' => v \in Missing
  BY <1>0, <1>1 DEF Missing
<1>4. Missing' \subseteq Missing \cup {u}
  BY <1>3 DEF Missing
<1>5. ASSUME ~ Has(u) \/ InReview' \cap {p \in PP : review[u].seen[p] = "pending_review"} = {}, u \in Missing'
      PROVE  u \in Missing
  <2>1. PICK p \in InReview' : p \in PP /\ p \in InReview
    BY <1>5 DEF Missing, InReview
  <2> QED BY <1>5, <2>1 DEF Missing, InReview
<1> QED BY <1>2, <1>3, <1>4, <1>5

(* Clearing a stage goes on with what was read, or gives it up.            *)
LEMMA ClearHolds ==
  ASSUME Staged, NEW u \in mode.reviewers, ClearStage(u)
  PROVE  /\ mode' = mode /\ submits' = submits /\ decisions' = decisions /\ InReview' = InReview
         /\ \/ Holding' \subseteq Holding /\ Missing' \subseteq Missing
            \/ u \in Holding /\ Holding' \subseteq Holding \ {u} /\ Missing' \subseteq Missing \cup {u}
<1>0. u \in Reviewer /\ mode.reviewers \subseteq Reviewer /\ review \in [Reviewer -> Request \cup {Idle}]
  BY EditorialAssumption DEF Staged, TypeOK
<1>1. Busy(u) /\ review[u] \in Request
  BY <1>0, ReviewAt DEF Staged, ClearStage
<1>2. /\ mode' = mode /\ submits' = submits /\ decisions' = decisions /\ status' = status
      /\ review' = [review EXCEPT ![u] = IF gone \/ Ends(stages') THEN Idle ELSE [review[u] EXCEPT !.pc = "decide"]]
  BY <1>0 DEF ClearStage
<1>3. InReview' = InReview /\ \A v \in Reviewer \ {u} : review'[v] = review[v]
  BY <1>0, <1>2 DEF InReview
<1>4. CASE review'[u] = Idle
  <2>1. ~ Has(u)'
    BY <1>4 DEF Has, Busy
  <2>2. /\ Holding' \subseteq Holding \ {u}
        /\ Missing' \subseteq Missing \cup {u}
        /\ ~ Has(u) => Missing' \subseteq Missing
    BY <1>2, <1>3, <2>1, OthersHold
  <2> QED BY <1>2, <1>3, <2>2 DEF Holding
<1>5. CASE review'[u] = [review[u] EXCEPT !.pc = "decide"]
  <2>1. review'[u].op = review[u].op /\ review'[u].seen = review[u].seen
    BY <1>1, <1>5 DEF Request
  <2>2. \A v \in Reviewer : (Has(v)' => Has(v)) /\ (Has(v) => review'[v].seen = review[v].seen)
    BY <1>1, <1>3, <2>1 DEF Has, Busy
  <2>3. Busy(u)'
    BY <1>1, <1>5 DEF Busy, Idle, Request
  <2>4. \A v \in Reviewer : Has(v) => Has(v)'
    BY <1>1, <1>3, <2>1, <2>3 DEF Has, Busy
  <2> QED BY <1>0, <1>2, <1>3, <2>2, <2>4 DEF Holding, Missing
<1> QED BY <1>0, <1>2, <1>4, <1>5

(* A decision uses up what its request held.                               *)
LEMMA DecideHolds ==
  ASSUME Staged, NEW u \in mode.reviewers, Decide(u)
  PROVE  /\ mode' = mode /\ submits' = submits /\ InReview' \subseteq InReview
         /\ Holding' \subseteq Holding \ {u}
         /\ \/ decisions' = decisions /\ Missing' \subseteq Missing
            \/ u \in Holding /\ decisions' = decisions /\ Missing' \subseteq Missing \cup {u}
            \/ u \in Holding /\ decisions' = decisions + 1 /\ Missing' \subseteq Missing
<1>0. u \in Reviewer /\ review \in [Reviewer -> Request \cup {Idle}] /\ decisions \in Nat
  BY EditorialAssumption DEF Staged, TypeOK
<1> DEFINE r == review[u]
           taken == Taken(r)
           here == {p \in taken : status[p] # Deleted}
<1>1. Busy(u) /\ r \in Request /\ r.op \in Review
  BY <1>0, ReviewAt DEF Staged, Decide, Request
<1>2. PICK S \in SUBSET here :
        /\ IF here = taken THEN S = taken ELSE r.op = "schedule" \/ S = {}
        /\ status' = [p \in PP |-> IF p \in S THEN Target[r.op] ELSE status[p]]
        /\ decisions' = decisions + DecisionRows(r, S)
  BY DEF Decide
<1>3. mode' = mode /\ submits' = submits /\ review' = [review EXCEPT ![u] = Idle]
  BY DEF Decide
<1>4. ~ Has(u)' /\ \A v \in Reviewer \ {u} : review'[v] = review[v]
  BY <1>0, <1>3 DEF Has, Busy
<1>5. Target[r.op] # "pending_review"
  BY <1>1 DEF Target, Review
<1>6. InReview' \subseteq InReview
  BY <1>2, <1>5 DEF InReview
<1>7. /\ Holding' \subseteq Holding \ {u}
      /\ Missing' \subseteq Missing \cup {u}
      /\ ~ Has(u) => Missing' \subseteq Missing
      /\ InReview' \cap {p \in PP : r.seen[p] = "pending_review"} = {} => Missing' \subseteq Missing
  BY <1>3, <1>4, <1>6, OthersHold
<1>8. CASE r.op = "schedule"
  <2>1. decisions' = decisions /\ ~ Has(u)
    BY <1>0, <1>2, <1>8 DEF DecisionRows, Has
  <2> QED BY <1>3, <1>6, <1>7, <2>1
<1>9. CASE r.op # "schedule"
  <2>1. taken = {p \in PP : r.seen[p] = "pending_review"}
    BY <1>1, <1>9, TakenInReview
  <2>2. CASE S = {}
    <3>1. decisions' = decisions
      BY <1>0, <1>2, <2>2 DEF DecisionRows
    <3>2. Has(u) => u \in Holding
      BY DEF Holding
    <3> QED BY <1>3, <1>6, <1>7, <3>1, <3>2
  <2>3. CASE S # {}
    <3>1. S = taken /\ decisions' = decisions + 1
      BY <1>2, <1>9, <2>3 DEF DecisionRows
    <3>2. u \in Holding
      BY <1>1, <1>9, <2>1, <2>3, <3>1 DEF Holding, Has
    <3>3. InReview' \cap {p \in PP : r.seen[p] = "pending_review"} = {}
      BY <1>2, <1>5, <2>1, <3>1 DEF InReview
    <3> QED BY <1>3, <1>6, <1>7, <3>1, <3>2, <3>3
  <2> QED BY <2>2, <2>3
<1> QED BY <1>8, <1>9

(* Every step keeps the count of the decisions.                            *)
LEMMA DecisionsStep ==
  ASSUME Staged, Staged', WholeInv, DecisionsInv, [Next]_vars
  PROVE  DecisionsInv'
<1> DEFINE R == mode.reviewers
           N == Cardinality(R)
<1>0. R \subseteq Reviewer /\ IsFiniteSet(R) /\ N \in Nat /\ submits \in Nat /\ decisions \in Nat
  BY EditorialAssumption, FS_Subset, FS_CardinalityType DEF Staged, TypeOK
<1>m. submits * N \in Nat /\ (submits + 1) * N = submits * N + N
  BY <1>0
<1>1. CASE UNCHANGED vars
  BY <1>1 DEF vars, DecisionsInv, Holding, Missing, InReview, Has, Busy
<1>2. CASE ReviewMoves
  <2>1. PICK u \in R : (\E op \in Review : Begin(u, op)) \/ ClearStage(u) \/ Decide(u)
    BY <1>2 DEF ReviewMoves
  <2>2. /\ mode' = mode /\ submits' = submits /\ InReview' \subseteq InReview
        /\ \/ decisions' = decisions /\ Holding' \subseteq Holding /\ Missing' \subseteq Missing
           \/ decisions' = decisions /\ u \in Missing /\ Holding' \subseteq Holding \cup {u} /\ Missing' \subseteq Missing \ {u}
           \/ decisions' = decisions /\ u \in Holding /\ Holding' \subseteq Holding \ {u} /\ Missing' \subseteq Missing \cup {u}
           \/ decisions' = decisions + 1 /\ u \in Holding /\ Holding' \subseteq Holding \ {u} /\ Missing' \subseteq Missing
    BY <2>1, BeginHolds, ClearHolds, DecideHolds
  <2>3. CASE ~ mode.straddle
    <3>1. decisions' = decisions \/ Decide(u)
      BY <2>1, BeginHolds, ClearHolds
    <3>2. CASE decisions' = decisions
      BY <1>0, <2>2, <2>3, <3>2 DEF DecisionsInv
    <3>3. CASE Decide(u) /\ decisions' # decisions
      <4> DEFINE r == review[u]
      <4>1. u \in Reviewer /\ Busy(u) /\ r.seen = status
        BY <1>0, <2>3, <3>3, ReviewAt DEF Staged, Decide, WholeInv
      <4>2. /\ r.op \in Review
            /\ status' = [p \in PP |-> IF p \in Taken(r) THEN Target[r.op] ELSE status[p]]
            /\ decisions' = decisions + DecisionRows(r, Taken(r))
        BY <3>3, <4>1, DecidedWhole
      <4>3. Taken(r) # {} /\ r.op # "schedule" /\ decisions' = decisions + 1
        BY <1>0, <3>3, <4>2 DEF DecisionRows
      <4>4. Taken(r) = InReview /\ Target[r.op] # "pending_review"
        BY <4>1, <4>2, <4>3, TakenInReview DEF InReview
      <4>5. InReview # {} /\ InReview' = {}
        BY <4>2, <4>3, <4>4 DEF InReview
      <4> QED BY <1>0, <2>2, <2>3, <4>3, <4>5 DEF DecisionsInv
    <3> QED BY <3>1, <3>2, <3>3
  <2>4. CASE mode.straddle
    <3>1. Holding \in SUBSET R /\ Missing \in SUBSET R /\ Holding' \in SUBSET R /\ Missing' \in SUBSET R
      BY <2>2 DEF Holding, Missing
    <3> DEFINE h == Cardinality(Holding)  m == Cardinality(Missing)
               h2 == Cardinality(Holding')  m2 == Cardinality(Missing')
    <3>2. /\ h \in Nat /\ m \in Nat /\ h2 \in Nat /\ m2 \in Nat
          /\ Holding' \subseteq Holding => h2 <= h
          /\ Missing' \subseteq Missing => m2 <= m
          /\ Holding' \subseteq Holding \cup {u} => h2 <= h + 1
          /\ Missing' \subseteq Missing \cup {u} => m2 <= m + 1
          /\ u \in Holding /\ Holding' \subseteq Holding \ {u} => h2 + 1 <= h
          /\ u \in Missing /\ Missing' \subseteq Missing \ {u} => m2 + 1 <= m
      <4> HIDE DEF R
      <4> QED BY <1>0, <3>1, Counting
    <3>3. decisions + h + m <= submits * N
      BY <2>4 DEF DecisionsInv
    <3>4. decisions' \in Nat /\ decisions' + h2 + m2 <= submits * N
      <4> HIDE DEF h, m, h2, m2, N
      <4> QED BY <1>0, <1>m, <2>2, <3>2, <3>3
    <3> QED BY <2>2, <2>4, <3>4 DEF DecisionsInv
  <2> QED BY <2>3, <2>4
<1>3. CASE Next /\ ~ ReviewMoves
  <2>1. AuthorMoves
    BY <1>3, AuthorSteps DEF Staged
  <2>2. CASE ~ mode.straddle
    BY <1>0, <2>1, <2>2 DEF AuthorMoves, DecisionsInv
  <2>3. CASE mode.straddle
    <3>1. mode' = mode /\ decisions' = decisions /\ review' = review /\ Holding' = Holding
      BY <2>1 DEF AuthorMoves, Holding, Has, Busy
    <3>2. Holding \in SUBSET R /\ Missing \in SUBSET R /\ Missing' \in SUBSET R
      BY <3>1 DEF Holding, Missing
    <3> DEFINE h == Cardinality(Holding)  m == Cardinality(Missing)  m2 == Cardinality(Missing')
    <3>3. h \in Nat /\ m \in Nat /\ m2 \in Nat /\ m2 <= N /\ (Missing' \subseteq Missing => m2 <= m)
      <4> HIDE DEF R
      <4> QED BY <1>0, <3>2, Counting
    <3>4. decisions + h + m <= submits * N
      BY <2>3 DEF DecisionsInv
    <3>5. CASE submits' = submits + 1
      <4>1. decisions' + h + m2 <= submits' * N
        <5>1. submits' * N = submits * N + N
          BY <1>m, <3>5
        <5> HIDE DEF h, m, m2, N
        <5> QED BY <1>0, <1>m, <3>1, <3>3, <3>4, <5>1
      <4> QED BY <2>3, <3>1, <4>1 DEF DecisionsInv
    <3>6. CASE submits' = submits /\ InReview' \subseteq InReview
      <4>1. Missing' \subseteq Missing
        BY <3>1, <3>6 DEF Missing, Has, Busy
      <4>2. decisions' + h + m2 <= submits' * N
        <5> HIDE DEF h, m, m2, N
        <5> QED BY <1>0, <1>m, <3>1, <3>3, <3>4, <3>6, <4>1
      <4> QED BY <2>3, <3>1, <4>2 DEF DecisionsInv
    <3> QED BY <2>1, <3>5, <3>6 DEF AuthorMoves
  <2> QED BY <2>2, <2>3
<1> QED BY <1>1, <1>2, <1>3

(***************************************************************************)
(* The audit trail decides a submission at most once when requests do not  *)
(* straddle, and at most once for every reviewer when they do, for any     *)
(* number of reviewers, accounts and submissions.                          *)
(***************************************************************************)
THEOREM DecidedOnce == Spec => []OneDecisionPerSubmission
<1>1. Init => DecisionsInv
  <2> SUFFICES ASSUME Init PROVE DecisionsInv
    OBVIOUS
  <2>1. mode.reviewers \subseteq Reviewer /\ IsFiniteSet(mode.reviewers) /\ Cardinality(mode.reviewers) \in Nat
    BY EditorialAssumption, FS_Subset, FS_CardinalityType DEF Init
  <2>2. InReview = {} /\ Holding = {} /\ Missing = {}
    BY <2>1 DEF Init, InReview, Holding, Missing, Has, Busy, New
  <2>3. Cardinality(Holding) = 0 /\ Cardinality(Missing) = 0
    BY <2>2, FS_EmptySet
  <2> QED BY <2>1, <2>2, <2>3 DEF Init, DecisionsInv
<1>2. Staged /\ DecisionsInv => OneDecisionPerSubmission
  <2> SUFFICES ASSUME Staged, DecisionsInv PROVE OneDecisionPerSubmission
    OBVIOUS
  <2>1. IsFiniteSet(mode.reviewers) /\ decisions \in Nat /\ submits \in Nat
    BY EditorialAssumption, FS_Subset DEF Staged, TypeOK
  <2>2. Cardinality(Holding) \in Nat /\ Cardinality(Missing) \in Nat /\ Cardinality(mode.reviewers) \in Nat
    <3>1. Holding \subseteq mode.reviewers /\ Missing \subseteq mode.reviewers
      BY DEF Holding, Missing
    <3> QED BY <2>1, <3>1, FS_Subset, FS_CardinalityType
  <2> QED BY <2>1, <2>2 DEF DecisionsInv, OneDecisionPerSubmission
<1> QED BY <1>1, <1>2, DecisionsStep, AlwaysStaged, AlwaysWhole, PTL DEF Spec
=============================================================================
