--------------------------- MODULE Tenancy_proofs ---------------------------
(***************************************************************************)
(* Machine-checked theorems about accounts, members, invitations and the   *)
(* deletion of organizations, for every value of the constants.            *)
(***************************************************************************)
EXTENDS Tenancy, FiniteSetTheorems, TLAPS

(***************************************************************************)
(* Types.  TypeOK of Tenancy says which rows refer to which; what follows  *)
(* says what the rows and the jobs are.                                    *)
(***************************************************************************)
Roles == {"owner", "admin", "member", None}
Grades == {"admin", "member"}
Maybe == Org \cup {None}

DB == [ orgs   : SUBSET Org,
        role   : [Org -> [User -> Roles]],
        ws     : [Org -> [Ws -> {"active", "archived", None}]],
        access : SUBSET (Org \X Ws \X User),
        due    : [Org -> {Never} \cup 0 .. Grace],
        tasks  : [Org -> SUBSET (0 .. Grace)] ]

Invitation == [org : Org, to : User, role : Grades, ws : 0 .. MaxWs, open : BOOLEAN, accepted : BOOLEAN]

Accepting == {"join", "assign", "mark"}
Acceptance == [pc : Accepting \cup {"clean"}, user : User, org : Maybe, inv : Inv, ws : 0 .. MaxWs,
               role : Grades, signup : BOOLEAN]
Plain  == [pc : {"profile", "leave", "deactivate", "schedule", "clear"}, user : User, org : Maybe]
Regrading == [pc : {"regrade"}, user : User, org : Maybe, role : Grades]
Quitting  == [pc : {"quit"}, user : User, org : {None}, owned : SUBSET Org]
Write  == [pc : {"write"}, user : User, org : Maybe, ws : Ws, what : {"archive", "delete", "settings"},
           seen : {"active", "archived"}]
Purging  == [pc : {"purge", "settle"}, user : User \cup {None}, org : Maybe, rest : SUBSET User]
Founding == [pc : {"found"}, user : User \cup {None}, org : Maybe, rest : SUBSET User, made : 1 .. 3]
(* Only a signup has something to clean up.                                *)
AnyJob == {Idle} \cup {j \in Acceptance : j.pc = "clean" => j.signup} \cup Plain \cup Write \cup Purging
          \cup Regrading \cup Quitting \cup Founding

Typed ==
  /\ account \in [User -> {"active", "inactive", None}]
  /\ db \in DB
  /\ inv \in [Inv -> Invitation \cup {Blank}]
  /\ job \in [Job -> AnyJob]
  /\ used \in 0 .. MaxRequests /\ crashes \in 0 .. MaxCrashes
  /\ age \in [Org -> 0 .. Grace]
  /\ joined \in [Inv -> SUBSET User]
  /\ spoiled \subseteq Inv /\ crossed \subseteq Org /\ half \subseteq Org /\ raced \subseteq Org

(* A job that holds an organization holds one that exists, and one that    *)
(* accepts an invitation holds the organization of the invitation.         *)
JobsLinked ==
  \A h \in Job :
    /\ job[h].pc \notin {"idle", "settle"} => job[h].org \in db.orgs \cup {None}
    /\ job[h].pc = "quit" => job[h].owned \subseteq db.orgs
    /\ job[h].pc \in Accepting \cup {"clean"} /\ job[h].org # None =>
         inv[job[h].inv] # Blank /\ inv[job[h].inv].org = job[h].org

Linked == Typed /\ TypeOK /\ JobsLinked

(***************************************************************************)
(* The inductive invariants of the other theorems                          *)
(***************************************************************************)
(* Nobody but the founder has a foot in the organization, and no request   *)
(* in flight is about it.                                                  *)
Away(j, o) ==
  /\ j.pc \notin {"idle", "settle", "found"} => j.org # o
  /\ j.pc = "quit" => o \notin j.owned
Secluded(o) ==
  /\ \A u \in User : db.role[o][u] # None => u = o
  /\ \A a \in db.access : a[1] = o => a[3] = o
  /\ \A i \in Inv : inv[i].org # o
  /\ db.tasks[o] = {}
  /\ \A g \in Job : Away(job[g], o)

(* Somebody who is signing up by invitation owns no other organization.    *)
Humble(u) == \A o \in Org \ {u} : db.role[o][u] # "owner"

SignupsPrivate == \A u \in SigningUp : Secluded(u) /\ Humble(u)

(* An organization that is no more than a row yet.                         *)
Founds(h, o) == job[h].pc = "found" /\ job[h].org = o
Bare(o) ==
  /\ Secluded(o) /\ db.role[o][o] = None
  /\ \A a \in db.access : a[1] # o

FoundingsBare ==
  \A h \in Job, o \in Org : Founds(h, o) /\ job[h].made = 1 => Bare(o) /\ \A g \in Job : Founds(g, o) => g = h

(* Who is about to take the role of an owner leaves another, and nobody    *)
(* else is about to.                                                       *)
OwnersLeft(o) ==
  /\ Owners(db, o) # {} \/ (o \in half /\ \A h \in Job : Founds(h, o) => job[h].made = 1)
  /\ \A h \in Job : Takes(h, o) => \E v \in Owners(db, o) : v # job[h].user
  /\ \A g, h \in Job : Takes(g, o) /\ Takes(h, o) => g = h

OwnersStay == \A o \in db.orgs : o \in raced \/ OwnersLeft(o)

(* The acceptances of an invitation that can still write.                  *)
Accepts(h, i) == job[h].pc \in Accepting /\ job[h].inv = i /\ job[h].org # None

SpentOnce(i) ==
  /\ \A g, h \in Job : Accepts(g, i) /\ Accepts(h, i) => g = h
  /\ \A h \in Job : Accepts(h, i) => joined[i] = IF job[h].pc = "join" THEN {} ELSE {job[h].user}
  /\ (\A h \in Job : ~Accepts(h, i)) /\ joined[i] # {} => inv[i] = Blank \/ inv[i].accepted
  /\ \A u, v \in joined[i] : u = v

InvitationsSpent == \A i \in Inv : i \in spoiled \/ SpentOnce(i)

(* A request that will write to a workspace leaves an active one.          *)
Writes(h, o) == job[h].pc = "write" /\ job[h].org = o
Leaves(j, o) == (j.what = "settings" /\ j.seen = "active") \/ \E n \in Active(o) : n # j.ws

NoWorkspace(o) == \A n \in Ws : db.ws[o][n] = None

WorkspacesLeft ==
  \A o \in Org : o \in crossed \/
    /\ o \in db.orgs => Active(o) # {} \/ (o \in half /\ NoWorkspace(o))
    /\ \A g, h \in Job : Writes(g, o) /\ Writes(h, o) => g = h
    /\ \A h \in Job : Writes(h, o) => Leaves(job[h], o)

(* What is left of the grace period and what has passed of it.             *)
GraceCounted == \A o \in Org : db.due[o] # Never => db.due[o] + age[o] >= Grace

-----------------------------------------------------------------------------
(***************************************************************************)
(* Operators                                                               *)
(***************************************************************************)
LEMMA Constants ==
  /\ None \notin User /\ 1 \in Ws /\ MaxWs \in Nat /\ Grace \in Nat \ {0}
  /\ Invited \subseteq Grades /\ Invited \cup {"owner"} \subseteq Roles \ {None}
  /\ 0 \in 0 .. MaxWs /\ Ws \subseteq 0 .. MaxWs
BY TenancyAssumption DEF None, Ws, Grades, Roles

(* What the writes K of a provisioning leave in each table.                *)
Makes(K, u, d, e) ==
  /\ e \in DB /\ e.due = d.due /\ e.tasks = d.tasks
  /\ e.orgs = IF 1 \in K THEN d.orgs \cup {u} ELSE d.orgs
  /\ \A o \in Org, v \in User : e.role[o][v] = IF 2 \in K /\ o = u /\ v = u THEN "owner" ELSE d.role[o][v]
  /\ \A o \in Org, n \in Ws : e.ws[o][n] = IF 3 \in K /\ o = u /\ n = 1 THEN "active" ELSE d.ws[o][n]
  /\ e.access = IF 4 \in K THEN d.access \cup {<< u, 1, u >>} ELSE d.access

LEMMA FoundedRows ==
  ASSUME NEW d \in DB, NEW u \in User, NEW K
  PROVE  Makes(K, u, d, Founded(d, u, K))
<1> DEFINE orgs == IF 1 \in K THEN d.orgs \cup {u} ELSE d.orgs
           role == [d.role EXCEPT ![u][u] = IF 2 \in K THEN "owner" ELSE @]
           ws   == [d.ws EXCEPT ![u][1] = IF 3 \in K THEN "active" ELSE @]
           access == IF 4 \in K THEN d.access \cup {<< u, 1, u >>} ELSE d.access
<1>0. u \in Org /\ 1 \in Ws
  BY Constants DEF Org
<1>1. /\ orgs \in SUBSET Org /\ role \in [Org -> [User -> Roles]]
      /\ ws \in [Org -> [Ws -> {"active", "archived", None}]]
      /\ access \in SUBSET (Org \X Ws \X User)
  BY <1>0 DEF DB, Roles
<1>2. /\ \A o \in Org, v \in User : role[o][v] = IF 2 \in K /\ o = u /\ v = u THEN "owner" ELSE d.role[o][v]
      /\ \A o \in Org, n \in Ws : ws[o][n] = IF 3 \in K /\ o = u /\ n = 1 THEN "active" ELSE d.ws[o][n]
  BY <1>0 DEF DB
<1>3. Founded(d, u, K) = [d EXCEPT !.orgs = orgs, !.role = role, !.ws = ws, !.access = access]
  BY <1>0 DEF Founded, DB
<1> HIDE DEF orgs, role, ws, access
<1>4. /\ Founded(d, u, K) \in DB /\ Founded(d, u, K).orgs = orgs /\ Founded(d, u, K).role = role
      /\ Founded(d, u, K).ws = ws /\ Founded(d, u, K).access = access
      /\ Founded(d, u, K).due = d.due /\ Founded(d, u, K).tasks = d.tasks
  BY <1>1, <1>3 DEF DB
<1> QED BY <1>2, <1>4 DEF orgs, access, Makes

(* An organization goes with its roles, its workspaces and the access to   *)
(* them; the rest stays.                                                   *)
LEMMA WithoutOrgRows ==
  ASSUME NEW d \in DB, NEW o \in Org
  PROVE  /\ WithoutOrg(d, o) \in DB
         /\ WithoutOrg(d, o).orgs = d.orgs \ {o}
         /\ \A p \in Org, u \in User : WithoutOrg(d, o).role[p][u] = IF p = o THEN None ELSE d.role[p][u]
         /\ \A p \in Org, n \in Ws : WithoutOrg(d, o).ws[p][n] = IF p = o THEN None ELSE d.ws[p][n]
         /\ WithoutOrg(d, o).access = {a \in d.access : a[1] # o}
         /\ \A p \in Org : WithoutOrg(d, o).due[p] = IF p = o THEN Never ELSE d.due[p]
         /\ \A p \in Org : WithoutOrg(d, o).tasks[p] = IF p = o THEN {} ELSE d.tasks[p]
<1> DEFINE acc == {a \in d.access : a[1] # o}
           nobody == [u \in User |-> None]
           nothing == [n \in Ws |-> None]
<1>1. WithoutOrg(d, o) = [d EXCEPT !.orgs = @ \ {o}, !.role[o] = nobody, !.ws[o] = nothing,
                                   !.access = acc, !.due[o] = Never, !.tasks[o] = {}]
  BY Zenon DEF WithoutOrg
<1>2. /\ acc \in SUBSET (Org \X Ws \X User) /\ nobody \in [User -> Roles]
      /\ nothing \in [Ws -> {"active", "archived", None}]
  BY DEF DB, Roles
<1> HIDE DEF acc, nobody, nothing
<1>3. /\ d.orgs \ {o} \in SUBSET Org /\ [d.role EXCEPT ![o] = nobody] \in [Org -> [User -> Roles]]
      /\ [d.ws EXCEPT ![o] = nothing] \in [Org -> [Ws -> {"active", "archived", None}]]
      /\ [d.due EXCEPT ![o] = Never] \in [Org -> {Never} \cup 0 .. Grace]
      /\ [d.tasks EXCEPT ![o] = {}] \in [Org -> SUBSET (0 .. Grace)]
  BY <1>2 DEF DB
<1>4. WithoutOrg(d, o) = [orgs |-> d.orgs \ {o}, role |-> [d.role EXCEPT ![o] = nobody],
                          ws |-> [d.ws EXCEPT ![o] = nothing], access |-> acc,
                          due |-> [d.due EXCEPT ![o] = Never], tasks |-> [d.tasks EXCEPT ![o] = {}]]
  BY <1>1 DEF DB
<1>5. WithoutOrg(d, o) \in DB
  BY <1>2, <1>3, <1>4 DEF DB
<1>6. /\ \A p \in Org, u \in User : [d.role EXCEPT ![o] = nobody][p][u] = IF p = o THEN None ELSE d.role[p][u]
      /\ \A p \in Org, n \in Ws : [d.ws EXCEPT ![o] = nothing][p][n] = IF p = o THEN None ELSE d.ws[p][n]
      /\ \A p \in Org : [d.due EXCEPT ![o] = Never][p] = IF p = o THEN Never ELSE d.due[p]
      /\ \A p \in Org : [d.tasks EXCEPT ![o] = {}][p] = IF p = o THEN {} ELSE d.tasks[p]
  BY DEF DB, nobody, nothing
<1> QED BY <1>4, <1>5, <1>6 DEF acc

(* An account goes with its roles and its access.                          *)
LEMMA WithoutUserRows ==
  ASSUME NEW d \in DB, NEW u \in User
  PROVE  /\ WithoutUser(d, u) \in DB
         /\ \A o \in Org, v \in User : WithoutUser(d, u).role[o][v] = IF v = u THEN None ELSE d.role[o][v]
         /\ WithoutUser(d, u).access = {a \in d.access : a[3] # u}
         /\ WithoutUser(d, u).orgs = d.orgs /\ WithoutUser(d, u).ws = d.ws
         /\ WithoutUser(d, u).due = d.due /\ WithoutUser(d, u).tasks = d.tasks
<1> DEFINE acc == {a \in d.access : a[3] # u}
           roles == [o \in Org |-> [d.role[o] EXCEPT ![u] = None]]
<1>1. WithoutUser(d, u) = [d EXCEPT !.role = roles, !.access = acc]
  BY Zenon DEF WithoutUser
<1>2. acc \in SUBSET (Org \X Ws \X User) /\ roles \in [Org -> [User -> Roles]]
  BY DEF DB, Roles
<1>3. \A o \in Org, v \in User : roles[o][v] = IF v = u THEN None ELSE d.role[o][v]
  BY DEF DB
<1> HIDE DEF acc, roles
<1> QED BY <1>1, <1>2, <1>3 DEF DB, acc

(* A workspace goes with the access to it.                                 *)
LEMMA WithoutWsRows ==
  ASSUME NEW d \in DB, NEW o \in Org, NEW n \in Ws
  PROVE  /\ WithoutWs(d, o, n) \in DB
         /\ \A p \in Org, m \in Ws : WithoutWs(d, o, n).ws[p][m] = IF p = o /\ m = n THEN None ELSE d.ws[p][m]
         /\ WithoutWs(d, o, n).access = {a \in d.access : a[1] # o \/ a[2] # n}
         /\ WithoutWs(d, o, n).orgs = d.orgs /\ WithoutWs(d, o, n).role = d.role
         /\ WithoutWs(d, o, n).due = d.due /\ WithoutWs(d, o, n).tasks = d.tasks
<1> DEFINE acc == {a \in d.access : a[1] # o \/ a[2] # n}
<1>1. WithoutWs(d, o, n) = [d EXCEPT !.ws[o][n] = None, !.access = acc]
  BY Zenon DEF WithoutWs
<1>2. acc \in SUBSET (Org \X Ws \X User)
      /\ [d.ws EXCEPT ![o][n] = None] \in [Org -> [Ws -> {"active", "archived", None}]]
  BY DEF DB
<1>3. \A p \in Org, m \in Ws : [d.ws EXCEPT ![o][n] = None][p][m] = IF p = o /\ m = n THEN None ELSE d.ws[p][m]
  BY DEF DB
<1> HIDE DEF acc
<1> QED BY <1>1, <1>2, <1>3 DEF DB, acc

(* What each kind of job holds, and what the loss of its organization      *)
(* leaves of it.                                                           *)
LEMMA JobKinds ==
  ASSUME NEW j \in AnyJob
  PROVE  /\ j.pc \in Accepting \cup {"clean"} => j \in Acceptance
         /\ j.pc = "clean" => j.signup
         /\ j.pc \in {"profile", "leave", "deactivate", "schedule", "clear"} => j \in Plain
         /\ j.pc = "write" => j \in Write
         /\ j.pc \in {"purge", "settle"} => j \in Purging
         /\ j.pc = "regrade" => j \in Regrading
         /\ j.pc = "quit" => j \in Quitting
         /\ j.pc = "found" => j \in Founding
         /\ j.pc = "idle" <=> j = Idle
BY DEF AnyJob, Idle, Acceptance, Accepting, Plain, Write, Purging, Regrading, Quitting, Founding

(* A request that outlives an organization keeps everything but the        *)
(* reference to it.                                                        *)
LEMMA OrphanedJob ==
  ASSUME NEW j \in AnyJob, NEW o \in Org
  PROVE  /\ Orphaned(j, o) \in AnyJob
         /\ Orphaned(j, o).pc = j.pc
         /\ \/ Orphaned(j, o) = j
            \/ j.org = o /\ j.pc \notin {"idle", "settle", "quit"} /\ Orphaned(j, o) = [j EXCEPT !.org = None]
            \/ j.pc = "quit" /\ Orphaned(j, o) = [j EXCEPT !.owned = @ \ {o}]
         /\ j.pc \notin {"idle", "settle"} => Orphaned(j, o).org # o /\ Orphaned(j, o).org \in {j.org, None}
         /\ j.pc = "quit" => Orphaned(j, o).owned = j.owned \ {o}
         /\ Orphaned(j, o) = Idle <=> j = Idle
         /\ j # Idle => Orphaned(j, o).user = j.user
<1> USE DEF AnyJob, Idle, Acceptance, Accepting, Plain, Write, Purging, Regrading, Quitting, Founding
<1>1. CASE j.pc = "quit"
  <2>1. j \in Quitting
    BY <1>1, JobKinds
  <2>2. Orphaned(j, o) = [j EXCEPT !.owned = @ \ {o}]
    BY <1>1 DEF Orphaned
  <2>3. /\ Orphaned(j, o) \in Quitting /\ Orphaned(j, o).pc = "quit" /\ Orphaned(j, o).org = None
        /\ Orphaned(j, o).owned = j.owned \ {o} /\ Orphaned(j, o).user = j.user
    BY <2>1, <2>2
  <2> QED BY <1>1, <2>1, <2>2, <2>3, Constants DEF Org
<1>2. CASE j.pc # "quit" /\ (j.pc \in {"idle", "settle"} \/ j.org # o)
  <2>1. Orphaned(j, o) = j
    BY <1>2 DEF Orphaned
  <2> QED BY <1>2, <2>1
<1>3. CASE j.pc \notin {"idle", "settle", "quit"} /\ j.org = o
  <2>1. Orphaned(j, o) = [j EXCEPT !.org = None]
    BY <1>3 DEF Orphaned
  <2>2. /\ [j EXCEPT !.org = None] \in AnyJob /\ [j EXCEPT !.org = None].pc = j.pc
        /\ [j EXCEPT !.org = None].org = None /\ [j EXCEPT !.org = None].user = j.user
    BY <1>3 DEF Maybe
  <2> QED BY <1>3, <2>1, <2>2, Constants DEF Org
<1> QED BY <1>1, <1>2, <1>3

(* An invitation is blank or one to an organization.                       *)
LEMMA InvitationKinds ==
  ASSUME Typed, NEW i \in Inv
  PROVE  /\ inv[i] # Blank => inv[i] \in Invitation
         /\ inv[i].org \in Maybe /\ (inv[i] = Blank <=> inv[i].org = None)
BY Constants DEF Typed, Blank, Invitation, Maybe, Org

(* The invitations to an organization go with it.                          *)
LEMMA InvWithoutRows ==
  ASSUME Typed, NEW o \in Org
  PROVE  /\ InvWithout(o) \in [Inv -> Invitation \cup {Blank}]
         /\ \A i \in Inv : InvWithout(o)[i] = inv[i] \/ (inv[i].org = o /\ InvWithout(o)[i] = Blank)
         /\ \A i \in Inv : InvWithout(o)[i].org # o
BY Constants DEF Typed, InvWithout, Blank, Org

-----------------------------------------------------------------------------
(***************************************************************************)
(* Types                                                                   *)
(***************************************************************************)
LEMMA LinkedInit == Init => Linked
<1> SUFFICES ASSUME Init PROVE Linked
  OBVIOUS
<1>1. db.orgs = {} /\ db.access = {} /\ db.role = [o \in Org |-> [u \in User |-> None]]
      /\ db.ws = [o \in Org |-> [n \in Ws |-> None]]
      /\ db.due = [o \in Org |-> Never] /\ db.tasks = [o \in Org |-> {}]
  BY DEF Init
<1>2. db \in DB
  BY DEF Init, DB, Roles
<1>3. Typed
  BY <1>2, TenancyAssumption DEF Typed, Init, AnyJob
<1>4. TypeOK
  BY <1>1 DEF Init, TypeOK
<1>5. JobsLinked
  BY DEF Init, JobsLinked, Idle, Accepting
<1> QED BY <1>3, <1>4, <1>5 DEF Linked

(* What a request that starts or ends a job leaves of the jobs.            *)
LEMMA JobStarted ==
  ASSUME Typed, NEW h \in Job, NEW j \in AnyJob, Starts(h, j)
  PROVE  /\ job' \in [Job -> AnyJob] /\ job[h] = Idle /\ job'[h] = j
         /\ \A g \in Job \ {h} : job'[g] = job[g]
BY DEF Typed, Starts

(* The count of requests keeps its bound.                                  *)
LEMMA RequestCounted ==
  ASSUME Typed, Request
  PROVE  used' \in 0 .. MaxRequests
BY TenancyAssumption DEF Typed, Request

(* A request that ends touches no other.                                   *)
LEMMA JobEnded ==
  ASSUME Typed, NEW h \in Job, Ends(h)
  PROVE  /\ job' \in [Job -> AnyJob] /\ job'[h] = Idle
         /\ \A g \in Job \ {h} : job'[g] = job[g]
BY DEF Typed, Ends, AnyJob

(* Who leaves an organization leaves its workspaces too.                   *)
LEMMA LeftRows ==
  ASSUME Typed, NEW o \in Org, NEW u \in User
  PROVE  /\ Left(o, u) \in DB
         /\ \A p \in Org, v \in User : Left(o, u).role[p][v] = IF p = o /\ v = u THEN None ELSE db.role[p][v]
         /\ Left(o, u).access = {a \in db.access : a[1] # o \/ a[3] # u}
         /\ Left(o, u).orgs = db.orgs /\ Left(o, u).ws = db.ws
         /\ Left(o, u).due = db.due /\ Left(o, u).tasks = db.tasks
<1> DEFINE acc == {a \in db.access : a[1] # o \/ a[3] # u}
<1>1. Left(o, u) = [db EXCEPT !.role[o][u] = None, !.access = acc]
  BY Zenon DEF Left
<1>2. acc \in SUBSET (Org \X Ws \X User) /\ [db.role EXCEPT ![o][u] = None] \in [Org -> [User -> Roles]]
  BY DEF Typed, DB, Roles
<1>3. \A p \in Org, v \in User : [db.role EXCEPT ![o][u] = None][p][v] = IF p = o /\ v = u THEN None ELSE db.role[p][v]
  BY DEF Typed, DB
<1> HIDE DEF acc
<1>4. /\ Left(o, u) \in DB /\ Left(o, u).role = [db.role EXCEPT ![o][u] = None] /\ Left(o, u).access = acc
      /\ Left(o, u).orgs = db.orgs /\ Left(o, u).ws = db.ws
      /\ Left(o, u).due = db.due /\ Left(o, u).tasks = db.tasks
  BY <1>1, <1>2 DEF Typed, DB
<1> QED BY <1>3, <1>4 DEF acc

(* The signup leaves every organization but the one that invited it.       *)
LEMMA LeavingRows ==
  ASSUME Typed, NEW u \in User, NEW o
  PROVE  /\ Leaving(u, o) \in DB
         /\ \A p \in Org, v \in User : Leaving(u, o).role[p][v] = IF v = u /\ p # o THEN None ELSE db.role[p][v]
         /\ Leaving(u, o).orgs = db.orgs /\ Leaving(u, o).ws = db.ws /\ Leaving(u, o).access = db.access
         /\ Leaving(u, o).due = db.due /\ Leaving(u, o).tasks = db.tasks
<1> DEFINE roles == [p \in Org |-> IF p = o THEN db.role[p] ELSE [db.role[p] EXCEPT ![u] = None]]
<1>1. Leaving(u, o) = [db EXCEPT !.role = roles]
  BY Zenon DEF Leaving
<1>2. /\ roles \in [Org -> [User -> Roles]]
      /\ \A p \in Org, v \in User : roles[p][v] = IF v = u /\ p # o THEN None ELSE db.role[p][v]
  BY DEF Typed, DB, Roles
<1> HIDE DEF roles
<1> QED BY <1>1, <1>2 DEF Typed, DB

(* It takes the organization nobody is left in with it,                    *)
LEMMA CleanRows ==
  ASSUME Typed, NEW h \in Job, Clean(h)
  PROVE  LET u == job[h].user
             o == job[h].org
         IN  /\ job[h] \in Acceptance /\ u \in User /\ u \in Org
             /\ db' = IF Alone(u, o) THEN WithoutOrg(Leaving(u, o), u) ELSE Leaving(u, o)
             /\ inv' = IF Alone(u, o) THEN InvWithout(u) ELSE inv
             /\ job' = [g \in Job |-> IF g = h THEN Idle ELSE IF Alone(u, o) THEN Orphaned(job[g], u) ELSE job[g]]
             /\ db' \in DB /\ inv' \in [Inv -> Invitation \cup {Blank}] /\ job' \in [Job -> AnyJob]
<1> DEFINE u == job[h].user
           o == job[h].org
<1>1. job[h] \in Acceptance
  BY JobKinds DEF Typed, Clean
<1>2. u \in User /\ u \in Org
  BY <1>1 DEF Acceptance, Org
<1>3. Leaving(u, o) \in DB
  BY <1>2, LeavingRows
<1>4. /\ db' = IF Alone(u, o) THEN WithoutOrg(Leaving(u, o), u) ELSE Leaving(u, o)
      /\ inv' = IF Alone(u, o) THEN InvWithout(u) ELSE inv
      /\ job' = [g \in Job |-> IF g = h THEN Idle ELSE IF Alone(u, o) THEN Orphaned(job[g], u) ELSE job[g]]
  <2>1. CASE Alone(u, o)
    BY <2>1 DEF Clean
  <2>2. CASE ~ Alone(u, o)
    BY <2>2 DEF Clean, Ends, Typed
  <2> QED BY <2>1, <2>2
<1> HIDE DEF u, o
<1>5. db' \in DB
  BY <1>2, <1>3, <1>4, WithoutOrgRows
<1>6. inv' \in [Inv -> Invitation \cup {Blank}]
  BY <1>2, <1>4, InvWithoutRows DEF Typed
<1>7. \A g \in Job : Orphaned(job[g], u) \in AnyJob /\ job[g] \in AnyJob
  BY <1>2, OrphanedJob DEF Typed
<1>8. job' \in [Job -> AnyJob]
  BY <1>4, <1>7 DEF AnyJob
<1> QED BY <1>1, <1>2, <1>4, <1>5, <1>6, <1>8 DEF u, o

(* or dies when the membership, or the workspaces too, are gone.           *)
LEMMA CleanHalfRows ==
  ASSUME Typed, NEW h \in Job, CleanHalf(h)
  PROVE  LET u == job[h].user
             left == Leaving(u, job[h].org)
         IN  /\ job[h] \in Acceptance /\ u \in User /\ u \in Org /\ Alone(u, job[h].org)
             /\ db' \in DB /\ db'.orgs = db.orgs /\ db'.role = left.role /\ db'.access \subseteq db.access
             /\ db'.due = db.due /\ db'.tasks = db.tasks
             /\ \/ db' = left
                \/ /\ \A p \in Org, n \in Ws : db'.ws[p][n] = IF p = u THEN None ELSE db.ws[p][n]
                   /\ db'.access = {a \in db.access : a[1] # u}
             /\ half' = half \cup {u}
<1> DEFINE u == job[h].user
           left == Leaving(u, job[h].org)
           acc == {a \in left.access : a[1] # u}
           nothing == [n \in Ws |-> None]
<1>1. job[h] \in Acceptance
  BY JobKinds DEF Typed, CleanHalf
<1>2. u \in User /\ u \in Org
  BY <1>1 DEF Acceptance, Org
<1>3. /\ left \in DB /\ left.orgs = db.orgs /\ left.ws = db.ws /\ left.access = db.access
      /\ left.due = db.due /\ left.tasks = db.tasks
  BY <1>2, LeavingRows
<1>4. /\ Alone(u, job[h].org) /\ half' = half \cup {u}
      /\ db' = left \/ db' = [left EXCEPT !.ws[u] = nothing, !.access = acc]
  BY DEF CleanHalf
<1>5. /\ acc \in SUBSET (Org \X Ws \X User) /\ acc \subseteq db.access
      /\ [left.ws EXCEPT ![u] = nothing] \in [Org -> [Ws -> {"active", "archived", None}]]
      /\ \A p \in Org, n \in Ws : [left.ws EXCEPT ![u] = nothing][p][n] = IF p = u THEN None ELSE db.ws[p][n]
  BY <1>2, <1>3 DEF DB
<1>6. acc = {a \in db.access : a[1] # u}
  BY <1>3
<1> HIDE DEF u, left, acc, nothing
<1>7. CASE db' = left
  BY <1>1, <1>2, <1>3, <1>4, <1>7 DEF u, left
<1>8. CASE db' = [left EXCEPT !.ws[u] = nothing, !.access = acc]
  <2>1. /\ db' \in DB /\ db'.orgs = left.orgs /\ db'.role = left.role /\ db'.access = acc
        /\ db'.due = left.due /\ db'.tasks = left.tasks /\ db'.ws = [left.ws EXCEPT ![u] = nothing]
    BY <1>3, <1>5, <1>8 DEF DB
  <2> QED BY <1>1, <1>2, <1>3, <1>4, <1>5, <1>6, <2>1 DEF u, left
<1> QED BY <1>4, <1>7, <1>8

(* What the second half of a request about a workspace writes.             *)
LEMMA WrittenRows ==
  ASSUME Typed, NEW h \in Job, WriteWorkspace(h)
  PROVE  /\ job[h] \in Write /\ db' \in DB
         /\ db'.orgs = db.orgs /\ db'.role = db.role /\ db'.due = db.due /\ db'.tasks = db.tasks
         /\ db'.access \subseteq db.access
         /\ \/ db' = db
            \/ /\ job[h].org \in Org /\ job[h].what = "delete" /\ db' = WithoutWs(db, job[h].org, job[h].ws)
            \/ /\ job[h].org \in Org /\ job[h].what \in {"archive", "settings"} /\ db'.access = db.access
               /\ \A o \in Org, n \in Ws :
                    db'.ws[o][n] = IF o = job[h].org /\ n = job[h].ws
                                   THEN IF job[h].what = "settings" THEN job[h].seen ELSE "archived"
                                   ELSE db.ws[o][n]
<1>1. job[h] \in Write
  BY JobKinds DEF Typed, WriteWorkspace
<1>2. job[h].ws \in Ws /\ job[h].org \in Maybe /\ job[h].what \in {"archive", "delete", "settings"}
      /\ job[h].seen \in {"active", "archived"}
  BY <1>1 DEF Write
<1>3. CASE job[h].org = None
  <2>1. db' = db
    BY <1>3 DEF WriteWorkspace
  <2> QED BY <1>1, <2>1 DEF Typed
<1>4. ASSUME job[h].org # None, job[h].what = "settings" PROVE db' = [db EXCEPT !.ws[job[h].org][job[h].ws] = job[h].seen]
  BY <1>4 DEF WriteWorkspace
<1>5. ASSUME job[h].org # None, job[h].what = "archive"
      PROVE  db' = db \/ db' = [db EXCEPT !.ws[job[h].org][job[h].ws] = "archived"]
  BY <1>5 DEF WriteWorkspace
<1>6. ASSUME job[h].org # None, job[h].what = "delete" PROVE db' = WithoutWs(db, job[h].org, job[h].ws)
  BY <1>6 DEF WriteWorkspace
<1>10. ASSUME NEW w \in {"active", "archived"}, job[h].org # None, db' = [db EXCEPT !.ws[job[h].org][job[h].ws] = w]
       PROVE  /\ job[h].org \in Org /\ db' \in DB
              /\ \A o \in Org, n \in Ws :
                   db'.ws[o][n] = IF o = job[h].org /\ n = job[h].ws THEN w ELSE db.ws[o][n]
              /\ db'.orgs = db.orgs /\ db'.role = db.role /\ db'.due = db.due /\ db'.tasks = db.tasks
              /\ db'.access = db.access
  <2>1. job[h].org \in Org /\ db \in DB
    BY <1>2, <1>10 DEF Maybe, Typed
  <2>2. [db.ws EXCEPT ![job[h].org][job[h].ws] = w] \in [Org -> [Ws -> {"active", "archived", None}]]
    BY <1>2, <2>1 DEF DB
  <2>3. \A o \in Org, n \in Ws : [db.ws EXCEPT ![job[h].org][job[h].ws] = w][o][n]
                                  = IF o = job[h].org /\ n = job[h].ws THEN w ELSE db.ws[o][n]
    BY <1>2, <2>1 DEF DB
  <2> QED BY <1>10, <2>1, <2>2, <2>3 DEF DB
<1>7. CASE job[h].org # None /\ job[h].what = "settings"
  BY <1>1, <1>2, <1>4, <1>7, <1>10
<1>8. CASE job[h].org # None /\ job[h].what = "archive"
  <2>1. CASE db' = db
    BY <1>1, <2>1 DEF Typed
  <2>2. CASE db' # db
    BY <1>1, <1>2, <1>5, <1>8, <1>10, <2>2
  <2> QED BY <2>1, <2>2
<1>9. CASE job[h].org # None /\ job[h].what = "delete"
  <2>1. job[h].org \in Org /\ db \in DB
    BY <1>2, <1>9 DEF Maybe, Typed
  <2>2. {a \in db.access : a[1] # job[h].org \/ a[2] # job[h].ws} \subseteq db.access
    OBVIOUS
  <2>3. db' = WithoutWs(db, job[h].org, job[h].ws)
    BY <1>6, <1>9
  <2>4. /\ db' \in DB /\ db'.orgs = db.orgs /\ db'.role = db.role /\ db'.due = db.due /\ db'.tasks = db.tasks
        /\ db'.access = {a \in db.access : a[1] # job[h].org \/ a[2] # job[h].ws}
    BY <1>2, <2>1, <2>3, WithoutWsRows
  <2> QED BY <1>1, <1>9, <2>1, <2>2, <2>3, <2>4
<1> QED BY <1>2, <1>3, <1>7, <1>8, <1>9

(* hard_delete, and the settling of the members it leaves.                 *)
LEMMA PurgedRows ==
  ASSUME Typed, NEW h \in Job, DeleteOrg(h)
  PROVE  LET next == [job[h] EXCEPT !.pc = "settle"]
             o == job[h].org
         IN  /\ job[h] \in Purging /\ next \in Purging /\ next.pc = "settle" /\ job' \in [Job -> AnyJob]
             /\ db' \in DB /\ inv' \in [Inv -> Invitation \cup {Blank}]
             /\ o = None => UNCHANGED << db, inv >> /\ job' = [job EXCEPT ![h] = next]
             /\ o # None =>
                  /\ o \in Org /\ db' = WithoutOrg(db, o) /\ inv' = InvWithout(o)
                  /\ job' = [g \in Job |-> IF g = h THEN next ELSE Orphaned(job[g], o)]
<1> DEFINE next == [job[h] EXCEPT !.pc = "settle"]
           o == job[h].org
<1>1. job[h] \in Purging
  BY JobKinds DEF Typed, DeleteOrg
<1>2. next \in Purging /\ next.pc = "settle" /\ next \in AnyJob
  BY <1>1 DEF Purging, AnyJob
<1>3. ASSUME o = None PROVE UNCHANGED << db, inv >> /\ job' = [job EXCEPT ![h] = next]
  BY <1>3, Zenon DEF DeleteOrg
<1>4. ASSUME o # None
      PROVE  /\ o \in Org /\ db' = WithoutOrg(db, o) /\ inv' = InvWithout(o)
             /\ job' = [g \in Job |-> IF g = h THEN next ELSE Orphaned(job[g], o)]
  <2>1. o \in Org
    BY <1>1, <1>4 DEF Purging, Maybe
  <2> QED BY <1>4, <2>1, Zenon DEF DeleteOrg
<1> HIDE DEF next, o
<1>5. db' \in DB /\ inv' \in [Inv -> Invitation \cup {Blank}]
  <2>1. CASE o = None
    BY <1>3, <2>1 DEF Typed
  <2>2. CASE o # None
    <3>1. db' \in DB
      <4>1. db \in DB /\ o \in Org /\ db' = WithoutOrg(db, o)
        BY <1>4, <2>2 DEF Typed
      <4> QED BY <4>1, WithoutOrgRows
    <3> QED BY <1>4, <2>2, <3>1, InvWithoutRows
  <2> QED BY <2>1, <2>2
<1>6. job' \in [Job -> AnyJob]
  <2>1. CASE o = None
    BY <1>2, <1>3, <2>1 DEF Typed
  <2>2. CASE o # None
    <3>1. \A g \in Job : Orphaned(job[g], o) \in AnyJob
      BY <1>4, <2>2, OrphanedJob DEF Typed
    <3> QED BY <1>2, <1>4, <2>2, <3>1
  <2> QED BY <2>1, <2>2
<1> QED BY <1>1, <1>2, <1>3, <1>4, <1>5, <1>6 DEF next, o

(* What is left to settle, when something is.                              *)
LEMMA GoesOnJob ==
  ASSUME Typed, NEW h \in Job, job[h].user \in User \cup {None}, NEW rest \in SUBSET User
  PROVE  /\ GoesOn(h, rest) \in AnyJob
         /\ GoesOn(h, rest) = Idle \/ (GoesOn(h, rest) \in Purging /\ GoesOn(h, rest).pc = "settle")
         /\ GoesOn(h, rest).pc \in {"idle", "settle"}
BY DEF GoesOn, AnyJob, Purging, Maybe, Idle

(* A founding begins with the row of the organization.                     *)
LEMMA BegunRows ==
  ASSUME Typed, NEW h \in Job, NEW by \in User \cup {None}, NEW u \in User, NEW rest \in SUBSET User,
         Begins(h, by, u, rest)
  PROVE  /\ u \in Org /\ u \notin db.orgs /\ job' \in [Job -> AnyJob] /\ db' \in DB /\ half' \subseteq Org
         /\ job'[h] \in Founding /\ job'[h].pc = "found" /\ job'[h].org = u /\ job'[h].made = 1
         /\ \A g \in Job \ {h} : job'[g] = job[g]
         /\ db'.orgs = db.orgs \cup {u} /\ db'.access = db.access /\ db'.due = db.due /\ db'.tasks = db.tasks
         /\ \A o \in Org, v \in User : db'.role[o][v] = db.role[o][v]
         /\ \A o \in Org, n \in Ws : db'.ws[o][n] = db.ws[o][n]
         /\ half' = half \cup {u}
<1>1. [pc |-> "found", user |-> by, org |-> u, rest |-> rest, made |-> 1] \in Founding
  BY DEF Founding, Maybe, Org
<1>2. /\ job' = [job EXCEPT ![h] = [pc |-> "found", user |-> by, org |-> u, rest |-> rest, made |-> 1]]
      /\ db' = Founded(db, u, {1}) /\ half' = half \cup {u} /\ u \notin db.orgs
  BY DEF Begins
<1>3. /\ job' \in [Job -> AnyJob] /\ job'[h] \in Founding
      /\ job'[h] = [pc |-> "found", user |-> by, org |-> u, rest |-> rest, made |-> 1]
      /\ \A g \in Job \ {h} : job'[g] = job[g]
  BY <1>1, <1>2 DEF Typed, AnyJob
<1>4. /\ db' \in DB /\ db'.orgs = db.orgs \cup {u} /\ db'.access = db.access /\ db'.due = db.due
      /\ db'.tasks = db.tasks
      /\ \A o \in Org, v \in User : db'.role[o][v] = db.role[o][v]
      /\ \A o \in Org, n \in Ws : db'.ws[o][n] = db.ws[o][n]
  <2>1. Makes({1}, u, db, db')
    BY <1>2, FoundedRows DEF Typed
  <2> QED BY <2>1 DEF Makes
<1> QED BY <1>2, <1>3, <1>4 DEF Typed, Org

(* It goes on write by write,                                              *)
LEMMA FoundRows ==
  ASSUME Typed, NEW h \in Job, Found(h)
  PROVE  LET o == job[h].org
             k == job[h].made + 1
         IN  /\ job[h] \in Founding /\ job' \in [Job -> AnyJob] /\ db' \in DB /\ half' \subseteq Org
             /\ \A g \in Job \ {h} : job'[g] = job[g]
             /\ \/ Ends(h) /\ db' = db /\ half' = half
                \/ /\ o \in Org /\ k \in {2, 3, 4} /\ ~ Fails(job[h])
                   /\ db'.orgs = db.orgs /\ db'.due = db.due /\ db'.tasks = db.tasks
                   /\ \A p \in Org, v \in User :
                        db'.role[p][v] = IF k = 2 /\ p = o /\ v = o THEN "owner" ELSE db.role[p][v]
                   /\ \A p \in Org, n \in Ws :
                        db'.ws[p][n] = IF k = 3 /\ p = o /\ n = 1 THEN "active" ELSE db.ws[p][n]
                   /\ db'.access = IF k = 4 THEN db.access \cup {<< o, 1, o >>} ELSE db.access
                   /\ half' = IF k = 4 THEN half \ {o} ELSE half
                   /\ IF k = 4 THEN job'[h] = Idle \/ (job'[h] \in Purging /\ job'[h].pc = "settle")
                      ELSE job'[h] \in Founding /\ job'[h].pc = "found" /\ job'[h].org = o /\ job'[h].made = k
<1> DEFINE j == job[h]
           k == j.made + 1
<1>1. j \in Founding
  BY JobKinds DEF Typed, Found
<1>2. CASE Fails(j)
  <2>1. Ends(h) /\ db' = db /\ half' = half
    BY <1>2 DEF Found
  <2> QED BY <1>1, <2>1, JobEnded DEF Typed
<1>3. CASE ~ Fails(j)
  <2>1. /\ db' = Founded(db, j.org, {k}) /\ half' = IF k = 4 THEN half \ {j.org} ELSE half
        /\ job' = [job EXCEPT ![h] = IF k = 4 THEN GoesOn(h, j.rest) ELSE [j EXCEPT !.made = k]]
    BY <1>3 DEF Found
  <2>2. j.org \in Org /\ j.org \in User /\ k \in {2, 3, 4} /\ j.rest \in SUBSET User /\ j.user \in User \cup {None}
    BY <1>1, <1>3 DEF Founding, Maybe, Fails, Org
  <2>3. k # 4 => [j EXCEPT !.made = k] \in Founding /\ [j EXCEPT !.made = k].org = j.org
                 /\ [j EXCEPT !.made = k].pc = "found" /\ [j EXCEPT !.made = k].made = k
    BY <1>1, <2>2 DEF Founding
  <2>4. /\ GoesOn(h, j.rest) \in AnyJob
        /\ GoesOn(h, j.rest) = Idle \/ (GoesOn(h, j.rest) \in Purging /\ GoesOn(h, j.rest).pc = "settle")
    BY <2>2, GoesOnJob
  <2> HIDE DEF j, k
  <2>5. /\ job' \in [Job -> AnyJob] /\ \A g \in Job \ {h} : job'[g] = job[g]
        /\ job'[h] = IF k = 4 THEN GoesOn(h, j.rest) ELSE [j EXCEPT !.made = k]
    BY <2>1, <2>3, <2>4 DEF Typed, AnyJob
  <2>6. /\ db' \in DB /\ db'.orgs = db.orgs /\ db'.due = db.due /\ db'.tasks = db.tasks
        /\ \A p \in Org, v \in User :
             db'.role[p][v] = IF k = 2 /\ p = j.org /\ v = j.org THEN "owner" ELSE db.role[p][v]
        /\ \A p \in Org, n \in Ws :
             db'.ws[p][n] = IF k = 3 /\ p = j.org /\ n = 1 THEN "active" ELSE db.ws[p][n]
        /\ db'.access = IF k = 4 THEN db.access \cup {<< j.org, 1, j.org >>} ELSE db.access
    <3>1. Makes({k}, j.org, db, db')
      BY <2>1, <2>2, FoundedRows DEF Typed
    <3> QED BY <2>2, <3>1 DEF Makes
  <2>7. half' \subseteq Org
    BY <2>1 DEF Typed
  <2> QED BY <1>1, <1>3, <2>1, <2>2, <2>3, <2>4, <2>5, <2>6, <2>7 DEF j, k
<1> QED BY <1>2, <1>3

(* A signup makes the first k of the writes.                               *)
LEMMA SignUpRows ==
  ASSUME Typed, NEW u \in User, SignUp(u)
  PROVE  /\ u \in Org /\ u \notin db.orgs /\ account[u] = None /\ crashes' \in 0 .. MaxCrashes
         /\ account' = [account EXCEPT ![u] = "active"]
         /\ \E k \in 0 .. 4 :
              Makes(1 .. k, u, db, db') /\ half' = IF k \in {0, 4} THEN half ELSE half \cup {u}
<1>1. \A k \in 0 .. 4 : db' = Founded(db, u, 1 .. k) => Makes(1 .. k, u, db, db')
  BY FoundedRows DEF Typed
<1>2. CASE db' = Founded(db, u, 1 .. 4) /\ UNCHANGED << crashes, half >>
  <2>1. Makes(1 .. 4, u, db, db') /\ 4 \in 0 .. 4 /\ half' = IF 4 \in {0, 4} THEN half ELSE half \cup {u}
    BY <1>1, <1>2
  <2> QED BY <1>2, <2>1 DEF SignUp, New, Typed, Org
<1>3. ASSUME NEW k \in 0 .. 3, crashes < MaxCrashes, crashes' = crashes + 1, db' = Founded(db, u, 1 .. k),
             half' = IF k = 0 THEN half ELSE half \cup {u}
      PROVE  /\ crashes' \in 0 .. MaxCrashes
             /\ \E m \in 0 .. 4 :
                  Makes(1 .. m, u, db, db') /\ half' = IF m \in {0, 4} THEN half ELSE half \cup {u}
  <2>1. k \in 0 .. 4 /\ (k \in {0, 4} <=> k = 0)
    OBVIOUS
  <2>2. Makes(1 .. k, u, db, db')
    BY <1>1, <1>3, <2>1, Zenon
  <2>3. \E m \in 0 .. 4 : Makes(1 .. m, u, db, db') /\ half' = IF m \in {0, 4} THEN half ELSE half \cup {u}
    BY <1>3, <2>1, <2>2, Zenon
  <2>4. crashes' \in 0 .. MaxCrashes
    BY <1>3, TenancyAssumption DEF Typed
  <2> QED BY <2>3, <2>4
<1>4. u \in Org /\ u \notin db.orgs /\ account[u] = None /\ account' = [account EXCEPT ![u] = "active"]
  BY DEF SignUp, New, Org
<1> QED BY <1>2, <1>3, <1>4 DEF SignUp

(* A request about somebody's role in an organization.                     *)
LEMMA RegradeRows ==
  ASSUME Typed, NEW h \in Job, Regrade(h)
  PROVE  /\ job[h] \in Regrading /\ db' \in DB
         /\ db'.orgs = db.orgs /\ db'.ws = db.ws /\ db'.access = db.access /\ db'.due = db.due
         /\ db'.tasks = db.tasks
         /\ \A p \in Org, v \in User :
              db'.role[p][v] = IF p = job[h].org /\ v = job[h].user /\ db.role[p][v] # None
                               THEN job[h].role ELSE db.role[p][v]
<1>1. job[h] \in Regrading /\ job[h].org \in Maybe /\ job[h].user \in User /\ job[h].role \in Roles
  BY JobKinds DEF Typed, Regrade, Regrading, Grades, Roles
<1>2. CASE db' = db /\ (job[h].org = None \/ db.role[job[h].org][job[h].user] = None)
  BY <1>1, <1>2, Constants DEF Typed, Org
<1>3. CASE job[h].org # None /\ db.role[job[h].org][job[h].user] # None
           /\ db' = [db EXCEPT !.role[job[h].org][job[h].user] = job[h].role]
  <2>1. job[h].org \in Org
    BY <1>1, <1>3 DEF Maybe
  <2>2. /\ [db.role EXCEPT ![job[h].org][job[h].user] = job[h].role] \in [Org -> [User -> Roles]]
        /\ \A p \in Org, v \in User :
             [db.role EXCEPT ![job[h].org][job[h].user] = job[h].role][p][v]
               = IF p = job[h].org /\ v = job[h].user THEN job[h].role ELSE db.role[p][v]
    BY <1>1, <2>1 DEF Typed, DB
  <2> DEFINE roles == [db.role EXCEPT ![job[h].org][job[h].user] = job[h].role]
  <2>3. db' = [db EXCEPT !.role = roles]
    BY <1>3, <2>1 DEF Typed, DB
  <2> HIDE DEF roles
  <2>4. /\ db' \in DB /\ db'.role = roles /\ db'.orgs = db.orgs /\ db'.ws = db.ws /\ db'.access = db.access
        /\ db'.due = db.due /\ db'.tasks = db.tasks
    BY <2>2, <2>3 DEF Typed, DB, roles
  <2> QED BY <1>1, <1>3, <2>2, <2>4 DEF roles
<1> QED BY <1>2, <1>3 DEF Regrade

(* A member who is removed.                                                *)
LEMMA LeaveRows ==
  ASSUME Typed, NEW h \in Job, Leave(h)
  PROVE  /\ job[h] \in Plain /\ db' \in DB /\ job' \in [Job -> AnyJob]
         /\ \A g \in Job \ {h} : job'[g] = job[g]
         /\ job'[h] \in Plain /\ job'[h].pc = "deactivate" /\ job'[h].org = job[h].org
         /\ job'[h].user = job[h].user
         /\ \A p \in Org, v \in User :
              db'.role[p][v] = IF p = job[h].org /\ v = job[h].user THEN None ELSE db.role[p][v]
         /\ db'.access = {a \in db.access : a[1] # job[h].org \/ a[3] # job[h].user}
         /\ db'.orgs = db.orgs /\ db'.ws = db.ws /\ db'.due = db.due /\ db'.tasks = db.tasks
<1>1. job[h] \in Plain /\ job[h].org \in Maybe /\ job[h].user \in User
  BY JobKinds DEF Typed, Leave, Plain
<1>2. [job[h] EXCEPT !.pc = "deactivate"] \in Plain /\ job' = [job EXCEPT ![h] = [job[h] EXCEPT !.pc = "deactivate"]]
  BY <1>1 DEF Plain, Leave
<1>3. /\ job' \in [Job -> AnyJob] /\ job'[h] = [job[h] EXCEPT !.pc = "deactivate"]
      /\ \A g \in Job \ {h} : job'[g] = job[g]
  BY <1>2 DEF Typed, AnyJob
<1>4. job'[h] \in Plain /\ job'[h].pc = "deactivate" /\ job'[h].org = job[h].org /\ job'[h].user = job[h].user
  BY <1>1, <1>2, <1>3 DEF Plain
<1>5. CASE job[h].org = None
  <2>1. db' = db /\ db \in DB
    BY <1>5 DEF Leave, Typed
  <2>2. \A a \in db.access : a[1] # None
    BY <2>1, Constants DEF DB, Org
  <2>3. db.access = {a \in db.access : a[1] # job[h].org \/ a[3] # job[h].user}
    BY <1>5, <2>2
  <2> QED BY <1>1, <1>3, <1>4, <1>5, <2>1, <2>3, Constants DEF Org
<1>6. CASE job[h].org # None
  <2>1. job[h].org \in Org /\ db' = Left(job[h].org, job[h].user)
    BY <1>1, <1>6 DEF Leave, Maybe
  <2> QED BY <1>1, <1>3, <1>4, <2>1, LeftRows
<1> QED BY <1>5, <1>6

(* The last steps of a purge deal with one account each.                   *)
LEMMA SettledRows ==
  ASSUME Typed, NEW h \in Job, NEW u \in User, Settle(h, u)
  PROVE  /\ job[h] \in Purging /\ job' \in [Job -> AnyJob]
         /\ \A g \in Job \ {h} : job'[g] = job[g]
         /\ db' \in DB /\ account' \in [User -> {"active", "inactive", None}]
         /\ half' \subseteq Org /\ raced' \subseteq Org /\ raced \subseteq raced'
         /\ \/ /\ half' = half /\ (job'[h] = Idle \/ (job'[h] \in Purging /\ job'[h].pc = "settle"))
               /\ \/ account' = account /\ raced' = raced /\ db' = db
                  \/ /\ account' = [account EXCEPT ![u] = None] /\ raced' = raced \cup Owned(u)
                     /\ db' = WithoutUser(db, u)
            \/ account' = account /\ raced' = raced /\ Begins(h, job[h].user, u, job[h].rest \ {u})
<1>1. job[h] \in Purging
  BY JobKinds DEF Typed, Settle
<1>2. job[h].user \in User \cup {None} /\ job[h].rest \ {u} \in SUBSET User
  BY <1>1 DEF Purging
<1>3. Owned(u) \subseteq Org
  BY DEF Owned
<1>4. CASE job' = [job EXCEPT ![h] = GoesOn(h, job[h].rest \ {u})] /\ (u # job[h].user => UNCHANGED db) /\ UNCHANGED half
  <2>1. /\ job' \in [Job -> AnyJob] /\ \A g \in Job \ {h} : job'[g] = job[g]
        /\ job'[h] = Idle \/ (job'[h] \in Purging /\ job'[h].pc = "settle")
    BY <1>2, <1>4, GoesOnJob DEF Typed
  <2>2. CASE u = job[h].user
    <3>1. account' = [account EXCEPT ![u] = None] /\ raced' = raced \cup Owned(u) /\ db' = WithoutUser(db, u)
      BY <2>2 DEF Settle
    <3>2. db' \in DB
      BY <3>1, WithoutUserRows DEF Typed
    <3> QED BY <1>1, <1>3, <1>4, <2>1, <3>1, <3>2 DEF Typed
  <2>3. CASE u # job[h].user
    <3>1. account' = account /\ raced' = raced /\ db' = db
      BY <1>4, <2>3 DEF Settle
    <3> QED BY <1>1, <1>4, <2>1, <3>1 DEF Typed
  <2> QED BY <2>2, <2>3
<1>5. CASE u # job[h].user /\ Begins(h, job[h].user, u, job[h].rest \ {u})
  <2>1. account' = account /\ raced' = raced
    BY <1>5 DEF Settle
  <2> QED BY <1>1, <1>2, <1>5, <2>1, BegunRows DEF Typed
<1> QED BY <1>4, <1>5 DEF Settle

(* Time brings the dates nearer and changes no row otherwise.              *)
LEMMA TickRows ==
  ASSUME Typed, Tick
  PROVE  /\ db' \in DB /\ age' \in [Org -> 0 .. Grace]
         /\ db'.orgs = db.orgs /\ db'.role = db.role /\ db'.ws = db.ws /\ db'.access = db.access
         /\ \A o \in Org : db'.due[o] = Later(db.due[o]) /\ db'.tasks[o] = {Later(t) : t \in db.tasks[o]}
<1> DEFINE dates == [o \in Org |-> Later(db.due[o])]
           queue == [o \in Org |-> {Later(t) : t \in db.tasks[o]}]
<1>1. db' = [db EXCEPT !.due = dates, !.tasks = queue]
  BY Zenon DEF Tick
<1>2. \A n \in {Never} \cup 0 .. Grace : Later(n) \in {Never} \cup 0 .. Grace /\ (n # Never => Later(n) \in 0 .. Grace)
  BY Constants DEF Later, Never
<1>3. dates \in [Org -> {Never} \cup 0 .. Grace]
  BY <1>2 DEF Typed, DB
<1>4. queue \in [Org -> SUBSET (0 .. Grace)]
  BY <1>2 DEF Typed, DB, Never
<1> HIDE DEF dates, queue
<1>5. db' \in DB /\ db'.orgs = db.orgs /\ db'.role = db.role /\ db'.ws = db.ws /\ db'.access = db.access
      /\ db'.due = dates /\ db'.tasks = queue
  BY <1>1, <1>3, <1>4 DEF Typed, DB
<1>6. age' \in [Org -> 0 .. Grace]
  BY Constants DEF Typed, Tick
<1>7. \A o \in Org : dates[o] = Later(db.due[o]) /\ queue[o] = {Later(t) : t \in db.tasks[o]}
  BY DEF dates, queue
<1> QED BY <1>5, <1>6, <1>7


(* Every step keeps the types.                                             *)
LEMMA TypedNext ==
  ASSUME Linked, [Next]_vars
  PROVE  Typed'
<1> USE DEF ghosts
<1>0. Typed /\ TypeOK /\ JobsLinked
  BY DEF Linked
<1>1. CASE UNCHANGED vars
  BY <1>0, <1>1 DEF vars, Typed
<1>2. ASSUME NEW u \in User, SignUp(u) PROVE Typed'
  <2>1. db' \in DB /\ half' \subseteq Org /\ crashes' \in 0 .. MaxCrashes
    BY <1>0, <1>2, SignUpRows DEF Makes, Typed
  <2> QED BY <1>0, <1>2, <2>1 DEF Typed, SignUp
<1>3. ASSUME NEW u \in User, NEW h \in Job, DeleteAccount(h, u) PROVE Typed'
  <2>1. [pc |-> "quit", user |-> u, org |-> None, owned |-> Owned(u)] \in AnyJob
    BY DEF AnyJob, Quitting, Owned
  <2>2. job' \in [Job -> AnyJob]
    BY <1>0, <1>3, <2>1, JobStarted DEF DeleteAccount
  <2>3. raced' \subseteq Org
    BY <1>0, <1>3 DEF Typed, DeleteAccount, Overlapped, Owned
  <2> QED BY <1>0, <1>3, <2>2, <2>3, RequestCounted DEF Typed, DeleteAccount
<1>4. ASSUME NEW u \in User, NEW o \in Org, CleanUp(u, o) PROVE Typed'
  <2>1. db' \in DB /\ inv' \in [Inv -> Invitation \cup {Blank}]
    BY <1>0, <1>4, WithoutOrgRows, InvWithoutRows DEF Typed, CleanUp, Org
  <2>2. job' \in [Job -> AnyJob]
    BY <1>0, <1>4, OrphanedJob DEF Typed, CleanUp, Org
  <2> QED BY <1>0, <1>4, <2>1, <2>2, RequestCounted DEF Typed, CleanUp
<1>5. ASSUME NEW u \in User, NEW h \in Job, ReadProfile(h, u) PROVE Typed'
  <2>1. [pc |-> "profile", user |-> u, org |-> None] \in AnyJob
    BY DEF AnyJob, Plain, Maybe
  <2>2. job' \in [Job -> AnyJob]
    BY <1>0, <1>5, <2>1, JobStarted DEF ReadProfile
  <2> QED BY <1>0, <1>5, <2>2, RequestCounted DEF Typed, ReadProfile
<1>6. ASSUME NEW h \in Job, NEW u \in User, NEW i \in Inv, SignUpInvited(h, u, i) PROVE Typed'
  <2> DEFINE j == [pc |-> "join", user |-> u, org |-> inv[i].org, inv |-> i, ws |-> inv[i].ws,
                   role |-> inv[i].role, signup |-> TRUE]
  <2>1. inv[i] \in Invitation
    BY <1>0, <1>6, InvitationKinds DEF SignUpInvited
  <2>2. j \in AnyJob
    BY <2>1 DEF AnyJob, Acceptance, Accepting, Maybe, Org, Invitation
  <2>3. job' \in [Job -> AnyJob]
    BY <1>0, <1>6, <2>2, JobStarted DEF SignUpInvited
  <2>5. Makes(1 .. 4, u, db, db')
    BY <1>0, <1>6, FoundedRows DEF Typed, SignUpInvited
  <2>4. db' \in DB
    BY <2>5 DEF Makes
  <2> QED BY <1>0, <1>6, <2>3, <2>4 DEF Typed, SignUpInvited
<1>7. ASSUME NEW h \in Job, NEW u \in User, NEW i \in Inv, Accept(h, u, i) PROVE Typed'
  <2> DEFINE j == [pc |-> "join", user |-> u, org |-> inv[i].org, inv |-> i, ws |-> inv[i].ws,
                   role |-> inv[i].role, signup |-> FALSE]
  <2>1. inv[i] \in Invitation
    BY <1>0, <1>7, InvitationKinds DEF Accept, Acceptable
  <2>2. j \in AnyJob
    BY <2>1 DEF AnyJob, Acceptance, Accepting, Maybe, Org, Invitation
  <2>3. job' \in [Job -> AnyJob]
    BY <1>0, <1>7, <2>2, JobStarted DEF Accept
  <2> QED BY <1>0, <1>7, <2>3, RequestCounted DEF Typed, Accept
<1>8. ASSUME NEW a \in User, NEW u \in User, NEW o \in Org, NEW S \in SUBSET Ws, SetWorkspaces(a, o, u, S)
      PROVE  Typed'
  <2> DEFINE acc == {x \in db.access : x[1] # o \/ x[3] # u \/ x[2] \notin Active(o)} \cup {<< o, n, u >> : n \in S}
  <2>1. db' = [db EXCEPT !.access = acc]
    BY <1>8, Zenon DEF SetWorkspaces, Assigned
  <2>2. acc \in SUBSET (Org \X Ws \X User)
    BY <1>0 DEF Typed, DB
  <2> HIDE DEF acc
  <2>3. db' \in DB
    BY <1>0, <2>1, <2>2 DEF Typed, DB
  <2> QED BY <1>0, <1>8, <2>3, RequestCounted DEF Typed, SetWorkspaces
<1>9. ASSUME NEW a \in User, NEW u \in User, NEW o \in Org, NEW S \in SUBSET Ws, NEW r \in Invited \cup {"owner"},
             CreateMember(a, o, u, r, S)
      PROVE  Typed'
  <2> DEFINE acc == db.access \cup {<< o, n, u >> : n \in S}
  <2>1. db' = [db EXCEPT !.role[o][u] = r, !.access = acc]
    BY <1>9, Zenon DEF CreateMember
  <2>2. acc \in SUBSET (Org \X Ws \X User) /\ r \in Roles
    BY <1>0, Constants DEF Typed, DB, Grades, Roles
  <2> HIDE DEF acc
  <2>3. [db.role EXCEPT ![o][u] = r] \in [Org -> [User -> Roles]]
    BY <1>0, <2>2 DEF Typed, DB
  <2>4. db' \in DB
    BY <1>0, <2>1, <2>2, <2>3 DEF Typed, DB
  <2> QED BY <1>0, <1>9, <2>4, RequestCounted DEF Typed, CreateMember
<1>10. ASSUME NEW u \in User, NEW o \in Org, NEW i \in Inv, NEW r \in Grades, NEW n \in 0 .. MaxWs,
              Request, Invites(o, i, u, r, n)
       PROVE  Typed'
  <2>1. [org |-> o, to |-> u, role |-> r, ws |-> n, open |-> TRUE, accepted |-> FALSE] \in Invitation
    BY DEF Invitation
  <2>2. inv' \in [Inv -> Invitation \cup {Blank}]
    BY <1>0, <1>10, <2>1 DEF Typed, Invites
  <2> QED BY <1>0, <1>10, <2>2, RequestCounted DEF Typed, Invites
<1>11. ASSUME NEW h \in Job, NEW a \in User, NEW u \in User, NEW o \in Org, NEW r \in Grades, UpdateRole(h, a, o, u, r)
       PROVE  Typed'
  <2>1. [pc |-> "regrade", user |-> u, org |-> o, role |-> r] \in AnyJob
    BY DEF AnyJob, Regrading, Maybe
  <2>2. job' \in [Job -> AnyJob]
    BY <1>0, <1>11, <2>1, JobStarted DEF UpdateRole
  <2>3. raced' \subseteq Org
    BY <1>0, <1>11 DEF Typed, UpdateRole, Overlapped
  <2> QED BY <1>0, <1>11, <2>2, <2>3, RequestCounted DEF Typed, UpdateRole
<1>12. ASSUME NEW h \in Job, NEW a \in User, NEW u \in User, NEW o \in Org, RemoveMember(h, a, o, u)
       PROVE  Typed'
  <2>1. [pc |-> "leave", user |-> u, org |-> o] \in AnyJob
    BY DEF AnyJob, Plain, Maybe
  <2>2. job' \in [Job -> AnyJob]
    BY <1>0, <1>12, <2>1, JobStarted DEF RemoveMember
  <2>3. raced' \subseteq Org
    BY <1>0, <1>12 DEF Typed, RemoveMember, Overlapped
  <2> QED BY <1>0, <1>12, <2>2, <2>3, RequestCounted DEF Typed, RemoveMember
<1>13. ASSUME NEW m \in User, NEW u \in User, NEW o \in Org, NEW n \in Ws, LeaveWorkspace(m, o, n, u)
       PROVE  Typed'
  <2>1. db' \in DB
    BY <1>0, <1>13 DEF Typed, LeaveWorkspace, DB
  <2> QED BY <1>0, <1>13, <2>1, RequestCounted DEF Typed, LeaveWorkspace
<1>14. ASSUME NEW i \in Inv, Revoke(i) PROVE Typed'
  <2>1. inv' \in [Inv -> Invitation \cup {Blank}]
    BY <1>0, <1>14, InvitationKinds DEF Typed, Revoke, Expired, Invitation
  <2> QED BY <1>0, <1>14, <2>1, RequestCounted DEF Typed, Revoke
<1>15. ASSUME NEW a \in User, NEW i \in Inv, Resend(a, i) PROVE Typed'
  <2>1. inv' \in [Inv -> Invitation \cup {Blank}]
    BY <1>0, <1>15, InvitationKinds DEF Typed, Resend, Reopened, Invitation
  <2> QED BY <1>0, <1>15, <2>1, RequestCounted DEF Typed, Resend
<1>16. ASSUME NEW u \in User, NEW o \in Org, CreateWorkspace(u, o) PROVE Typed'
  <2>1. PICK n \in Ws : db' = [db EXCEPT !.ws[o][n] = "active", !.access = @ \cup {<< o, n, u >>}]
    BY <1>16 DEF CreateWorkspace
  <2>2. db.access \cup {<< o, n, u >>} \in SUBSET (Org \X Ws \X User)
        /\ [db.ws EXCEPT ![o][n] = "active"] \in [Org -> [Ws -> {"active", "archived", None}]]
    BY <1>0 DEF Typed, DB
  <2>3. db' \in DB
    BY <1>0, <2>1, <2>2 DEF Typed, DB
  <2> QED BY <1>0, <1>16, <2>3, RequestCounted DEF Typed, CreateWorkspace
<1>17. ASSUME NEW u \in User, NEW o \in Org, NEW n \in Ws, Unarchive(u, o, n) PROVE Typed'
  <2>1. db' \in DB
    BY <1>0, <1>17 DEF Typed, Unarchive, DB
  <2> QED BY <1>0, <1>17, <2>1, RequestCounted DEF Typed, Unarchive
<1>18. ASSUME NEW h \in Job, NEW u \in User, NEW o \in Org, AskDeletion(h, u, o) PROVE Typed'
  <2>1. [pc |-> "schedule", user |-> u, org |-> o] \in AnyJob
    BY DEF AnyJob, Plain, Maybe
  <2>2. job' \in [Job -> AnyJob]
    BY <1>0, <1>18, <2>1, JobStarted DEF AskDeletion
  <2>4. Grace \in {Never} \cup 0 .. Grace /\ 0 \in 0 .. Grace
    BY Constants
  <2>5. [db.due EXCEPT ![o] = Grace] \in [Org -> {Never} \cup 0 .. Grace]
    BY <1>0, <2>4 DEF Typed, DB
  <2>3. db' \in DB /\ age' \in [Org -> 0 .. Grace]
    BY <1>0, <1>18, <2>4, <2>5 DEF Typed, AskDeletion, DB
  <2> QED BY <1>0, <1>18, <2>2, <2>3, RequestCounted DEF Typed, AskDeletion
<1>19. ASSUME NEW h \in Job, NEW u \in User, NEW o \in Org, AskCancel(h, u, o) PROVE Typed'
  <2>1. [pc |-> "clear", user |-> u, org |-> o] \in AnyJob
    BY DEF AnyJob, Plain, Maybe
  <2>2. job' \in [Job -> AnyJob]
    BY <1>0, <1>19, <2>1, JobStarted DEF AskCancel
  <2>3. db' \in DB
    BY <1>0, <1>19 DEF Typed, AskCancel, DB
  <2> QED BY <1>0, <1>19, <2>2, <2>3, RequestCounted DEF Typed, AskCancel
<1>20. ASSUME NEW h \in Job, NEW u \in User, NEW o \in Org, DeleteNow(h, u, o) PROVE Typed'
  <2>1. Purge(o, u) \in AnyJob
    BY DEF AnyJob, Purging, Purge, Maybe, Members
  <2>2. job' \in [Job -> AnyJob]
    BY <1>0, <1>20, <2>1, JobStarted DEF DeleteNow
  <2>3. db' \in DB
    BY <1>0, <1>20 DEF Typed, DeleteNow, DB
  <2> QED BY <1>0, <1>20, <2>2, <2>3, RequestCounted DEF Typed, DeleteNow
<1>21. ASSUME NEW h \in Job, NEW u \in User, NEW o \in Org, NEW n \in Ws,
              NEW what \in {"archive", "delete", "settings"}, ReadWorkspace(h, u, o, n, what)
       PROVE  Typed'
  <2>1. db.ws[o][n] \in {"active", "archived"}
    BY <1>0, <1>21 DEF ReadWorkspace, Uses, Typed, TypeOK, DB
  <2>2. [pc |-> "write", user |-> u, org |-> o, ws |-> n, what |-> what, seen |-> db.ws[o][n]] \in AnyJob
    BY <2>1 DEF AnyJob, Write, Maybe
  <2>3. job' \in [Job -> AnyJob]
    BY <1>0, <1>21, <2>2, JobStarted DEF ReadWorkspace
  <2> QED BY <1>0, <1>21, <2>3, RequestCounted DEF Typed, ReadWorkspace
<1>22. ASSUME NEW h \in Job, SaveProfile(h) PROVE Typed'
  <2>1. job[h] \in Plain
    BY <1>0, <1>22, JobKinds DEF Typed, SaveProfile
  <2>2. job[h].user \in User
    BY <2>1 DEF Plain
  <2>3. job' \in [Job -> AnyJob] /\ db' \in DB /\ half' \subseteq Org
    <3>1. CASE Begins(h, job[h].user, job[h].user, {})
      BY <1>0, <2>2, <3>1, BegunRows
    <3>2. CASE Ends(h) /\ UNCHANGED << db, half >>
      BY <1>0, <3>2, JobEnded DEF Typed
    <3> QED BY <1>22, <3>1, <3>2 DEF SaveProfile
  <2> QED BY <1>0, <1>22, <2>2, <2>3 DEF Typed, SaveProfile
<1>23. ASSUME NEW h \in Job, Join(h) PROVE Typed'
  <2>1. job[h] \in Acceptance
    BY <1>0, <1>23, JobKinds DEF Typed, Join, Accepting
  <2>2. CASE job[h].org = None \/ account[job[h].user] = None
    BY <1>0, <1>23, <2>2, JobEnded DEF Typed, Join
  <2>3. CASE ~ (job[h].org = None \/ account[job[h].user] = None)
    <3>1. job[h].org \in Org /\ job[h].role \in Roles /\ job[h].user \in User /\ job[h].inv \in Inv
      BY <2>1, <2>3 DEF Acceptance, Maybe, Grades, Roles
    <3>6. [db.role EXCEPT ![job[h].org][job[h].user] = job[h].role] \in [Org -> [User -> Roles]]
      BY <1>0, <3>1 DEF Typed, DB
    <3>2. db' \in DB
      BY <1>0, <1>23, <2>3, <3>6 DEF Typed, Join, DB
    <3>3. [job[h] EXCEPT !.pc = "assign"] \in AnyJob
      BY <2>1 DEF Acceptance, AnyJob, Accepting
    <3>4. job' \in [Job -> AnyJob]
      BY <1>0, <1>23, <2>3, <3>3 DEF Typed, Join
    <3>5. joined' \in [Inv -> SUBSET User]
      BY <1>0, <1>23, <2>3, <3>1 DEF Typed, Join
    <3> QED BY <1>0, <1>23, <3>2, <3>4, <3>5 DEF Typed, Join
  <2> QED BY <2>2, <2>3
<1>24. ASSUME NEW h \in Job, Assign(h) PROVE Typed'
  <2>1. job[h] \in Acceptance
    BY <1>0, <1>24, JobKinds DEF Typed, Assign, Accepting
  <2> DEFINE fails == job[h].org = None \/ account[job[h].user] = None
                      \/ (job[h].ws # 0 /\ db.ws[job[h].org][job[h].ws] = None)
  <2>2. CASE fails
    <3>1. job[h].inv \in Inv
      BY <2>1 DEF Acceptance
    <3>2. spoiled' \subseteq Inv /\ Ends(h) /\ UNCHANGED db
      BY <1>0, <1>24, <2>2, <3>1 DEF Typed, Assign
    <3> QED BY <1>0, <1>24, <3>2, JobEnded DEF Typed, Assign
  <2>3. CASE ~ fails
    <3>1. job[h].org \in Org /\ job[h].user \in User /\ (job[h].ws # 0 => job[h].ws \in Ws)
      BY <2>1, <2>3, Constants DEF Acceptance, Maybe, Ws
    <3>2. db' = IF job[h].ws = 0 THEN db ELSE [db EXCEPT !.access = @ \cup {<< job[h].org, job[h].ws, job[h].user >>}]
      BY <1>24, <2>3 DEF Assign
    <3>6. job[h].ws # 0 => db.access \cup {<< job[h].org, job[h].ws, job[h].user >>} \in SUBSET (Org \X Ws \X User)
      BY <1>0, <3>1 DEF Typed, DB
    <3>3. db' \in DB
      BY <1>0, <3>2, <3>6 DEF Typed, DB
    <3>4. [job[h] EXCEPT !.pc = "mark"] \in AnyJob
      BY <2>1 DEF Acceptance, AnyJob, Accepting
    <3>5. job' \in [Job -> AnyJob] /\ UNCHANGED spoiled
      BY <1>0, <1>24, <2>3, <3>1, <3>4 DEF Typed, Assign
    <3> QED BY <1>0, <1>24, <3>3, <3>5 DEF Typed, Assign
  <2> QED BY <2>2, <2>3
<1>25. ASSUME NEW h \in Job, Mark(h) PROVE Typed'
  <2>1. job[h] \in Acceptance
    BY <1>0, <1>25, JobKinds DEF Typed, Mark, Accepting
  <2>2. CASE job[h].org = None
    BY <1>0, <1>25, <2>2, JobEnded DEF Typed, Mark
  <2>3. CASE job[h].org # None
    <3>1. job[h].inv \in Inv /\ inv[job[h].inv] \in Invitation
      BY <1>0, <1>25, <2>1, <2>3, InvitationKinds DEF JobsLinked, Mark, Accepting, Acceptance
    <3>5. [inv[job[h].inv] EXCEPT !.accepted = TRUE] \in Invitation
      BY <3>1 DEF Invitation
    <3>2. inv' \in [Inv -> Invitation \cup {Blank}]
      BY <1>0, <1>25, <2>3, <3>1, <3>5 DEF Typed, Mark
    <3>3. job[h].signup => [job[h] EXCEPT !.pc = "clean"] \in AnyJob
      BY <2>1 DEF Acceptance, AnyJob, Accepting
    <3>4. job' \in [Job -> AnyJob]
      BY <1>0, <1>25, <2>3, <3>3, JobEnded DEF Typed, Mark
    <3> QED BY <1>0, <1>25, <3>2, <3>4 DEF Typed, Mark
  <2> QED BY <2>2, <2>3
<1>26. ASSUME NEW h \in Job, Clean(h) PROVE Typed'
  BY <1>0, <1>26, CleanRows DEF Typed, Clean
<1>27. ASSUME NEW h \in Job, Deactivate(h) PROVE Typed'
  <2>1. job[h].user \in User
    BY <1>0, <1>27, JobKinds DEF Typed, Deactivate, Plain
  <2> QED BY <1>0, <1>27, <2>1, JobEnded DEF Typed, Deactivate
<1>28. ASSUME NEW h \in Job, WriteWorkspace(h) PROVE Typed'
  <2>1. db' \in DB
    BY <1>0, <1>28, WrittenRows
  <2> QED BY <1>0, <1>28, <2>1, JobEnded DEF Typed, WriteWorkspace
<1>29. ASSUME NEW h \in Job, Schedule(h) PROVE Typed'
  <2>1. job[h].org \in Maybe
    BY <1>0, <1>29, JobKinds DEF Typed, Schedule, Plain
  <2>3. job[h].org # None => [db.tasks EXCEPT ![job[h].org] = @ \cup {Grace}] \in [Org -> SUBSET (0 .. Grace)]
    BY <1>0, <2>1, Constants DEF Typed, DB, Maybe
  <2>2. db' \in DB
    BY <1>0, <1>29, <2>3 DEF Typed, Schedule, Delayed, DB
  <2> QED BY <1>0, <1>29, <2>2, JobEnded DEF Typed, Schedule
<1>30. ASSUME NEW h \in Job, Clear(h) PROVE Typed'
  <2>1. job[h].org \in Maybe
    BY <1>0, <1>30, JobKinds DEF Typed, Clear, Plain
  <2>2. db' \in DB
    BY <1>0, <1>30, <2>1 DEF Typed, Clear, DB, Maybe
  <2> QED BY <1>0, <1>30, <2>2, JobEnded DEF Typed, Clear
<1>31. ASSUME NEW h \in Job, NEW o \in Org, RunTask(h, o) PROVE Typed'
  <2>1. Purge(o, None) \in AnyJob
    BY DEF AnyJob, Purging, Purge, Maybe, Members
  <2>2. CASE IsDue(o) /\ Starts(h, Purge(o, None)) /\ UNCHANGED db
    BY <1>0, <1>31, <2>1, <2>2, JobStarted DEF Typed, RunTask
  <2>3. CASE ~IsDue(o) /\ db' = [db EXCEPT !.tasks[o] = @ \ {0}] /\ UNCHANGED job
    <3>1. db' \in DB
      BY <1>0, <2>3 DEF Typed, DB
    <3> QED BY <1>0, <1>31, <2>3, <3>1 DEF Typed, RunTask
  <2> QED BY <1>31, <2>2, <2>3 DEF RunTask
<1>32. ASSUME NEW h \in Job, DeleteOrg(h) PROVE Typed'
  BY <1>0, <1>32, PurgedRows DEF Typed, DeleteOrg
<1>33. ASSUME NEW h \in Job, NEW u \in User, Settle(h, u) PROVE Typed'
  BY <1>0, <1>33, SettledRows DEF Typed, Settle
<1>34. ASSUME NEW h \in Job, Crash(h) PROVE Typed'
  <2>1. job[h] \in AnyJob /\ job' \in [Job -> AnyJob]
    BY <1>0, <1>34, JobEnded DEF Typed, Crash
  <2>2. job[h].pc \in {"assign", "mark"} => job[h].inv \in Inv
    BY <2>1, JobKinds DEF Accepting, Acceptance
  <2>4. spoiled' \subseteq Inv
    BY <1>0, <1>34, <2>2 DEF Typed, Crash
  <2>6. crashes' \in 0 .. MaxCrashes
    BY <1>0, <1>34, TenancyAssumption DEF Typed, Crash
  <2> QED BY <1>0, <1>34, <2>1, <2>4, <2>6 DEF Typed, Crash
<1>40. ASSUME NEW h \in Job, Found(h) PROVE Typed'
  BY <1>0, <1>40, FoundRows DEF Typed, Found
<1>41. ASSUME NEW h \in Job, Quit(h) PROVE Typed'
  <2>1. job[h].user \in User
    BY <1>0, <1>41, JobKinds DEF Typed, Quit, Quitting
  <2>2. db' \in DB /\ raced' \subseteq Org
    BY <1>0, <1>41, <2>1, WithoutUserRows DEF Typed, Quit, Owned
  <2> QED BY <1>0, <1>41, <2>1, <2>2, JobEnded DEF Typed, Quit
<1>42. ASSUME NEW h \in Job, CleanHalf(h) PROVE Typed'
  <2>1. db' \in DB /\ half' \subseteq Org /\ job[h].user \in Org
    BY <1>0, <1>42, CleanHalfRows DEF Typed
  <2>2. raced' \subseteq Org
    BY <1>0, <1>42, <2>1 DEF Typed, CleanHalf
  <2>3. crashes' \in 0 .. MaxCrashes
    BY <1>0, <1>42, TenancyAssumption DEF Typed, CleanHalf
  <2> QED BY <1>0, <1>42, <2>1, <2>2, <2>3, JobEnded DEF Typed, CleanHalf
<1>43. ASSUME NEW h \in Job, Regrade(h) PROVE Typed'
  BY <1>0, <1>43, RegradeRows, JobEnded DEF Typed, Regrade
<1>44. ASSUME NEW h \in Job, Leave(h) PROVE Typed'
  BY <1>0, <1>44, LeaveRows DEF Typed, Leave
<1>35. CASE Tick
  BY <1>0, <1>35, TickRows DEF Typed, Tick
<1>36. CASE AccountRequest
  BY <1>36, <1>2, <1>3, <1>4, <1>5, <1>6, <1>7 DEF AccountRequest
<1>37. CASE MemberRequest
  <2>1. Ws \subseteq 0 .. MaxWs /\ Invited \subseteq Grades /\ "member" \in Grades /\ {"admin", "member"} = Grades
    BY Constants DEF Grades
  <2> QED BY <1>37, <2>1, <1>8, <1>9, <1>10, <1>11, <1>12, <1>13 DEF MemberRequest, Invite, InviteToWorkspace
<1>38. CASE OrgRequest
  BY <1>38, <1>14, <1>15, <1>16, <1>17, <1>18, <1>19, <1>20, <1>21 DEF OrgRequest
<1>39. CASE Step
  BY <1>39, <1>22, <1>23, <1>24, <1>25, <1>26, <1>27, <1>28, <1>29, <1>30, <1>31, <1>32, <1>33, <1>34,
     <1>40, <1>41, <1>42, <1>43, <1>44 DEF Step
<1> QED BY <1>1, <1>35, <1>36, <1>37, <1>38, <1>39 DEF Next

(***************************************************************************)
(* Rows refer to rows that exist, whatever is written.                     *)
(***************************************************************************)
Accounts == [User -> {"active", "inactive", None}]

Rows(acc, d) ==
  /\ \A o \in Org, u \in User : d.role[o][u] # None => o \in d.orgs /\ acc[u] # None
  /\ \A a \in d.access : d.ws[a[1]][a[2]] # None /\ acc[a[3]] # None
  /\ \A o \in Org \ d.orgs : d.due[o] = Never /\ d.tasks[o] = {} /\ \A n \in Ws : d.ws[o][n] = None

(* A new organization refers to an account that is there.                  *)
LEMMA MadeLinked ==
  ASSUME NEW d \in DB, NEW e, NEW acc \in Accounts, NEW u \in User, NEW K, Makes(K, u, d, e), Rows(acc, d),
         2 \in K \/ 4 \in K => acc[u] # None,
         2 \in K \/ 3 \in K => 1 \in K \/ u \in d.orgs,
         4 \in K => 3 \in K \/ d.ws[u][1] # None
  PROVE  Rows(acc, e) /\ d.orgs \subseteq e.orgs
<1>0. u \in Org /\ 1 \in Ws
  BY Constants DEF Org
<1>1. /\ e \in DB /\ e.due = d.due /\ e.tasks = d.tasks
      /\ e.orgs = IF 1 \in K THEN d.orgs \cup {u} ELSE d.orgs
      /\ \A o \in Org, v \in User : e.role[o][v] = IF 2 \in K /\ o = u /\ v = u THEN "owner" ELSE d.role[o][v]
      /\ \A o \in Org, n \in Ws : e.ws[o][n] = IF 3 \in K /\ o = u /\ n = 1 THEN "active" ELSE d.ws[o][n]
      /\ e.access = IF 4 \in K THEN d.access \cup {<< u, 1, u >>} ELSE d.access
  BY DEF Makes
<1>2. \A o \in Org, v \in User : e.role[o][v] # None => o \in e.orgs /\ acc[v] # None
  BY <1>0, <1>1 DEF Rows
<1>3. ASSUME NEW a \in e.access PROVE e.ws[a[1]][a[2]] # None /\ acc[a[3]] # None
  <2>1. CASE a \in d.access
    <3>1. a[1] \in Org /\ a[2] \in Ws /\ d.ws[a[1]][a[2]] # None /\ acc[a[3]] # None
      BY <2>1 DEF Rows, DB
    <3> QED BY <1>1, <3>1 DEF None
  <2>2. CASE 4 \in K /\ a = << u, 1, u >>
    BY <1>0, <1>1, <2>2 DEF None
  <2> QED BY <1>1, <2>1, <2>2
<1>4. \A o \in Org \ e.orgs : e.due[o] = Never /\ e.tasks[o] = {} /\ \A n \in Ws : e.ws[o][n] = None
  BY <1>0, <1>1 DEF Rows
<1> QED BY <1>1, <1>2, <1>3, <1>4 DEF Rows

(* What is left when an organization goes refers to nothing that is gone.  *)
LEMMA WithoutOrgLinked ==
  ASSUME NEW d \in DB, NEW acc \in Accounts, NEW o \in Org, Rows(acc, d)
  PROVE  Rows(acc, WithoutOrg(d, o))
<1> DEFINE e == WithoutOrg(d, o)
<1>1. /\ e \in DB /\ e.orgs = d.orgs \ {o} /\ e.access = {a \in d.access : a[1] # o}
      /\ \A p \in Org, u \in User : e.role[p][u] = IF p = o THEN None ELSE d.role[p][u]
      /\ \A p \in Org, n \in Ws : e.ws[p][n] = IF p = o THEN None ELSE d.ws[p][n]
      /\ \A p \in Org : e.due[p] = IF p = o THEN Never ELSE d.due[p]
      /\ \A p \in Org : e.tasks[p] = IF p = o THEN {} ELSE d.tasks[p]
  BY WithoutOrgRows
<1> HIDE DEF e
<1>2. \A p \in Org, v \in User : e.role[p][v] # None => p \in e.orgs /\ acc[v] # None
  BY <1>1 DEF Rows
<1>3. \A a \in e.access : e.ws[a[1]][a[2]] # None /\ acc[a[3]] # None
  BY <1>1 DEF Rows, DB
<1>4. \A p \in Org \ e.orgs : e.due[p] = Never /\ e.tasks[p] = {} /\ \A n \in Ws : e.ws[p][n] = None
  BY <1>1 DEF Rows
<1> QED BY <1>2, <1>3, <1>4 DEF Rows, e

(* What is left when an account goes refers to nothing that is gone.       *)
LEMMA WithoutUserLinked ==
  ASSUME NEW d \in DB, NEW acc \in Accounts, NEW u \in User, Rows(acc, d)
  PROVE  Rows([acc EXCEPT ![u] = None], WithoutUser(d, u))
BY WithoutUserRows DEF Rows, DB, Accounts

(* What is left when a workspace goes refers to nothing that is gone.      *)
LEMMA WithoutWsLinked ==
  ASSUME NEW d \in DB, NEW acc \in Accounts, NEW o \in Org, NEW n \in Ws, Rows(acc, d)
  PROVE  Rows(acc, WithoutWs(d, o, n))
<1> DEFINE e == WithoutWs(d, o, n)
<1>1. /\ e \in DB /\ e.orgs = d.orgs /\ e.role = d.role /\ e.due = d.due /\ e.tasks = d.tasks
      /\ e.access = {a \in d.access : a[1] # o \/ a[2] # n}
      /\ \A p \in Org, m \in Ws : e.ws[p][m] = IF p = o /\ m = n THEN None ELSE d.ws[p][m]
  BY WithoutWsRows
<1> HIDE DEF e
<1>2. \A a \in e.access : e.ws[a[1]][a[2]] # None /\ acc[a[3]] # None
  BY <1>1 DEF Rows, DB
<1>3. \A p \in Org \ e.orgs : e.due[p] = Never /\ e.tasks[p] = {} /\ \A m \in Ws : e.ws[p][m] = None
  BY <1>1 DEF Rows
<1> QED BY <1>1, <1>2, <1>3 DEF Rows, e

(* Rows that are fewer, or about the same ones, refer to what exists.      *)
LEMMA FewerLinked ==
  ASSUME NEW d \in DB, NEW e \in DB, NEW acc \in Accounts, Rows(acc, d), e.orgs = d.orgs,
         e.access \subseteq d.access,
         \A o \in Org, u \in User : e.role[o][u] = d.role[o][u] \/ e.role[o][u] = None \/ d.role[o][u] # None,
         \A o \in Org, n \in Ws : (e.ws[o][n] = None) <=> (d.ws[o][n] = None),
         \A o \in Org \ d.orgs : e.due[o] = Never /\ e.tasks[o] = {}
  PROVE  Rows(acc, e)
BY DEF Rows, DB

(* A person who exists joins an organization and workspaces that do.       *)
LEMMA MoreLinked ==
  ASSUME NEW d \in DB, NEW e \in DB, NEW acc \in Accounts, NEW u \in User, NEW o \in d.orgs,
         acc[u] # None, Rows(acc, d), e.orgs = d.orgs, e.due = d.due, e.tasks = d.tasks,
         \A p \in Org, v \in User : e.role[p][v] = d.role[p][v] \/ (p = o /\ v = u),
         \A p \in Org, n \in Ws : e.ws[p][n] = d.ws[p][n] \/ (p = o /\ e.ws[p][n] # None),
         \A a \in e.access : a \in d.access \/ (e.ws[a[1]][a[2]] # None /\ a[3] = u)
  PROVE  Rows(acc, e)
<1>0. o \in Org
  BY DEF DB
<1>1. \A p \in Org, v \in User : e.role[p][v] # None => p \in e.orgs /\ acc[v] # None
  BY <1>0 DEF Rows
<1>2. ASSUME NEW a \in e.access PROVE e.ws[a[1]][a[2]] # None /\ acc[a[3]] # None
  <2>1. CASE a \in d.access
    <3>1. a[1] \in Org /\ a[2] \in Ws /\ d.ws[a[1]][a[2]] # None /\ acc[a[3]] # None
      BY <2>1 DEF Rows, DB
    <3> QED BY <3>1
  <2> QED BY <2>1
<1>3. \A p \in Org \ e.orgs : e.due[p] = Never /\ e.tasks[p] = {} /\ \A n \in Ws : e.ws[p][n] = None
  BY <1>0 DEF Rows
<1> QED BY <1>1, <1>2, <1>3 DEF Rows

(* More people have accounts.                                              *)
LEMMA AccountsLinked ==
  ASSUME NEW d \in DB, NEW acc \in Accounts, NEW bcc \in Accounts, Rows(acc, d),
         \A u \in User : acc[u] # None => bcc[u] # None
  PROVE  Rows(bcc, d)
<1>1. \A a \in d.access : a[3] \in User
  BY DEF DB
<1> QED BY <1>1 DEF Rows

RowsOK == Rows(account, db) /\ \A i \in Inv : inv[i] # Blank => inv[i].org \in db.orgs

(* Every step keeps the references between the rows.                       *)
LEMMA RowsNext ==
  ASSUME Linked, Typed', [Next]_vars
  PROVE  TypeOK'
<1> USE DEF ghosts
<1>0. /\ Typed /\ JobsLinked /\ RowsOK
      /\ account \in Accounts /\ account' \in Accounts /\ db \in DB /\ db' \in DB
  BY DEF Linked, Typed, TypeOK, RowsOK, Rows, Accounts
<1>00. SUFFICES RowsOK'
  BY <1>0 DEF TypeOK, Typed, RowsOK, Rows, DB
<1>1. CASE UNCHANGED vars
  BY <1>0, <1>1 DEF vars, RowsOK
<1>2. ASSUME NEW u \in User, SignUp(u) PROVE RowsOK'
  <2>0. \A v \in User : account[v] # None => account'[v] # None
    BY <1>0, <1>2 DEF SignUp, Accounts, None
  <2>1. Rows(account', db)
    BY <1>0, <2>0, AccountsLinked DEF RowsOK
  <2>2. account'[u] # None
    BY <1>0, <1>2 DEF SignUp, Accounts, None
  <2>4. PICK k \in 0 .. 4 : Makes(1 .. k, u, db, db')
    BY <1>0, <1>2, SignUpRows
  <2> DEFINE K == 1 .. k
  <2>5. (2 \in K \/ 3 \in K => 1 \in K) /\ (4 \in K => 3 \in K)
    OBVIOUS
  <2> HIDE DEF K
  <2>6. Makes(K, u, db, db')
    BY <2>4 DEF K
  <2>3. Rows(account', db') /\ db.orgs \subseteq db'.orgs
    BY <1>0, <2>1, <2>2, <2>5, <2>6, MadeLinked
  <2> QED BY <1>0, <1>2, <2>3 DEF SignUp, RowsOK
<1>3. ASSUME NEW u \in User, NEW h \in Job, DeleteAccount(h, u) PROVE RowsOK'
  BY <1>0, <1>3 DEF DeleteAccount, RowsOK
<1>4. ASSUME NEW u \in User, NEW o \in Org, CleanUp(u, o) PROVE RowsOK'
  <2>1. Rows(account', db')
    BY <1>0, <1>4, WithoutOrgLinked DEF CleanUp, RowsOK
  <2>2. \A i \in Inv : inv'[i] # Blank => inv'[i].org \in db'.orgs
    <3>1. db'.orgs = db.orgs \ {o} /\ inv' = InvWithout(o)
      BY <1>0, <1>4, WithoutOrgRows DEF CleanUp
    <3> QED BY <1>0, <3>1, InvWithoutRows DEF RowsOK
  <2> QED BY <2>1, <2>2 DEF RowsOK
<1>5. ASSUME NEW u \in User, NEW h \in Job, ReadProfile(h, u) PROVE RowsOK'
  BY <1>0, <1>5 DEF ReadProfile, RowsOK
<1>6. ASSUME NEW h \in Job, NEW u \in User, NEW i \in Inv, SignUpInvited(h, u, i) PROVE RowsOK'
  <2>0. \A v \in User : account[v] # None => account'[v] # None
    BY <1>0, <1>6 DEF SignUpInvited, Accounts, None
  <2>1. Rows(account', db)
    BY <1>0, <2>0, AccountsLinked DEF RowsOK
  <2>2. account'[u] # None
    BY <1>0, <1>6 DEF SignUpInvited, Accounts, None
  <2>5. Makes(1 .. 4, u, db, db') /\ 1 \in 1 .. 4 /\ 3 \in 1 .. 4
    BY <1>0, <1>6, FoundedRows DEF SignUpInvited
  <2>3. Rows(account', db') /\ db.orgs \subseteq db'.orgs
    BY <1>0, <2>1, <2>2, <2>5, MadeLinked
  <2> QED BY <1>0, <1>6, <2>3 DEF SignUpInvited, RowsOK
<1>7. ASSUME NEW h \in Job, NEW u \in User, NEW i \in Inv, Accept(h, u, i) PROVE RowsOK'
  BY <1>0, <1>7 DEF Accept, RowsOK
<1>8. ASSUME NEW a \in User, NEW u \in User, NEW o \in Org, NEW S \in SUBSET Ws, SetWorkspaces(a, o, u, S)
      PROVE  RowsOK'
  <2> DEFINE acc == {x \in db.access : x[1] # o \/ x[3] # u \/ x[2] \notin Active(o)} \cup {<< o, n, u >> : n \in S}
  <2>1. db' = [db EXCEPT !.access = acc]
    BY <1>8, Zenon DEF SetWorkspaces, Assigned
  <2>2. \A x \in acc : x \in db.access \/ (db.ws[x[1]][x[2]] # None /\ x[3] = u)
    BY <1>8 DEF SetWorkspaces, Active, None
  <2> HIDE DEF acc
  <2>3. db'.access = acc /\ db'.orgs = db.orgs /\ db'.role = db.role /\ db'.ws = db.ws /\ db'.due = db.due
        /\ db'.tasks = db.tasks /\ db' \in DB
    BY <1>0, <2>1 DEF DB
  <2>4. o \in db.orgs /\ account[u] # None
    BY <1>0, <1>8 DEF SetWorkspaces, Members, RowsOK, Rows
  <2>5. Rows(account, db')
    BY <1>0, <2>2, <2>3, <2>4, MoreLinked DEF RowsOK
  <2> QED BY <1>0, <1>8, <2>3, <2>5 DEF SetWorkspaces, RowsOK
<1>9. ASSUME NEW a \in User, NEW u \in User, NEW o \in Org, NEW S \in SUBSET Ws, NEW r \in Invited \cup {"owner"},
             CreateMember(a, o, u, r, S)
      PROVE  RowsOK'
  <2> DEFINE acc == db.access \cup {<< o, n, u >> : n \in S}
  <2>1. db' = [db EXCEPT !.role[o][u] = r, !.access = acc]
    BY <1>9, Zenon DEF CreateMember
  <2>2. \A x \in acc : x \in db.access \/ (db.ws[x[1]][x[2]] # None /\ x[3] = u)
    BY <1>9 DEF CreateMember, Active, None
  <2> HIDE DEF acc
  <2>3. db'.access = acc /\ db'.orgs = db.orgs /\ db'.ws = db.ws /\ db'.due = db.due
        /\ db'.tasks = db.tasks /\ db' \in DB
    BY <1>0, <2>1 DEF DB
  <2>6. db'.role = [db.role EXCEPT ![o][u] = r]
    BY <1>0, <2>1 DEF DB
  <2>7. \A p \in Org, v \in User : db'.role[p][v] = db.role[p][v] \/ (p = o /\ v = u)
    BY <1>0, <2>6 DEF DB
  <2>4. o \in db.orgs /\ account'[u] # None /\ Rows(account', db)
    BY <1>0, <1>9, AccountsLinked DEF CreateMember, IsAdmin, RowsOK, Rows, None, Accounts
  <2>5. Rows(account', db')
    BY <1>0, <2>2, <2>3, <2>4, <2>7, MoreLinked
  <2> QED BY <1>0, <1>9, <2>3, <2>5 DEF CreateMember, RowsOK
<1>10. ASSUME NEW a \in User, NEW u \in User, NEW o \in Org, NEW i \in Inv, NEW r \in Invited, NEW n \in 0 .. MaxWs, Invite(a, o, i, u, r, n)
       PROVE  RowsOK'
  <2>1. o \in db.orgs
    BY <1>0, <1>10 DEF Invite, IsAdmin, RowsOK, Rows, None
  <2> QED BY <1>0, <1>10, <2>1 DEF Invite, Invites, RowsOK, Typed
<1>11. ASSUME NEW a \in User, NEW u \in User, NEW o \in Org, NEW i \in Inv, NEW n \in Ws, InviteToWorkspace(a, o, i, u, n)
       PROVE  RowsOK'
  <2>1. o \in db.orgs
    BY <1>0, <1>11 DEF InviteToWorkspace, Uses, RowsOK, Rows
  <2> QED BY <1>0, <1>11, <2>1 DEF InviteToWorkspace, Invites, RowsOK, Typed
<1>12. ASSUME NEW h \in Job, NEW a \in User, NEW u \in User, NEW o \in Org, NEW r \in Grades, UpdateRole(h, a, o, u, r)
       PROVE  RowsOK'
  BY <1>0, <1>12 DEF UpdateRole, RowsOK
<1>13. ASSUME NEW h \in Job, NEW a \in User, NEW u \in User, NEW o \in Org, RemoveMember(h, a, o, u)
       PROVE  RowsOK'
  BY <1>0, <1>13 DEF RemoveMember, RowsOK
<1>14. ASSUME NEW a \in User, NEW u \in User, NEW o \in Org, NEW n \in Ws, LeaveWorkspace(a, o, n, u)
       PROVE  RowsOK'
  <2>1. Rows(account, db') /\ db'.orgs = db.orgs
    BY <1>0, <1>14 DEF LeaveWorkspace, RowsOK, Rows, DB
  <2> QED BY <1>0, <1>14, <2>1 DEF LeaveWorkspace, RowsOK
<1>15. ASSUME NEW i \in Inv, Revoke(i) PROVE RowsOK'
  BY <1>0, <1>15, InvitationKinds DEF Revoke, Expired, RowsOK, Typed, Invitation
<1>16. ASSUME NEW a \in User, NEW i \in Inv, Resend(a, i) PROVE RowsOK'
  BY <1>0, <1>16, InvitationKinds DEF Resend, Reopened, RowsOK, Typed, Invitation
<1>17. ASSUME NEW u \in User, NEW o \in Org, CreateWorkspace(u, o) PROVE RowsOK'
  <2>1. PICK n \in Ws : db' = [db EXCEPT !.ws[o][n] = "active", !.access = @ \cup {<< o, n, u >>}]
    BY <1>17 DEF CreateWorkspace
  <2>2. /\ db'.ws = [db.ws EXCEPT ![o][n] = "active"] /\ db'.access = db.access \cup {<< o, n, u >>}
        /\ db'.orgs = db.orgs /\ db'.role = db.role /\ db'.due = db.due /\ db'.tasks = db.tasks /\ db' \in DB
    BY <1>0, <2>1 DEF DB
  <2>3. \A p \in Org, m \in Ws : db'.ws[p][m] = IF p = o /\ m = n THEN "active" ELSE db.ws[p][m]
    BY <1>0, <2>2 DEF DB
  <2>4. o \in db.orgs /\ account[u] # None
    BY <1>0, <1>17 DEF CreateWorkspace, IsAdmin, LoggedIn, RowsOK, Rows, None
  <2>5. \A p \in Org, m \in Ws : db'.ws[p][m] = db.ws[p][m] \/ (p = o /\ db'.ws[p][m] # None)
    BY <2>3 DEF None
  <2>6. \A a \in db'.access : a \in db.access \/ (db'.ws[a[1]][a[2]] # None /\ a[3] = u)
    BY <2>2, <2>3 DEF None
  <2>7. Rows(account, db')
    <3>1. Rows(account, db)
      BY <1>0 DEF RowsOK
    <3>2. \A p \in Org, v \in User : db'.role[p][v] = db.role[p][v] \/ (p = o /\ v = u)
      BY <2>2
    <3>3. db'.orgs = db.orgs /\ db'.due = db.due /\ db'.tasks = db.tasks /\ account \in Accounts
      BY <1>0, <2>2
    <3> QED BY <1>0, <2>4, <2>5, <2>6, <3>1, <3>2, <3>3, MoreLinked
  <2> QED BY <1>0, <1>17, <2>2, <2>7 DEF CreateWorkspace, RowsOK
<1>18. ASSUME NEW u \in User, NEW o \in Org, NEW n \in Ws, Unarchive(u, o, n) PROVE RowsOK'
  <2>1. Rows(account, db') /\ db'.orgs = db.orgs
    BY <1>0, <1>18 DEF Unarchive, RowsOK, Rows, DB, None
  <2> QED BY <1>0, <1>18, <2>1 DEF Unarchive, RowsOK
<1>19. ASSUME NEW h \in Job, NEW u \in User, NEW o \in Org, AskDeletion(h, u, o) PROVE RowsOK'
  <2>1. o \in db.orgs
    BY <1>0, <1>19 DEF AskDeletion, IsOwner, RowsOK, Rows, None
  <2>2. Rows(account, db') /\ db'.orgs = db.orgs
    BY <1>0, <1>19, <2>1 DEF AskDeletion, RowsOK, Rows, DB
  <2> QED BY <1>0, <1>19, <2>2 DEF AskDeletion, RowsOK
<1>20. ASSUME NEW h \in Job, NEW u \in User, NEW o \in Org, AskCancel(h, u, o) PROVE RowsOK'
  <2>1. Rows(account, db') /\ db'.orgs = db.orgs
    BY <1>0, <1>20 DEF AskCancel, RowsOK, Rows, DB
  <2> QED BY <1>0, <1>20, <2>1 DEF AskCancel, RowsOK
<1>21. ASSUME NEW h \in Job, NEW u \in User, NEW o \in Org, DeleteNow(h, u, o) PROVE RowsOK'
  <2>1. Rows(account, db') /\ db'.orgs = db.orgs
    BY <1>0, <1>21 DEF DeleteNow, RowsOK, Rows, DB
  <2> QED BY <1>0, <1>21, <2>1 DEF DeleteNow, RowsOK
<1>22. ASSUME NEW h \in Job, NEW u \in User, NEW o \in Org, NEW n \in Ws,
              NEW what \in {"archive", "delete", "settings"}, ReadWorkspace(h, u, o, n, what)
       PROVE  RowsOK'
  BY <1>0, <1>22 DEF ReadWorkspace, RowsOK
<1>23. ASSUME NEW h \in Job, SaveProfile(h) PROVE RowsOK'
  <2>1. job[h].user \in User
    BY <1>0, <1>23, JobKinds DEF Typed, SaveProfile, Plain
  <2>2. Rows(account', db) /\ account'[job[h].user] # None
    BY <1>0, <1>23, <2>1, AccountsLinked DEF SaveProfile, RowsOK, Accounts, None
  <2>3. Rows(account', db') /\ db.orgs \subseteq db'.orgs
    <3>1. CASE Begins(h, job[h].user, job[h].user, {})
      <4>1. Makes({1}, job[h].user, db, db')
        BY <1>0, <2>1, <3>1, FoundedRows DEF Begins
      <4> QED BY <1>0, <2>1, <2>2, <4>1, MadeLinked
    <3>2. CASE db' = db
      BY <2>2, <3>2
    <3> QED BY <1>23, <3>1, <3>2 DEF SaveProfile
  <2> QED BY <1>0, <1>23, <2>3 DEF SaveProfile, RowsOK
<1>24. ASSUME NEW h \in Job, Join(h) PROVE RowsOK'
  <2>1. CASE db' = db
    BY <1>0, <1>24, <2>1 DEF Join, RowsOK
  <2>2. CASE db' # db
    <3> DEFINE j == job[h]
    <3>1. /\ db' = [db EXCEPT !.role[j.org][j.user] = j.role] /\ j.org # None /\ account[j.user] # None
      BY <1>24, <2>2 DEF Join
    <3>2. j \in Acceptance
      BY <1>0, <1>24, JobKinds DEF Typed, Join, Accepting
    <3>3. j.org \in db.orgs /\ j.user \in User
      BY <1>0, <1>24, <3>1, <3>2 DEF JobsLinked, Join, Acceptance
    <3> HIDE DEF j
    <3>4. Rows(account, db') /\ db'.orgs = db.orgs
      BY <1>0, <3>1, <3>3 DEF RowsOK, Rows, DB
    <3> QED BY <1>0, <1>24, <3>4 DEF Join, RowsOK
  <2> QED BY <2>1, <2>2
<1>25. ASSUME NEW h \in Job, Assign(h) PROVE RowsOK'
  <2>1. CASE db' = db
    BY <1>0, <1>25, <2>1 DEF Assign, RowsOK
  <2>2. CASE db' # db
    <3> DEFINE j == job[h]
    <3>1. /\ db' = [db EXCEPT !.access = @ \cup {<< j.org, j.ws, j.user >>}] /\ j.org # None /\ j.ws # 0
          /\ account[j.user] # None /\ db.ws[j.org][j.ws] # None
      BY <1>25, <2>2 DEF Assign
    <3> HIDE DEF j
    <3>2. db'.access = db.access \cup {<< j.org, j.ws, j.user >>}
          /\ db'.orgs = db.orgs /\ db'.role = db.role /\ db'.ws = db.ws /\ db'.due = db.due /\ db'.tasks = db.tasks
      BY <1>0, <3>1 DEF DB
    <3>3. Rows(account, db')
      BY <1>0, <3>1, <3>2 DEF RowsOK, Rows
    <3> QED BY <1>0, <1>25, <3>2, <3>3 DEF Assign, RowsOK
  <2> QED BY <2>1, <2>2
<1>26. ASSUME NEW h \in Job, Mark(h) PROVE RowsOK'
  <2>1. CASE inv' = inv
    BY <1>0, <1>26, <2>1 DEF Mark, RowsOK
  <2>2. CASE inv' # inv
    <3> DEFINE j == job[h]
    <3>1. inv' = [inv EXCEPT ![j.inv].accepted = TRUE] /\ j.org # None
      BY <1>26, <2>2 DEF Mark
    <3>2. inv[j.inv] # Blank /\ j.inv \in Inv
      BY <1>0, <1>26, <3>1, JobKinds DEF Typed, JobsLinked, Mark, Accepting, Acceptance
    <3>3. \A i \in Inv : inv'[i] # Blank => inv[i] # Blank /\ inv'[i].org = inv[i].org
      BY <1>0, <3>1, <3>2, InvitationKinds DEF Typed, Invitation
    <3> QED BY <1>0, <1>26, <3>3 DEF Mark, RowsOK
  <2> QED BY <2>1, <2>2
<1>27. ASSUME NEW h \in Job, Clean(h) PROVE RowsOK'
  <2> DEFINE u == job[h].user
             left == Leaving(u, job[h].org)
  <2>1. u \in Org /\ u \in User /\ left \in DB /\ left.orgs = db.orgs
    BY <1>0, <1>27, CleanRows, LeavingRows
  <2>2. Rows(account, left)
    BY <1>0, <2>1, LeavingRows, FewerLinked DEF RowsOK, Rows
  <2>3. CASE Alone(u, job[h].org)
    <3>1. db' = WithoutOrg(left, u) /\ inv' = InvWithout(u) /\ account' = account
      BY <1>0, <1>27, <2>3, CleanRows DEF Clean
    <3>2. Rows(account', db') /\ db'.orgs = db.orgs \ {u}
      BY <1>0, <2>1, <2>2, <3>1, WithoutOrgLinked, WithoutOrgRows
    <3>3. \A i \in Inv : inv'[i] # Blank => inv'[i].org \in db'.orgs
      BY <1>0, <2>1, <3>1, <3>2, InvWithoutRows DEF RowsOK
    <3> QED BY <3>2, <3>3 DEF RowsOK
  <2>4. CASE ~ Alone(u, job[h].org)
    <3>1. db' = left /\ inv' = inv /\ account' = account
      BY <1>0, <1>27, <2>4, CleanRows DEF Clean
    <3> QED BY <1>0, <2>1, <2>2, <3>1 DEF RowsOK
  <2> QED BY <2>3, <2>4
<1>28. ASSUME NEW h \in Job, Deactivate(h) PROVE RowsOK'
  <2>1. Rows(account', db)
    BY <1>0, <1>28, AccountsLinked DEF Deactivate, RowsOK, Accounts, None
  <2> QED BY <1>0, <1>28, <2>1 DEF Deactivate, RowsOK
<1>29. ASSUME NEW h \in Job, WriteWorkspace(h) PROVE RowsOK'
  <2>1. CASE db' = db
    BY <1>0, <1>29, <2>1 DEF WriteWorkspace, RowsOK
  <2>2. ASSUME job[h].org \in Org, job[h].what = "delete", db' = WithoutWs(db, job[h].org, job[h].ws) PROVE RowsOK'
    <3>1. job[h].ws \in Ws
      BY <1>0, <1>29, WrittenRows DEF Write
    <3>2. Rows(account, db') /\ db'.orgs = db.orgs
      BY <1>0, <2>2, <3>1, WithoutWsLinked, WithoutWsRows DEF RowsOK
    <3> QED BY <1>0, <1>29, <3>2 DEF WriteWorkspace, RowsOK
  <2>3. ASSUME job[h].org \in Org, job[h].what \in {"archive", "settings"}, db'.access = db.access,
               \A o \in Org, n \in Ws : db'.ws[o][n] = IF o = job[h].org /\ n = job[h].ws
                                                       THEN IF job[h].what = "settings" THEN job[h].seen ELSE "archived"
                                                       ELSE db.ws[o][n]
        PROVE  RowsOK'
    <3>1. job[h].org \in db.orgs
      BY <1>0, <1>29, <2>3, Constants DEF JobsLinked, WriteWorkspace, Org
    <3>2. /\ db' \in DB /\ db'.orgs = db.orgs /\ db'.role = db.role /\ db'.due = db.due /\ db'.tasks = db.tasks
          /\ job[h].seen # None
      BY <1>0, <1>29, WrittenRows DEF Write, None
    <3>3. \A o \in Org, u \in User : db'.role[o][u] # None => o \in db'.orgs /\ account[u] # None
      BY <1>0, <3>2 DEF RowsOK, Rows
    <3>4. \A o \in Org, n \in Ws : db'.ws[o][n] = db.ws[o][n] \/ (o = job[h].org /\ db'.ws[o][n] # None)
      BY <2>3, <3>2 DEF None
    <3>5. \A a \in db'.access : db'.ws[a[1]][a[2]] # None /\ account[a[3]] # None
      BY <1>0, <2>3, <3>4 DEF RowsOK, Rows, DB
    <3>6. \A o \in Org \ db'.orgs : db'.due[o] = Never /\ db'.tasks[o] = {} /\ \A n \in Ws : db'.ws[o][n] = None
      BY <1>0, <3>1, <3>2, <3>4 DEF RowsOK, Rows
    <3>7. Rows(account, db')
      BY <3>3, <3>5, <3>6 DEF Rows
    <3> QED BY <1>0, <1>29, <3>2, <3>7 DEF WriteWorkspace, RowsOK
  <2> QED BY <1>0, <1>29, <2>1, <2>2, <2>3, WrittenRows
<1>30. ASSUME NEW h \in Job, Schedule(h) PROVE RowsOK'
  <2>1. job[h].org \in db.orgs \cup {None}
    BY <1>0, <1>30 DEF JobsLinked, Schedule
  <2>2. Rows(account, db') /\ db'.orgs = db.orgs
    BY <1>0, <1>30, <2>1 DEF Schedule, Delayed, RowsOK, Rows, DB
  <2> QED BY <1>0, <1>30, <2>2 DEF Schedule, RowsOK
<1>31. ASSUME NEW h \in Job, Clear(h) PROVE RowsOK'
  <2>1. job[h].org \in db.orgs \cup {None}
    BY <1>0, <1>31 DEF JobsLinked, Clear
  <2>2. Rows(account, db') /\ db'.orgs = db.orgs
    BY <1>0, <1>31, <2>1 DEF Clear, RowsOK, Rows, DB
  <2> QED BY <1>0, <1>31, <2>2 DEF Clear, RowsOK
<1>32. ASSUME NEW h \in Job, NEW o \in Org, RunTask(h, o) PROVE RowsOK'
  <2>1. CASE db' = db
    BY <1>0, <1>32, <2>1 DEF RunTask, RowsOK
  <2>2. CASE db' = [db EXCEPT !.tasks[o] = @ \ {0}]
    <3>1. Rows(account, db') /\ db'.orgs = db.orgs
      BY <1>0, <2>2 DEF RowsOK, Rows, DB
    <3> QED BY <1>0, <1>32, <3>1 DEF RunTask, RowsOK
  <2> QED BY <1>32, <2>1, <2>2 DEF RunTask
<1>33. ASSUME NEW h \in Job, DeleteOrg(h) PROVE RowsOK'
  <2>1. CASE job[h].org = None
    BY <1>0, <1>33, <2>1, PurgedRows DEF DeleteOrg, RowsOK
  <2>2. CASE job[h].org # None
    <3>1. job[h].org \in Org /\ db' = WithoutOrg(db, job[h].org) /\ inv' = InvWithout(job[h].org)
      BY <1>0, <1>33, <2>2, PurgedRows
    <3>2. Rows(account, db') /\ db'.orgs = db.orgs \ {job[h].org}
      BY <1>0, <3>1, WithoutOrgLinked, WithoutOrgRows DEF RowsOK
    <3>3. \A i \in Inv : inv'[i] # Blank => inv'[i].org \in db'.orgs
      BY <1>0, <3>1, <3>2, InvWithoutRows DEF RowsOK
    <3> QED BY <1>33, <3>2, <3>3 DEF DeleteOrg, RowsOK
  <2> QED BY <2>1, <2>2
<1>34. ASSUME NEW h \in Job, NEW u \in User, Settle(h, u) PROVE RowsOK'
  <2>1. CASE u = job[h].user
    <3>1. account' = [account EXCEPT ![u] = None] /\ db' = WithoutUser(db, u)
      BY <1>34, <2>1 DEF Settle
    <3>2. Rows(account', db') /\ db'.orgs = db.orgs
      BY <1>0, <3>1, WithoutUserLinked, WithoutUserRows DEF RowsOK
    <3> QED BY <1>0, <1>34, <3>2 DEF Settle, RowsOK
  <2>2. CASE u # job[h].user
    <3>1. CASE Begins(h, job[h].user, u, job[h].rest \ {u})
      <4>1. Makes({1}, u, db, db') /\ account' = account
        BY <1>0, <1>34, <2>2, <3>1, FoundedRows DEF Begins, Settle
      <4>2. Rows(account', db') /\ db.orgs \subseteq db'.orgs
        BY <1>0, <4>1, MadeLinked DEF RowsOK
      <4> QED BY <1>0, <1>34, <4>2 DEF Settle, RowsOK
    <3>2. CASE db' = db
      BY <1>0, <1>34, <2>2, <3>2 DEF Settle, RowsOK
    <3> QED BY <1>34, <2>2, <3>1, <3>2 DEF Settle
  <2> QED BY <2>1, <2>2
<1>35. ASSUME NEW h \in Job, Crash(h) PROVE RowsOK'
  BY <1>0, <1>35 DEF Crash, RowsOK
<1>41. ASSUME NEW h \in Job, Found(h) PROVE RowsOK'
  <2>1. CASE db' = db
    BY <1>0, <1>41, <2>1 DEF Found, RowsOK
  <2>2. CASE db' # db
    <3> DEFINE u == job[h].org
               k == job[h].made + 1
    <3>1. db' = Founded(db, u, {k}) /\ ~ Fails(job[h])
      BY <1>41, <2>2 DEF Found
    <3>2. job[h].made \in 1 .. 3 /\ u \in Org /\ u \in User
      BY <1>0, <1>41, <3>1, JobKinds DEF Typed, Found, Founding, Fails, Maybe, Org
    <3>3. u \in db.orgs
      BY <1>0, <1>41, <3>2, Constants DEF JobsLinked, Found
    <3>4. (k \in {2, 4} => account[u] # None) /\ (k = 4 => db.ws[u][1] # None) /\ k \in {2, 3, 4}
      BY <3>1, <3>2 DEF Fails
    <3>5. Makes({k}, u, db, db')
      BY <1>0, <3>1, <3>2, FoundedRows
    <3> HIDE DEF u, k
    <3>6. /\ 2 \in {k} \/ 4 \in {k} => account[u] # None
          /\ 4 \in {k} => 3 \in {k} \/ db.ws[u][1] # None
      BY <3>4
    <3>7. Rows(account, db') /\ db.orgs \subseteq db'.orgs
      BY <1>0, <3>2, <3>3, <3>5, <3>6, MadeLinked DEF RowsOK
    <3> QED BY <1>0, <1>41, <3>7 DEF Found, RowsOK
  <2> QED BY <2>1, <2>2
<1>42. ASSUME NEW h \in Job, Quit(h) PROVE RowsOK'
  <2>0. job[h].user \in User
    BY <1>0, <1>42, JobKinds DEF Typed, Quit, Quitting
  <2>1. Rows(account', db') /\ db'.orgs = db.orgs
    BY <1>0, <1>42, <2>0, WithoutUserLinked, WithoutUserRows DEF Quit, RowsOK
  <2> QED BY <1>0, <1>42, <2>1 DEF Quit, RowsOK
<1>43. ASSUME NEW h \in Job, CleanHalf(h) PROVE RowsOK'
  <2> DEFINE u == job[h].user
             left == Leaving(u, job[h].org)
  <2>1. u \in Org /\ u \in User /\ left \in DB /\ left.orgs = db.orgs /\ left.role = db'.role
        /\ left.due = db'.due /\ left.tasks = db'.tasks /\ db'.orgs = db.orgs
    BY <1>0, <1>43, CleanHalfRows, LeavingRows
  <2>2. Rows(account, left)
    BY <1>0, <2>1, LeavingRows, FewerLinked DEF RowsOK, Rows
  <2>3. \/ db' = left
        \/ /\ \A p \in Org, n \in Ws : db'.ws[p][n] = IF p = u THEN None ELSE left.ws[p][n]
           /\ db'.access = {a \in left.access : a[1] # u}
    BY <1>0, <1>43, <2>1, CleanHalfRows, LeavingRows
  <2> HIDE DEF u, left
  <2>4. Rows(account, db')
    BY <1>0, <2>1, <2>2, <2>3 DEF Rows, DB
  <2> QED BY <1>0, <1>43, <2>1, <2>4 DEF CleanHalf, RowsOK
<1>44. ASSUME NEW h \in Job, Regrade(h) PROVE RowsOK'
  <2>1. Rows(account, db') /\ db'.orgs = db.orgs
    BY <1>0, <1>44, RegradeRows, FewerLinked DEF RowsOK, Rows
  <2> QED BY <1>0, <1>44, <2>1 DEF Regrade, RowsOK
<1>45. ASSUME NEW h \in Job, Leave(h) PROVE RowsOK'
  <2>1. Rows(account, db') /\ db'.orgs = db.orgs
    BY <1>0, <1>45, LeaveRows, FewerLinked DEF RowsOK, Rows
  <2> QED BY <1>0, <1>45, <2>1 DEF Leave, RowsOK
<1>36. CASE Tick
  <2>1. \A o \in Org : db.due[o] = Never => Later(db.due[o]) = Never
    BY DEF Later, Never
  <2>2. \A o \in Org : db.tasks[o] = {} => {Later(t) : t \in db.tasks[o]} = {}
    OBVIOUS
  <2>3. Rows(account, db') /\ db'.orgs = db.orgs
    BY <1>0, <1>36, <2>1, <2>2, TickRows DEF RowsOK, Rows
  <2> QED BY <1>0, <1>36, <2>3 DEF Tick, RowsOK
<1>37. CASE AccountRequest
  BY <1>37, <1>2, <1>3, <1>4, <1>5, <1>6, <1>7 DEF AccountRequest
<1>38. CASE MemberRequest
  <2>1. {"admin", "member"} = Grades
    BY DEF Grades
  <2> QED BY <1>38, <2>1, <1>8, <1>9, <1>10, <1>11, <1>12, <1>13, <1>14 DEF MemberRequest
<1>39. CASE OrgRequest
  BY <1>39, <1>15, <1>16, <1>17, <1>18, <1>19, <1>20, <1>21, <1>22 DEF OrgRequest
<1>40. CASE Step
  BY <1>40, <1>23, <1>24, <1>25, <1>26, <1>27, <1>28, <1>29, <1>30, <1>31, <1>32, <1>33, <1>34, <1>35,
     <1>41, <1>42, <1>43, <1>44, <1>45 DEF Step
<1> QED BY <1>1, <1>36, <1>37, <1>38, <1>39, <1>40 DEF Next

(* A job still holds an organization that exists, and the invitation it    *)
(* accepts.                                                                *)
JobOK(j, d, v) ==
  /\ j.pc \notin {"idle", "settle"} => j.org \in d.orgs \cup {None}
  /\ j.pc = "quit" => j.owned \subseteq d.orgs
  /\ j.pc \in Accepting \cup {"clean"} /\ j.org # None => v[j.inv] # Blank /\ v[j.inv].org = j.org

JobsOK == \A h \in Job : JobOK(job[h], db, inv)

(* Organizations and invitations stay.                                     *)
Grown ==
  /\ db.orgs \subseteq db'.orgs
  /\ \A i \in Inv : inv[i] # Blank => inv'[i] # Blank /\ inv'[i].org = inv[i].org

(* A signup takes no organization away.                                    *)
LEMMA MakesGrown ==
  ASSUME NEW d, NEW e, NEW u, NEW K, Makes(K, u, d, e)
  PROVE  d.orgs \subseteq e.orgs
BY DEF Makes

(* A process without a request holds nothing.                              *)
LEMMA IdleOK ==
  ASSUME NEW d, NEW v PROVE JobOK(Idle, d, v)
BY DEF JobOK, Idle, Accepting

(* What a request holds stays good as long as nothing is taken away.       *)
LEMMA JobGrown ==
  ASSUME NEW j \in AnyJob, JobOK(j, db, inv), Grown
  PROVE  JobOK(j, db', inv')
<1>1. j.pc \in Accepting \cup {"clean"} => j.inv \in Inv
  BY JobKinds DEF Acceptance
<1> QED BY <1>1 DEF JobOK, Grown

(* The same for all requests when none of them moves,                      *)
LEMMA JobsGrown ==
  ASSUME Typed, JobsOK, Grown, job' = job
  PROVE  JobsOK'
BY JobGrown DEF JobsOK, Typed

(* when one begins,                                                        *)
LEMMA JobsStarted ==
  ASSUME Typed, JobsOK, Grown, NEW h \in Job, NEW j \in AnyJob, Starts(h, j), JobOK(j, db', inv')
  PROVE  JobsOK'
BY JobGrown, JobStarted DEF JobsOK, Typed

(* when one ends,                                                          *)
LEMMA JobsEnded ==
  ASSUME Typed, JobsOK, Grown, NEW h \in Job, Ends(h)
  PROVE  JobsOK'
BY JobGrown, JobEnded, IdleOK DEF JobsOK, Typed

(* and when one goes a step further.                                       *)
LEMMA JobsAdvanced ==
  ASSUME Typed, JobsOK, Grown, NEW h \in Job, job[h] \in Acceptance, NEW c \in Accepting \cup {"clean"},
         job' = [job EXCEPT ![h].pc = c]
  PROVE  JobsOK'
<1>1. \A g \in Job : JobOK(job[g], db', inv')
  BY JobGrown DEF JobsOK, Typed
<1>2. job'[h].pc = c /\ job'[h].org = job[h].org /\ job'[h].inv = job[h].inv /\ job[h].pc \in Accepting \cup {"clean"}
  BY DEF Typed, Acceptance
<1>3. JobOK(job'[h], db', inv')
  BY <1>1, <1>2 DEF JobOK, Accepting
<1>4. \A g \in Job \ {h} : job'[g] = job[g]
  BY DEF Typed
<1> QED BY <1>1, <1>3, <1>4 DEF JobsOK

(* When an organization goes, each request is told so.                     *)
LEMMA JobsOrphaned ==
  ASSUME Typed, JobsOK, NEW o \in Org, db'.orgs = db.orgs \ {o}, inv' = InvWithout(o)
  PROVE  \A g \in Job : JobOK(Orphaned(job[g], o), db', inv')
<1> SUFFICES ASSUME NEW g \in Job PROVE JobOK(Orphaned(job[g], o), db', inv')
  OBVIOUS
<1>1. job[g] \in AnyJob /\ JobOK(job[g], db, inv)
  BY DEF Typed, JobsOK
<1>2. CASE Orphaned(job[g], o) = job[g] /\ job[g].pc # "quit"
  <2>1. job[g].pc \notin {"idle", "settle"} => job[g].org # o
    BY <1>1, <1>2, OrphanedJob
  <2>2. job[g].pc \in Accepting \cup {"clean"} => job[g].inv \in Inv
    BY <1>1, JobKinds DEF Acceptance
  <2> QED BY <1>1, <1>2, <2>1, <2>2, InvWithoutRows DEF JobOK, Accepting
<1>3. CASE Orphaned(job[g], o) = [job[g] EXCEPT !.org = None] /\ job[g].pc \notin {"idle", "settle", "quit"}
  <2>1. Orphaned(job[g], o).org = None /\ Orphaned(job[g], o).pc # "quit"
    BY <1>1, <1>3, OrphanedJob DEF AnyJob, Idle, Acceptance, Plain, Write, Purging, Regrading, Quitting, Founding
  <2> QED BY <2>1 DEF JobOK
<1>4. CASE job[g].pc = "quit"
  <2>1. Orphaned(job[g], o).pc = "quit" /\ Orphaned(job[g], o).owned = job[g].owned \ {o}
        /\ Orphaned(job[g], o).org \in {job[g].org, None} /\ Orphaned(job[g], o).org # o
    BY <1>1, <1>4, OrphanedJob
  <2> QED BY <1>1, <1>4, <2>1 DEF JobOK, Accepting
<1> QED BY <1>1, <1>2, <1>3, <1>4, OrphanedJob

(* A founding holds the organization it begins.                            *)
LEMMA JobsBegun ==
  ASSUME Typed, JobsOK, NEW h \in Job, NEW by \in User \cup {None}, NEW u \in User, NEW rest \in SUBSET User,
         Begins(h, by, u, rest), inv' = inv
  PROVE  JobsOK'
<1>1. Grown
  BY BegunRows DEF Grown
<1>2. \A g \in Job : JobOK(job[g], db', inv')
  BY <1>1, JobGrown DEF JobsOK, Typed
<1>3. JobOK(job'[h], db', inv')
  BY BegunRows DEF JobOK, Accepting
<1>4. \A g \in Job \ {h} : job'[g] = job[g]
  BY BegunRows
<1> QED BY <1>2, <1>3, <1>4 DEF JobsOK

(* Every step keeps what the requests hold linked to the rows.             *)
LEMMA JobsNext ==
  ASSUME Linked, Typed', [Next]_vars
  PROVE  JobsLinked'
<1> USE DEF ghosts
<1>0. Typed /\ RowsOK /\ JobsOK /\ account \in Accounts /\ db \in DB /\ db' \in DB
  BY DEF Linked, JobsLinked, JobsOK, JobOK, Typed, TypeOK, RowsOK, Rows, Accounts
<1>00. SUFFICES JobsOK'
  BY DEF JobsLinked, JobsOK, JobOK
<1>1. CASE UNCHANGED vars
  BY <1>0, <1>1 DEF vars, JobsOK
<1>2. ASSUME NEW u \in User, SignUp(u) PROVE JobsOK'
  <2>1. db.orgs \subseteq db'.orgs
    BY <1>0, <1>2, SignUpRows, MakesGrown
  <2>2. Grown /\ job' = job
    BY <1>0, <1>2, <2>1 DEF SignUp, Grown
  <2> QED BY <1>0, <2>2, JobsGrown
<1>3. ASSUME NEW u \in User, NEW h \in Job, DeleteAccount(h, u) PROVE JobsOK'
  <2> DEFINE j == [pc |-> "quit", user |-> u, org |-> None, owned |-> Owned(u)]
  <2>0. Owned(u) \subseteq Org /\ Owned(u) \subseteq db'.orgs
    BY <1>0, <1>3 DEF DeleteAccount, Owned, RowsOK, Rows, None
  <2>1. j \in AnyJob /\ JobOK(j, db', inv') /\ Starts(h, j)
    BY <1>3, <2>0 DEF DeleteAccount, AnyJob, Quitting, JobOK, Accepting
  <2>2. Grown
    BY <1>0, <1>3 DEF DeleteAccount, Grown
  <2> HIDE DEF j
  <2> QED BY <1>0, <2>1, <2>2, JobsStarted
<1>4. ASSUME NEW u \in User, NEW o \in Org, CleanUp(u, o) PROVE JobsOK'
  <2>1. db'.orgs = db.orgs \ {o} /\ inv' = InvWithout(o)
    BY <1>0, <1>4, WithoutOrgRows DEF CleanUp
  <2>2. \A g \in Job : JobOK(Orphaned(job[g], o), db', inv')
    BY <1>0, <2>1, JobsOrphaned
  <2> QED BY <1>4, <2>2 DEF CleanUp, JobsOK
<1>5. ASSUME NEW u \in User, NEW h \in Job, ReadProfile(h, u) PROVE JobsOK'
  <2> DEFINE j == [pc |-> "profile", user |-> u, org |-> None]
  <2>1. j \in AnyJob /\ JobOK(j, db', inv') /\ Starts(h, j)
    BY <1>5 DEF ReadProfile, AnyJob, Plain, Maybe, JobOK, Accepting
  <2>2. Grown
    BY <1>0, <1>5 DEF ReadProfile, Grown
  <2> HIDE DEF j
  <2> QED BY <1>0, <2>1, <2>2, JobsStarted
<1>6. ASSUME NEW h \in Job, NEW u \in User, NEW i \in Inv, SignUpInvited(h, u, i) PROVE JobsOK'
  <2> DEFINE j == [pc |-> "join", user |-> u, org |-> inv[i].org, inv |-> i, ws |-> inv[i].ws,
                   role |-> inv[i].role, signup |-> TRUE]
  <2>1. inv[i] \in Invitation /\ inv[i] # Blank /\ inv[i].org \in db.orgs /\ inv' = inv
    BY <1>0, <1>6, InvitationKinds DEF SignUpInvited, RowsOK
  <2>6. Makes(1 .. 4, u, db, db')
    BY <1>0, <1>6, FoundedRows DEF SignUpInvited
  <2>2. Grown
    BY <1>0, <1>6, <2>6, MakesGrown DEF SignUpInvited, Grown
  <2>3. JobOK(j, db', inv')
    BY <1>0, <2>1, <2>2 DEF JobOK, Grown
  <2>4. j \in AnyJob
    BY <2>1 DEF AnyJob, Acceptance, Accepting, Maybe, Org, Invitation
  <2>5. Starts(h, j)
    BY <1>6 DEF SignUpInvited
  <2> HIDE DEF j
  <2> QED BY <1>0, <2>2, <2>3, <2>4, <2>5, JobsStarted
<1>7. ASSUME NEW h \in Job, NEW u \in User, NEW i \in Inv, Accept(h, u, i) PROVE JobsOK'
  <2> DEFINE j == [pc |-> "join", user |-> u, org |-> inv[i].org, inv |-> i, ws |-> inv[i].ws,
                   role |-> inv[i].role, signup |-> FALSE]
  <2>1. inv[i] \in Invitation /\ inv[i] # Blank /\ inv[i].org \in db.orgs /\ inv' = inv
    BY <1>0, <1>7, InvitationKinds DEF Accept, Acceptable, RowsOK
  <2>2. Grown
    BY <1>0, <1>7 DEF Accept, Grown
  <2>3. JobOK(j, db', inv')
    BY <1>0, <2>1, <2>2 DEF JobOK, Grown
  <2>4. j \in AnyJob
    BY <2>1 DEF AnyJob, Acceptance, Accepting, Maybe, Org, Invitation
  <2>5. Starts(h, j)
    BY <1>7 DEF Accept
  <2> HIDE DEF j
  <2> QED BY <1>0, <2>2, <2>3, <2>4, <2>5, JobsStarted
<1>8. ASSUME NEW a \in User, NEW u \in User, NEW o \in Org, NEW S \in SUBSET Ws, SetWorkspaces(a, o, u, S)
      PROVE  JobsOK'
  <2>1. PICK acc : db' = [db EXCEPT !.access = acc]
    BY <1>8, Zenon DEF SetWorkspaces, Assigned
  <2>2. Grown /\ job' = job
    BY <1>0, <1>8, <2>1 DEF SetWorkspaces, Grown, DB
  <2> QED BY <1>0, <2>2, JobsGrown
<1>9. ASSUME NEW a \in User, NEW u \in User, NEW o \in Org, NEW S \in SUBSET Ws, NEW r \in Invited \cup {"owner"},
             CreateMember(a, o, u, r, S)
      PROVE  JobsOK'
  <2>1. PICK acc : db' = [db EXCEPT !.role[o][u] = r, !.access = acc]
    BY <1>9, Zenon DEF CreateMember
  <2>2. Grown /\ job' = job
    BY <1>0, <1>9, <2>1 DEF CreateMember, Grown, DB
  <2> QED BY <1>0, <2>2, JobsGrown
<1>10. ASSUME NEW a \in User, NEW u \in User, NEW o \in Org, NEW i \in Inv, NEW r \in Invited, NEW n \in 0 .. MaxWs, Invite(a, o, i, u, r, n)
       PROVE  JobsOK'
  <2>1. Grown /\ job' = job
    BY <1>0, <1>10 DEF Invite, Invites, Grown, Typed
  <2> QED BY <1>0, <2>1, JobsGrown
<1>11. ASSUME NEW a \in User, NEW u \in User, NEW o \in Org, NEW i \in Inv, NEW n \in Ws, InviteToWorkspace(a, o, i, u, n)
       PROVE  JobsOK'
  <2>1. Grown /\ job' = job
    BY <1>0, <1>11 DEF InviteToWorkspace, Invites, Grown, Typed
  <2> QED BY <1>0, <2>1, JobsGrown
<1>12. ASSUME NEW h \in Job, NEW a \in User, NEW u \in User, NEW o \in Org, NEW r \in Grades, UpdateRole(h, a, o, u, r)
       PROVE  JobsOK'
  <2> DEFINE j == [pc |-> "regrade", user |-> u, org |-> o, role |-> r]
  <2>1. j \in AnyJob /\ JobOK(j, db', inv') /\ Starts(h, j)
    <3>1. o \in db.orgs /\ db' = db
      BY <1>0, <1>12 DEF UpdateRole, RowsOK, Rows, Members
    <3> QED BY <1>12, <3>1 DEF UpdateRole, AnyJob, Regrading, Maybe, JobOK, Accepting
  <2>2. Grown
    BY <1>12 DEF UpdateRole, Grown
  <2> HIDE DEF j
  <2> QED BY <1>0, <2>1, <2>2, JobsStarted
<1>13. ASSUME NEW h \in Job, NEW a \in User, NEW u \in User, NEW o \in Org, RemoveMember(h, a, o, u)
       PROVE  JobsOK'
  <2> DEFINE j == [pc |-> "leave", user |-> u, org |-> o]
  <2>1. j \in AnyJob /\ JobOK(j, db', inv') /\ Starts(h, j)
    <3>1. o \in db.orgs /\ db' = db
      BY <1>0, <1>13 DEF RemoveMember, RowsOK, Rows, Members
    <3> QED BY <1>13, <3>1 DEF RemoveMember, AnyJob, Plain, Maybe, JobOK, Accepting
  <2>2. Grown
    BY <1>13 DEF RemoveMember, Grown
  <2> HIDE DEF j
  <2> QED BY <1>0, <2>1, <2>2, JobsStarted
<1>14. ASSUME NEW a \in User, NEW u \in User, NEW o \in Org, NEW n \in Ws, LeaveWorkspace(a, o, n, u)
       PROVE  JobsOK'
  <2>1. Grown /\ job' = job
    BY <1>0, <1>14 DEF LeaveWorkspace, Grown, DB
  <2> QED BY <1>0, <2>1, JobsGrown
<1>15. ASSUME NEW i \in Inv, Revoke(i) PROVE JobsOK'
  <2>2. inv[i] \in Invitation
    BY <1>0, <1>15, InvitationKinds DEF Revoke
  <2>3. inv'[i].org = inv[i].org /\ \A k \in Inv \ {i} : inv'[k] = inv[k]
    BY <1>0, <1>15, <2>2 DEF Revoke, Expired, Typed, Invitation
  <2>4. inv[i].org # None
    BY <1>0, <2>2, Constants DEF Invitation, Org
  <2>5. inv'[i] # Blank
    BY <2>3, <2>4 DEF Blank
  <2>1. Grown /\ job' = job
    BY <1>15, <2>3, <2>5 DEF Revoke, Grown
  <2> QED BY <1>0, <2>1, JobsGrown
<1>16. ASSUME NEW a \in User, NEW i \in Inv, Resend(a, i) PROVE JobsOK'
  <2>2. inv[i] \in Invitation
    BY <1>0, <1>16, InvitationKinds DEF Resend
  <2>3. inv'[i].org = inv[i].org /\ \A k \in Inv \ {i} : inv'[k] = inv[k]
    BY <1>0, <1>16, <2>2 DEF Resend, Reopened, Typed, Invitation
  <2>4. inv[i].org # None
    BY <1>0, <2>2, Constants DEF Invitation, Org
  <2>5. inv'[i] # Blank
    BY <2>3, <2>4 DEF Blank
  <2>1. Grown /\ job' = job
    BY <1>16, <2>3, <2>5 DEF Resend, Grown
  <2> QED BY <1>0, <2>1, JobsGrown
<1>17. ASSUME NEW u \in User, NEW o \in Org, CreateWorkspace(u, o) PROVE JobsOK'
  <2>1. Grown /\ job' = job
    BY <1>0, <1>17 DEF CreateWorkspace, Grown, DB
  <2> QED BY <1>0, <2>1, JobsGrown
<1>18. ASSUME NEW u \in User, NEW o \in Org, NEW n \in Ws, Unarchive(u, o, n) PROVE JobsOK'
  <2>1. Grown /\ job' = job
    BY <1>0, <1>18 DEF Unarchive, Grown, DB
  <2> QED BY <1>0, <2>1, JobsGrown
<1>19. ASSUME NEW h \in Job, NEW u \in User, NEW o \in Org, AskDeletion(h, u, o) PROVE JobsOK'
  <2> DEFINE j == [pc |-> "schedule", user |-> u, org |-> o]
  <2>1. j \in AnyJob /\ JobOK(j, db', inv') /\ Starts(h, j)
    <3>1. o \in db.orgs /\ db'.orgs = db.orgs
      BY <1>0, <1>19 DEF AskDeletion, IsOwner, RowsOK, Rows, None, DB
    <3> QED BY <1>19, <3>1 DEF AskDeletion, AnyJob, Plain, Maybe, JobOK, Accepting
  <2>2. Grown
    BY <1>0, <1>19 DEF AskDeletion, Grown, DB
  <2> HIDE DEF j
  <2> QED BY <1>0, <2>1, <2>2, JobsStarted
<1>20. ASSUME NEW h \in Job, NEW u \in User, NEW o \in Org, AskCancel(h, u, o) PROVE JobsOK'
  <2> DEFINE j == [pc |-> "clear", user |-> u, org |-> o]
  <2>1. j \in AnyJob /\ JobOK(j, db', inv') /\ Starts(h, j)
    <3>1. o \in db.orgs /\ db'.orgs = db.orgs
      BY <1>0, <1>20 DEF AskCancel, IsOwner, RowsOK, Rows, None, DB
    <3> QED BY <1>20, <3>1 DEF AskCancel, AnyJob, Plain, Maybe, JobOK, Accepting
  <2>2. Grown
    BY <1>0, <1>20 DEF AskCancel, Grown, DB
  <2> HIDE DEF j
  <2> QED BY <1>0, <2>1, <2>2, JobsStarted
<1>21. ASSUME NEW h \in Job, NEW u \in User, NEW o \in Org, DeleteNow(h, u, o) PROVE JobsOK'
  <2> DEFINE j == Purge(o, u)
  <2>1. j \in AnyJob /\ JobOK(j, db', inv') /\ Starts(h, j)
    <3>1. o \in db.orgs /\ db'.orgs = db.orgs
      BY <1>0, <1>21 DEF DeleteNow, IsOwner, RowsOK, Rows, None, DB
    <3> QED BY <1>21, <3>1 DEF DeleteNow, AnyJob, Purge, Members, Purging, Maybe, JobOK, Accepting
  <2>2. Grown
    BY <1>0, <1>21 DEF DeleteNow, Grown, DB
  <2> HIDE DEF j
  <2> QED BY <1>0, <2>1, <2>2, JobsStarted
<1>22. ASSUME NEW h \in Job, NEW u \in User, NEW o \in Org, NEW n \in Ws,
              NEW what \in {"archive", "delete", "settings"}, ReadWorkspace(h, u, o, n, what)
       PROVE  JobsOK'
  <2> DEFINE j == [pc |-> "write", user |-> u, org |-> o, ws |-> n, what |-> what, seen |-> db.ws[o][n]]
  <2>1. j \in AnyJob /\ JobOK(j, db', inv') /\ Starts(h, j)
    <3>1. o \in db.orgs /\ db' = db /\ db.ws[o][n] \in {"active", "archived"}
      BY <1>0, <1>22 DEF ReadWorkspace, Uses, RowsOK, Rows, None, DB
    <3> QED BY <1>22, <3>1 DEF ReadWorkspace, AnyJob, Write, Maybe, JobOK, Accepting
  <2>2. Grown
    BY <1>0, <1>22 DEF ReadWorkspace, Grown
  <2> HIDE DEF j
  <2> QED BY <1>0, <2>1, <2>2, JobsStarted
<1>23. ASSUME NEW h \in Job, SaveProfile(h) PROVE JobsOK'
  <2>1. job[h].user \in User
    BY <1>0, <1>23, JobKinds DEF Typed, SaveProfile, Plain
  <2>2. CASE Begins(h, job[h].user, job[h].user, {})
    BY <1>0, <1>23, <2>1, <2>2, JobsBegun DEF SaveProfile
  <2>3. CASE Ends(h) /\ UNCHANGED << db, half >>
    <3>1. Grown
      BY <1>23, <2>3 DEF SaveProfile, Grown
    <3> QED BY <1>0, <2>3, <3>1, JobsEnded
  <2> QED BY <1>23, <2>2, <2>3 DEF SaveProfile
<1>24. ASSUME NEW h \in Job, Join(h) PROVE JobsOK'
  <2>1. Grown
    BY <1>0, <1>24 DEF Join, Grown, DB
  <2>2. Ends(h) \/ job' = [job EXCEPT ![h].pc = "assign"]
    BY <1>24 DEF Join
  <2>3. job[h] \in Acceptance /\ job[h].pc = "join"
    BY <1>0, <1>24, JobKinds DEF Typed, Join, Accepting
  <2> QED BY <1>0, <2>1, <2>2, <2>3, JobsEnded, JobsAdvanced DEF Accepting
<1>25. ASSUME NEW h \in Job, Assign(h) PROVE JobsOK'
  <2>1. Grown
    BY <1>0, <1>25 DEF Assign, Grown, DB
  <2>2. Ends(h) \/ job' = [job EXCEPT ![h].pc = "mark"]
    BY <1>25 DEF Assign
  <2>3. job[h] \in Acceptance /\ job[h].pc = "assign"
    BY <1>0, <1>25, JobKinds DEF Typed, Assign, Accepting
  <2> QED BY <1>0, <2>1, <2>2, <2>3, JobsEnded, JobsAdvanced DEF Accepting
<1>26. ASSUME NEW h \in Job, Mark(h) PROVE JobsOK'
  <2>3. job[h] \in Acceptance /\ job[h].pc = "mark"
    BY <1>0, <1>26, JobKinds DEF Typed, Mark, Accepting
  <2>1. Grown
    <3>1. CASE inv' = inv
      BY <1>26, <3>1 DEF Mark, Grown
    <3>2. CASE inv' # inv
      <4>1. inv' = [inv EXCEPT ![job[h].inv].accepted = TRUE] /\ job[h].org # None
        BY <1>26, <3>2 DEF Mark
      <4>2. inv[job[h].inv] # Blank /\ job[h].inv \in Inv
        BY <1>0, <2>3, <4>1 DEF JobsOK, JobOK, Accepting, Acceptance
      <4>3. \A i \in Inv : inv[i] # Blank => inv'[i] # Blank /\ inv'[i].org = inv[i].org
        BY <1>0, <4>1, <4>2, InvitationKinds DEF Typed, Invitation, Blank
      <4> QED BY <1>26, <4>3 DEF Mark, Grown
    <3> QED BY <3>1, <3>2
  <2>2. Ends(h) \/ job' = [job EXCEPT ![h].pc = "clean"]
    BY <1>26 DEF Mark
  <2> QED BY <1>0, <2>1, <2>2, <2>3, JobsEnded, JobsAdvanced DEF Accepting
<1>27. ASSUME NEW h \in Job, Clean(h) PROVE JobsOK'
  <2> DEFINE u == job[h].user
             left == Leaving(u, job[h].org)
  <2>1. u \in Org /\ u \in User /\ left \in DB /\ left.orgs = db.orgs
    BY <1>0, <1>27, CleanRows, LeavingRows
  <2>2. CASE Alone(u, job[h].org)
    <3>1. db' = WithoutOrg(left, u) /\ inv' = InvWithout(u)
          /\ job' = [g \in Job |-> IF g = h THEN Idle ELSE Orphaned(job[g], u)]
      BY <1>0, <1>27, <2>2, CleanRows
    <3>2. db'.orgs = db.orgs \ {u}
      BY <2>1, <3>1, WithoutOrgRows
    <3>3. \A g \in Job : JobOK(Orphaned(job[g], u), db', inv')
      BY <1>0, <2>1, <3>1, <3>2, JobsOrphaned
    <3> QED BY <3>1, <3>3, IdleOK DEF JobsOK
  <2>3. CASE ~ Alone(u, job[h].org)
    <3>1. db' = left /\ inv' = inv /\ job' = [g \in Job |-> IF g = h THEN Idle ELSE job[g]]
      BY <1>0, <1>27, <2>3, CleanRows
    <3>2. Grown
      BY <2>1, <3>1 DEF Grown
    <3>3. \A g \in Job : JobOK(job[g], db', inv')
      BY <1>0, <3>2, JobGrown DEF JobsOK, Typed
    <3> QED BY <3>1, <3>3, IdleOK DEF JobsOK
  <2> QED BY <2>2, <2>3
<1>28. ASSUME NEW h \in Job, Deactivate(h) PROVE JobsOK'
  <2>1. Grown /\ Ends(h)
    BY <1>0, <1>28 DEF Deactivate, Grown
  <2> QED BY <1>0, <2>1, JobsEnded
<1>29. ASSUME NEW h \in Job, WriteWorkspace(h) PROVE JobsOK'
  <2>1. Grown /\ Ends(h)
    BY <1>0, <1>29, WrittenRows DEF WriteWorkspace, Grown
  <2> QED BY <1>0, <2>1, JobsEnded
<1>30. ASSUME NEW h \in Job, Schedule(h) PROVE JobsOK'
  <2>1. Grown /\ Ends(h)
    BY <1>0, <1>30 DEF Schedule, Delayed, Grown, DB
  <2> QED BY <1>0, <2>1, JobsEnded
<1>31. ASSUME NEW h \in Job, Clear(h) PROVE JobsOK'
  <2>1. Grown /\ Ends(h)
    BY <1>0, <1>31 DEF Clear, Grown, DB
  <2> QED BY <1>0, <2>1, JobsEnded
<1>32. ASSUME NEW h \in Job, NEW o \in Org, RunTask(h, o) PROVE JobsOK'
  <2>1. CASE IsDue(o) /\ Starts(h, Purge(o, None)) /\ UNCHANGED db
    <3> DEFINE j == Purge(o, None)
    <3>1. o \in db.orgs
      BY <1>0, <2>1 DEF IsDue, RowsOK, Rows, Never
    <3>2. j \in AnyJob /\ JobOK(j, db', inv')
      BY <2>1, <3>1 DEF AnyJob, Purge, Members, Purging, Maybe, JobOK, Accepting
    <3>3. Grown
      BY <1>32, <2>1 DEF RunTask, Grown
    <3> HIDE DEF j
    <3> QED BY <1>0, <2>1, <3>2, <3>3, JobsStarted DEF j
  <2>2. CASE db' = [db EXCEPT !.tasks[o] = @ \ {0}] /\ UNCHANGED job
    <3>1. Grown
      BY <1>0, <1>32, <2>2 DEF RunTask, Grown, DB
    <3> QED BY <1>0, <2>2, <3>1, JobsGrown
  <2> QED BY <1>32, <2>1, <2>2 DEF RunTask
<1>33. ASSUME NEW h \in Job, DeleteOrg(h) PROVE JobsOK'
  <2> DEFINE next == [job[h] EXCEPT !.pc = "settle"]
  <2>1. JobOK(next, db', inv')
    BY <1>0, <1>33, PurgedRows DEF JobOK, Accepting
  <2>2. CASE job[h].org = None
    <3>1. Grown /\ job' = [job EXCEPT ![h] = next]
      BY <1>0, <1>33, <2>2, PurgedRows DEF Grown
    <3>2. \A g \in Job : JobOK(job[g], db', inv')
      BY <1>0, <3>1, JobGrown DEF JobsOK, Typed
    <3> HIDE DEF next
    <3> QED BY <1>0, <2>1, <3>1, <3>2 DEF JobsOK, Typed
  <2>3. CASE job[h].org # None
    <3>1. /\ job[h].org \in Org /\ db' = WithoutOrg(db, job[h].org) /\ inv' = InvWithout(job[h].org)
          /\ job' = [g \in Job |-> IF g = h THEN next ELSE Orphaned(job[g], job[h].org)]
      BY <1>0, <1>33, <2>3, PurgedRows
    <3>2. db'.orgs = db.orgs \ {job[h].org}
      BY <1>0, <3>1, WithoutOrgRows
    <3>3. \A g \in Job : JobOK(Orphaned(job[g], job[h].org), db', inv')
      BY <1>0, <3>1, <3>2, JobsOrphaned
    <3> HIDE DEF next
    <3> QED BY <2>1, <3>1, <3>3 DEF JobsOK
  <2> QED BY <2>2, <2>3
<1>34. ASSUME NEW h \in Job, NEW u \in User, Settle(h, u) PROVE JobsOK'
  <2>1. /\ \A g \in Job \ {h} : job'[g] = job[g]
        /\ job[h].user \in User \cup {None} /\ job[h].rest \ {u} \in SUBSET User
    BY <1>0, <1>34, SettledRows DEF Purging
  <2>2. CASE Begins(h, job[h].user, u, job[h].rest \ {u})
    BY <1>0, <1>34, <2>1, <2>2, JobsBegun DEF Settle
  <2>3. CASE db'.orgs = db.orgs /\ job'[h].pc \in {"idle", "settle"}
    <3>1. Grown
      BY <1>34, <2>3 DEF Settle, Grown
    <3>2. \A g \in Job : JobOK(job[g], db', inv')
      BY <1>0, <3>1, JobGrown DEF JobsOK, Typed
    <3>3. JobOK(job'[h], db', inv')
      BY <2>3 DEF JobOK, Accepting
    <3> QED BY <2>1, <3>2, <3>3 DEF JobsOK
  <2>4. job'[h] = Idle \/ (job'[h] \in Purging /\ job'[h].pc = "settle") => job'[h].pc \in {"idle", "settle"}
    BY DEF Idle
  <2>5. WithoutUser(db, u).orgs = db.orgs
    BY <1>0, WithoutUserRows
  <2> QED BY <1>0, <1>34, <2>2, <2>3, <2>4, <2>5, SettledRows
<1>35. ASSUME NEW h \in Job, Crash(h) PROVE JobsOK'
  <2>1. Grown /\ Ends(h)
    BY <1>0, <1>35 DEF Crash, Grown
  <2> QED BY <1>0, <2>1, JobsEnded
<1>41. ASSUME NEW h \in Job, Found(h) PROVE JobsOK'
  <2>1. db'.orgs = db.orgs /\ inv' = inv /\ \A g \in Job \ {h} : job'[g] = job[g]
    BY <1>0, <1>41, FoundRows DEF Found
  <2>2. Grown
    BY <2>1 DEF Grown
  <2>3. \A g \in Job : JobOK(job[g], db', inv')
    BY <1>0, <2>2, JobGrown DEF JobsOK, Typed
  <2>4. job'[h].pc \in {"idle", "settle"} \/ (job'[h].pc = "found" /\ job'[h].org = job[h].org)
    <3>1. Idle.pc = "idle"
      BY DEF Idle
    <3>2. Ends(h) => job'[h] = Idle
      BY <1>0, JobEnded
    <3> QED BY <1>0, <1>41, <3>1, <3>2, FoundRows
  <2>5. JobOK(job'[h], db', inv')
    BY <1>41, <2>3, <2>4 DEF JobOK, Accepting, Found
  <2> QED BY <2>1, <2>3, <2>5 DEF JobsOK
<1>42. ASSUME NEW h \in Job, Quit(h) PROVE JobsOK'
  <2>1. Grown /\ Ends(h)
    BY <1>0, <1>42, JobKinds, WithoutUserRows DEF Quit, Grown, Typed, Quitting
  <2> QED BY <1>0, <2>1, JobsEnded
<1>43. ASSUME NEW h \in Job, CleanHalf(h) PROVE JobsOK'
  <2>1. Grown /\ Ends(h)
    BY <1>0, <1>43, CleanHalfRows DEF CleanHalf, Grown
  <2> QED BY <1>0, <2>1, JobsEnded
<1>44. ASSUME NEW h \in Job, Regrade(h) PROVE JobsOK'
  <2>1. Grown /\ Ends(h)
    BY <1>0, <1>44, RegradeRows DEF Regrade, Grown
  <2> QED BY <1>0, <2>1, JobsEnded
<1>45. ASSUME NEW h \in Job, Leave(h) PROVE JobsOK'
  <2>1. Grown /\ \A g \in Job \ {h} : job'[g] = job[g]
    BY <1>0, <1>45, LeaveRows DEF Leave, Grown
  <2>2. \A g \in Job : JobOK(job[g], db', inv')
    BY <1>0, <2>1, JobGrown DEF JobsOK, Typed
  <2>3. JobOK(job'[h], db', inv')
    BY <1>0, <1>45, <2>2, LeaveRows DEF JobOK, Accepting, Leave
  <2> QED BY <2>1, <2>2, <2>3 DEF JobsOK
<1>36. CASE Tick
  <2>1. Grown /\ job' = job
    BY <1>0, <1>36, TickRows DEF Tick, Grown
  <2> QED BY <1>0, <2>1, JobsGrown
<1>37. CASE AccountRequest
  BY <1>37, <1>2, <1>3, <1>4, <1>5, <1>6, <1>7 DEF AccountRequest
<1>38. CASE MemberRequest
  <2>1. {"admin", "member"} = Grades
    BY DEF Grades
  <2> QED BY <1>38, <2>1, <1>8, <1>9, <1>10, <1>11, <1>12, <1>13, <1>14 DEF MemberRequest
<1>39. CASE OrgRequest
  BY <1>39, <1>15, <1>16, <1>17, <1>18, <1>19, <1>20, <1>21, <1>22 DEF OrgRequest
<1>40. CASE Step
  BY <1>40, <1>23, <1>24, <1>25, <1>26, <1>27, <1>28, <1>29, <1>30, <1>31, <1>32, <1>33, <1>34, <1>35,
     <1>41, <1>42, <1>43, <1>44, <1>45 DEF Step
<1> QED BY <1>1, <1>36, <1>37, <1>38, <1>39, <1>40 DEF Next

(* The accounts, the rows, the jobs and the recorded history are what      *)
(* their types say, rows refer to rows that exist - no membership of an    *)
(* account or an organization that is gone, no access to a workspace that  *)
(* is, no dates or tasks of an organization that was deleted - and a       *)
(* request in flight holds an organization and an invitation that exist.   *)
LEMMA AlwaysLinked == Spec => []Linked
<1>1. Linked /\ [Next]_vars => Linked'
  BY TypedNext, RowsNext, JobsNext DEF Linked
<1> QED BY <1>1, LinkedInit, PTL DEF Spec

(* Every state is of its types, and its rows refer to rows there are.      *)
THEOREM TypeCorrect == Spec => []TypeOK
<1>1. Linked => TypeOK
  BY DEF Linked
<1> QED BY <1>1, AlwaysLinked, PTL

-----------------------------------------------------------------------------
(***************************************************************************)
(* The deletion of an organization                                         *)
(***************************************************************************)
Dating == {"schedule", "clear", "purge"}

(* The steps that write a date or a task.                                  *)
Redated ==
  \/ Tick
  \/ \E h \in Job :
       \/ Schedule(h) \/ Clear(h)
       \/ \E o \in Org :
            \/ RunTask(h, o)
            \/ \E u \in User : AskDeletion(h, u, o) \/ AskCancel(h, u, o) \/ DeleteNow(h, u, o)

(* What every other step does: an organization it does not take keeps its  *)
(* date, its tasks, and the requests in flight about them.                 *)
Undated ==
  /\ age' = age
  /\ \A o \in Org : db'.due[o] = Never \/ (db'.due[o] = db.due[o] /\ db'.tasks[o] = db.tasks[o])
  /\ crashes' = crashes \/ crashes' > 0
  /\ \A h \in Job : job[h].pc \in Dating =>
       job'[h] = job[h] \/ crashes' > 0 \/ job[h].org \notin Org \/ db'.due[job[h].org] = Never
  /\ \A h \in Job : job[h] = Idle => job'[h].pc # "purge"

(* A signup touches no date of a deletion.                                 *)
LEMMA MakesUndated ==
  ASSUME NEW d, NEW e, NEW u, NEW K, Makes(K, u, d, e)
  PROVE  e.due = d.due /\ e.tasks = d.tasks
BY DEF Makes

(* Nor does a request about something else.                                *)
LEMMA OtherUndated ==
  ASSUME Typed, NEW h \in Job, db'.due = db.due, db'.tasks = db.tasks, age' = age,
         crashes' = crashes \/ crashes' > 0,
         job[h].pc \notin {"idle"} \cup Dating, job'[h].pc \notin Dating,
         \A g \in Job \ {h} : job'[g] = job[g]
  PROVE  Undated
<1>1. \A g \in Job : job[g] = Idle => job[g].pc # "purge"
  BY DEF Idle
<1> QED BY <1>1 DEF Undated, Dating, Idle

(* Nor does the end of an organization, but for its own.                   *)
LEMMA OrphanedUndated ==
  ASSUME Typed, NEW o \in Org, db' = WithoutOrg(db, o), \A g \in Job : job'[g] = Orphaned(job[g], o),
         age' = age, crashes' = crashes
  PROVE  Undated
<1>1. \A p \in Org : IF p = o THEN db'.due[p] = Never ELSE db'.due[p] = db.due[p] /\ db'.tasks[p] = db.tasks[p]
  BY WithoutOrgRows DEF Typed
<1>2. \A g \in Job : Orphaned(job[g], o) = job[g] \/ job[g].org = o \/ job[g].pc = "quit"
  BY OrphanedJob DEF Typed
<1>3. \A g \in Job : job[g] = Idle => Orphaned(job[g], o).pc # "purge"
  BY OrphanedJob DEF Typed, Idle
<1> QED BY <1>1, <1>2, <1>3 DEF Undated, Dating

(* A step leaves the dates alone or is one of those that change them.      *)
LEMMA DatesStep ==
  ASSUME Linked, Typed', [Next]_vars
  PROVE  Redated \/ Undated
<1> USE DEF ghosts
<1>0. Typed /\ db \in DB /\ \A h \in Job : job[h] = Idle => job[h].pc # "purge"
  BY DEF Linked, Typed, Idle
<1>1. CASE UNCHANGED vars
  BY <1>0, <1>1 DEF vars, Undated, Dating
<1>2. ASSUME NEW u \in User, SignUp(u) PROVE Redated \/ Undated
  <2>1. db'.due = db.due /\ db'.tasks = db.tasks
    BY <1>0, <1>2, SignUpRows, MakesUndated
  <2>2. crashes' = crashes \/ crashes' > 0
    BY <1>0, <1>2, TenancyAssumption DEF SignUp, Typed
  <2> QED BY <1>0, <1>2, <2>1, <2>2 DEF SignUp, Undated
<1>3. ASSUME NEW u \in User, NEW h \in Job, DeleteAccount(h, u) PROVE Redated \/ Undated
  <2>1. db'.due = db.due /\ db'.tasks = db.tasks /\ age' = age /\ crashes' = crashes
    BY <1>0, <1>3 DEF DeleteAccount
  <2>2. \A g \in Job : job'[g] = job[g] \/ (job[g] = Idle /\ job'[g].pc \notin {"idle"} \cup Dating)
    BY <1>0, <1>3 DEF DeleteAccount, Starts, Dating, Typed
  <2> QED BY <1>0, <2>1, <2>2 DEF Undated, Dating, Idle
<1>4. ASSUME NEW u \in User, NEW o \in Org, CleanUp(u, o) PROVE Redated \/ Undated
  <2>1. db' = WithoutOrg(db, o) /\ \A g \in Job : job'[g] = Orphaned(job[g], o)
    BY <1>4 DEF CleanUp
  <2> QED BY <1>0, <1>4, <2>1, OrphanedUndated DEF CleanUp
<1>5. ASSUME NEW u \in User, NEW h \in Job, ReadProfile(h, u) PROVE Redated \/ Undated
  <2>1. db'.due = db.due /\ db'.tasks = db.tasks /\ age' = age /\ crashes' = crashes
    BY <1>0, <1>5 DEF ReadProfile
  <2>2. \A g \in Job : job'[g] = job[g] \/ (job[g] = Idle /\ job'[g].pc \notin {"idle"} \cup Dating)
    BY <1>0, <1>5 DEF ReadProfile, Starts, Dating, Typed
  <2> QED BY <1>0, <2>1, <2>2 DEF Undated, Dating, Idle
<1>6. ASSUME NEW h \in Job, NEW u \in User, NEW i \in Inv, SignUpInvited(h, u, i) PROVE Redated \/ Undated
  <2>1. db'.due = db.due /\ db'.tasks = db.tasks /\ age' = age /\ crashes' = crashes
    <3>1. Makes(1 .. 4, u, db, db')
      BY <1>0, <1>6, FoundedRows DEF SignUpInvited
    <3> QED BY <1>6, <3>1, MakesUndated DEF SignUpInvited
  <2>2. \A g \in Job : job'[g] = job[g] \/ (job[g] = Idle /\ job'[g].pc \notin {"idle"} \cup Dating)
    BY <1>0, <1>6 DEF SignUpInvited, Starts, Dating, Typed
  <2> QED BY <1>0, <2>1, <2>2 DEF Undated, Dating, Idle
<1>7. ASSUME NEW h \in Job, NEW u \in User, NEW i \in Inv, Accept(h, u, i) PROVE Redated \/ Undated
  <2>1. db'.due = db.due /\ db'.tasks = db.tasks /\ age' = age /\ crashes' = crashes
    BY <1>0, <1>7 DEF Accept
  <2>2. \A g \in Job : job'[g] = job[g] \/ (job[g] = Idle /\ job'[g].pc \notin {"idle"} \cup Dating)
    BY <1>0, <1>7 DEF Accept, Starts, Dating, Typed
  <2> QED BY <1>0, <2>1, <2>2 DEF Undated, Dating, Idle
<1>8. ASSUME NEW a \in User, NEW u \in User, NEW o \in Org, NEW S \in SUBSET Ws, SetWorkspaces(a, o, u, S)
      PROVE  Redated \/ Undated
  <2>1. PICK acc : db' = [db EXCEPT !.access = acc]
    BY <1>8, Zenon DEF SetWorkspaces, Assigned
  <2>2. db'.due = db.due /\ db'.tasks = db.tasks
    BY <1>0, <2>1 DEF DB
  <2> QED BY <1>0, <1>8, <2>2 DEF SetWorkspaces, Undated
<1>9. ASSUME NEW a \in User, NEW u \in User, NEW o \in Org, NEW S \in SUBSET Ws, NEW r \in Invited \cup {"owner"},
             CreateMember(a, o, u, r, S)
      PROVE  Redated \/ Undated
  <2>1. PICK acc : db' = [db EXCEPT !.role[o][u] = r, !.access = acc]
    BY <1>9, Zenon DEF CreateMember
  <2>2. db'.due = db.due /\ db'.tasks = db.tasks
    BY <1>0, <2>1 DEF DB
  <2> QED BY <1>0, <1>9, <2>2 DEF CreateMember, Undated
<1>10. ASSUME NEW a \in User, NEW u \in User, NEW o \in Org, NEW i \in Inv, NEW r \in Invited, NEW n \in 0 .. MaxWs, Invite(a, o, i, u, r, n)
       PROVE  Redated \/ Undated
  BY <1>0, <1>10 DEF Invite, Invites, Undated
<1>11. ASSUME NEW a \in User, NEW u \in User, NEW o \in Org, NEW i \in Inv, NEW n \in Ws, InviteToWorkspace(a, o, i, u, n)
       PROVE  Redated \/ Undated
  BY <1>0, <1>11 DEF InviteToWorkspace, Invites, Undated
<1>12. ASSUME NEW h \in Job, NEW a \in User, NEW u \in User, NEW o \in Org, NEW r \in Grades, UpdateRole(h, a, o, u, r)
       PROVE  Redated \/ Undated
  <2>1. db'.due = db.due /\ db'.tasks = db.tasks /\ age' = age /\ crashes' = crashes
    BY <1>0, <1>12 DEF UpdateRole
  <2>2. \A g \in Job : job'[g] = job[g] \/ (job[g] = Idle /\ job'[g].pc \notin {"idle"} \cup Dating)
    BY <1>0, <1>12 DEF UpdateRole, Starts, Dating, Typed
  <2> QED BY <1>0, <2>1, <2>2 DEF Undated, Dating, Idle
<1>13. ASSUME NEW h \in Job, NEW a \in User, NEW u \in User, NEW o \in Org, RemoveMember(h, a, o, u)
       PROVE  Redated \/ Undated
  <2>1. db'.due = db.due /\ db'.tasks = db.tasks /\ age' = age /\ crashes' = crashes
    BY <1>0, <1>13 DEF RemoveMember
  <2>2. \A g \in Job : job'[g] = job[g] \/ (job[g] = Idle /\ job'[g].pc \notin {"idle"} \cup Dating)
    BY <1>0, <1>13 DEF RemoveMember, Starts, Dating, Typed
  <2> QED BY <1>0, <2>1, <2>2 DEF Undated, Dating, Idle
<1>14. ASSUME NEW a \in User, NEW u \in User, NEW o \in Org, NEW n \in Ws, LeaveWorkspace(a, o, n, u)
       PROVE  Redated \/ Undated
  <2>1. db'.due = db.due /\ db'.tasks = db.tasks
    BY <1>0, <1>14 DEF LeaveWorkspace, DB
  <2> QED BY <1>0, <1>14, <2>1 DEF LeaveWorkspace, Undated
<1>15. ASSUME NEW i \in Inv, Revoke(i) PROVE Redated \/ Undated
  BY <1>0, <1>15 DEF Revoke, Undated
<1>16. ASSUME NEW a \in User, NEW i \in Inv, Resend(a, i) PROVE Redated \/ Undated
  BY <1>0, <1>16 DEF Resend, Undated
<1>17. ASSUME NEW u \in User, NEW o \in Org, CreateWorkspace(u, o) PROVE Redated \/ Undated
  <2>1. PICK n \in Ws : db' = [db EXCEPT !.ws[o][n] = "active", !.access = @ \cup {<< o, n, u >>}]
    BY <1>17 DEF CreateWorkspace
  <2>2. db'.due = db.due /\ db'.tasks = db.tasks
    BY <1>0, <2>1 DEF DB
  <2> QED BY <1>0, <1>17, <2>2 DEF CreateWorkspace, Undated
<1>18. ASSUME NEW u \in User, NEW o \in Org, NEW n \in Ws, Unarchive(u, o, n) PROVE Redated \/ Undated
  <2>1. db'.due = db.due /\ db'.tasks = db.tasks
    BY <1>0, <1>18 DEF Unarchive, DB
  <2> QED BY <1>0, <1>18, <2>1 DEF Unarchive, Undated
<1>19. ASSUME NEW h \in Job, NEW u \in User, NEW o \in Org, AskDeletion(h, u, o) PROVE Redated \/ Undated
  BY <1>19 DEF Redated
<1>20. ASSUME NEW h \in Job, NEW u \in User, NEW o \in Org, AskCancel(h, u, o) PROVE Redated \/ Undated
  BY <1>20 DEF Redated
<1>21. ASSUME NEW h \in Job, NEW u \in User, NEW o \in Org, DeleteNow(h, u, o) PROVE Redated \/ Undated
  BY <1>21 DEF Redated
<1>22. ASSUME NEW h \in Job, NEW u \in User, NEW o \in Org, NEW n \in Ws,
              NEW what \in {"archive", "delete", "settings"}, ReadWorkspace(h, u, o, n, what)
       PROVE  Redated \/ Undated
  <2>1. db'.due = db.due /\ db'.tasks = db.tasks /\ age' = age /\ crashes' = crashes
    BY <1>0, <1>22 DEF ReadWorkspace
  <2>2. \A g \in Job : job'[g] = job[g] \/ (job[g] = Idle /\ job'[g].pc \notin {"idle"} \cup Dating)
    BY <1>0, <1>22 DEF ReadWorkspace, Starts, Dating, Typed
  <2> QED BY <1>0, <2>1, <2>2 DEF Undated, Dating, Idle
<1>23. ASSUME NEW h \in Job, SaveProfile(h) PROVE Redated \/ Undated
  <2>0. job[h].user \in User /\ job[h].pc = "profile"
    BY <1>0, <1>23, JobKinds DEF Typed, SaveProfile, Plain
  <2>1. CASE Begins(h, job[h].user, job[h].user, {})
    <3>1. /\ db'.due = db.due /\ db'.tasks = db.tasks /\ job'[h].pc = "found"
          /\ \A g \in Job \ {h} : job'[g] = job[g]
      BY <1>0, <2>0, <2>1, BegunRows
    <3> QED BY <1>0, <1>23, <2>0, <3>1, OtherUndated DEF SaveProfile, Dating
  <2>2. CASE Ends(h) /\ UNCHANGED << db, half >>
    <3>1. job'[h].pc = "idle" /\ \A g \in Job \ {h} : job'[g] = job[g]
      BY <1>0, <2>2, JobEnded DEF Idle
    <3> QED BY <1>0, <1>23, <2>0, <2>2, <3>1, OtherUndated DEF SaveProfile, Dating
  <2> QED BY <1>23, <2>1, <2>2 DEF SaveProfile
<1>24. ASSUME NEW h \in Job, Join(h) PROVE Redated \/ Undated
  <2>1. db'.due = db.due /\ db'.tasks = db.tasks /\ age' = age /\ crashes' = crashes
    BY <1>0, <1>24 DEF Join, DB
  <2>2. job[h] \in Acceptance /\ job[h].pc \in Accepting
    BY <1>0, <1>24, JobKinds DEF Typed, Join, Accepting
  <2>3. Ends(h) \/ \E c \in {"assign", "mark", "clean"} : job' = [job EXCEPT ![h].pc = c]
    BY <1>24 DEF Join
  <2>4. job'[h].pc \notin Dating /\ \A g \in Job \ {h} : job'[g] = job[g]
    BY <1>0, <2>2, <2>3 DEF Ends, Typed, Dating, Idle, Acceptance
  <2> QED BY <1>0, <2>1, <2>2, <2>4 DEF Undated, Dating, Idle, Accepting
<1>25. ASSUME NEW h \in Job, Assign(h) PROVE Redated \/ Undated
  <2>1. db'.due = db.due /\ db'.tasks = db.tasks /\ age' = age /\ crashes' = crashes
    BY <1>0, <1>25 DEF Assign, DB
  <2>2. job[h] \in Acceptance /\ job[h].pc \in Accepting
    BY <1>0, <1>25, JobKinds DEF Typed, Assign, Accepting
  <2>3. Ends(h) \/ \E c \in {"assign", "mark", "clean"} : job' = [job EXCEPT ![h].pc = c]
    BY <1>25 DEF Assign
  <2>4. job'[h].pc \notin Dating /\ \A g \in Job \ {h} : job'[g] = job[g]
    BY <1>0, <2>2, <2>3 DEF Ends, Typed, Dating, Idle, Acceptance
  <2> QED BY <1>0, <2>1, <2>2, <2>4 DEF Undated, Dating, Idle, Accepting
<1>26. ASSUME NEW h \in Job, Mark(h) PROVE Redated \/ Undated
  <2>1. db'.due = db.due /\ db'.tasks = db.tasks /\ age' = age /\ crashes' = crashes
    BY <1>0, <1>26 DEF Mark, DB
  <2>2. job[h] \in Acceptance /\ job[h].pc \in Accepting
    BY <1>0, <1>26, JobKinds DEF Typed, Mark, Accepting
  <2>3. Ends(h) \/ \E c \in {"assign", "mark", "clean"} : job' = [job EXCEPT ![h].pc = c]
    BY <1>26 DEF Mark
  <2>4. job'[h].pc \notin Dating /\ \A g \in Job \ {h} : job'[g] = job[g]
    BY <1>0, <2>2, <2>3 DEF Ends, Typed, Dating, Idle, Acceptance
  <2> QED BY <1>0, <2>1, <2>2, <2>4 DEF Undated, Dating, Idle, Accepting
<1>27. ASSUME NEW h \in Job, Clean(h) PROVE Redated \/ Undated
  <2> DEFINE u == job[h].user
             left == Leaving(u, job[h].org)
             alone == Alone(u, job[h].org)
  <2>1. /\ u \in Org /\ u \in User
        /\ db' = IF alone THEN WithoutOrg(left, u) ELSE left
        /\ job' = [g \in Job |-> IF g = h THEN Idle ELSE IF alone THEN Orphaned(job[g], u) ELSE job[g]]
    BY <1>0, <1>27, CleanRows
  <2>6. left \in DB /\ left.due = db.due /\ left.tasks = db.tasks
    BY <1>0, <2>1, LeavingRows
  <2>2. /\ age' = age /\ crashes' = crashes /\ job[h].pc = "clean" /\ Idle.pc = "idle"
    BY <1>27 DEF Clean, Idle
  <2> HIDE DEF u, left, alone
  <2>3. \A o \in Org : db'.due[o] = Never \/ (db'.due[o] = db.due[o] /\ db'.tasks[o] = db.tasks[o])
    BY <2>1, <2>6, WithoutOrgRows
  <2>4. alone => db'.due[u] = Never
    BY <2>1, <2>6, WithoutOrgRows
  <2>5. \A g \in Job : Orphaned(job[g], u).pc = job[g].pc
                       /\ (Orphaned(job[g], u) = job[g] \/ job[g].org = u \/ job[g].pc = "quit")
    BY <1>0, <2>1, OrphanedJob DEF Typed
  <2> QED BY <1>0, <2>1, <2>2, <2>3, <2>4, <2>5 DEF Undated, Dating, Idle
<1>28. ASSUME NEW h \in Job, Deactivate(h) PROVE Redated \/ Undated
  <2>1. db'.due = db.due /\ db'.tasks = db.tasks /\ age' = age /\ crashes' = crashes
    BY <1>0, <1>28 DEF Deactivate
  <2>2. \A g \in Job : job'[g] = job[g] \/ (job[g].pc \notin {"idle"} \cup Dating /\ job'[g].pc \notin Dating)
    BY <1>0, <1>28 DEF Deactivate, Ends, Dating, Typed, Idle
  <2> QED BY <1>0, <2>1, <2>2 DEF Undated, Dating, Idle
<1>29. ASSUME NEW h \in Job, WriteWorkspace(h) PROVE Redated \/ Undated
  <2>1. db'.due = db.due /\ db'.tasks = db.tasks /\ age' = age /\ crashes' = crashes
    BY <1>0, <1>29, WrittenRows DEF WriteWorkspace
  <2>2. \A g \in Job : job'[g] = job[g] \/ (job[g].pc \notin {"idle"} \cup Dating /\ job'[g].pc \notin Dating)
    BY <1>0, <1>29 DEF WriteWorkspace, Ends, Dating, Typed, Idle
  <2> QED BY <1>0, <2>1, <2>2 DEF Undated, Dating, Idle
<1>30. ASSUME NEW h \in Job, Schedule(h) PROVE Redated \/ Undated
  BY <1>30 DEF Redated
<1>31. ASSUME NEW h \in Job, Clear(h) PROVE Redated \/ Undated
  BY <1>31 DEF Redated
<1>32. ASSUME NEW h \in Job, NEW o \in Org, RunTask(h, o) PROVE Redated \/ Undated
  BY <1>32 DEF Redated
<1>33. ASSUME NEW h \in Job, DeleteOrg(h) PROVE Redated \/ Undated
  <2> DEFINE o == job[h].org
  <2>1. /\ age' = age /\ crashes' = crashes /\ job[h].pc = "purge" /\ job[h] # Idle
    BY <1>33 DEF DeleteOrg, Idle
  <2>2. CASE o = None
    <3>1. db' = db /\ job' = [job EXCEPT ![h] = [job[h] EXCEPT !.pc = "settle"]]
      BY <1>0, <1>33, <2>2, PurgedRows
    <3>2. job'[h].pc = "settle" /\ \A g \in Job \ {h} : job'[g] = job[g]
      BY <1>0, <1>33, <3>1, PurgedRows DEF Typed
    <3> QED BY <1>0, <2>1, <2>2, <3>1, <3>2, Constants DEF Undated, Dating, Org
  <2>3. CASE o # None
    <3>1. /\ o \in Org /\ db' = WithoutOrg(db, o) /\ [job[h] EXCEPT !.pc = "settle"].pc = "settle"
          /\ job' = [g \in Job |-> IF g = h THEN [job[h] EXCEPT !.pc = "settle"] ELSE Orphaned(job[g], o)]
      BY <1>0, <1>33, <2>3, PurgedRows
    <3>2. \A p \in Org : IF p = o THEN db'.due[p] = Never ELSE db'.due[p] = db.due[p] /\ db'.tasks[p] = db.tasks[p]
      BY <1>0, <3>1, WithoutOrgRows
    <3>3. \A g \in Job : Orphaned(job[g], o).pc = job[g].pc /\ (Orphaned(job[g], o) = job[g] \/ job[g].org = o \/ job[g].pc = "quit")
                         /\ (job[g] = Idle => Orphaned(job[g], o) = Idle)
      BY <1>0, <3>1, OrphanedJob DEF Typed
    <3>4. job'[h].pc = "settle" /\ \A g \in Job \ {h} : job'[g] = Orphaned(job[g], o)
      BY <3>1
    <3> HIDE DEF o
    <3>5. \A g \in Job : job[g].pc \in Dating => job'[g] = job[g] \/ crashes' > 0 \/ job[g].org \notin Org \/ db'.due[job[g].org] = Never
      BY <2>1, <3>2, <3>3, <3>4 DEF o, Dating
    <3>6. \A g \in Job : job[g] = Idle => job'[g].pc # "purge"
      BY <2>1, <3>3, <3>4 DEF Idle
    <3> QED BY <1>0, <2>1, <3>2, <3>5, <3>6 DEF Undated
  <2> QED BY <2>2, <2>3
<1>34. ASSUME NEW h \in Job, NEW u \in User, Settle(h, u) PROVE Redated \/ Undated
  <2>1. /\ age' = age /\ crashes' = crashes /\ job[h].pc = "settle" /\ Idle.pc = "idle"
    BY <1>34 DEF Settle, Idle
  <2>2. /\ \A g \in Job \ {h} : job'[g] = job[g]
        /\ job[h].user \in User \cup {None} /\ job[h].rest \ {u} \in SUBSET User
    BY <1>0, <1>34, SettledRows DEF Purging
  <2>3. Begins(h, job[h].user, u, job[h].rest \ {u}) =>
          db'.due = db.due /\ db'.tasks = db.tasks /\ job'[h].pc = "found"
    BY <1>0, <2>2, BegunRows
  <2>4. WithoutUser(db, u).due = db.due /\ WithoutUser(db, u).tasks = db.tasks
    BY <1>0, WithoutUserRows
  <2>5. db'.due = db.due /\ db'.tasks = db.tasks /\ job'[h].pc \in {"idle", "settle", "found"}
    BY <1>0, <1>34, <2>1, <2>3, <2>4, SettledRows
  <2> QED BY <1>0, <2>1, <2>2, <2>5, OtherUndated DEF Dating
<1>35. ASSUME NEW h \in Job, Crash(h) PROVE Redated \/ Undated
  <2>1. crashes' > 0 /\ age' = age /\ db' = db
    BY <1>0, <1>35, TenancyAssumption DEF Crash, Typed
  <2>2. \A g \in Job : job[g] = Idle => job'[g] = Idle
    BY <1>0, <1>35, JobEnded DEF Crash
  <2> QED BY <1>0, <2>1, <2>2 DEF Undated, Idle
<1>41. ASSUME NEW h \in Job, Found(h) PROVE Redated \/ Undated
  <2>1. /\ age' = age /\ crashes' = crashes /\ job[h].pc = "found" /\ Idle.pc = "idle"
    BY <1>41 DEF Found, Idle
  <2>2. Ends(h) => job'[h] = Idle
    BY <1>0, JobEnded
  <2>3. /\ db'.due = db.due /\ db'.tasks = db.tasks /\ job'[h].pc \in {"idle", "settle", "found"}
        /\ \A g \in Job \ {h} : job'[g] = job[g]
    BY <1>0, <1>41, <2>1, <2>2, FoundRows
  <2> QED BY <1>0, <2>1, <2>3, OtherUndated DEF Dating
<1>42. ASSUME NEW h \in Job, Quit(h) PROVE Redated \/ Undated
  <2>1. db'.due = db.due /\ db'.tasks = db.tasks /\ age' = age /\ crashes' = crashes /\ job[h].pc = "quit"
    BY <1>0, <1>42, JobKinds, WithoutUserRows DEF Quit, Typed, Quitting
  <2>2. job'[h].pc = "idle" /\ \A g \in Job \ {h} : job'[g] = job[g]
    BY <1>0, <1>42, JobEnded DEF Idle, Quit
  <2> QED BY <1>0, <2>1, <2>2, OtherUndated DEF Dating
<1>43. ASSUME NEW h \in Job, CleanHalf(h) PROVE Redated \/ Undated
  <2>1. db'.due = db.due /\ db'.tasks = db.tasks /\ age' = age /\ job[h].pc = "clean"
    BY <1>0, <1>43, CleanHalfRows DEF CleanHalf
  <2>2. job'[h].pc = "idle" /\ \A g \in Job \ {h} : job'[g] = job[g]
    BY <1>0, <1>43, JobEnded DEF Idle, CleanHalf
  <2>3. crashes' > 0
    BY <1>0, <1>43, TenancyAssumption DEF CleanHalf, Typed
  <2> QED BY <1>0, <2>1, <2>2, <2>3, OtherUndated DEF Dating
<1>44. ASSUME NEW h \in Job, Regrade(h) PROVE Redated \/ Undated
  <2>1. db'.due = db.due /\ db'.tasks = db.tasks /\ age' = age /\ crashes' = crashes /\ job[h].pc = "regrade"
    BY <1>0, <1>44, RegradeRows DEF Regrade
  <2>2. job'[h].pc = "idle" /\ \A g \in Job \ {h} : job'[g] = job[g]
    BY <1>0, <1>44, JobEnded DEF Idle, Regrade
  <2> QED BY <1>0, <2>1, <2>2, OtherUndated DEF Dating
<1>45. ASSUME NEW h \in Job, Leave(h) PROVE Redated \/ Undated
  <2>1. db'.due = db.due /\ db'.tasks = db.tasks /\ age' = age /\ crashes' = crashes /\ job[h].pc = "leave"
    BY <1>0, <1>45, LeaveRows DEF Leave
  <2>2. job'[h].pc = "deactivate" /\ \A g \in Job \ {h} : job'[g] = job[g]
    BY <1>0, <1>45, LeaveRows
  <2> QED BY <1>0, <2>1, <2>2, OtherUndated DEF Dating
<1>36. CASE Tick
  BY <1>36 DEF Redated
<1>37. CASE AccountRequest
  BY <1>37, <1>2, <1>3, <1>4, <1>5, <1>6, <1>7 DEF AccountRequest
<1>38. CASE MemberRequest
  <2>1. {"admin", "member"} = Grades
    BY DEF Grades
  <2> QED BY <1>38, <2>1, <1>8, <1>9, <1>10, <1>11, <1>12, <1>13, <1>14 DEF MemberRequest
<1>39. CASE OrgRequest
  BY <1>39, <1>15, <1>16, <1>17, <1>18, <1>19, <1>20, <1>21, <1>22 DEF OrgRequest
<1>40. CASE Step
  BY <1>40, <1>23, <1>24, <1>25, <1>26, <1>27, <1>28, <1>29, <1>30, <1>31, <1>32, <1>33, <1>34, <1>35,
     <1>41, <1>42, <1>43, <1>44, <1>45 DEF Step
<1> QED BY <1>1, <1>36, <1>37, <1>38, <1>39, <1>40 DEF Next

(* DeletionWillRun, job by job.                                            *)
WillRun(o) ==
  db.due[o] # Never /\ crashes = 0 /\ (\A h \in Job : job[h].pc \in Dating => job[h].org # o) =>
    \E t \in db.tasks[o] : t >= db.due[o]

(* The property, organization by organization.                             *)
LEMMA WillRunDeletion == DeletionWillRun <=> \A o \in db.orgs : WillRun(o)
BY DEF DeletionWillRun, WillRun, Busy, Dating

(* Every step keeps the promise of each deletion.                          *)
LEMMA WillRunNext ==
  ASSUME Linked, Linked', \A p \in db.orgs : WillRun(p), [Next]_vars, NEW o \in db'.orgs
  PROVE  WillRun(o)'
<1>0. /\ Typed /\ Typed' /\ db \in DB /\ db' \in DB /\ o \in Org
      /\ \A p \in Org : db.due[p] # Never => p \in db.orgs
  BY DEF Linked, Typed, TypeOK, DB
<1> SUFFICES ASSUME db'.due[o] # Never, crashes' = 0, \A h \in Job : job'[h].pc \in Dating => job'[h].org # o
             PROVE  \E t \in db'.tasks[o] : t >= db'.due[o]
  BY DEF WillRun
<1>1. CASE Undated
  <2>1. db'.due[o] = db.due[o] /\ db'.tasks[o] = db.tasks[o] /\ crashes = 0 /\ o \in db.orgs
    BY <1>0, <1>1 DEF Undated
  <2>2. \A h \in Job : job[h].pc \in Dating => job[h].org # o
    BY <1>0, <1>1 DEF Undated
  <2> QED BY <1>0, <2>1, <2>2 DEF WillRun
<1>2. CASE Tick
  <2>1. crashes = 0 /\ job' = job /\ db'.due[o] = Later(db.due[o]) /\ db'.tasks[o] = {Later(t) : t \in db.tasks[o]}
    BY <1>0, <1>2, TickRows DEF Tick
  <2>2. db.due[o] # Never
    BY <2>1 DEF Later, Never
  <2>3. PICK t \in db.tasks[o] : t >= db.due[o]
    BY <1>0, <2>1, <2>2 DEF WillRun
  <2>4. t \in Nat /\ db.due[o] \in Nat
    BY <1>0, <2>2, Constants DEF DB
  <2>5. Later(t) >= Later(db.due[o])
    BY <2>3, <2>4 DEF Later
  <2> QED BY <2>1, <2>5
<1>3. ASSUME NEW h \in Job, Schedule(h) PROVE \E t \in db'.tasks[o] : t >= db'.due[o]
  <2>1. crashes = 0 /\ \A g \in Job \ {h} : job'[g] = job[g]
    BY <1>0, <1>3, JobEnded DEF Schedule
  <2>2. CASE job[h].org = o
    <3>1. db' = [db EXCEPT !.tasks[o] = @ \cup {Grace}]
      BY <1>0, <1>3, <2>2, Constants DEF Schedule, Delayed, Org
    <3>2. Grace \in db'.tasks[o]
      BY <1>0, <3>1 DEF DB
    <3>3. Grace >= db'.due[o]
      BY <1>0, Constants DEF DB, Never
    <3> QED BY <3>2, <3>3
  <2>3. CASE job[h].org # o
    <3>1. db'.due[o] = db.due[o] /\ db'.tasks[o] = db.tasks[o]
      BY <1>0, <1>3, <2>3 DEF Schedule, Delayed, DB
    <3> QED BY <1>0, <2>1, <2>3, <3>1 DEF WillRun
  <2> QED BY <2>2, <2>3
<1>4. ASSUME NEW h \in Job, Clear(h) PROVE \E t \in db'.tasks[o] : t >= db'.due[o]
  <2>1. crashes = 0 /\ \A g \in Job \ {h} : job'[g] = job[g]
    BY <1>0, <1>4, JobEnded DEF Clear
  <2>2. job[h].org # o
    <3> SUFFICES ASSUME job[h].org = o PROVE db'.due[o] = Never
      OBVIOUS
    <3> QED BY <1>0, <1>4, Constants DEF Clear, DB, Org
  <2>3. db'.due[o] = db.due[o] /\ db'.tasks[o] = db.tasks[o]
    BY <1>0, <1>4, <2>2 DEF Clear, DB
  <2> QED BY <1>0, <2>1, <2>2, <2>3 DEF WillRun
<1>5. ASSUME NEW h \in Job, NEW p \in Org, RunTask(h, p) PROVE \E t \in db'.tasks[o] : t >= db'.due[o]
  <2>1. CASE IsDue(p) /\ Starts(h, Purge(p, None)) /\ UNCHANGED db
    <3>1. crashes = 0 /\ job[h] = Idle /\ job'[h].pc = "purge" /\ job'[h].org = p
          /\ \A g \in Job \ {h} : job'[g] = job[g]
      BY <1>0, <1>5, <2>1 DEF RunTask, Starts, Purge, Typed
    <3>2. \A g \in Job : job[g].pc \in Dating => job[g].org # o
      BY <3>1 DEF Dating, Idle
    <3> QED BY <1>0, <2>1, <3>1, <3>2 DEF WillRun
  <2>2. CASE ~ IsDue(p) /\ db' = [db EXCEPT !.tasks[p] = @ \ {0}] /\ UNCHANGED job
    <3>1. crashes = 0 /\ db'.due = db.due /\ db'.tasks = [db.tasks EXCEPT ![p] = @ \ {0}]
      BY <1>0, <1>5, <2>2 DEF RunTask, DB
    <3>2. PICK t \in db.tasks[o] : t >= db.due[o]
      BY <1>0, <2>2, <3>1 DEF WillRun
    <3>3. CASE o # p
      BY <1>0, <3>1, <3>2, <3>3 DEF DB
    <3>4. CASE o = p
      <4>1. db.due[o] # 0 /\ db.due[o] \in Nat
        BY <1>0, <2>2, <3>1, <3>4, Constants DEF IsDue, DB
      <4>2. t # 0
        BY <3>2, <4>1
      <4> QED BY <1>0, <3>1, <3>2, <3>4, <4>2 DEF DB
    <3> QED BY <3>3, <3>4
  <2> QED BY <1>5, <2>1, <2>2 DEF RunTask
<1>6. ASSUME NEW h \in Job, NEW p \in Org, NEW u \in User, AskDeletion(h, u, p) \/ AskCancel(h, u, p) \/ DeleteNow(h, u, p)
      PROVE  \E t \in db'.tasks[o] : t >= db'.due[o]
  <2>1. job[h] = Idle /\ job'[h].pc \in Dating /\ job'[h].org = p
        /\ \A g \in Job \ {h} : job'[g] = job[g]
    BY <1>0, <1>6 DEF AskDeletion, AskCancel, DeleteNow, Starts, Purge, Dating, Typed
  <2>2. o # p /\ crashes = 0
    BY <1>6, <2>1 DEF AskDeletion, AskCancel, DeleteNow
  <2>3. db'.due[o] = db.due[o] /\ db'.tasks[o] = db.tasks[o]
    BY <1>0, <1>6, <2>2 DEF AskDeletion, AskCancel, DeleteNow, DB
  <2>4. \A g \in Job : job[g].pc \in Dating => job[g].org # o
    BY <2>1 DEF Dating, Idle
  <2> QED BY <1>0, <2>2, <2>3, <2>4 DEF WillRun
<1> QED BY <1>0, <1>1, <1>2, <1>3, <1>4, <1>5, <1>6, DatesStep DEF Redated

(* A deletion that was requested and not cancelled has a task that will    *)
(* not run too early for it: _handle_org_deletion, _handle_cancel_deletion, *)
(* the immediate deletion and the task itself may overlap in any order.    *)
THEOREM DeletionRuns == Spec => []DeletionWillRun
<1>1. Init => DeletionWillRun
  BY DEF Init, DeletionWillRun
<1>2. Linked /\ Linked' /\ DeletionWillRun /\ [Next]_vars => DeletionWillRun'
  <2> SUFFICES ASSUME Linked, Linked', DeletionWillRun, [Next]_vars PROVE DeletionWillRun'
    OBVIOUS
  <2>1. \A o \in db.orgs : WillRun(o)
    BY WillRunDeletion
  <2>2. \A o \in db'.orgs : WillRun(o)'
    BY <2>1, WillRunNext
  <2>3. (\A o \in db.orgs : WillRun(o))'
    BY <2>2
  <2> QED BY <2>3, WillRunDeletion, PTL
<1> QED BY <1>1, <1>2, AlwaysLinked, PTL DEF Spec

(* Every step counts the days since the deletion was asked for.            *)
LEMMA GraceCountedNext ==
  ASSUME Linked, Linked', GraceCounted, [Next]_vars
  PROVE  GraceCounted'
<1>0. Typed /\ Typed' /\ db \in DB /\ db' \in DB
  BY DEF Linked, Typed
<1> SUFFICES ASSUME NEW o \in Org, db'.due[o] # Never PROVE db'.due[o] + age'[o] >= Grace
  BY DEF GraceCounted
<1>1. CASE db'.due[o] = db.due[o] /\ age'[o] = age[o]
  BY <1>1 DEF GraceCounted
<1>2. CASE Tick
  <2>1. db'.due[o] = Later(db.due[o])
        /\ age'[o] = IF db.due[o] # Never /\ age[o] < Grace THEN age[o] + 1 ELSE age[o]
    BY <1>0, <1>2, TickRows DEF Tick
  <2>2. db.due[o] # Never /\ db.due[o] + age[o] >= Grace
    BY <2>1 DEF GraceCounted, Later, Never
  <2>3. db.due[o] \in Nat /\ age[o] \in Nat /\ age[o] <= Grace /\ Grace \in Nat
    BY <1>0, <2>2, Constants DEF Typed, DB
  <2> QED BY <2>1, <2>2, <2>3 DEF Later
<1>3. ASSUME NEW h \in Job, NEW u \in User, NEW p \in Org, AskDeletion(h, u, p)
      PROVE  db'.due[o] + age'[o] >= Grace
  <2>1. CASE o = p
    <3>1. db'.due[o] = Grace /\ age'[o] = 0
      BY <1>0, <1>3, <2>1 DEF AskDeletion, DB, Typed
    <3> QED BY <3>1, Constants
  <2>2. CASE o # p
    BY <1>0, <1>1, <1>3, <2>2 DEF AskDeletion, DB, Typed
  <2> QED BY <2>1, <2>2
<1>4. ASSUME NEW h \in Job, Clear(h) PROVE db'.due[o] + age'[o] >= Grace
  <2>1. db'.due[o] = Never \/ db'.due[o] = db.due[o]
    BY <1>0, <1>4 DEF Clear, DB
  <2> QED BY <1>1, <1>4, <2>1 DEF Clear
<1>5. ASSUME NEW h \in Job, Schedule(h) PROVE db'.due[o] + age'[o] >= Grace
  BY <1>0, <1>1, <1>5 DEF Schedule, Delayed, DB
<1>6. ASSUME NEW h \in Job, NEW p \in Org, RunTask(h, p) PROVE db'.due[o] + age'[o] >= Grace
  <2>1. db'.due = db.due /\ age' = age
    BY <1>0, <1>6 DEF RunTask, DB
  <2> QED BY <1>1, <2>1
<1>7. ASSUME NEW h \in Job, NEW u \in User, NEW p \in Org, AskCancel(h, u, p) \/ DeleteNow(h, u, p)
      PROVE  db'.due[o] + age'[o] >= Grace
  BY <1>0, <1>1, <1>7 DEF AskCancel, DeleteNow, DB
<1>8. CASE Undated
  BY <1>1, <1>8 DEF Undated
<1> QED BY <1>0, <1>2, <1>3, <1>4, <1>5, <1>6, <1>7, <1>8, DatesStep DEF Redated

(* A purge begins when they have passed.                                   *)
LEMMA PurgeStarts ==
  ASSUME Linked, Linked', GraceCounted, [Next]_vars, NEW h \in Job,
         job[h] = Idle, job'[h].pc = "purge", job'[h].user = None
  PROVE  age[job'[h].org] >= Grace
<1>0. Typed /\ Typed' /\ db \in DB /\ Idle.pc = "idle"
  BY DEF Linked, Typed, Idle
<1>1. CASE Undated
  BY <1>1 DEF Undated
<1>2. CASE Tick
  BY <1>0, <1>2 DEF Tick
<1>3. ASSUME NEW g \in Job, Schedule(g) \/ Clear(g) PROVE FALSE
  <2>1. Ends(g)
    BY <1>3 DEF Schedule, Clear
  <2> QED BY <1>0, <2>1 DEF Ends, Typed
<1>4. ASSUME NEW g \in Job, NEW o \in Org, NEW u \in User,
             AskDeletion(g, u, o) \/ AskCancel(g, u, o) \/ DeleteNow(g, u, o)
      PROVE  FALSE
  <2>1. g # h => job'[h] = job[h]
    BY <1>0, <1>4 DEF AskDeletion, AskCancel, DeleteNow, Starts, Typed
  <2>2. g = h
    BY <1>0, <2>1
  <2>3. job'[h].pc # "purge" \/ job'[h].user = u
    BY <1>0, <1>4, <2>2 DEF AskDeletion, AskCancel, DeleteNow, Starts, Purge, Typed
  <2> QED BY <2>3, Constants
<1>5. ASSUME NEW g \in Job, NEW o \in Org, RunTask(g, o) PROVE age[job'[h].org] >= Grace
  <2>1. job' # job
    BY <1>0
  <2>2. IsDue(o) /\ Starts(g, Purge(o, None))
    BY <1>5, <2>1 DEF RunTask
  <2>3. g = h /\ job'[h].org = o
    BY <1>0, <2>2 DEF Starts, Purge, Typed
  <2>4. db.due[o] = 0 /\ age[o] \in Nat /\ Grace \in Nat
    BY <1>0, <2>2, Constants DEF IsDue, Typed
  <2> QED BY <2>3, <2>4 DEF GraceCounted, Never
<1> QED BY <1>0, <1>1, <1>2, <1>3, <1>4, <1>5, DatesStep DEF Redated

(* The background task starts to delete an organization only a whole grace *)
(* period after deletion was last requested for it.                        *)
THEOREM GraceHolds == Spec => PurgeAfterGrace
<1>1. Init => GraceCounted
  BY DEF Init, GraceCounted
<1>2. Linked /\ Linked' /\ GraceCounted /\ [Next]_vars => GraceCounted'
  BY GraceCountedNext
<1>3. Linked /\ Linked' /\ GraceCounted /\ [Next]_vars =>
        [\A h \in Job : job[h] = Idle /\ job'[h].pc = "purge" /\ job'[h].user = None => age[job'[h].org] >= Grace]_vars
  BY PurgeStarts
<1> QED BY <1>1, <1>2, <1>3, AlwaysLinked, PTL DEF Spec, PurgeAfterGrace

-----------------------------------------------------------------------------
(***************************************************************************)
(* Invitations                                                             *)
(***************************************************************************)
(* A step that admits nobody with the invitation: what is under way stays, *)
(* and what ends after its first write has spent the invitation or spoiled *)
(* it.                                                                     *)
Unaccepted(i) ==
  /\ joined'[i] = joined[i] /\ (i \in spoiled => i \in spoiled')
  /\ \A h \in Job : Accepts(h, i)' =>
       Accepts(h, i) /\ (job'[h].pc = "join" <=> job[h].pc = "join") /\ job'[h].user = job[h].user
  /\ inv[i] = Blank \/ inv[i].accepted => inv'[i] = Blank \/ inv'[i].accepted
  /\ \A h \in Job : Accepts(h, i) /\ job[h].pc # "join" =>
       Accepts(h, i)' \/ inv'[i] = Blank \/ inv'[i].accepted \/ i \in spoiled'

SpendStep(i) == Unaccepted(i) \/ i \in spoiled' \/ SpentOnce(i)'

(* An invitation nobody is accepting stays spent.                          *)
LEMMA UnacceptedSpent ==
  ASSUME NEW i \in Inv, SpentOnce(i), Unaccepted(i)
  PROVE  i \in spoiled' \/ SpentOnce(i)'
<1> SUFFICES ASSUME i \notin spoiled' PROVE SpentOnce(i)'
  OBVIOUS
<1>1. \A g, h \in Job : Accepts(g, i)' /\ Accepts(h, i)' => g = h
  BY DEF SpentOnce, Unaccepted
<1>2. \A h \in Job : Accepts(h, i)' => joined'[i] = IF job'[h].pc = "join" THEN {} ELSE {job'[h].user}
  BY DEF SpentOnce, Unaccepted
<1>3. (\A h \in Job : ~ Accepts(h, i)') /\ joined'[i] # {} => inv'[i] = Blank \/ inv'[i].accepted
  BY DEF SpentOnce, Unaccepted
<1>4. \A u, v \in joined'[i] : u = v
  BY DEF SpentOnce, Unaccepted
<1> QED BY <1>1, <1>2, <1>3, <1>4 DEF SpentOnce

(* A new invitation, or one sent again,                                    *)
LEMMA InvitesSpends ==
  ASSUME Linked, Typed', NEW i \in Inv, NEW o \in Org, NEW k \in Inv, NEW u, NEW r, NEW n, Invites(o, k, u, r, n)
  PROVE  SpendStep(i)
<1>0. Typed /\ JobsLinked /\ job' = job /\ inv[k] = Blank
  BY DEF Linked, Invites
<1>1. CASE i = k
  <2>1. joined'[i] = {}
    BY <1>0, <1>1 DEF Invites, Typed
  <2>2. \A h \in Job : ~ Accepts(h, i)'
    BY <1>0, <1>1 DEF Accepts, JobsLinked
  <2> QED BY <2>1, <2>2 DEF SpendStep, SpentOnce
<1>2. CASE i # k
  BY <1>0, <1>2 DEF Invites, SpendStep, Unaccepted, Accepts, Typed
<1> QED BY <1>1, <1>2

(* an acceptance that begins,                                              *)
LEMMA AcceptSpends ==
  ASSUME Linked, InvitationsSpent, NEW i \in Inv, NEW k \in Inv, NEW h \in Job, NEW u \in User,
         Acceptable(k), inv' = inv, joined' = joined,
         spoiled' = IF \E g \in Job \ {h} : job[g].pc \in Accepting /\ job[g].inv = k
                    THEN spoiled \cup {k} ELSE spoiled,
         job'[h].pc = "join", job'[h].inv = k, job'[h].user = u, job[h].pc \notin Accepting,
         \A g \in Job \ {h} : job'[g] = job[g]
  PROVE  SpendStep(i)
<1>1. CASE i # k
  BY <1>1 DEF SpendStep, Unaccepted, Accepts
<1>2. CASE i = k /\ i \notin spoiled'
  <2>1. i \notin spoiled /\ SpentOnce(i)
    BY <1>2 DEF InvitationsSpent
  <2>2. \A g \in Job : ~ Accepts(g, i)
    BY <1>2 DEF Accepts
  <2>3. joined[i] = {}
    BY <1>2, <2>1, <2>2 DEF SpentOnce, Acceptable
  <2>4. \A g \in Job : Accepts(g, i)' => g = h
    BY <2>2 DEF Accepts
  <2> QED BY <2>3, <2>4 DEF SpendStep, SpentOnce
<1> QED BY <1>1, <1>2 DEF SpendStep

(* an organization that goes: an invitation stays spent.                   *)
LEMMA OrphanedSpends ==
  ASSUME Linked, NEW i \in Inv, NEW o \in Org, inv' = InvWithout(o), joined' = joined, spoiled' = spoiled,
         \A g \in Job : job'[g] = Orphaned(job[g], o) \/ (job[g].pc \notin Accepting /\ job'[g].pc \notin Accepting)
  PROVE  SpendStep(i)
<1>0. Typed /\ JobsLinked
  BY DEF Linked
<1>1. inv'[i] = inv[i] \/ (inv[i].org = o /\ inv'[i] = Blank)
  BY <1>0, InvWithoutRows
<1>2. ASSUME NEW h \in Job, Accepts(h, i)' PROVE Accepts(h, i) /\ job'[h] = job[h]
  <2>1. job[h] \in AnyJob /\ job'[h] = Orphaned(job[h], o)
    BY <1>0, <1>2 DEF Accepts, Typed
  <2>2. job'[h] = job[h] \/ (job'[h] = [job[h] EXCEPT !.org = None] /\ job[h].pc = job'[h].pc)
    BY <1>2, <2>1, OrphanedJob DEF Accepts, Accepting
  <2>3. job'[h] # job[h] => job[h] \in Acceptance
    BY <1>2, <2>1, <2>2, JobKinds DEF Accepts
  <2>4. job'[h] = job[h]
    BY <1>2, <2>2, <2>3 DEF Accepts, Acceptance
  <2> QED BY <1>2, <2>4 DEF Accepts
<1>3. ASSUME NEW h \in Job, Accepts(h, i) PROVE Accepts(h, i)' \/ inv'[i] = Blank
  <2>1. job[h] \in AnyJob /\ job'[h] = Orphaned(job[h], o) /\ job[h].pc \in Accepting /\ job[h].org # None
        /\ job[h].inv = i
    BY <1>0, <1>3 DEF Accepts, Typed
  <2>2. inv[i].org = job[h].org
    BY <1>0, <2>1 DEF JobsLinked
  <2>3. CASE job[h].org = o
    BY <1>0, <1>1, <2>2, <2>3, InvWithoutRows
  <2>4. CASE job[h].org # o
    <3>1. job'[h] = job[h]
      BY <2>1, <2>4, OrphanedJob DEF Accepting
    <3> QED BY <1>3, <3>1 DEF Accepts
  <2> QED BY <2>3, <2>4
<1> QED BY <1>1, <1>2, <1>3 DEF SpendStep, Unaccepted

(* a step of a request that accepts nothing.                               *)
LEMMA OtherSpends ==
  ASSUME NEW i \in Inv, NEW h \in Job, inv' = inv, joined' = joined, spoiled' = spoiled,
         job[h].pc \notin Accepting, job'[h].pc \notin Accepting, \A g \in Job \ {h} : job'[g] = job[g]
  PROVE  SpendStep(i)
BY DEF SpendStep, Unaccepted, Accepts

(* Every step keeps each invitation spent.                                 *)
LEMMA InvitationsNext ==
  ASSUME Linked, Typed', InvitationsSpent, [Next]_vars, NEW i \in Inv
  PROVE  SpendStep(i)
<1> USE DEF ghosts
<1>0. Linked /\ Typed /\ Typed' /\ JobsLinked /\ InvitationsSpent /\ i \in Inv /\ \A k \in Inv : k \in spoiled \/ SpentOnce(k)
  BY DEF Linked, InvitationsSpent
<1>1. CASE UNCHANGED vars
  BY <1>0, <1>1 DEF vars, SpendStep, Unaccepted, Accepts
<1>2. ASSUME NEW u \in User, SignUp(u) PROVE SpendStep(i)
  BY <1>0, <1>2 DEF SignUp, SpendStep, Unaccepted, Accepts
<1>3. ASSUME NEW u \in User, NEW h \in Job, DeleteAccount(h, u) PROVE SpendStep(i)
  <2>1. \A g \in Job : job'[g] = job[g] \/ (job'[g].pc \notin Accepting /\ job[g].pc \notin Accepting)
    BY <1>0, <1>3 DEF DeleteAccount, Starts, Accepting, Typed, Idle
  <2> QED BY <1>0, <1>3, <2>1 DEF DeleteAccount, SpendStep, Unaccepted, Accepts
<1>4. ASSUME NEW u \in User, NEW o \in Org, CleanUp(u, o) PROVE SpendStep(i)
  <2>1. inv' = InvWithout(o) /\ \A g \in Job : job'[g] = Orphaned(job[g], o)
    BY <1>4 DEF CleanUp
  <2> QED BY <1>0, <1>4, <2>1, OrphanedSpends DEF CleanUp
<1>5. ASSUME NEW u \in User, NEW h \in Job, ReadProfile(h, u) PROVE SpendStep(i)
  <2>1. \A g \in Job : job'[g] = job[g] \/ (job'[g].pc \notin Accepting /\ job[g].pc \notin Accepting)
    BY <1>0, <1>5 DEF ReadProfile, Starts, Purge, Accepting, Typed, Idle
  <2> QED BY <1>0, <1>5, <2>1 DEF ReadProfile, SpendStep, Unaccepted, Accepts
<1>6. ASSUME NEW h \in Job, NEW u \in User, NEW k \in Inv, SignUpInvited(h, u, k) PROVE SpendStep(i)
  <2> DEFINE j == [pc |-> "join", user |-> u, org |-> inv[k].org, inv |-> k, ws |-> inv[k].ws,
                   role |-> inv[k].role, signup |-> TRUE]
  <2>1. /\ Starts(h, j) /\ Acceptable(k) /\ inv' = inv /\ joined' = joined
        /\ spoiled' = IF \E g \in Job \ {h} : job[g].pc \in Accepting /\ job[g].inv = k THEN spoiled \cup {k} ELSE spoiled
    BY <1>6 DEF SignUpInvited, Acceptable, Others, Accepting
  <2>2. job'[h] = j /\ job[h] = Idle /\ \A g \in Job \ {h} : job'[g] = job[g]
    BY <1>0, <2>1 DEF Starts, Typed
  <2>3. /\ job'[h].pc = "join" /\ job'[h].inv = k /\ job'[h].user = u /\ job[h].pc \notin Accepting
    BY <2>2 DEF Idle, Accepting
  <2> HIDE DEF j
  <2> QED BY <1>0, <2>1, <2>2, <2>3, AcceptSpends
<1>7. ASSUME NEW h \in Job, NEW u \in User, NEW k \in Inv, Accept(h, u, k) PROVE SpendStep(i)
  <2> DEFINE j == [pc |-> "join", user |-> u, org |-> inv[k].org, inv |-> k, ws |-> inv[k].ws,
                   role |-> inv[k].role, signup |-> FALSE]
  <2>1. /\ Starts(h, j) /\ Acceptable(k) /\ inv' = inv /\ joined' = joined
        /\ spoiled' = IF \E g \in Job \ {h} : job[g].pc \in Accepting /\ job[g].inv = k THEN spoiled \cup {k} ELSE spoiled
    BY <1>7 DEF Accept, Acceptable, Others, Accepting
  <2>2. job'[h] = j /\ job[h] = Idle /\ \A g \in Job \ {h} : job'[g] = job[g]
    BY <1>0, <2>1 DEF Starts, Typed
  <2>3. /\ job'[h].pc = "join" /\ job'[h].inv = k /\ job'[h].user = u /\ job[h].pc \notin Accepting
    BY <2>2 DEF Idle, Accepting
  <2> HIDE DEF j
  <2> QED BY <1>0, <2>1, <2>2, <2>3, AcceptSpends
<1>8. ASSUME NEW a \in User, NEW u \in User, NEW o \in Org, NEW S \in SUBSET Ws, SetWorkspaces(a, o, u, S)
      PROVE  SpendStep(i)
  BY <1>0, <1>8 DEF SetWorkspaces, SpendStep, Unaccepted, Accepts
<1>9. ASSUME NEW a \in User, NEW u \in User, NEW o \in Org, NEW S \in SUBSET Ws, NEW r \in Invited \cup {"owner"},
             CreateMember(a, o, u, r, S)
      PROVE  SpendStep(i)
  BY <1>0, <1>9 DEF CreateMember, SpendStep, Unaccepted, Accepts
<1>10. ASSUME NEW a \in User, NEW u \in User, NEW o \in Org, NEW k \in Inv, NEW r \in Invited, NEW n \in 0 .. MaxWs, Invite(a, o, k, u, r, n)
       PROVE  SpendStep(i)
  <2>1. Invites(o, k, u, r, n) /\ k \in Inv
    BY <1>10 DEF Invite
  <2> QED BY <1>0, <2>1, InvitesSpends
<1>11. ASSUME NEW a \in User, NEW u \in User, NEW o \in Org, NEW k \in Inv, NEW n \in Ws, InviteToWorkspace(a, o, k, u, n)
       PROVE  SpendStep(i)
  <2>1. Invites(o, k, u, "member", n) /\ k \in Inv
    BY <1>11 DEF InviteToWorkspace
  <2> QED BY <1>0, <2>1, InvitesSpends
<1>12. ASSUME NEW h \in Job, NEW a \in User, NEW u \in User, NEW o \in Org, NEW r \in Grades, UpdateRole(h, a, o, u, r)
       PROVE  SpendStep(i)
  <2>1. \A g \in Job : job'[g] = job[g] \/ (job'[g].pc \notin Accepting /\ job[g].pc \notin Accepting)
    BY <1>0, <1>12 DEF UpdateRole, Starts, Accepting, Typed, Idle
  <2> QED BY <1>0, <1>12, <2>1 DEF UpdateRole, SpendStep, Unaccepted, Accepts
<1>13. ASSUME NEW h \in Job, NEW a \in User, NEW u \in User, NEW o \in Org, RemoveMember(h, a, o, u)
       PROVE  SpendStep(i)
  <2>1. \A g \in Job : job'[g] = job[g] \/ (job'[g].pc \notin Accepting /\ job[g].pc \notin Accepting)
    BY <1>0, <1>13 DEF RemoveMember, Starts, Purge, Accepting, Typed, Idle
  <2> QED BY <1>0, <1>13, <2>1 DEF RemoveMember, SpendStep, Unaccepted, Accepts
<1>14. ASSUME NEW a \in User, NEW u \in User, NEW o \in Org, NEW n \in Ws, LeaveWorkspace(a, o, n, u)
       PROVE  SpendStep(i)
  BY <1>0, <1>14 DEF LeaveWorkspace, SpendStep, Unaccepted, Accepts
<1>15. ASSUME NEW k \in Inv, Revoke(k) PROVE SpendStep(i)
  <2>1. inv[k] \in Invitation
    BY <1>0, <1>15, InvitationKinds DEF Revoke
  <2>2. inv'[i] = inv[i] \/ (inv[i] # Blank /\ ~ inv[i].accepted)
    BY <1>0, <1>15, <2>1 DEF Revoke, Expired, Typed
  <2> QED BY <1>0, <1>15, <2>2 DEF Revoke, SpendStep, Unaccepted, Accepts
<1>16. ASSUME NEW a \in User, NEW k \in Inv, Resend(a, k) PROVE SpendStep(i)
  <2>1. inv[k] \in Invitation
    BY <1>0, <1>16, InvitationKinds DEF Resend
  <2>2. inv'[i] = inv[i] \/ (inv[i] # Blank /\ ~ inv[i].accepted)
    BY <1>0, <1>16, <2>1 DEF Resend, Reopened, Typed
  <2> QED BY <1>0, <1>16, <2>2 DEF Resend, SpendStep, Unaccepted, Accepts
<1>17. ASSUME NEW u \in User, NEW o \in Org, CreateWorkspace(u, o) PROVE SpendStep(i)
  BY <1>0, <1>17 DEF CreateWorkspace, SpendStep, Unaccepted, Accepts
<1>18. ASSUME NEW u \in User, NEW o \in Org, NEW n \in Ws, Unarchive(u, o, n) PROVE SpendStep(i)
  BY <1>0, <1>18 DEF Unarchive, SpendStep, Unaccepted, Accepts
<1>19. ASSUME NEW h \in Job, NEW u \in User, NEW o \in Org, AskDeletion(h, u, o) PROVE SpendStep(i)
  <2>1. \A g \in Job : job'[g] = job[g] \/ (job'[g].pc \notin Accepting /\ job[g].pc \notin Accepting)
    BY <1>0, <1>19 DEF AskDeletion, Starts, Purge, Accepting, Typed, Idle
  <2> QED BY <1>0, <1>19, <2>1 DEF AskDeletion, SpendStep, Unaccepted, Accepts
<1>20. ASSUME NEW h \in Job, NEW u \in User, NEW o \in Org, AskCancel(h, u, o) PROVE SpendStep(i)
  <2>1. \A g \in Job : job'[g] = job[g] \/ (job'[g].pc \notin Accepting /\ job[g].pc \notin Accepting)
    BY <1>0, <1>20 DEF AskCancel, Starts, Purge, Accepting, Typed, Idle
  <2> QED BY <1>0, <1>20, <2>1 DEF AskCancel, SpendStep, Unaccepted, Accepts
<1>21. ASSUME NEW h \in Job, NEW u \in User, NEW o \in Org, DeleteNow(h, u, o) PROVE SpendStep(i)
  <2>1. \A g \in Job : job'[g] = job[g] \/ (job'[g].pc \notin Accepting /\ job[g].pc \notin Accepting)
    BY <1>0, <1>21 DEF DeleteNow, Starts, Purge, Accepting, Typed, Idle
  <2> QED BY <1>0, <1>21, <2>1 DEF DeleteNow, SpendStep, Unaccepted, Accepts
<1>22. ASSUME NEW h \in Job, NEW u \in User, NEW o \in Org, NEW n \in Ws,
              NEW what \in {"archive", "delete", "settings"}, ReadWorkspace(h, u, o, n, what)
       PROVE  SpendStep(i)
  <2>1. \A g \in Job : job'[g] = job[g] \/ (job'[g].pc \notin Accepting /\ job[g].pc \notin Accepting)
    BY <1>0, <1>22 DEF ReadWorkspace, Starts, Purge, Accepting, Typed, Idle
  <2> QED BY <1>0, <1>22, <2>1 DEF ReadWorkspace, SpendStep, Unaccepted, Accepts
<1>23. ASSUME NEW h \in Job, SaveProfile(h) PROVE SpendStep(i)
  <2>0. job[h].user \in User /\ job[h].pc = "profile"
    BY <1>0, <1>23, JobKinds DEF Typed, SaveProfile, Plain
  <2>1. CASE Begins(h, job[h].user, job[h].user, {})
    <3>1. job'[h].pc = "found" /\ \A g \in Job \ {h} : job'[g] = job[g]
      BY <1>0, <2>0, <2>1, BegunRows
    <3> QED BY <1>0, <1>23, <2>0, <3>1, OtherSpends DEF SaveProfile, Accepting
  <2>2. CASE Ends(h)
    <3>1. job'[h].pc = "idle" /\ \A g \in Job \ {h} : job'[g] = job[g]
      BY <1>0, <2>2, JobEnded DEF Idle
    <3> QED BY <1>0, <1>23, <2>0, <3>1, OtherSpends DEF SaveProfile, Accepting
  <2> QED BY <1>23, <2>1, <2>2 DEF SaveProfile
<1>24. ASSUME NEW h \in Job, Join(h) PROVE SpendStep(i)
  <2>1. job[h] \in Acceptance /\ job[h].pc = "join"
    BY <1>0, <1>24, JobKinds DEF Typed, Join, Accepting
  <2>2. CASE Ends(h) /\ joined' = joined
    <3>1. job'[h] = Idle /\ \A g \in Job \ {h} : job'[g] = job[g]
      BY <1>0, <2>2, JobEnded
    <3> QED BY <1>0, <1>24, <2>1, <2>2, <3>1 DEF Join, SpendStep, Unaccepted, Accepts, Idle, Accepting
  <2>3. CASE /\ job[h].org # None /\ joined' = [joined EXCEPT ![job[h].inv] = @ \cup {job[h].user}]
             /\ job' = [job EXCEPT ![h].pc = "assign"]
    <3>1. job'[h] = [job[h] EXCEPT !.pc = "assign"] /\ \A g \in Job \ {h} : job'[g] = job[g]
      BY <1>0, <2>3 DEF Typed
    <3>2. job'[h].pc = "assign" /\ job'[h].org = job[h].org /\ job'[h].inv = job[h].inv /\ job'[h].user = job[h].user
      BY <2>1, <3>1 DEF Acceptance
    <3>3. joined'[i] = IF i = job[h].inv THEN joined[i] \cup {job[h].user} ELSE joined[i]
      BY <1>0, <2>1, <2>3 DEF Typed, Acceptance
    <3>4. CASE i # job[h].inv
      BY <1>0, <1>24, <3>1, <3>2, <3>3, <3>4 DEF Join, SpendStep, Unaccepted, Accepts
    <3>5. CASE i = job[h].inv /\ i \notin spoiled
      <4>1. Accepts(h, i) /\ SpentOnce(i) /\ inv' = inv /\ spoiled' = spoiled
        BY <1>0, <1>24, <2>1, <2>3, <3>5 DEF Accepts, Accepting, Join
      <4>2. joined'[i] = {job[h].user} /\ \A g \in Job : Accepts(g, i) => g = h
        BY <2>1, <3>3, <3>5, <4>1 DEF SpentOnce
      <4>3. \A g \in Job : Accepts(g, i)' => g = h
        BY <3>1, <4>2 DEF Accepts
      <4>4. Accepts(h, i)'
        BY <2>3, <3>2, <3>5 DEF Accepts, Accepting
      <4>5. SpentOnce(i)'
        BY <3>2, <4>2, <4>3, <4>4 DEF SpentOnce
      <4> QED BY <4>5 DEF SpendStep
    <3> QED BY <1>0, <1>24, <3>4, <3>5 DEF Join, SpendStep
  <2> QED BY <1>24, <2>2, <2>3 DEF Join
<1>25. ASSUME NEW h \in Job, Assign(h) PROVE SpendStep(i)
  <2>1. job[h] \in Acceptance /\ job[h].pc = "assign"
    BY <1>0, <1>25, JobKinds DEF Typed, Assign, Accepting
  <2>2. CASE Ends(h) /\ spoiled' = IF job[h].org = None THEN spoiled ELSE spoiled \cup {job[h].inv}
    <3>1. job'[h] = Idle /\ \A g \in Job \ {h} : job'[g] = job[g]
      BY <1>0, <2>2, JobEnded
    <3> QED BY <1>0, <1>25, <2>1, <2>2, <3>1 DEF Assign, SpendStep, Unaccepted, Accepts, Idle, Accepting
  <2>3. CASE job' = [job EXCEPT ![h].pc = "mark"] /\ spoiled' = spoiled
    <3>1. job'[h] = [job[h] EXCEPT !.pc = "mark"] /\ \A g \in Job \ {h} : job'[g] = job[g]
      BY <1>0, <2>3 DEF Typed
    <3>2. job'[h].pc = "mark" /\ job'[h].org = job[h].org /\ job'[h].inv = job[h].inv /\ job'[h].user = job[h].user
      BY <2>1, <3>1 DEF Acceptance
    <3> QED BY <1>0, <1>25, <2>1, <2>3, <3>1, <3>2 DEF Assign, SpendStep, Unaccepted, Accepts, Accepting
  <2> QED BY <1>25, <2>2, <2>3 DEF Assign
<1>26. ASSUME NEW h \in Job, Mark(h) PROVE SpendStep(i)
  <2>1. job[h] \in Acceptance /\ job[h].pc = "mark" /\ joined' = joined /\ spoiled' = spoiled
    BY <1>0, <1>26, JobKinds DEF Typed, Mark, Accepting
  <2>2. job'[h].pc \notin Accepting /\ \A g \in Job \ {h} : job'[g] = job[g]
    BY <1>0, <1>26, <2>1 DEF Mark, Ends, Typed, Idle, Accepting, Acceptance
  <2>3. CASE job[h].org = None
    <3>1. inv' = inv
      BY <1>26, <2>3 DEF Mark
    <3> QED BY <1>0, <2>1, <2>2, <2>3, <3>1 DEF SpendStep, Unaccepted, Accepts
  <2>4. CASE job[h].org # None
    <3>1. inv' = [inv EXCEPT ![job[h].inv].accepted = TRUE] /\ job[h].inv \in Inv /\ inv[job[h].inv] \in Invitation
      BY <1>0, <1>26, <2>1, <2>4, InvitationKinds DEF Mark, JobsLinked, Accepting, Acceptance
    <3>2. inv'[job[h].inv].accepted /\ (i # job[h].inv => inv'[i] = inv[i])
      BY <1>0, <3>1 DEF Typed, Invitation
    <3> QED BY <1>0, <2>1, <2>2, <2>4, <3>2 DEF SpendStep, Unaccepted, Accepts
  <2> QED BY <2>3, <2>4
<1>27. ASSUME NEW h \in Job, Clean(h) PROVE SpendStep(i)
  <2> DEFINE u == job[h].user
             alone == Alone(u, job[h].org)
  <2>1. /\ u \in Org /\ inv' = IF alone THEN InvWithout(u) ELSE inv
        /\ job' = [g \in Job |-> IF g = h THEN Idle ELSE IF alone THEN Orphaned(job[g], u) ELSE job[g]]
    BY <1>0, <1>27, CleanRows
  <2>2. joined' = joined /\ spoiled' = spoiled /\ job[h].pc \notin Accepting /\ Idle.pc \notin Accepting
    BY <1>27 DEF Clean, Accepting, Idle
  <2> HIDE DEF u, alone
  <2>3. CASE alone
    <3>1. \A g \in Job : job'[g] = Orphaned(job[g], u) \/ (job[g].pc \notin Accepting /\ job'[g].pc \notin Accepting)
      BY <2>1, <2>2, <2>3
    <3> QED BY <1>0, <2>1, <2>2, <2>3, <3>1, OrphanedSpends
  <2>4. CASE ~ alone
    BY <1>0, <2>1, <2>2, <2>4, OtherSpends
  <2> QED BY <2>3, <2>4
<1>28. ASSUME NEW h \in Job, Deactivate(h) PROVE SpendStep(i)
  <2>1. \A g \in Job : job'[g] = job[g] \/ (job'[g].pc \notin Accepting /\ job[g].pc \notin Accepting)
    BY <1>0, <1>28 DEF Deactivate, Ends, Accepting, Typed, Idle
  <2> QED BY <1>0, <1>28, <2>1 DEF Deactivate, SpendStep, Unaccepted, Accepts
<1>29. ASSUME NEW h \in Job, WriteWorkspace(h) PROVE SpendStep(i)
  <2>1. \A g \in Job : job'[g] = job[g] \/ (job'[g].pc \notin Accepting /\ job[g].pc \notin Accepting)
    BY <1>0, <1>29 DEF WriteWorkspace, Ends, Accepting, Typed, Idle
  <2> QED BY <1>0, <1>29, <2>1 DEF WriteWorkspace, SpendStep, Unaccepted, Accepts
<1>30. ASSUME NEW h \in Job, Schedule(h) PROVE SpendStep(i)
  <2>1. \A g \in Job : job'[g] = job[g] \/ (job'[g].pc \notin Accepting /\ job[g].pc \notin Accepting)
    BY <1>0, <1>30 DEF Schedule, Ends, Accepting, Typed, Idle
  <2> QED BY <1>0, <1>30, <2>1 DEF Schedule, SpendStep, Unaccepted, Accepts
<1>31. ASSUME NEW h \in Job, Clear(h) PROVE SpendStep(i)
  <2>1. \A g \in Job : job'[g] = job[g] \/ (job'[g].pc \notin Accepting /\ job[g].pc \notin Accepting)
    BY <1>0, <1>31 DEF Clear, Ends, Accepting, Typed, Idle
  <2> QED BY <1>0, <1>31, <2>1 DEF Clear, SpendStep, Unaccepted, Accepts
<1>32. ASSUME NEW h \in Job, NEW o \in Org, RunTask(h, o) PROVE SpendStep(i)
  <2>1. \A g \in Job : job'[g] = job[g] \/ (job'[g].pc \notin Accepting /\ job[g].pc \notin Accepting)
    BY <1>0, <1>32 DEF RunTask, Starts, Purge, Accepting, Typed, Idle
  <2> QED BY <1>0, <1>32, <2>1 DEF RunTask, SpendStep, Unaccepted, Accepts
<1>33. ASSUME NEW h \in Job, DeleteOrg(h) PROVE SpendStep(i)
  <2> DEFINE o == job[h].org
  <2>0. joined' = joined /\ spoiled' = spoiled /\ job[h].pc \notin Accepting /\ [job[h] EXCEPT !.pc = "settle"].pc \notin Accepting
    BY <1>0, <1>33, PurgedRows DEF DeleteOrg, Accepting
  <2>1. CASE o = None
    <3>1. inv' = inv /\ job'[h].pc \notin Accepting /\ \A g \in Job \ {h} : job'[g] = job[g]
      BY <1>0, <1>33, <2>0, <2>1, PurgedRows DEF Typed
    <3> QED BY <1>0, <2>0, <3>1 DEF SpendStep, Unaccepted, Accepts
  <2>2. CASE o # None
    <3>1. /\ o \in Org /\ inv' = InvWithout(o)
          /\ job' = [g \in Job |-> IF g = h THEN [job[h] EXCEPT !.pc = "settle"] ELSE Orphaned(job[g], o)]
      BY <1>0, <1>33, <2>2, PurgedRows
    <3>2. \A g \in Job : job'[g] = Orphaned(job[g], o) \/ (job[g].pc \notin Accepting /\ job'[g].pc \notin Accepting)
      BY <2>0, <3>1
    <3> HIDE DEF o
    <3> QED BY <1>0, <2>0, <3>1, <3>2, OrphanedSpends
  <2> QED BY <2>1, <2>2
<1>34. ASSUME NEW h \in Job, NEW u \in User, Settle(h, u) PROVE SpendStep(i)
  <2>1. /\ inv' = inv /\ joined' = joined /\ spoiled' = spoiled /\ job[h].pc = "settle" /\ Idle.pc = "idle"
    BY <1>34 DEF Settle, Idle
  <2>2. /\ \A g \in Job \ {h} : job'[g] = job[g]
        /\ job[h].user \in User \cup {None} /\ job[h].rest \ {u} \in SUBSET User
    BY <1>0, <1>34, SettledRows DEF Purging
  <2>3. Begins(h, job[h].user, u, job[h].rest \ {u}) => job'[h].pc = "found"
    BY <1>0, <2>2, BegunRows
  <2>4. job'[h].pc \in {"idle", "settle", "found"}
    BY <1>0, <1>34, <2>1, <2>3, SettledRows
  <2> QED BY <2>1, <2>2, <2>4, OtherSpends DEF Accepting
<1>35. ASSUME NEW h \in Job, Crash(h) PROVE SpendStep(i)
  <2>1. job'[h] = Idle /\ \A g \in Job \ {h} : job'[g] = job[g]
    BY <1>0, <1>35, JobEnded DEF Crash
  <2> QED BY <1>0, <1>35, <2>1 DEF Crash, SpendStep, Unaccepted, Accepts, Idle, Accepting
<1>41. ASSUME NEW h \in Job, Found(h) PROVE SpendStep(i)
  <2>1. /\ inv' = inv /\ joined' = joined /\ spoiled' = spoiled /\ job[h].pc = "found" /\ Idle.pc = "idle"
    BY <1>41 DEF Found, Idle
  <2>2. Ends(h) => job'[h] = Idle
    BY <1>0, JobEnded
  <2>3. job'[h].pc \in {"idle", "settle", "found"} /\ \A g \in Job \ {h} : job'[g] = job[g]
    BY <1>0, <1>41, <2>1, <2>2, FoundRows
  <2> QED BY <2>1, <2>3, OtherSpends DEF Accepting
<1>42. ASSUME NEW h \in Job, Quit(h) PROVE SpendStep(i)
  <2>1. inv' = inv /\ joined' = joined /\ spoiled' = spoiled /\ job[h].pc = "quit"
    BY <1>42 DEF Quit
  <2>2. job'[h].pc = "idle" /\ \A g \in Job \ {h} : job'[g] = job[g]
    BY <1>0, <1>42, JobEnded DEF Idle, Quit
  <2> QED BY <2>1, <2>2, OtherSpends DEF Accepting
<1>43. ASSUME NEW h \in Job, CleanHalf(h) PROVE SpendStep(i)
  <2>1. inv' = inv /\ joined' = joined /\ spoiled' = spoiled /\ job[h].pc = "clean"
    BY <1>43 DEF CleanHalf
  <2>2. job'[h].pc = "idle" /\ \A g \in Job \ {h} : job'[g] = job[g]
    BY <1>0, <1>43, JobEnded DEF Idle, CleanHalf
  <2> QED BY <2>1, <2>2, OtherSpends DEF Accepting
<1>44. ASSUME NEW h \in Job, Regrade(h) PROVE SpendStep(i)
  <2>1. inv' = inv /\ joined' = joined /\ spoiled' = spoiled /\ job[h].pc = "regrade"
    BY <1>44 DEF Regrade
  <2>2. job'[h].pc = "idle" /\ \A g \in Job \ {h} : job'[g] = job[g]
    BY <1>0, <1>44, JobEnded DEF Idle, Regrade
  <2> QED BY <2>1, <2>2, OtherSpends DEF Accepting
<1>45. ASSUME NEW h \in Job, Leave(h) PROVE SpendStep(i)
  <2>1. inv' = inv /\ joined' = joined /\ spoiled' = spoiled /\ job[h].pc = "leave"
    BY <1>45 DEF Leave
  <2>2. job'[h].pc = "deactivate" /\ \A g \in Job \ {h} : job'[g] = job[g]
    BY <1>0, <1>45, LeaveRows
  <2> QED BY <2>1, <2>2, OtherSpends DEF Accepting
<1>36. CASE Tick
  BY <1>0, <1>36 DEF Tick, SpendStep, Unaccepted, Accepts
<1>37. CASE AccountRequest
  BY <1>37, <1>2, <1>3, <1>4, <1>5, <1>6, <1>7 DEF AccountRequest
<1>38. CASE MemberRequest
  <2>1. {"admin", "member"} = Grades
    BY DEF Grades
  <2> QED BY <1>38, <2>1, <1>8, <1>9, <1>10, <1>11, <1>12, <1>13, <1>14 DEF MemberRequest
<1>39. CASE OrgRequest
  BY <1>39, <1>15, <1>16, <1>17, <1>18, <1>19, <1>20, <1>21, <1>22 DEF OrgRequest
<1>40. CASE Step
  BY <1>40, <1>23, <1>24, <1>25, <1>26, <1>27, <1>28, <1>29, <1>30, <1>31, <1>32, <1>33, <1>34, <1>35,
     <1>41, <1>42, <1>43, <1>44, <1>45 DEF Step
<1> QED BY <1>1, <1>36, <1>37, <1>38, <1>39, <1>40 DEF Next

(* An invitation admits one user: accept_invitation is called by the       *)
(* request of a user who is logged in, and by the signup of a new one,     *)
(* and writes the membership before it marks the invitation.               *)
THEOREM InvitationAdmitsOne == Spec => []InvitationSpentOnce
<1>1. Init => InvitationsSpent
  <2> SUFFICES ASSUME Init, NEW i \in Inv PROVE SpentOnce(i)
    BY DEF InvitationsSpent
  <2>1. joined[i] = {} /\ \A h \in Job : ~ Accepts(h, i)
    BY DEF Init, Accepts, Accepting, Idle
  <2> QED BY <2>1 DEF SpentOnce
<1>2. Linked /\ Linked' /\ InvitationsSpent /\ [Next]_vars => InvitationsSpent'
  <2> SUFFICES ASSUME Linked, Linked', InvitationsSpent, [Next]_vars, NEW i \in Inv
               PROVE  i \in spoiled' \/ SpentOnce(i)'
    BY DEF InvitationsSpent
  <2>1. SpendStep(i)
    BY InvitationsNext DEF Linked
  <2>2. Unaccepted(i) => i \in spoiled' \/ SpentOnce(i)'
    BY UnacceptedSpent DEF InvitationsSpent, Unaccepted
  <2> QED BY <2>1, <2>2 DEF SpendStep
<1>3. Linked /\ InvitationsSpent => InvitationSpentOnce
  <2> SUFFICES ASSUME InvitationsSpent, NEW i \in Inv, i \notin spoiled PROVE Cardinality(joined[i]) <= 1
    BY DEF InvitationSpentOnce
  <2>1. \A u, v \in joined[i] : u = v
    BY DEF InvitationsSpent, SpentOnce
  <2>2. CASE joined[i] = {}
    BY <2>2, FS_EmptySet
  <2>3. CASE joined[i] # {}
    <3>1. PICK u : u \in joined[i]
      BY <2>3
    <3>2. joined[i] = {u}
      BY <2>1, <3>1
    <3> QED BY <3>2, FS_Singleton
  <2> QED BY <2>2, <2>3
<1> QED BY <1>1, <1>2, <1>3, AlwaysLinked, PTL DEF Spec

-----------------------------------------------------------------------------
(***************************************************************************)
(* Signups and foundings                                                   *)
(***************************************************************************)
(* Nobody can make a request for the organization.                         *)
Deserted(v) ==
  /\ Secluded(v)
  /\ \A a \in User : ~ IsAdmin(a, v)
  /\ \A a \in User, n \in Ws : ~ Uses(a, v, n)

(* What a step makes of a job: a signup goes on or is of somebody new, a   *)
(* founding goes on or begins.                                             *)
Follows(g, j) ==
  /\ j.pc \in Accepting \cup {"clean"} /\ j.signup =>
       \/ job[g].pc \in Accepting \cup {"clean"} /\ job[g].signup /\ j.user = job[g].user
       \/ j.user \notin db.orgs /\ account[j.user] = None
  /\ j.pc = "found" /\ j.org # None =>
       \/ job[g].pc = "found" /\ job[g].org = j.org /\ (j.made = 1 => job[g].made = 1)
       \/ j.org \notin db.orgs /\ \A k \in Job \ {g} : job'[k] = job[k]
Followed == \A g \in Job : Follows(g, job'[g])

(* Who signs up by invitation is not made an owner of somebody else's.     *)
Modest(v) ==
  v \in SigningUp' => \A o \in Org \ {v} : db'.role[o][v] = "owner" => db.role[o][v] = "owner"

(* Nobody gets a foot in the organization of v,                            *)
Shut(v) ==
  /\ \A u \in User : db'.role[v][u] # None => db.role[v][u] # None
  /\ \A a \in db'.access : a[1] = v => a \in db.access
  /\ \A i \in Inv : inv'[i].org = v => inv[i].org = v
  /\ db.tasks[v] = {} => db'.tasks[v] = {}
Quiet(v) == Shut(v) /\ \A g \in Job : Away(job'[g], v)
(* or v alone does.                                                        *)
Opened(v) == Secluded(v)' /\ \A g \in Job : Founds(g, v)' => job'[g].made # 1

Heeds(v) == Followed /\ Modest(v) /\ (Deserted(v) => Quiet(v) \/ Opened(v))

LEMMA DesertedAway ==
  ASSUME NEW v, Deserted(v), NEW g \in Job
  PROVE  Away(job[g], v)
BY DEF Deserted, Secluded

(* Most steps touch one job or none.                                       *)
LEMMA NoJobHeeds ==
  ASSUME NEW v \in User, job' = job, Modest(v), Deserted(v) => Shut(v)
  PROVE  Heeds(v)
BY DesertedAway DEF Heeds, Followed, Follows, Quiet

LEMMA OneJobHeeds ==
  ASSUME NEW v \in User, NEW h \in Job, \A g \in Job \ {h} : job'[g] = job[g], Follows(h, job'[h]), Modest(v),
         Deserted(v) => Away(job'[h], v) /\ Shut(v)
  PROVE  Heeds(v)
<1>1. \A g \in Job \ {h} : Follows(g, job'[g])
  BY DEF Follows
<1>2. Deserted(v) => \A g \in Job : Away(job'[g], v)
  BY DesertedAway
<1> QED BY <1>1, <1>2 DEF Heeds, Followed, Quiet

LEMMA StartedHeeds ==
  ASSUME Typed, NEW v \in User, NEW h \in Job, NEW j, Starts(h, j), j.pc # "found",
         j.pc \in Accepting \cup {"clean"} => ~ j.signup, Modest(v), Deserted(v) => Away(j, v) /\ Shut(v)
  PROVE  Heeds(v)
<1>1. job'[h] = j /\ \A g \in Job \ {h} : job'[g] = job[g]
  BY DEF Typed, Starts
<1>2. Follows(h, j)
  BY DEF Follows
<1> QED BY <1>1, <1>2, OneJobHeeds

LEMMA EndedHeeds ==
  ASSUME Typed, NEW v \in User, NEW h \in Job, Ends(h), Modest(v), Deserted(v) => Shut(v)
  PROVE  Heeds(v)
<1>1. job'[h] = Idle /\ \A g \in Job \ {h} : job'[g] = job[g]
  BY JobEnded
<1>2. Idle.pc = "idle"
  BY DEF Idle
<1>3. Follows(h, Idle) /\ Away(Idle, v)
  BY <1>2 DEF Follows, Away, Accepting
<1> QED BY <1>1, <1>3, OneJobHeeds

(* The end of an organization.                                             *)
LEMMA OrphanedHeeds ==
  ASSUME Typed, NEW v \in User, NEW o \in Org, Modest(v), Deserted(v) => Shut(v),
         \A g \in Job : job'[g] = Orphaned(job[g], o) \/ job'[g].pc \in {"idle", "settle"}
  PROVE  Heeds(v)
<1>1. ASSUME NEW g \in Job, job'[g].pc \in {"idle", "settle"} PROVE Follows(g, job'[g]) /\ Away(job'[g], v)
  BY <1>1 DEF Follows, Away, Accepting
<1>2. ASSUME NEW g \in Job, job'[g] = Orphaned(job[g], o), job'[g].pc \notin {"idle", "settle"}
      PROVE  Follows(g, job'[g]) /\ (Deserted(v) => Away(job'[g], v))
  <2>1. job[g] \in AnyJob
    BY DEF Typed
  <2>2. /\ job'[g].pc = job[g].pc /\ job'[g].org \in {job[g].org, None}
        /\ job[g].pc = "quit" => job'[g].owned = job[g].owned \ {o}
        /\ job[g] # Idle => job'[g].user = job[g].user
    BY <1>2, <2>1, OrphanedJob
  <2>3. job[g] # Idle /\ v # None
    BY <1>2, <2>2, Constants DEF Idle
  <2>4. job[g].pc \in Accepting \cup {"clean"} => job'[g].signup = job[g].signup
    <3>1. CASE job'[g] = job[g]
      BY <3>1
    <3>2. CASE job[g].pc \in Accepting \cup {"clean"} /\ job'[g] = [job[g] EXCEPT !.org = None]
      BY <2>1, <3>2, JobKinds DEF Acceptance
    <3> QED BY <1>2, <2>1, <3>1, <3>2, OrphanedJob DEF Accepting
  <2>5. job[g].pc = "found" => job'[g].org = None \/ job'[g].made = job[g].made
    BY <1>2, <2>1, OrphanedJob
  <2>6. Follows(g, job'[g])
    BY <2>2, <2>3, <2>4, <2>5 DEF Follows
  <2>7. Deserted(v) => Away(job'[g], v)
    BY <2>2, <2>3, DesertedAway DEF Away
  <2> QED BY <2>6, <2>7
<1> QED BY <1>1, <1>2 DEF Heeds, Followed, Quiet

(* A founding that begins.                                                 *)
LEMMA BegunHeeds ==
  ASSUME Typed, NEW v \in User, NEW h \in Job, NEW by \in User \cup {None}, NEW u \in User, NEW rest \in SUBSET User,
         Begins(h, by, u, rest), inv' = inv
  PROVE  Heeds(v)
<1>1. /\ u \notin db.orgs /\ job'[h].pc = "found" /\ job'[h].org = u /\ job'[h].made = 1
      /\ \A g \in Job \ {h} : job'[g] = job[g]
      /\ db'.access = db.access /\ db'.tasks = db.tasks
      /\ \A o \in Org, w \in User : db'.role[o][w] = db.role[o][w]
  BY BegunRows
<1>2. Follows(h, job'[h]) /\ Away(job'[h], v)
  BY <1>1 DEF Follows, Away, Accepting
<1>3. Modest(v) /\ Shut(v)
  BY <1>1 DEF Modest, Shut, Org
<1> QED BY <1>1, <1>2, <1>3, OneJobHeeds

(* An organization that is not there is bare,                              *)
LEMMA UnknownBare ==
  ASSUME Linked, NEW v \in User, v \notin db.orgs
  PROVE  Bare(v)
<1>1. Typed /\ TypeOK /\ JobsLinked /\ v \in Org /\ v # None
  BY Constants DEF Linked, Org
<1>2. /\ \A u \in User : db.role[v][u] = None
      /\ \A n \in Ws : db.ws[v][n] = None /\ db.tasks[v] = {}
  BY <1>1, Constants DEF TypeOK
<1>3. \A a \in db.access : a[1] # v
  <2> SUFFICES ASSUME NEW a \in db.access, a[1] = v PROVE FALSE
    OBVIOUS
  <2>1. a[2] \in Ws /\ db.ws[a[1]][a[2]] # None
    BY <1>1 DEF Typed, DB, TypeOK
  <2> QED BY <1>2, <2>1
<1>4. \A i \in Inv : inv[i].org # v
  BY <1>1, InvitationKinds DEF TypeOK
<1>5. \A g \in Job : Away(job[g], v)
  BY <1>1 DEF JobsLinked, Away
<1>6. db.tasks[v] = {}
  BY <1>2, Constants
<1> QED BY <1>2, <1>3, <1>4, <1>5, <1>6 DEF Bare, Secluded

(* a bare one is deserted, and so is that of somebody who is signing up.   *)
LEMMA BareDeserted ==
  ASSUME NEW v \in User, Bare(v)
  PROVE  Deserted(v)
<1>1. \A u \in User : db.role[v][u] = None
  BY DEF Bare, Secluded
<1> QED BY <1>1 DEF Bare, Deserted, IsAdmin, Uses, None

LEMMA PrivateDeserted ==
  ASSUME NEW v \in User, v \in SigningUp, Secluded(v)
  PROVE  Deserted(v)
BY DEF Deserted, Secluded, IsAdmin, Uses, LoggedIn, None

LEMMA QuietSecluded ==
  ASSUME NEW v \in User, Secluded(v), Quiet(v)
  PROVE  Secluded(v)'
BY DEF Secluded, Quiet, Shut

(* A blank invitation is to no organization.                               *)
LEMMA BlankNowhere ==
  ASSUME NEW v \in User
  PROVE  Blank.org # v
BY Constants DEF Blank

(* Nor does the end of an organization let anybody into another.           *)
LEMMA WithoutOrgShut ==
  ASSUME Typed, NEW d \in DB, NEW p \in Org, NEW v \in User, db' = WithoutOrg(d, p), inv' = InvWithout(p),
         d.access = db.access, d.tasks = db.tasks,
         \A o \in Org, u \in User : d.role[o][u] \in {None, db.role[o][u]}
  PROVE  Shut(v) /\ Modest(v)
<1>0. v \in Org /\ v \in User
  BY DEF Org
<1>1. \A o \in Org, u \in User : db'.role[o][u] \in {None, db.role[o][u]}
  BY WithoutOrgRows
<1>2. db'.access \subseteq db.access
  BY WithoutOrgRows
<1>3. \A i \in Inv : inv'[i] = inv[i] \/ inv'[i] = Blank
  BY InvWithoutRows
<1>4. \A o \in Org : db'.tasks[o] = {} \/ db'.tasks[o] = db.tasks[o]
  BY WithoutOrgRows
<1>5. Modest(v)
  BY <1>0, <1>1 DEF Modest, None
<1>6. Shut(v)
  BY <1>0, <1>1, <1>2, <1>3, <1>4, BlankNowhere DEF Shut
<1> QED BY <1>5, <1>6

(* A step that leaves the roles, or takes some.                            *)
LEMMA TakenModest ==
  ASSUME NEW v \in User, \A o \in Org, u \in User : db'.role[o][u] \in {None, db.role[o][u]}
  PROVE  Modest(v)
BY DEF Modest, None

(* What a step does to a signup, a founding and an organization in which   *)
(* nobody can act.                                                         *)
LEMMA QuietStep ==
  ASSUME Linked, Typed', FoundingsBare, [Next]_vars, NEW v \in User
  PROVE  Heeds(v)
<1> USE DEF ghosts
<1>0. Linked /\ Typed /\ TypeOK /\ JobsLinked /\ db \in DB /\ db' \in DB /\ v \in Org /\ v \in User /\ v # None
  BY Constants DEF Linked, Typed, Org
<1>1. CASE UNCHANGED vars
  <2>1. db' = db /\ inv' = inv /\ job' = job
    BY <1>1 DEF vars
  <2> QED BY <2>1, TakenModest, NoJobHeeds DEF Shut
<1>2. ASSUME NEW u \in User, SignUp(u) PROVE Heeds(v)
  <2>1. u \in Org /\ u \notin db.orgs /\ job' = job /\ inv' = inv
    BY <1>0, <1>2, SignUpRows DEF SignUp
  <2>2. PICK k \in 0 .. 4 : Makes(1 .. k, u, db, db')
    BY <1>0, <1>2, SignUpRows
  <2>3. /\ \A o \in Org, w \in User : db'.role[o][w] = db.role[o][w] \/ (o = u /\ w = u)
        /\ \A a \in db'.access : a \in db.access \/ (a[1] = u /\ a[3] = u)
        /\ db'.tasks = db.tasks
    BY <2>2 DEF Makes
  <2>4. Modest(v)
    BY <2>3 DEF Modest
  <2>5. CASE v # u
    BY <1>0, <2>1, <2>3, <2>4, <2>5, NoJobHeeds DEF Shut
  <2>6. CASE v = u
    <3>1. Secluded(v)
      BY <1>0, <2>1, <2>6, UnknownBare DEF Bare
    <3>2. Secluded(v)'
      BY <1>0, <2>1, <2>3, <2>6, <3>1 DEF Secluded
    <3>3. \A g \in Job : ~ Founds(g, v)'
      BY <1>0, <2>1, <2>6 DEF Founds, JobsLinked
    <3>4. Followed
      BY <2>1 DEF Followed, Follows
    <3> QED BY <2>4, <3>2, <3>3, <3>4 DEF Heeds, Opened
  <2> QED BY <2>5, <2>6
<1>3. ASSUME NEW u \in User, NEW h \in Job, DeleteAccount(h, u) PROVE Heeds(v)
  <2> DEFINE j == [pc |-> "quit", user |-> u, org |-> None, owned |-> Owned(u)]
  <2>1. Starts(h, j)
    BY <1>3 DEF DeleteAccount
  <2>2. j.pc = "quit" /\ j.org = None /\ j.owned = Owned(u)
    BY DEF Purge
  <2>3. db' = db /\ inv' = inv
    BY <1>3 DEF DeleteAccount
  <2>4. Modest(v) /\ Shut(v)
    BY <2>3, TakenModest DEF Shut
  <2> HIDE DEF j
  <2>5. Deserted(v) => Away(j, v)
    BY <1>0, <1>3, <2>2 DEF DeleteAccount, Away, Deserted, Owned, IsAdmin
  <2> QED BY <1>0, <2>1, <2>2, <2>4, <2>5, StartedHeeds DEF Accepting
<1>4. ASSUME NEW u \in User, NEW o \in Org, CleanUp(u, o) PROVE Heeds(v)
  <2>1. db' = WithoutOrg(db, o) /\ inv' = InvWithout(o) /\ \A g \in Job : job'[g] = Orphaned(job[g], o)
    BY <1>4 DEF CleanUp
  <2>2. Shut(v) /\ Modest(v)
    BY <1>0, <2>1, WithoutOrgShut
  <2> QED BY <1>0, <2>1, <2>2, OrphanedHeeds
<1>5. ASSUME NEW u \in User, NEW h \in Job, ReadProfile(h, u) PROVE Heeds(v)
  <2> DEFINE j == [pc |-> "profile", user |-> u, org |-> None]
  <2>1. Starts(h, j)
    BY <1>5 DEF ReadProfile
  <2>2. j.pc = "profile" /\ j.org = None
    BY DEF Purge
  <2>3. db' = db /\ inv' = inv
    BY <1>5 DEF ReadProfile
  <2>4. Modest(v) /\ Shut(v)
    BY <2>3, TakenModest DEF Shut
  <2> HIDE DEF j
  <2>5. Deserted(v) => Away(j, v)
    BY <1>0, <1>5, <2>2 DEF ReadProfile, Away, Deserted
  <2> QED BY <1>0, <2>1, <2>2, <2>4, <2>5, StartedHeeds DEF Accepting
<1>6. ASSUME NEW h \in Job, NEW u \in User, NEW i \in Inv, SignUpInvited(h, u, i) PROVE Heeds(v)
  <2> DEFINE j == [pc |-> "join", user |-> u, org |-> inv[i].org, inv |-> i, ws |-> inv[i].ws,
                   role |-> inv[i].role, signup |-> TRUE]
  <2>1. /\ Starts(h, j) /\ inv' = inv /\ u \in Org /\ u \notin db.orgs /\ account[u] = None
        /\ db' = Founded(db, u, 1 .. 4)
    BY <1>6 DEF SignUpInvited, New, Org
  <2>2. Makes(1 .. 4, u, db, db')
    BY <1>0, <2>1, FoundedRows
  <2>3. /\ \A o \in Org, w \in User : db'.role[o][w] = db.role[o][w] \/ (o = u /\ w = u)
        /\ \A a \in db'.access : a \in db.access \/ (a[1] = u /\ a[3] = u)
        /\ db'.tasks = db.tasks
    BY <2>2 DEF Makes
  <2>4. Modest(v)
    BY <2>3 DEF Modest
  <2>5. j.pc = "join" /\ j.user = u /\ j.org = inv[i].org
    OBVIOUS
  <2> HIDE DEF j
  <2>6. job'[h] = j /\ \A g \in Job \ {h} : job'[g] = job[g]
    BY <1>0, <2>1 DEF Starts, Typed
  <2>7. Follows(h, j) /\ (Secluded(v) => Away(j, v))
    BY <2>1, <2>5 DEF Follows, Away, Secluded
  <2>8. CASE v # u
    <3>1. Shut(v)
      BY <1>0, <2>1, <2>3, <2>8 DEF Shut
    <3> QED BY <2>4, <2>6, <2>7, <3>1, OneJobHeeds DEF Deserted
  <2>9. CASE v = u
    <3>1. Secluded(v)
      BY <1>0, <2>1, <2>9, UnknownBare DEF Bare
    <3>2. \A g \in Job : Away(job'[g], v)
      BY <2>6, <2>7, <3>1 DEF Secluded
    <3>3. Secluded(v)'
      BY <1>0, <2>1, <2>3, <2>9, <3>1, <3>2 DEF Secluded
    <3>4. \A g \in Job : ~ Founds(g, v)'
      BY <1>0, <2>1, <2>5, <2>6, <2>9 DEF Founds, JobsLinked
    <3>5. Followed
      BY <2>6, <2>7 DEF Followed, Follows
    <3> QED BY <2>4, <3>3, <3>4, <3>5 DEF Heeds, Opened
  <2> QED BY <2>8, <2>9
<1>7. ASSUME NEW h \in Job, NEW u \in User, NEW i \in Inv, Accept(h, u, i) PROVE Heeds(v)
  <2> DEFINE j == [pc |-> "join", user |-> u, org |-> inv[i].org, inv |-> i, ws |-> inv[i].ws,
                   role |-> inv[i].role, signup |-> FALSE]
  <2>1. Starts(h, j)
    BY <1>7 DEF Accept
  <2>2. j.pc = "join" /\ j.org = inv[i].org /\ ~ j.signup
    BY DEF Purge
  <2>3. db' = db /\ inv' = inv
    BY <1>7 DEF Accept
  <2>4. Modest(v) /\ Shut(v)
    BY <2>3, TakenModest DEF Shut
  <2> HIDE DEF j
  <2>5. Deserted(v) => Away(j, v)
    BY <1>0, <1>7, <2>2 DEF Accept, Away, Deserted, Secluded
  <2> QED BY <1>0, <2>1, <2>2, <2>4, <2>5, StartedHeeds DEF Accepting
<1>8. ASSUME NEW a \in User, NEW u \in User, NEW o \in Org, NEW S \in SUBSET Ws, SetWorkspaces(a, o, u, S)
      PROVE  Heeds(v)
  <2>3. PICK acc : db' = [db EXCEPT !.access = acc] /\ \A x \in acc : x \in db.access \/ x[1] = o
    <3> DEFINE acc == {x \in db.access : x[1] # o \/ x[3] # u \/ x[2] \notin Active(o)} \cup {<< o, n, u >> : n \in S}
    <3>1. db' = [db EXCEPT !.access = acc]
      BY <1>8, Zenon DEF SetWorkspaces, Assigned
    <3>2. \A x \in acc : x \in db.access \/ x[1] = o
      OBVIOUS
    <3> QED BY <3>1, <3>2, Zenon
  <2>4. db'.role = db.role /\ db'.access = acc /\ db'.tasks = db.tasks /\ inv' = inv /\ IsAdmin(a, o)
    BY <1>0, <1>8, <2>3 DEF DB, SetWorkspaces
  <2>7. Modest(v)
    BY <2>4, TakenModest
  <2>8. job' = job
    BY <1>8 DEF SetWorkspaces
  <2>9. Deserted(v) => Shut(v)
    BY <1>0, <1>8, <2>3, <2>4 DEF Shut, Deserted
  <2> QED BY <2>7, <2>8, <2>9, NoJobHeeds
<1>9. ASSUME NEW a \in User, NEW u \in User, NEW o \in Org, NEW S \in SUBSET Ws, NEW r \in Invited \cup {"owner"},
             CreateMember(a, o, u, r, S)
      PROVE  Heeds(v)
  <2>3. PICK acc : db' = [db EXCEPT !.role[o][u] = r, !.access = acc] /\ \A x \in acc : x \in db.access \/ x[1] = o
    <3> DEFINE more == db.access \cup {<< o, n, u >> : n \in S}
    <3>1. db' = [db EXCEPT !.role[o][u] = r, !.access = more]
      BY <1>9, Zenon DEF CreateMember
    <3>2. \A x \in more : x \in db.access \/ x[1] = o
      OBVIOUS
    <3> QED BY <3>1, <3>2, Zenon
  <2>4. db'.role = [db.role EXCEPT ![o][u] = r] /\ db'.access = acc /\ db'.tasks = db.tasks /\ inv' = inv /\ IsAdmin(a, o)
    BY <1>0, <1>9, <2>3 DEF DB, CreateMember
  <2>5. u \notin Requesting /\ job' = job
    BY <1>9 DEF CreateMember, New
  <2>6. u \notin SigningUp'
    BY <2>5 DEF SigningUp, Requesting, Idle
  <2>7. Modest(v)
    BY <1>0, <2>4, <2>6 DEF Modest, DB
  <2>8. job' = job
    BY <1>9 DEF CreateMember
  <2>9. Deserted(v) => Shut(v)
    BY <1>0, <1>9, <2>3, <2>4 DEF Shut, Deserted, DB
  <2> QED BY <2>7, <2>8, <2>9, NoJobHeeds
<1>10. ASSUME NEW a \in User, NEW u \in User, NEW o \in Org, NEW i \in Inv, NEW r \in Invited, NEW n \in 0 .. MaxWs,
              Invite(a, o, i, u, r, n)
       PROVE  Heeds(v)
  <2>4. db' = db
    BY <1>10 DEF Invite, Invites
  <2>7. Modest(v)
    BY <2>4, TakenModest
  <2>8. job' = job
    BY <1>10 DEF Invite, Invites
  <2>9. Deserted(v) => Shut(v)
    BY <1>0, <1>10, <2>4 DEF Shut, Invite, Invites, Deserted, Typed
  <2> QED BY <2>7, <2>8, <2>9, NoJobHeeds
<1>11. ASSUME NEW a \in User, NEW u \in User, NEW o \in Org, NEW i \in Inv, NEW n \in Ws,
              InviteToWorkspace(a, o, i, u, n)
       PROVE  Heeds(v)
  <2>4. db' = db
    BY <1>11 DEF InviteToWorkspace, Invites
  <2>7. Modest(v)
    BY <2>4, TakenModest
  <2>8. job' = job
    BY <1>11 DEF InviteToWorkspace, Invites
  <2>9. Deserted(v) => Shut(v)
    BY <1>0, <1>11, <2>4 DEF Shut, InviteToWorkspace, Invites, Deserted, Typed
  <2> QED BY <2>7, <2>8, <2>9, NoJobHeeds
<1>12. ASSUME NEW h \in Job, NEW a \in User, NEW u \in User, NEW o \in Org, NEW r \in Grades, UpdateRole(h, a, o, u, r)
       PROVE  Heeds(v)
  <2> DEFINE j == [pc |-> "regrade", user |-> u, org |-> o, role |-> r]
  <2>1. Starts(h, j)
    BY <1>12 DEF UpdateRole
  <2>2. j.pc = "regrade" /\ j.org = o
    BY DEF Purge
  <2>3. db' = db /\ inv' = inv
    BY <1>12 DEF UpdateRole
  <2>4. Modest(v) /\ Shut(v)
    BY <2>3, TakenModest DEF Shut
  <2> HIDE DEF j
  <2>5. Deserted(v) => Away(j, v)
    BY <1>0, <1>12, <2>2 DEF UpdateRole, Away, Deserted
  <2> QED BY <1>0, <2>1, <2>2, <2>4, <2>5, StartedHeeds DEF Accepting
<1>13. ASSUME NEW h \in Job, NEW a \in User, NEW u \in User, NEW o \in Org, RemoveMember(h, a, o, u)
       PROVE  Heeds(v)
  <2> DEFINE j == [pc |-> "leave", user |-> u, org |-> o]
  <2>1. Starts(h, j)
    BY <1>13 DEF RemoveMember
  <2>2. j.pc = "leave" /\ j.org = o
    BY DEF Purge
  <2>3. db' = db /\ inv' = inv
    BY <1>13 DEF RemoveMember
  <2>4. Modest(v) /\ Shut(v)
    BY <2>3, TakenModest DEF Shut
  <2> HIDE DEF j
  <2>5. Deserted(v) => Away(j, v)
    BY <1>0, <1>13, <2>2 DEF RemoveMember, Away, Deserted
  <2> QED BY <1>0, <2>1, <2>2, <2>4, <2>5, StartedHeeds DEF Accepting
<1>14. ASSUME NEW a \in User, NEW u \in User, NEW o \in Org, NEW n \in Ws, LeaveWorkspace(a, o, n, u)
       PROVE  Heeds(v)
  <2>4. db'.role = db.role /\ db'.access \subseteq db.access /\ db'.tasks = db.tasks /\ inv' = inv
    BY <1>0, <1>14 DEF LeaveWorkspace, DB
  <2>7. Modest(v)
    BY <2>4, TakenModest
  <2>8. job' = job
    BY <1>14 DEF LeaveWorkspace
  <2>9. Deserted(v) => Shut(v)
    BY <1>0, <1>14, <2>4 DEF Shut, Deserted
  <2> QED BY <2>7, <2>8, <2>9, NoJobHeeds
<1>15. ASSUME NEW i \in Inv, Revoke(i) PROVE Heeds(v)
  <2>4. db' = db
    BY <1>15 DEF Revoke
  <2>7. Modest(v)
    BY <2>4, TakenModest
  <2>8. job' = job
    BY <1>15 DEF Revoke
  <2>9. Deserted(v) => Shut(v)
    BY <1>0, <1>15, <2>4 DEF Shut, Revoke, Expired, Typed, Invitation
  <2> QED BY <2>7, <2>8, <2>9, NoJobHeeds
<1>16. ASSUME NEW a \in User, NEW i \in Inv, Resend(a, i) PROVE Heeds(v)
  <2>4. db' = db
    BY <1>16 DEF Resend
  <2>7. Modest(v)
    BY <2>4, TakenModest
  <2>8. job' = job
    BY <1>16 DEF Resend
  <2>9. Deserted(v) => Shut(v)
    BY <1>0, <1>16, <2>4 DEF Shut, Resend, Reopened, Typed, Invitation
  <2> QED BY <2>7, <2>8, <2>9, NoJobHeeds
<1>17. ASSUME NEW u \in User, NEW o \in Org, CreateWorkspace(u, o) PROVE Heeds(v)
  <2>3. PICK n \in Ws : db' = [db EXCEPT !.ws[o][n] = "active", !.access = @ \cup {<< o, n, u >>}]
    BY <1>17 DEF CreateWorkspace
  <2>4. /\ db'.role = db.role /\ db'.access = db.access \cup {<< o, n, u >>} /\ db'.tasks = db.tasks /\ inv' = inv
        /\ IsAdmin(u, o)
    BY <1>0, <1>17, <2>3 DEF DB, CreateWorkspace
  <2>7. Modest(v)
    BY <2>4, TakenModest
  <2>8. job' = job
    BY <1>17 DEF CreateWorkspace
  <2>9. Deserted(v) => Shut(v)
    BY <1>0, <1>17, <2>4 DEF Shut, Deserted
  <2> QED BY <2>7, <2>8, <2>9, NoJobHeeds
<1>18. ASSUME NEW u \in User, NEW o \in Org, NEW n \in Ws, Unarchive(u, o, n) PROVE Heeds(v)
  <2>4. db'.role = db.role /\ db'.access = db.access /\ db'.tasks = db.tasks /\ inv' = inv
    BY <1>0, <1>18 DEF Unarchive, DB
  <2>7. Modest(v)
    BY <2>4, TakenModest
  <2>8. job' = job
    BY <1>18 DEF Unarchive
  <2>9. Deserted(v) => Shut(v)
    BY <1>0, <1>18, <2>4 DEF Shut, Deserted
  <2> QED BY <2>7, <2>8, <2>9, NoJobHeeds
<1>19. ASSUME NEW h \in Job, NEW u \in User, NEW o \in Org, AskDeletion(h, u, o) PROVE Heeds(v)
  <2> DEFINE j == [pc |-> "schedule", user |-> u, org |-> o]
  <2>1. Starts(h, j)
    BY <1>19 DEF AskDeletion
  <2>2. j.pc = "schedule" /\ j.org = o
    BY DEF Purge
  <2>3. db'.role = db.role /\ db'.access = db.access /\ db'.tasks = db.tasks /\ inv' = inv
    BY <1>0, <1>19 DEF AskDeletion, DB
  <2>4. Modest(v) /\ Shut(v)
    BY <2>3, TakenModest DEF Shut
  <2> HIDE DEF j
  <2>5. Deserted(v) => Away(j, v)
    BY <1>0, <1>19, <2>2 DEF AskDeletion, Away, Deserted, IsOwner, IsAdmin
  <2> QED BY <1>0, <2>1, <2>2, <2>4, <2>5, StartedHeeds DEF Accepting
<1>20. ASSUME NEW h \in Job, NEW u \in User, NEW o \in Org, AskCancel(h, u, o) PROVE Heeds(v)
  <2> DEFINE j == [pc |-> "clear", user |-> u, org |-> o]
  <2>1. Starts(h, j)
    BY <1>20 DEF AskCancel
  <2>2. j.pc = "clear" /\ j.org = o
    BY DEF Purge
  <2>3. db'.role = db.role /\ db'.access = db.access /\ inv' = inv /\ db'.tasks = [db.tasks EXCEPT ![o] = {}]
    BY <1>0, <1>20 DEF AskCancel, DB
  <2>4. Modest(v) /\ Shut(v)
    BY <1>0, <2>3, TakenModest DEF Shut, DB
  <2> HIDE DEF j
  <2>5. Deserted(v) => Away(j, v)
    BY <1>0, <1>20, <2>2 DEF AskCancel, Away, Deserted, IsOwner, IsAdmin
  <2> QED BY <1>0, <2>1, <2>2, <2>4, <2>5, StartedHeeds DEF Accepting
<1>21. ASSUME NEW h \in Job, NEW u \in User, NEW o \in Org, DeleteNow(h, u, o) PROVE Heeds(v)
  <2> DEFINE j == Purge(o, u)
  <2>1. Starts(h, j)
    BY <1>21 DEF DeleteNow
  <2>2. j.pc = "purge" /\ j.org = o
    BY DEF Purge
  <2>3. db'.role = db.role /\ db'.access = db.access /\ inv' = inv /\ db'.tasks = [db.tasks EXCEPT ![o] = {}]
    BY <1>0, <1>21 DEF DeleteNow, DB
  <2>4. Modest(v) /\ Shut(v)
    BY <1>0, <2>3, TakenModest DEF Shut, DB
  <2> HIDE DEF j
  <2>5. Deserted(v) => Away(j, v)
    BY <1>0, <1>21, <2>2 DEF DeleteNow, Away, Deserted, IsOwner, IsAdmin
  <2> QED BY <1>0, <2>1, <2>2, <2>4, <2>5, StartedHeeds DEF Accepting
<1>22. ASSUME NEW h \in Job, NEW u \in User, NEW o \in Org, NEW n \in Ws,
              NEW what \in {"archive", "delete", "settings"}, ReadWorkspace(h, u, o, n, what)
       PROVE  Heeds(v)
  <2> DEFINE j == [pc |-> "write", user |-> u, org |-> o, ws |-> n, what |-> what, seen |-> db.ws[o][n]]
  <2>1. Starts(h, j)
    BY <1>22 DEF ReadWorkspace
  <2>2. j.pc = "write" /\ j.org = o
    BY DEF Purge
  <2>3. db' = db /\ inv' = inv
    BY <1>22 DEF ReadWorkspace
  <2>4. Modest(v) /\ Shut(v)
    BY <2>3, TakenModest DEF Shut
  <2> HIDE DEF j
  <2>5. Deserted(v) => Away(j, v)
    BY <1>0, <1>22, <2>2 DEF ReadWorkspace, Away, Deserted
  <2> QED BY <1>0, <2>1, <2>2, <2>4, <2>5, StartedHeeds DEF Accepting
<1>23. ASSUME NEW h \in Job, SaveProfile(h) PROVE Heeds(v)
  <2>0. job[h].user \in User /\ inv' = inv
    BY <1>0, <1>23, JobKinds DEF Typed, SaveProfile, Plain
  <2>1. CASE Begins(h, job[h].user, job[h].user, {})
    BY <1>0, <2>0, <2>1, BegunHeeds
  <2>2. CASE Ends(h) /\ UNCHANGED << db, half >>
    BY <1>0, <2>0, <2>2, TakenModest, EndedHeeds DEF Shut
  <2> QED BY <1>23, <2>1, <2>2 DEF SaveProfile
<1>24. ASSUME NEW h \in Job, Join(h) PROVE Heeds(v)
  <2> DEFINE j == job[h]
  <2>0. j \in Acceptance /\ j.pc = "join" /\ inv' = inv
    BY <1>0, <1>24, JobKinds DEF Typed, Join, Accepting
  <2>1. CASE Ends(h) /\ db' = db
    BY <1>0, <2>0, <2>1, TakenModest, EndedHeeds DEF Shut
  <2>2. CASE /\ j.org # None /\ job' = [job EXCEPT ![h].pc = "assign"]
             /\ db' = IF db.role[j.org][j.user] = None THEN [db EXCEPT !.role[j.org][j.user] = j.role] ELSE db
    <3>1. job'[h] = [j EXCEPT !.pc = "assign"] /\ \A g \in Job \ {h} : job'[g] = job[g]
      BY <1>0, <2>2 DEF Typed
    <3>2. job'[h].pc = "assign" /\ job'[h].org = j.org /\ job'[h].user = j.user /\ job'[h].signup = j.signup
      BY <2>0, <3>1 DEF Acceptance
    <3>3. j.org \in Org /\ j.user \in User /\ j.role \in Grades
      BY <2>0, <2>2 DEF Acceptance, Maybe
    <3> HIDE DEF j
    <3>4. /\ db'.access = db.access /\ db'.tasks = db.tasks
          /\ \A o \in Org, w \in User : db'.role[o][w] = db.role[o][w] \/ (o = j.org /\ w = j.user /\ db'.role[o][w] = j.role)
      <4>1. CASE db' = db
        BY <4>1
      <4>2. CASE db' = [db EXCEPT !.role[j.org][j.user] = j.role]
        <5>1. db'.role = [db.role EXCEPT ![j.org][j.user] = j.role] /\ db'.access = db.access /\ db'.tasks = db.tasks
          BY <1>0, <4>2 DEF DB
        <5> QED BY <1>0, <3>3, <5>1 DEF DB
      <4> QED BY <2>2, <4>1, <4>2
    <3>5. Modest(v)
      BY <3>3, <3>4 DEF Modest, Grades
    <3>6. Secluded(v) => j.org # v
      BY <2>0 DEF Secluded, Away, j
    <3>7. Follows(h, job'[h]) /\ (Secluded(v) => Away(job'[h], v))
      BY <2>0, <3>2, <3>6 DEF Follows, Away, Accepting, j
    <3>8. Secluded(v) => Shut(v)
      BY <1>0, <2>0, <3>4, <3>6 DEF Shut
    <3> QED BY <3>1, <3>5, <3>7, <3>8, OneJobHeeds DEF Deserted
  <2> QED BY <1>24, <2>1, <2>2 DEF Join
<1>25. ASSUME NEW h \in Job, Assign(h) PROVE Heeds(v)
  <2> DEFINE j == job[h]
  <2>0. j \in Acceptance /\ j.pc = "assign" /\ inv' = inv
    BY <1>0, <1>25, JobKinds DEF Typed, Assign, Accepting
  <2>1. CASE Ends(h) /\ db' = db
    BY <1>0, <2>0, <2>1, TakenModest, EndedHeeds DEF Shut
  <2>2. CASE /\ job' = [job EXCEPT ![h].pc = "mark"]
             /\ db' = IF j.ws = 0 THEN db ELSE [db EXCEPT !.access = @ \cup {<< j.org, j.ws, j.user >>}]
    <3>1. job'[h] = [j EXCEPT !.pc = "mark"] /\ \A g \in Job \ {h} : job'[g] = job[g]
      BY <1>0, <2>2 DEF Typed
    <3>2. job'[h].pc = "mark" /\ job'[h].org = j.org /\ job'[h].user = j.user /\ job'[h].signup = j.signup
      BY <2>0, <3>1 DEF Acceptance
    <3> HIDE DEF j
    <3>4. /\ db'.role = db.role /\ db'.tasks = db.tasks
          /\ \A a \in db'.access : a \in db.access \/ a[1] = j.org
      BY <1>0, <2>2 DEF DB
    <3>6. Secluded(v) => j.org # v
      BY <2>0 DEF Secluded, Away, j
    <3>7. Follows(h, job'[h]) /\ (Secluded(v) => Away(job'[h], v))
      BY <2>0, <3>2, <3>6 DEF Follows, Away, Accepting, j
    <3>8. Modest(v) /\ (Secluded(v) => Shut(v))
      BY <1>0, <2>0, <3>4, <3>6, TakenModest DEF Shut
    <3> QED BY <3>1, <3>7, <3>8, OneJobHeeds DEF Deserted
  <2> QED BY <1>25, <2>1, <2>2 DEF Assign
<1>26. ASSUME NEW h \in Job, Mark(h) PROVE Heeds(v)
  <2> DEFINE j == job[h]
  <2>0. j \in Acceptance /\ j.pc = "mark" /\ db' = db
    BY <1>0, <1>26, JobKinds DEF Typed, Mark, Accepting
  <2>1. \A i \in Inv : inv'[i].org = inv[i].org
    <3>1. CASE inv' = inv
      BY <3>1
    <3>2. CASE j.org # None /\ inv' = [inv EXCEPT ![j.inv].accepted = TRUE]
      <4>1. j.inv \in Inv /\ inv[j.inv] \in Invitation
        BY <1>0, <2>0, <3>2, InvitationKinds DEF JobsLinked, Accepting, Acceptance
      <4> QED BY <1>0, <3>2, <4>1 DEF Typed, Invitation
    <3> QED BY <1>26, <3>1, <3>2 DEF Mark
  <2>2. Modest(v) /\ Shut(v)
    BY <2>0, <2>1, TakenModest DEF Shut
  <2>3. CASE Ends(h)
    BY <1>0, <2>2, <2>3, EndedHeeds
  <2>4. CASE job' = [job EXCEPT ![h].pc = "clean"]
    <3>1. job'[h] = [j EXCEPT !.pc = "clean"] /\ \A g \in Job \ {h} : job'[g] = job[g]
      BY <1>0, <2>4 DEF Typed
    <3>2. job'[h].pc = "clean" /\ job'[h].org = j.org /\ job'[h].user = j.user /\ job'[h].signup = j.signup
      BY <2>0, <3>1 DEF Acceptance
    <3>3. Follows(h, job'[h]) /\ (Secluded(v) => Away(job'[h], v))
      BY <2>0, <3>2 DEF Follows, Away, Secluded, Accepting
    <3> QED BY <2>2, <3>1, <3>3, OneJobHeeds DEF Deserted
  <2> QED BY <1>26, <2>3, <2>4 DEF Mark
<1>27. ASSUME NEW h \in Job, Clean(h) PROVE Heeds(v)
  <2> DEFINE u == job[h].user
             left == Leaving(u, job[h].org)
             alone == Alone(u, job[h].org)
  <2>1. /\ u \in Org /\ u \in User
        /\ db' = IF alone THEN WithoutOrg(left, u) ELSE left
        /\ inv' = IF alone THEN InvWithout(u) ELSE inv
        /\ job' = [g \in Job |-> IF g = h THEN Idle ELSE IF alone THEN Orphaned(job[g], u) ELSE job[g]]
    BY <1>0, <1>27, CleanRows
  <2>2. /\ left \in DB /\ left.access = db.access /\ left.tasks = db.tasks
        /\ \A o \in Org, w \in User : left.role[o][w] \in {None, db.role[o][w]}
    BY <1>0, <2>1, LeavingRows
  <2>3. Idle.pc = "idle"
    BY DEF Idle
  <2>4. Ends(h) <=> job' = [g \in Job |-> IF g = h THEN Idle ELSE job[g]]
    BY <1>0 DEF Ends, Typed
  <2> HIDE DEF u, left, alone
  <2>5. CASE alone
    <3>1. Shut(v) /\ Modest(v)
      BY <1>0, <2>1, <2>2, <2>5, WithoutOrgShut
    <3>2. \A g \in Job : job'[g] = Orphaned(job[g], u) \/ job'[g].pc \in {"idle", "settle"}
      BY <2>1, <2>3, <2>5
    <3> QED BY <1>0, <2>1, <3>1, <3>2, OrphanedHeeds
  <2>6. CASE ~ alone
    <3>1. Shut(v) /\ Modest(v)
      BY <1>0, <2>1, <2>2, <2>6, TakenModest DEF Shut
    <3>2. Ends(h)
      BY <2>1, <2>4, <2>6
    <3> QED BY <1>0, <3>1, <3>2, EndedHeeds
  <2> QED BY <2>5, <2>6
<1>28. ASSUME NEW h \in Job, Deactivate(h) PROVE Heeds(v)
  <2>1. db' = db /\ inv' = inv /\ Ends(h)
    BY <1>28 DEF Deactivate
  <2> QED BY <1>0, <2>1, TakenModest, EndedHeeds DEF Shut
<1>29. ASSUME NEW h \in Job, WriteWorkspace(h) PROVE Heeds(v)
  <2>1. db'.role = db.role /\ db'.access \subseteq db.access /\ db'.tasks = db.tasks /\ inv' = inv /\ Ends(h)
    BY <1>0, <1>29, WrittenRows DEF WriteWorkspace
  <2> QED BY <1>0, <2>1, TakenModest, EndedHeeds DEF Shut
<1>30. ASSUME NEW h \in Job, Schedule(h) PROVE Heeds(v)
  <2>0. job[h].pc = "schedule" /\ Ends(h) /\ inv' = inv
    BY <1>30 DEF Schedule
  <2>1. /\ db'.role = db.role /\ db'.access = db.access
        /\ \A o \in Org : db'.tasks[o] = db.tasks[o] \/ o = job[h].org
    <3>1. CASE db' = db
      BY <3>1
    <3>2. CASE db' = Delayed(job[h].org)
      BY <1>0, <3>2 DEF Delayed, DB
    <3> QED BY <1>30, <3>1, <3>2 DEF Schedule
  <2>2. Secluded(v) => job[h].org # v
    BY <2>0 DEF Secluded, Away
  <2>3. Secluded(v) => Shut(v)
    BY <1>0, <2>0, <2>1, <2>2 DEF Shut
  <2> QED BY <1>0, <2>0, <2>1, <2>3, TakenModest, EndedHeeds DEF Deserted
<1>31. ASSUME NEW h \in Job, Clear(h) PROVE Heeds(v)
  <2>1. db'.role = db.role /\ db'.access = db.access /\ db'.tasks = db.tasks /\ inv' = inv /\ Ends(h)
    BY <1>0, <1>31 DEF Clear, DB
  <2> QED BY <1>0, <2>1, TakenModest, EndedHeeds DEF Shut
<1>32. ASSUME NEW h \in Job, NEW o \in Org, RunTask(h, o) PROVE Heeds(v)
  <2> DEFINE j == Purge(o, None)
  <2>1. inv' = inv /\ db'.role = db.role /\ db'.access = db.access
    BY <1>0, <1>32 DEF RunTask, DB
  <2>2. \A p \in Org : db'.tasks[p] \subseteq db.tasks[p]
    <3>1. CASE db' = db
      BY <3>1
    <3>2. CASE db' = [db EXCEPT !.tasks[o] = @ \ {0}]
      BY <1>0, <3>2 DEF DB
    <3> QED BY <1>32, <3>1, <3>2 DEF RunTask
  <2>3. Modest(v) /\ Shut(v)
    BY <1>0, <2>1, <2>2, TakenModest DEF Shut
  <2>4. CASE Starts(h, j)
    <3>1. j.pc = "purge" /\ j.org = o
      BY DEF Purge
    <3> HIDE DEF j
    <3>2. Deserted(v) => Away(j, v)
      BY <1>32, <3>1 DEF RunTask, Deserted, Secluded, Away
    <3> QED BY <1>0, <2>3, <2>4, <3>1, <3>2, StartedHeeds DEF Accepting
  <2>5. CASE job' = job
    BY <2>3, <2>5, NoJobHeeds
  <2> QED BY <1>32, <2>4, <2>5 DEF RunTask
<1>33. ASSUME NEW h \in Job, DeleteOrg(h) PROVE Heeds(v)
  <2> DEFINE o == job[h].org
             next == [job[h] EXCEPT !.pc = "settle"]
  <2>0. next.pc = "settle"
    BY <1>0, <1>33, PurgedRows
  <2>1. CASE o = None
    <3>1. db' = db /\ inv' = inv /\ job' = [job EXCEPT ![h] = next]
      BY <1>0, <1>33, <2>1, PurgedRows
    <3> HIDE DEF next
    <3>2. job'[h] = next /\ \A g \in Job \ {h} : job'[g] = job[g]
      BY <1>0, <3>1 DEF Typed
    <3>3. Follows(h, job'[h]) /\ Away(job'[h], v)
      BY <2>0, <3>2 DEF Follows, Away, Accepting
    <3> QED BY <3>1, <3>2, <3>3, TakenModest, OneJobHeeds DEF Shut
  <2>2. CASE o # None
    <3>1. /\ o \in Org /\ db' = WithoutOrg(db, o) /\ inv' = InvWithout(o)
          /\ job' = [g \in Job |-> IF g = h THEN next ELSE Orphaned(job[g], o)]
      BY <1>0, <1>33, <2>2, PurgedRows
    <3> HIDE DEF next, o
    <3>2. Shut(v) /\ Modest(v)
      BY <1>0, <3>1, WithoutOrgShut
    <3>3. \A g \in Job : job'[g] = Orphaned(job[g], o) \/ job'[g].pc \in {"idle", "settle"}
      BY <2>0, <3>1
    <3> QED BY <1>0, <3>1, <3>2, <3>3, OrphanedHeeds
  <2> QED BY <2>1, <2>2
<1>34. ASSUME NEW h \in Job, NEW u \in User, Settle(h, u) PROVE Heeds(v)
  <2>1. inv' = inv /\ job[h].user \in User \cup {None} /\ job[h].rest \ {u} \in SUBSET User
    BY <1>0, <1>34, SettledRows DEF Settle, Purging
  <2>2. CASE Begins(h, job[h].user, u, job[h].rest \ {u})
    BY <1>0, <2>1, <2>2, BegunHeeds
  <2>3. CASE /\ job'[h] = Idle \/ (job'[h] \in Purging /\ job'[h].pc = "settle")
             /\ db' = db \/ db' = WithoutUser(db, u)
    <3>1. /\ \A o \in Org, w \in User : db'.role[o][w] \in {None, db.role[o][w]}
          /\ db'.access \subseteq db.access /\ db'.tasks = db.tasks
      BY <1>0, <2>3, WithoutUserRows
    <3>2. Modest(v) /\ Shut(v)
      BY <1>0, <2>1, <3>1, TakenModest DEF Shut
    <3>3. job'[h].pc \in {"idle", "settle"}
      BY <2>3 DEF Idle
    <3>4. Follows(h, job'[h]) /\ Away(job'[h], v)
      BY <3>3 DEF Follows, Away, Accepting
    <3>5. \A g \in Job \ {h} : job'[g] = job[g]
      BY <1>0, <1>34, SettledRows
    <3> QED BY <3>2, <3>4, <3>5, OneJobHeeds
  <2> QED BY <1>0, <1>34, <2>2, <2>3, SettledRows
<1>35. ASSUME NEW h \in Job, Crash(h) PROVE Heeds(v)
  <2>1. db' = db /\ inv' = inv /\ Ends(h)
    BY <1>35 DEF Crash
  <2> QED BY <1>0, <2>1, TakenModest, EndedHeeds DEF Shut
<1>41. ASSUME NEW h \in Job, Found(h) PROVE Heeds(v)
  <2> DEFINE o == job[h].org
             k == job[h].made + 1
  <2>0. inv' = inv /\ job[h] \in Founding /\ job[h].pc = "found" /\ \A g \in Job \ {h} : job'[g] = job[g]
    BY <1>0, <1>41, FoundRows DEF Found
  <2>1. CASE Ends(h) /\ db' = db
    BY <1>0, <2>0, <2>1, TakenModest, EndedHeeds DEF Shut
  <2>2. CASE ~ (Ends(h) /\ db' = db)
    <3>1. /\ o \in Org /\ k \in {2, 3, 4} /\ db'.tasks = db.tasks
          /\ \A p \in Org, w \in User : db'.role[p][w] = IF k = 2 /\ p = o /\ w = o THEN "owner" ELSE db.role[p][w]
          /\ db'.access = IF k = 4 THEN db.access \cup {<< o, 1, o >>} ELSE db.access
          /\ IF k = 4 THEN job'[h] = Idle \/ (job'[h] \in Purging /\ job'[h].pc = "settle")
             ELSE job'[h] \in Founding /\ job'[h].pc = "found" /\ job'[h].org = o /\ job'[h].made = k
      BY <1>0, <1>41, <2>2, FoundRows
    <3>2. job'[h].pc \in {"idle", "settle", "found"}
      BY <3>1 DEF Idle
    <3>3. job'[h].pc = "found" => job'[h].org = o /\ job'[h].made # 1
      BY <3>1 DEF Idle
    <3>4. Follows(h, job'[h]) /\ Away(job'[h], v)
      BY <2>0, <3>2, <3>3 DEF Follows, Away, Accepting
    <3> HIDE DEF o, k
    <3>5. /\ \A p \in Org, w \in User : db'.role[p][w] = db.role[p][w] \/ (p = o /\ w = o)
          /\ \A a \in db'.access : a \in db.access \/ (a[1] = o /\ a[3] = o)
      BY <3>1
    <3>6. Modest(v)
      BY <3>1, <3>5 DEF Modest
    <3>7. CASE v # o
      <4>1. Shut(v)
        BY <1>0, <2>0, <3>1, <3>5, <3>7 DEF Shut
      <4> QED BY <2>0, <3>4, <3>6, <4>1, OneJobHeeds
    <3>8. CASE v = o
      <4>1. Followed
        BY <2>0, <3>4 DEF Followed, Follows
      <4>2. \A g \in Job : Founds(g, v)' => job'[g].made # 1
        <5> SUFFICES ASSUME NEW g \in Job, g # h, Founds(g, v)', job'[g].made = 1 PROVE FALSE
          BY <3>3 DEF Founds
        <5>1. Founds(g, v) /\ job[g].made = 1 /\ Founds(h, v)
          BY <2>0, <3>8 DEF Founds, o
        <5> QED BY <1>0, <5>1 DEF FoundingsBare
      <4>3. Secluded(v) => Secluded(v)'
        BY <1>0, <2>0, <3>1, <3>4, <3>5, <3>8 DEF Secluded
      <4> QED BY <3>6, <4>1, <4>2, <4>3 DEF Heeds, Opened, Deserted
    <3> QED BY <3>7, <3>8
  <2> QED BY <2>1, <2>2
<1>42. ASSUME NEW h \in Job, Quit(h) PROVE Heeds(v)
  <2>1. db' = WithoutUser(db, job[h].user) /\ inv' = inv /\ Ends(h) /\ job[h].user \in User
    BY <1>0, <1>42, JobKinds DEF Quit, Typed, Quitting
  <2>2. /\ \A o \in Org, w \in User : db'.role[o][w] \in {None, db.role[o][w]}
        /\ db'.access \subseteq db.access /\ db'.tasks = db.tasks
    BY <1>0, <2>1, WithoutUserRows
  <2> QED BY <1>0, <2>1, <2>2, TakenModest, EndedHeeds DEF Shut
<1>43. ASSUME NEW h \in Job, CleanHalf(h) PROVE Heeds(v)
  <2>1. /\ inv' = inv /\ Ends(h) /\ job[h].user \in User /\ db'.access \subseteq db.access /\ db'.tasks = db.tasks
        /\ db'.role = Leaving(job[h].user, job[h].org).role
    BY <1>0, <1>43, CleanHalfRows DEF CleanHalf
  <2>2. \A o \in Org, w \in User : db'.role[o][w] \in {None, db.role[o][w]}
    BY <1>0, <2>1, LeavingRows
  <2> QED BY <1>0, <2>1, <2>2, TakenModest, EndedHeeds DEF Shut
<1>44. ASSUME NEW h \in Job, Regrade(h) PROVE Heeds(v)
  <2>1. inv' = inv /\ Ends(h) /\ job[h] \in Regrading /\ db'.access = db.access /\ db'.tasks = db.tasks
    BY <1>0, <1>44, RegradeRows DEF Regrade
  <2>2. \A p \in Org, w \in User :
          db'.role[p][w] = IF p = job[h].org /\ w = job[h].user /\ db.role[p][w] # None
                           THEN job[h].role ELSE db.role[p][w]
    BY <1>0, <1>44, RegradeRows
  <2>3. job[h].role \in Grades
    BY <2>1 DEF Regrading
  <2>4. Modest(v) /\ Shut(v)
    BY <1>0, <2>1, <2>2, <2>3 DEF Shut, Modest, Grades
  <2> QED BY <1>0, <2>1, <2>4, EndedHeeds
<1>45. ASSUME NEW h \in Job, Leave(h) PROVE Heeds(v)
  <2>1. /\ inv' = inv /\ db'.access \subseteq db.access /\ db'.tasks = db.tasks /\ job[h].pc = "leave"
        /\ \A g \in Job \ {h} : job'[g] = job[g]
        /\ job'[h].pc = "deactivate" /\ job'[h].org = job[h].org
    <3>1. inv' = inv /\ job[h].pc = "leave"
      BY <1>45 DEF Leave
    <3> QED BY <1>0, <1>45, <3>1, LeaveRows
  <2>2. Follows(h, job'[h]) /\ (Secluded(v) => Away(job'[h], v))
    BY <2>1 DEF Follows, Away, Secluded, Accepting
  <2>3. Modest(v) /\ Shut(v)
    <3>1. \A o \in Org, w \in User : db'.role[o][w] \in {None, db.role[o][w]}
      BY <1>0, <1>45, LeaveRows
    <3> QED BY <1>0, <2>1, <3>1, TakenModest DEF Shut
  <2> QED BY <2>1, <2>2, <2>3, OneJobHeeds DEF Deserted
<1>36. CASE Tick
  <2>1. db'.role = db.role /\ db'.access = db.access /\ inv' = inv /\ job' = job
    BY <1>0, <1>36, TickRows DEF Tick
  <2>2. db'.tasks[v] = {Later(n) : n \in db.tasks[v]}
    BY <1>0, <1>36, TickRows
  <2>3. Modest(v) /\ Shut(v)
    BY <1>0, <2>1, <2>2, TakenModest DEF Shut
  <2> QED BY <2>1, <2>3, NoJobHeeds
<1>37. CASE AccountRequest
  BY <1>37, <1>2, <1>3, <1>4, <1>5, <1>6, <1>7 DEF AccountRequest
<1>38. CASE MemberRequest
  <2>1. {"admin", "member"} = Grades
    BY DEF Grades
  <2> QED BY <1>38, <2>1, <1>8, <1>9, <1>10, <1>11, <1>12, <1>13, <1>14 DEF MemberRequest
<1>39. CASE OrgRequest
  BY <1>39, <1>15, <1>16, <1>17, <1>18, <1>19, <1>20, <1>21, <1>22 DEF OrgRequest
<1>40. CASE Step
  BY <1>40, <1>23, <1>24, <1>25, <1>26, <1>27, <1>28, <1>29, <1>30, <1>31, <1>32, <1>33, <1>34, <1>35,
     <1>41, <1>42, <1>43, <1>44, <1>45 DEF Step
<1> QED BY <1>1, <1>36, <1>37, <1>38, <1>39, <1>40 DEF Next

(* The organization of somebody who is signing up by invitation stays      *)
(* secluded until the signup is over.                                      *)
LEMMA PrivateNext ==
  ASSUME Linked, Typed', SignupsPrivate, FoundingsBare, [Next]_vars
  PROVE  SignupsPrivate'
<1> SUFFICES ASSUME NEW v \in SigningUp' PROVE Secluded(v)' /\ Humble(v)'
  BY DEF SignupsPrivate
<1>0. PICK g \in Job : job'[g].pc \in Accepting \cup {"clean"} /\ job'[g].signup /\ v = job'[g].user
  BY DEF SigningUp, Accepting
<1>1. v \in User
  BY <1>0, JobKinds DEF Typed, Acceptance
<1>2. Heeds(v)
  BY <1>1, QuietStep
<1>3. v \in SigningUp \/ (v \notin db.orgs /\ account[v] = None)
  BY <1>0, <1>2 DEF Heeds, Followed, Follows, SigningUp, Accepting
<1>4. Deserted(v) /\ Humble(v)
  <2>1. CASE v \in SigningUp
    BY <1>1, <2>1, PrivateDeserted DEF SignupsPrivate
  <2>2. CASE v \notin db.orgs /\ account[v] = None
    <3>1. Deserted(v)
      BY <1>1, <2>2, UnknownBare, BareDeserted
    <3>2. \A o \in Org : db.role[o][v] = None
      BY <1>1, <2>2 DEF Linked, TypeOK
    <3> QED BY <3>1, <3>2 DEF Humble, None
  <2> QED BY <1>3, <2>1, <2>2
<1>5. Secluded(v)'
  BY <1>1, <1>2, <1>4, QuietSecluded DEF Heeds, Opened, Deserted
<1>6. Humble(v)'
  BY <1>2, <1>4 DEF Heeds, Modest, Humble
<1> QED BY <1>5, <1>6

(* An organization that is being founded stays bare until its founder has  *)
(* the membership.                                                         *)
LEMMA BareNext ==
  ASSUME Linked, Typed', FoundingsBare, [Next]_vars
  PROVE  FoundingsBare'
<1> SUFFICES ASSUME NEW h \in Job, NEW o \in Org, Founds(h, o)', job'[h].made = 1
             PROVE  Bare(o)' /\ \A g \in Job : Founds(g, o)' => g = h
  BY DEF FoundingsBare
<1>1. o \in User /\ o # None /\ JobsLinked
  BY Constants DEF Org, Linked
<1>2. Heeds(o)
  BY <1>1, QuietStep
<1>3. \A g \in Job : Founds(g, o) => o \in db.orgs
  BY <1>1 DEF JobsLinked, Founds
<1>4. ASSUME NEW g \in Job, Founds(g, o)'
      PROVE  \/ Founds(g, o) /\ (job'[g].made = 1 => job[g].made = 1)
             \/ o \notin db.orgs /\ \A k \in Job \ {g} : job'[k] = job[k]
  BY <1>1, <1>2, <1>4 DEF Heeds, Followed, Follows, Founds
<1>5. Bare(o) /\ \A g \in Job : Founds(g, o)' => g = h
  <2>1. CASE Founds(h, o) /\ job[h].made = 1
    BY <1>3, <1>4, <2>1 DEF FoundingsBare
  <2>2. CASE o \notin db.orgs /\ \A k \in Job \ {h} : job'[k] = job[k]
    <3>1. Bare(o)
      BY <1>1, <2>2, UnknownBare
    <3> QED BY <1>3, <2>2, <3>1 DEF Founds
  <2> QED BY <1>4, <2>1, <2>2
<1>6. Quiet(o)
  BY <1>1, <1>2, <1>5, BareDeserted DEF Heeds, Opened
<1>7. Secluded(o)'
  BY <1>1, <1>5, <1>6, QuietSecluded DEF Bare
<1>8. db'.role[o][o] = None /\ \A a \in db'.access : a[1] # o
  BY <1>1, <1>5, <1>6 DEF Bare, Quiet, Shut
<1> QED BY <1>5, <1>7, <1>8 DEF Bare

LEMMA AlwaysPrivate == Spec => [](SignupsPrivate /\ FoundingsBare)
<1>1. Init => SignupsPrivate /\ FoundingsBare
  <2> SUFFICES ASSUME Init PROVE SignupsPrivate /\ FoundingsBare
    OBVIOUS
  <2>1. \A h \in Job : job[h].pc = "idle"
    BY DEF Init, Idle
  <2> QED BY <2>1 DEF SignupsPrivate, FoundingsBare, SigningUp, Founds
<1>2. Linked /\ Linked' /\ SignupsPrivate /\ FoundingsBare /\ [Next]_vars => (SignupsPrivate /\ FoundingsBare)'
  BY PrivateNext, BareNext DEF Linked
<1> QED BY <1>1, <1>2, AlwaysLinked, PTL DEF Spec

-----------------------------------------------------------------------------
(***************************************************************************)
(* Workspaces                                                              *)
(***************************************************************************)
(* The two halves of a request that archives, deletes or saves one.        *)
Rewritten ==
  \E h \in Job :
    \/ WriteWorkspace(h)
    \/ \E m \in User, p \in Org, n \in Ws, what \in {"archive", "delete", "settings"} : ReadWorkspace(h, m, p, n, what)

Lives(o) == o \in db.orgs => Active(o) # {} \/ (o \in half /\ NoWorkspace(o))
HasActive(o) ==
  /\ Lives(o)
  /\ \A g, h \in Job : Writes(g, o) /\ Writes(h, o) => g = h
  /\ \A h \in Job : Writes(h, o) => Leaves(job[h], o)

StillActive(o) == \A n \in Ws : db.ws[o][n] = "active" => db'.ws[o][n] = "active"

(* What every other step does to an organization: it begins no such        *)
(* request, and leaves an active workspace or none at all.                 *)
Kept(o) ==
  /\ crossed' = crossed
  /\ \A h \in Job : Writes(h, o)' => Writes(h, o) /\ job'[h] = job[h] /\ StillActive(o)
  /\ HasActive(o) => Lives(o)'

(* Most steps touch no workspace.                                          *)
LEMMA SameKept ==
  ASSUME NEW o \in Org, crossed' = crossed, half \subseteq half', o \in db'.orgs => o \in db.orgs,
         \A n \in Ws : db'.ws[o][n] = db.ws[o][n], \A g \in Job : job'[g] = job[g] \/ job'[g].pc # "write"
  PROVE  Kept(o)
<1>1. StillActive(o) /\ Active(o)' = Active(o) /\ NoWorkspace(o)' = NoWorkspace(o)
  BY DEF StillActive, Active, NoWorkspace
<1>2. \A h \in Job : Writes(h, o)' => Writes(h, o) /\ job'[h] = job[h]
  BY DEF Writes
<1> QED BY <1>1, <1>2 DEF Kept, HasActive, Lives

(* An organization that is not there has no workspace.                     *)
LEMMA UnknownEmpty ==
  ASSUME Linked, NEW o \in Org, o \notin db.orgs
  PROVE  NoWorkspace(o)
BY DEF Linked, TypeOK, NoWorkspace

(* A founding that begins makes an organization without one.               *)
LEMMA BegunKept ==
  ASSUME Linked, NEW o \in Org, NEW h \in Job, NEW by \in User \cup {None}, NEW u \in User, NEW rest \in SUBSET User,
         Begins(h, by, u, rest), crossed' = crossed
  PROVE  Kept(o)
<1>1. /\ Typed /\ u \in Org /\ u \notin db.orgs /\ job'[h].pc = "found" /\ \A g \in Job \ {h} : job'[g] = job[g]
      /\ db'.orgs = db.orgs \cup {u} /\ half' = half \cup {u}
      /\ \A p \in Org, n \in Ws : db'.ws[p][n] = db.ws[p][n]
  BY BegunRows DEF Linked
<1>2. CASE o # u
  BY <1>1, <1>2, SameKept
<1>3. CASE o = u
  <2>1. NoWorkspace(o)' /\ StillActive(o)
    BY <1>1, <1>3, UnknownEmpty DEF NoWorkspace, StillActive
  <2>2. \A g \in Job : Writes(g, o)' => Writes(g, o) /\ job'[g] = job[g]
    BY <1>1 DEF Writes
  <2> QED BY <1>1, <1>3, <2>1, <2>2 DEF Kept, Lives
<1> QED BY <1>2, <1>3

(* A signup makes an active workspace or breaks off before it.             *)
LEMMA MadeKept ==
  ASSUME Linked, NEW o \in Org, NEW u \in User, u \notin db.orgs, NEW k \in 0 .. 4, Makes(1 .. k, u, db, db'),
         half' = IF k \in {0, 4} THEN half ELSE half \cup {u}, crossed' = crossed,
         \A g \in Job : job'[g] = job[g] \/ job'[g].pc # "write"
  PROVE  Kept(o)
<1>0. /\ 1 \in Ws /\ u \in Org /\ (1 \in 1 .. k <=> k >= 1) /\ (3 \in 1 .. k <=> k >= 3)
      /\ db'.orgs = IF 1 \in 1 .. k THEN db.orgs \cup {u} ELSE db.orgs
      /\ \A p \in Org, n \in Ws : db'.ws[p][n] = IF 3 \in 1 .. k /\ p = u /\ n = 1 THEN "active" ELSE db.ws[p][n]
  BY Constants DEF Makes, Org
<1>1. CASE o # u
  BY <1>0, <1>1, SameKept
<1>2. CASE o = u
  <2>1. \A g \in Job : Writes(g, o)' => Writes(g, o) /\ job'[g] = job[g]
    BY DEF Writes
  <2>2. NoWorkspace(o)
    BY <1>2, UnknownEmpty
  <2>3. StillActive(o)
    BY <2>2 DEF StillActive, NoWorkspace, None
  <2>4. CASE k >= 3
    <3>1. Active(o)' # {}
      BY <1>0, <1>2, <2>4 DEF Active
    <3> QED BY <2>1, <2>3, <3>1 DEF Kept, Lives
  <2>5. CASE k < 3
    <3>1. NoWorkspace(o)'
      BY <1>0, <2>2, <2>5 DEF NoWorkspace
    <3>2. o \in db'.orgs => o \in half'
      BY <1>0, <1>2, <2>5
    <3> QED BY <2>1, <2>3, <3>1, <3>2 DEF Kept, Lives
  <2> QED BY <2>4, <2>5
<1> QED BY <1>1, <1>2

(* The end of an organization leaves the workspaces of the others alone.   *)
LEMMA OrphanedKept ==
  ASSUME Linked, NEW o \in Org, NEW d \in DB, NEW u \in Org,
         d.orgs = db.orgs, d.ws = db.ws, db' = WithoutOrg(d, u), crossed' = crossed, half' = half,
         \A g \in Job : job'[g] = Orphaned(job[g], u) \/ job'[g].pc # "write"
  PROVE  Kept(o)
<1>0. Typed /\ JobsLinked
  BY DEF Linked
<1>1. /\ db'.orgs = db.orgs \ {u}
      /\ \A p \in Org, n \in Ws : db'.ws[p][n] = IF p = u THEN None ELSE db.ws[p][n]
  BY WithoutOrgRows
<1>2. ASSUME NEW h \in Job, Writes(h, o)' PROVE o \in db'.orgs /\ Writes(h, o) /\ job'[h] = job[h]
  <2>1. job[h] \in AnyJob /\ job'[h] = Orphaned(job[h], u) /\ job'[h].pc = "write" /\ job'[h].org = o
    BY <1>0, <1>2 DEF Typed, Writes
  <2>2. o # u
    BY <2>1, OrphanedJob
  <2>3. job'[h] = job[h]
    <3> SUFFICES ASSUME job'[h] # job[h] PROVE FALSE
      OBVIOUS
    <3>1. job'[h] = [job[h] EXCEPT !.org = None] /\ job[h].pc = "write"
      BY <2>1, OrphanedJob
    <3>2. job[h] \in Write
      BY <2>1, <3>1, JobKinds
    <3>3. job'[h].org = None
      BY <3>1, <3>2 DEF Write
    <3> QED BY <2>1, <3>3, Constants DEF Org
  <2>4. o \in db'.orgs
    BY <1>0, <1>1, <2>1, <2>2, <2>3, Constants DEF JobsLinked, Org
  <2> QED BY <1>2, <2>3, <2>4 DEF Writes
<1>3. CASE o = u
  <2>1. o \notin db'.orgs /\ \A h \in Job : ~ Writes(h, o)'
    BY <1>1, <1>2, <1>3
  <2> QED BY <2>1 DEF Kept, Lives
<1>4. CASE o # u
  <2>1. StillActive(o) /\ Active(o)' = Active(o) /\ NoWorkspace(o)' = NoWorkspace(o)
    BY <1>1, <1>4 DEF StillActive, Active, NoWorkspace
  <2> QED BY <1>1, <1>2, <2>1 DEF Kept, HasActive, Lives
<1> QED BY <1>3, <1>4

(* A step keeps the active workspaces of an organization or is a request   *)
(* on a workspace.                                                         *)
LEMMA KeptStep ==
  ASSUME Linked, Linked', SignupsPrivate, [Next]_vars, NEW o \in Org
  PROVE  Kept(o) \/ Rewritten
<1> USE DEF ghosts
<1>0. /\ Linked /\ Typed /\ Typed' /\ TypeOK /\ db \in DB /\ db' \in DB /\ o \in Org
  BY DEF Linked, Typed
<1>1. CASE UNCHANGED vars
  BY <1>0, <1>1, SameKept DEF vars
<1>2. ASSUME NEW u \in User, SignUp(u) PROVE Kept(o) \/ Rewritten
  <2>1. u \notin db.orgs /\ job' = job /\ crossed' = crossed
    BY <1>2 DEF SignUp
  <2> QED BY <1>0, <1>2, <2>1, SignUpRows, MadeKept
<1>3. ASSUME NEW u \in User, NEW h \in Job, DeleteAccount(h, u) PROVE Kept(o) \/ Rewritten
  <2>1. db'.ws = db.ws /\ db'.orgs = db.orgs /\ half' = half /\ crossed' = crossed
    BY <1>3 DEF DeleteAccount
  <2>2. \A g \in Job : job'[g] = job[g] \/ job'[g].pc # "write"
    BY <1>0, <1>3 DEF DeleteAccount, Starts, Purge, Typed
  <2> QED BY <1>0, <2>1, <2>2, SameKept
<1>4. ASSUME NEW u \in User, NEW p \in Org, CleanUp(u, p) PROVE Kept(o) \/ Rewritten
  <2>1. /\ db' = WithoutOrg(db, p) /\ crossed' = crossed /\ half' = half
        /\ \A g \in Job : job'[g] = Orphaned(job[g], p) \/ job'[g].pc # "write"
    BY <1>4 DEF CleanUp
  <2> QED BY <1>0, <2>1, OrphanedKept
<1>5. ASSUME NEW u \in User, NEW h \in Job, ReadProfile(h, u) PROVE Kept(o) \/ Rewritten
  <2>1. db'.ws = db.ws /\ db'.orgs = db.orgs /\ half' = half /\ crossed' = crossed
    BY <1>5 DEF ReadProfile
  <2>2. \A g \in Job : job'[g] = job[g] \/ job'[g].pc # "write"
    BY <1>0, <1>5 DEF ReadProfile, Starts, Purge, Typed
  <2> QED BY <1>0, <2>1, <2>2, SameKept
<1>6. ASSUME NEW h \in Job, NEW u \in User, NEW i \in Inv, SignUpInvited(h, u, i) PROVE Kept(o) \/ Rewritten
  <2>1. u \notin db.orgs /\ half' = half /\ crossed' = crossed /\ Makes(1 .. 4, u, db, db')
    BY <1>0, <1>6, FoundedRows DEF SignUpInvited
  <2>2. \A g \in Job : job'[g] = job[g] \/ job'[g].pc # "write"
    BY <1>0, <1>6 DEF SignUpInvited, Starts, Typed
  <2>3. 4 \in 0 .. 4 /\ half' = IF 4 \in {0, 4} THEN half ELSE half \cup {u}
    BY <2>1
  <2> QED BY <1>0, <2>1, <2>2, <2>3, MadeKept
<1>7. ASSUME NEW h \in Job, NEW u \in User, NEW i \in Inv, Accept(h, u, i) PROVE Kept(o) \/ Rewritten
  <2>1. db'.ws = db.ws /\ db'.orgs = db.orgs /\ half' = half /\ crossed' = crossed
    BY <1>7 DEF Accept
  <2>2. \A g \in Job : job'[g] = job[g] \/ job'[g].pc # "write"
    BY <1>0, <1>7 DEF Accept, Starts, Purge, Typed
  <2> QED BY <1>0, <2>1, <2>2, SameKept
<1>8. ASSUME NEW a \in User, NEW u \in User, NEW p \in Org, NEW S \in SUBSET Ws, SetWorkspaces(a, p, u, S)
       PROVE  Kept(o) \/ Rewritten
  <2>0. PICK acc : db' = [db EXCEPT !.access = acc]
    BY <1>8, Zenon DEF SetWorkspaces, Assigned
  <2>1. db'.ws = db.ws /\ db'.orgs = db.orgs /\ half' = half /\ crossed' = crossed
    BY <1>0, <1>8, <2>0 DEF DB, SetWorkspaces
  <2>2. job' = job
    BY <1>8 DEF SetWorkspaces
  <2> QED BY <1>0, <2>1, <2>2, SameKept
<1>9. ASSUME NEW a \in User, NEW u \in User, NEW p \in Org, NEW S \in SUBSET Ws, NEW r \in Invited \cup {"owner"},
             CreateMember(a, p, u, r, S)
       PROVE  Kept(o) \/ Rewritten
  <2>0. PICK acc : db' = [db EXCEPT !.role[p][u] = r, !.access = acc]
    BY <1>9, Zenon DEF CreateMember
  <2>1. db'.ws = db.ws /\ db'.orgs = db.orgs /\ half' = half /\ crossed' = crossed
    BY <1>0, <1>9, <2>0 DEF DB, CreateMember
  <2>2. job' = job
    BY <1>9 DEF CreateMember
  <2> QED BY <1>0, <2>1, <2>2, SameKept
<1>10. ASSUME NEW a \in User, NEW u \in User, NEW p \in Org, NEW i \in Inv, NEW r \in Invited, NEW n \in 0 .. MaxWs,
              Invite(a, p, i, u, r, n)
       PROVE  Kept(o) \/ Rewritten
  <2>1. db'.ws = db.ws /\ db'.orgs = db.orgs /\ half' = half /\ crossed' = crossed
    BY <1>10 DEF Invite, Invites
  <2>2. job' = job
    BY <1>10 DEF Invite, Invites
  <2> QED BY <1>0, <2>1, <2>2, SameKept
<1>11. ASSUME NEW a \in User, NEW u \in User, NEW p \in Org, NEW i \in Inv, NEW n \in Ws,
              InviteToWorkspace(a, p, i, u, n)
       PROVE  Kept(o) \/ Rewritten
  <2>1. db'.ws = db.ws /\ db'.orgs = db.orgs /\ half' = half /\ crossed' = crossed
    BY <1>11 DEF InviteToWorkspace, Invites
  <2>2. job' = job
    BY <1>11 DEF InviteToWorkspace, Invites
  <2> QED BY <1>0, <2>1, <2>2, SameKept
<1>12. ASSUME NEW h \in Job, NEW a \in User, NEW u \in User, NEW p \in Org, NEW r \in Grades, UpdateRole(h, a, p, u, r)
       PROVE  Kept(o) \/ Rewritten
  <2>1. db'.ws = db.ws /\ db'.orgs = db.orgs /\ half' = half /\ crossed' = crossed
    BY <1>12 DEF UpdateRole
  <2>2. \A g \in Job : job'[g] = job[g] \/ job'[g].pc # "write"
    BY <1>0, <1>12 DEF UpdateRole, Starts, Purge, Typed
  <2> QED BY <1>0, <2>1, <2>2, SameKept
<1>13. ASSUME NEW h \in Job, NEW a \in User, NEW u \in User, NEW p \in Org, RemoveMember(h, a, p, u)
       PROVE  Kept(o) \/ Rewritten
  <2>1. db'.ws = db.ws /\ db'.orgs = db.orgs /\ half' = half /\ crossed' = crossed
    BY <1>13 DEF RemoveMember
  <2>2. \A g \in Job : job'[g] = job[g] \/ job'[g].pc # "write"
    BY <1>0, <1>13 DEF RemoveMember, Starts, Purge, Typed
  <2> QED BY <1>0, <2>1, <2>2, SameKept
<1>14. ASSUME NEW a \in User, NEW u \in User, NEW p \in Org, NEW n \in Ws, LeaveWorkspace(a, p, n, u)
       PROVE  Kept(o) \/ Rewritten
  <2>1. db'.ws = db.ws /\ db'.orgs = db.orgs /\ half' = half /\ crossed' = crossed
    BY <1>0, <1>14 DEF LeaveWorkspace, DB
  <2>2. job' = job
    BY <1>14 DEF LeaveWorkspace
  <2> QED BY <1>0, <2>1, <2>2, SameKept
<1>15. ASSUME NEW i \in Inv, Revoke(i) PROVE Kept(o) \/ Rewritten
  <2>1. db'.ws = db.ws /\ db'.orgs = db.orgs /\ half' = half /\ crossed' = crossed
    BY <1>15 DEF Revoke
  <2>2. job' = job
    BY <1>15 DEF Revoke
  <2> QED BY <1>0, <2>1, <2>2, SameKept
<1>16. ASSUME NEW a \in User, NEW i \in Inv, Resend(a, i) PROVE Kept(o) \/ Rewritten
  <2>1. db'.ws = db.ws /\ db'.orgs = db.orgs /\ half' = half /\ crossed' = crossed
    BY <1>16 DEF Resend
  <2>2. job' = job
    BY <1>16 DEF Resend
  <2> QED BY <1>0, <2>1, <2>2, SameKept
<1>17. ASSUME NEW u \in User, NEW p \in Org, CreateWorkspace(u, p) PROVE Kept(o) \/ Rewritten
  <2>1. PICK n \in Ws : db' = [db EXCEPT !.ws[p][n] = "active", !.access = @ \cup {<< p, n, u >>}]
    BY <1>17 DEF CreateWorkspace
  <2>2. /\ db'.ws = [db.ws EXCEPT ![p][n] = "active"] /\ db'.orgs = db.orgs
        /\ job' = job /\ half' = half /\ crossed' = crossed
    BY <1>0, <1>17, <2>1 DEF DB, CreateWorkspace
  <2>3. CASE o # p
    BY <1>0, <2>2, <2>3, SameKept DEF DB
  <2>4. CASE o = p
    <3>1. StillActive(o) /\ Active(o)' # {}
      BY <1>0, <2>2, <2>4 DEF DB, StillActive, Active
    <3> QED BY <2>2, <3>1 DEF Kept, Lives, Writes
  <2> QED BY <2>3, <2>4
<1>18. ASSUME NEW u \in User, NEW p \in Org, NEW n \in Ws, Unarchive(u, p, n) PROVE Kept(o) \/ Rewritten
  <2>2. /\ db'.ws = [db.ws EXCEPT ![p][n] = "active"] /\ db'.orgs = db.orgs
        /\ job' = job /\ half' = half /\ crossed' = crossed
    BY <1>0, <1>18 DEF DB, Unarchive
  <2>3. CASE o # p
    BY <1>0, <2>2, <2>3, SameKept DEF DB
  <2>4. CASE o = p
    <3>1. StillActive(o) /\ Active(o)' # {}
      BY <1>0, <2>2, <2>4 DEF DB, StillActive, Active
    <3> QED BY <2>2, <3>1 DEF Kept, Lives, Writes
  <2> QED BY <2>3, <2>4
<1>19. ASSUME NEW h \in Job, NEW u \in User, NEW p \in Org, AskDeletion(h, u, p) PROVE Kept(o) \/ Rewritten
  <2>1. db'.ws = db.ws /\ db'.orgs = db.orgs /\ half' = half /\ crossed' = crossed
    BY <1>0, <1>19 DEF AskDeletion, DB
  <2>2. \A g \in Job : job'[g] = job[g] \/ job'[g].pc # "write"
    BY <1>0, <1>19 DEF AskDeletion, Starts, Purge, Typed
  <2> QED BY <1>0, <2>1, <2>2, SameKept
<1>20. ASSUME NEW h \in Job, NEW u \in User, NEW p \in Org, AskCancel(h, u, p) PROVE Kept(o) \/ Rewritten
  <2>1. db'.ws = db.ws /\ db'.orgs = db.orgs /\ half' = half /\ crossed' = crossed
    BY <1>0, <1>20 DEF AskCancel, DB
  <2>2. \A g \in Job : job'[g] = job[g] \/ job'[g].pc # "write"
    BY <1>0, <1>20 DEF AskCancel, Starts, Purge, Typed
  <2> QED BY <1>0, <2>1, <2>2, SameKept
<1>21. ASSUME NEW h \in Job, NEW u \in User, NEW p \in Org, DeleteNow(h, u, p) PROVE Kept(o) \/ Rewritten
  <2>1. db'.ws = db.ws /\ db'.orgs = db.orgs /\ half' = half /\ crossed' = crossed
    BY <1>0, <1>21 DEF DeleteNow, DB
  <2>2. \A g \in Job : job'[g] = job[g] \/ job'[g].pc # "write"
    BY <1>0, <1>21 DEF DeleteNow, Starts, Purge, Typed
  <2> QED BY <1>0, <2>1, <2>2, SameKept
<1>22. ASSUME NEW h \in Job, NEW u \in User, NEW p \in Org, NEW n \in Ws,
              NEW what \in {"archive", "delete", "settings"}, ReadWorkspace(h, u, p, n, what)
       PROVE  Kept(o) \/ Rewritten
  BY <1>22 DEF Rewritten
<1>23. ASSUME NEW h \in Job, SaveProfile(h) PROVE Kept(o) \/ Rewritten
  <2>0. job[h].user \in User /\ crossed' = crossed
    BY <1>0, <1>23, JobKinds DEF Typed, SaveProfile, Plain
  <2>1. CASE Begins(h, job[h].user, job[h].user, {})
    BY <1>0, <2>0, <2>1, BegunKept
  <2>2. CASE Ends(h) /\ UNCHANGED << db, half >>
    <3>1. \A g \in Job : job'[g] = job[g] \/ job'[g].pc # "write"
      BY <1>0, <2>2 DEF Ends, Typed, Idle
    <3> QED BY <1>0, <2>0, <2>2, <3>1, SameKept
  <2> QED BY <1>23, <2>1, <2>2 DEF SaveProfile
<1>24. ASSUME NEW h \in Job, Join(h) PROVE Kept(o) \/ Rewritten
  <2>1. db'.ws = db.ws /\ db'.orgs = db.orgs /\ half' = half /\ crossed' = crossed
    BY <1>0, <1>24 DEF Join, DB
  <2>2. job[h] \in Acceptance /\ job[h].pc \in Accepting
    BY <1>0, <1>24, JobKinds DEF Typed, Join, Accepting
  <2>3. Ends(h) \/ \E c \in {"assign", "mark", "clean"} : job' = [job EXCEPT ![h].pc = c]
    BY <1>24 DEF Join
  <2>4. job'[h].pc # "write" /\ \A g \in Job \ {h} : job'[g] = job[g]
    BY <1>0, <2>2, <2>3 DEF Ends, Typed, Idle, Acceptance
  <2> QED BY <1>0, <2>1, <2>4, SameKept
<1>25. ASSUME NEW h \in Job, Assign(h) PROVE Kept(o) \/ Rewritten
  <2>1. db'.ws = db.ws /\ db'.orgs = db.orgs /\ half' = half /\ crossed' = crossed
    BY <1>0, <1>25 DEF Assign, DB
  <2>2. job[h] \in Acceptance /\ job[h].pc \in Accepting
    BY <1>0, <1>25, JobKinds DEF Typed, Assign, Accepting
  <2>3. Ends(h) \/ \E c \in {"assign", "mark", "clean"} : job' = [job EXCEPT ![h].pc = c]
    BY <1>25 DEF Assign
  <2>4. job'[h].pc # "write" /\ \A g \in Job \ {h} : job'[g] = job[g]
    BY <1>0, <2>2, <2>3 DEF Ends, Typed, Idle, Acceptance
  <2> QED BY <1>0, <2>1, <2>4, SameKept
<1>26. ASSUME NEW h \in Job, Mark(h) PROVE Kept(o) \/ Rewritten
  <2>1. db'.ws = db.ws /\ db'.orgs = db.orgs /\ half' = half /\ crossed' = crossed
    BY <1>0, <1>26 DEF Mark, DB
  <2>2. job[h] \in Acceptance /\ job[h].pc \in Accepting
    BY <1>0, <1>26, JobKinds DEF Typed, Mark, Accepting
  <2>3. Ends(h) \/ \E c \in {"assign", "mark", "clean"} : job' = [job EXCEPT ![h].pc = c]
    BY <1>26 DEF Mark
  <2>4. job'[h].pc # "write" /\ \A g \in Job \ {h} : job'[g] = job[g]
    BY <1>0, <2>2, <2>3 DEF Ends, Typed, Idle, Acceptance
  <2> QED BY <1>0, <2>1, <2>4, SameKept
<1>27. ASSUME NEW h \in Job, Clean(h) PROVE Kept(o) \/ Rewritten
  <2> DEFINE u == job[h].user
             left == Leaving(u, job[h].org)
             alone == Alone(u, job[h].org)
  <2>1. /\ u \in Org /\ u \in User
        /\ db' = IF alone THEN WithoutOrg(left, u) ELSE left
        /\ job' = [g \in Job |-> IF g = h THEN Idle ELSE IF alone THEN Orphaned(job[g], u) ELSE job[g]]
    BY <1>0, <1>27, CleanRows
  <2>2. left \in DB /\ left.orgs = db.orgs /\ left.ws = db.ws
    BY <1>0, <2>1, LeavingRows
  <2>3. crossed' = crossed /\ half' = half /\ Idle.pc = "idle"
    BY <1>27 DEF Clean, Idle
  <2> HIDE DEF u, left, alone
  <2>4. CASE alone
    <3>1. \A g \in Job : job'[g] = Orphaned(job[g], u) \/ job'[g].pc # "write"
      BY <2>1, <2>3, <2>4
    <3> QED BY <1>0, <2>1, <2>2, <2>3, <2>4, <3>1, OrphanedKept
  <2>5. CASE ~ alone
    BY <1>0, <2>1, <2>2, <2>3, <2>5, SameKept
  <2> QED BY <2>4, <2>5
<1>28. ASSUME NEW h \in Job, Deactivate(h) PROVE Kept(o) \/ Rewritten
  <2>1. db'.ws = db.ws /\ db'.orgs = db.orgs /\ half' = half /\ crossed' = crossed
    BY <1>28 DEF Deactivate
  <2>2. \A g \in Job : job'[g] = job[g] \/ job'[g].pc # "write"
    BY <1>0, <1>28 DEF Deactivate, Ends, Typed, Idle
  <2> QED BY <1>0, <2>1, <2>2, SameKept
<1>29. ASSUME NEW h \in Job, WriteWorkspace(h) PROVE Kept(o) \/ Rewritten
  BY <1>29 DEF Rewritten
<1>30. ASSUME NEW h \in Job, Schedule(h) PROVE Kept(o) \/ Rewritten
  <2>1. db'.ws = db.ws /\ db'.orgs = db.orgs /\ half' = half /\ crossed' = crossed
    BY <1>0, <1>30 DEF Schedule, Delayed, DB
  <2>2. \A g \in Job : job'[g] = job[g] \/ job'[g].pc # "write"
    BY <1>0, <1>30 DEF Schedule, Ends, Typed, Idle
  <2> QED BY <1>0, <2>1, <2>2, SameKept
<1>31. ASSUME NEW h \in Job, Clear(h) PROVE Kept(o) \/ Rewritten
  <2>1. db'.ws = db.ws /\ db'.orgs = db.orgs /\ half' = half /\ crossed' = crossed
    BY <1>0, <1>31 DEF Clear, DB
  <2>2. \A g \in Job : job'[g] = job[g] \/ job'[g].pc # "write"
    BY <1>0, <1>31 DEF Clear, Ends, Typed, Idle
  <2> QED BY <1>0, <2>1, <2>2, SameKept
<1>32. ASSUME NEW h \in Job, NEW p \in Org, RunTask(h, p) PROVE Kept(o) \/ Rewritten
  <2>1. db'.ws = db.ws /\ db'.orgs = db.orgs /\ half' = half /\ crossed' = crossed
    BY <1>0, <1>32 DEF RunTask, DB
  <2>2. \A g \in Job : job'[g] = job[g] \/ job'[g].pc # "write"
    BY <1>0, <1>32 DEF RunTask, Starts, Purge, Typed
  <2> QED BY <1>0, <2>1, <2>2, SameKept
<1>33. ASSUME NEW h \in Job, DeleteOrg(h) PROVE Kept(o) \/ Rewritten
  <2> DEFINE q == job[h].org
             next == [job[h] EXCEPT !.pc = "settle"]
  <2>0. crossed' = crossed /\ half' = half /\ next.pc # "write"
    BY <1>0, <1>33, PurgedRows DEF DeleteOrg
  <2>1. CASE q = None
    <3>1. db' = db /\ job' = [job EXCEPT ![h] = next]
      BY <1>0, <1>33, <2>1, PurgedRows
    <3> HIDE DEF next
    <3>2. \A g \in Job : job'[g] = job[g] \/ job'[g].pc # "write"
      BY <1>0, <2>0, <3>1 DEF Typed
    <3> QED BY <1>0, <2>0, <3>1, <3>2, SameKept
  <2>2. CASE q # None
    <3>1. /\ q \in Org /\ db' = WithoutOrg(db, q)
          /\ job' = [g \in Job |-> IF g = h THEN next ELSE Orphaned(job[g], q)]
      BY <1>0, <1>33, <2>2, PurgedRows
    <3> HIDE DEF next, q
    <3>2. \A g \in Job : job'[g] = Orphaned(job[g], q) \/ job'[g].pc # "write"
      BY <2>0, <3>1
    <3> QED BY <1>0, <2>0, <3>1, <3>2, OrphanedKept
  <2> QED BY <2>1, <2>2
<1>34. ASSUME NEW h \in Job, NEW u \in User, Settle(h, u) PROVE Kept(o) \/ Rewritten
  <2>1. crossed' = crossed /\ job[h].user \in User \cup {None} /\ job[h].rest \ {u} \in SUBSET User
    BY <1>0, <1>34, SettledRows DEF Settle, Purging
  <2>2. CASE Begins(h, job[h].user, u, job[h].rest \ {u})
    BY <1>0, <2>1, <2>2, BegunKept
  <2>3. CASE /\ half' = half /\ (job'[h] = Idle \/ (job'[h] \in Purging /\ job'[h].pc = "settle"))
             /\ (db' = db \/ db' = WithoutUser(db, u))
    <3>1. db'.ws = db.ws /\ db'.orgs = db.orgs
      BY <1>0, <2>3, WithoutUserRows
    <3>2. job'[h].pc # "write"
      BY <2>3 DEF Idle
    <3>3. \A g \in Job \ {h} : job'[g] = job[g]
      BY <1>0, <1>34, SettledRows
    <3> QED BY <1>0, <2>1, <2>3, <3>1, <3>2, <3>3, SameKept
  <2> QED BY <1>0, <1>34, <2>2, <2>3, SettledRows
<1>35. ASSUME NEW h \in Job, Crash(h) PROVE Kept(o) \/ Rewritten
  <2>1. db'.ws = db.ws /\ db'.orgs = db.orgs /\ half' = half /\ crossed' = crossed
    BY <1>35 DEF Crash
  <2>2. \A g \in Job : job'[g] = job[g] \/ job'[g].pc # "write"
    BY <1>0, <1>35 DEF Crash, Ends, Typed, Idle
  <2> QED BY <1>0, <2>1, <2>2, SameKept
<1>41. ASSUME NEW h \in Job, Found(h) PROVE Kept(o) \/ Rewritten
  <2> DEFINE p == job[h].org
             k == job[h].made + 1
  <2>0. crossed' = crossed /\ job[h] \in Founding /\ \A g \in Job \ {h} : job'[g] = job[g]
    BY <1>0, <1>41, FoundRows DEF Found
  <2>1. CASE Ends(h) /\ db' = db /\ half' = half
    <3>1. \A g \in Job : job'[g] = job[g] \/ job'[g].pc # "write"
      BY <1>0, <2>1 DEF Ends, Typed, Idle
    <3> QED BY <1>0, <2>0, <2>1, <3>1, SameKept
  <2>2. CASE ~ (Ends(h) /\ db' = db /\ half' = half)
    <3>1. /\ p \in Org /\ k \in {2, 3, 4} /\ ~ Fails(job[h]) /\ db'.orgs = db.orgs
          /\ \A q \in Org, n \in Ws : db'.ws[q][n] = IF k = 3 /\ q = p /\ n = 1 THEN "active" ELSE db.ws[q][n]
          /\ half' = IF k = 4 THEN half \ {p} ELSE half
          /\ IF k = 4 THEN job'[h] = Idle \/ (job'[h] \in Purging /\ job'[h].pc = "settle")
             ELSE job'[h] \in Founding /\ job'[h].pc = "found" /\ job'[h].org = p /\ job'[h].made = k
      BY <1>0, <1>41, <2>2, FoundRows
    <3>2. job'[h].pc # "write"
      BY <3>1 DEF Idle
    <3>3. \A g \in Job : Writes(g, o)' => Writes(g, o) /\ job'[g] = job[g]
      BY <2>0, <3>2 DEF Writes
    <3>4. k = 4 => db.ws[p][1] # None /\ 1 \in Ws
      BY <2>0, <3>1, Constants DEF Fails, Founding
    <3> HIDE DEF p, k
    <3>5. StillActive(o)
      BY <1>0, <3>1 DEF StillActive
    <3>6. CASE k = 3 /\ o = p
      <4>1. 1 \in Ws /\ db'.ws[o][1] = "active"
        BY <1>0, <3>1, <3>6, Constants
      <4>2. Active(o)' # {}
        BY <4>1 DEF Active
      <4> QED BY <2>0, <3>3, <3>5, <4>2 DEF Kept, Lives
    <3>7. CASE ~ (k = 3 /\ o = p)
      <4>1. \A n \in Ws : db'.ws[o][n] = db.ws[o][n]
        BY <1>0, <3>1, <3>7
      <4>2. Active(o)' = Active(o) /\ NoWorkspace(o)' = NoWorkspace(o)
        BY <4>1 DEF Active, NoWorkspace
      <4>3. o \in half /\ NoWorkspace(o) => o \in half'
        BY <3>1, <3>4 DEF NoWorkspace
      <4> QED BY <2>0, <3>1, <3>3, <3>5, <4>2, <4>3 DEF Kept, Lives, HasActive
    <3> QED BY <3>6, <3>7
  <2> QED BY <2>1, <2>2
<1>42. ASSUME NEW h \in Job, Quit(h) PROVE Kept(o) \/ Rewritten
  <2>0. db' = WithoutUser(db, job[h].user) /\ job[h].user \in User /\ half' = half /\ crossed' = crossed
    BY <1>0, <1>42, JobKinds DEF Quit, Typed, Quitting
  <2>1. db'.ws = db.ws /\ db'.orgs = db.orgs
    BY <1>0, <2>0, WithoutUserRows
  <2>2. \A g \in Job : job'[g] = job[g] \/ job'[g].pc # "write"
    BY <1>0, <1>42 DEF Quit, Ends, Typed, Idle
  <2> QED BY <1>0, <2>0, <2>1, <2>2, SameKept
<1>43. ASSUME NEW h \in Job, CleanHalf(h) PROVE Kept(o) \/ Rewritten
  <2> DEFINE u == job[h].user
             left == Leaving(u, job[h].org)
  <2>1. /\ job[h] \in Acceptance /\ u \in User /\ u \in Org /\ db'.orgs = db.orgs /\ half' = half \cup {u}
        /\ \/ db' = left
           \/ \A p \in Org, n \in Ws : db'.ws[p][n] = IF p = u THEN None ELSE db.ws[p][n]
    BY <1>0, <1>43, CleanHalfRows
  <2>2. job[h].pc = "clean" /\ job[h].signup /\ crossed' = crossed
    BY <1>0, <1>43, JobKinds DEF CleanHalf, Typed
  <2>3. Secluded(u)
    BY <2>2 DEF SignupsPrivate, SigningUp
  <2>4. left.ws = db.ws
    BY <1>0, <2>1, LeavingRows
  <2>5. \A g \in Job : job'[g] = job[g] \/ job'[g].pc # "write"
    BY <1>0, <1>43 DEF CleanHalf, Ends, Typed, Idle
  <2> HIDE DEF u, left
  <2>6. CASE \A n \in Ws : db'.ws[o][n] = db.ws[o][n]
    BY <1>0, <2>1, <2>2, <2>5, <2>6, SameKept
  <2>7. CASE o = u /\ \A n \in Ws : db'.ws[o][n] = None
    <3>1. \A g \in Job : ~ Writes(g, o)'
      BY <2>3, <2>5, <2>7 DEF Secluded, Away, Writes
    <3>2. NoWorkspace(o)' /\ o \in half'
      BY <2>1, <2>7 DEF NoWorkspace
    <3> QED BY <2>2, <3>1, <3>2 DEF Kept, Lives
  <2> QED BY <1>0, <2>1, <2>4, <2>6, <2>7
<1>44. ASSUME NEW h \in Job, Regrade(h) PROVE Kept(o) \/ Rewritten
  <2>0. half' = half /\ crossed' = crossed
    BY <1>44 DEF Regrade
  <2>1. db'.ws = db.ws /\ db'.orgs = db.orgs
    BY <1>0, <1>44, RegradeRows
  <2>2. \A g \in Job : job'[g] = job[g] \/ job'[g].pc # "write"
    BY <1>0, <1>44 DEF Regrade, Ends, Typed, Idle
  <2> QED BY <1>0, <2>0, <2>1, <2>2, SameKept
<1>45. ASSUME NEW h \in Job, Leave(h) PROVE Kept(o) \/ Rewritten
  <2>0. half' = half /\ crossed' = crossed
    BY <1>45 DEF Leave
  <2>1. db'.ws = db.ws /\ db'.orgs = db.orgs
    BY <1>0, <1>45, LeaveRows
  <2>2. job'[h].pc # "write" /\ \A g \in Job \ {h} : job'[g] = job[g]
    BY <1>0, <1>45, LeaveRows
  <2> QED BY <1>0, <2>0, <2>1, <2>2, SameKept
<1>36. CASE Tick
  <2>1. db'.ws = db.ws /\ db'.orgs = db.orgs
    BY <1>0, <1>36, TickRows
  <2>2. half' = half /\ crossed' = crossed /\ job' = job
    BY <1>36 DEF Tick
  <2> QED BY <1>0, <2>1, <2>2, SameKept
<1>37. CASE AccountRequest
  BY <1>37, <1>2, <1>3, <1>4, <1>5, <1>6, <1>7 DEF AccountRequest
<1>38. CASE MemberRequest
  <2>1. {"admin", "member"} = Grades
    BY DEF Grades
  <2> QED BY <1>38, <2>1, <1>8, <1>9, <1>10, <1>11, <1>12, <1>13, <1>14 DEF MemberRequest
<1>39. CASE OrgRequest
  BY <1>39, <1>15, <1>16, <1>17, <1>18, <1>19, <1>20, <1>21, <1>22 DEF OrgRequest
<1>40. CASE Step
  BY <1>40, <1>23, <1>24, <1>25, <1>26, <1>27, <1>28, <1>29, <1>30, <1>31, <1>32, <1>33, <1>34, <1>35,
     <1>41, <1>42, <1>43, <1>44, <1>45 DEF Step
<1> QED BY <1>1, <1>36, <1>37, <1>38, <1>39, <1>40 DEF Next

(* "Cannot archive the last workspace in the organization" as the code     *)
(* counts: what it does not refuse leaves an active workspace.             *)
LEMMA UnrefusedLeaves ==
  ASSUME Typed, NEW o \in Org, NEW n \in Ws, NEW what \in {"archive", "delete", "settings"},
         Active(o) # {}, ~ Refused(o, n, what), db.ws[o][n] \in {"active", "archived"}
  PROVE  (what = "settings" /\ db.ws[o][n] = "active") \/ \E k \in Active(o) : k # n
<1>1. CASE Cardinality(Active(o)) <= 1
  BY <1>1 DEF Refused, Active
<1>2. CASE ~ (Cardinality(Active(o)) <= 1)
  <2> SUFFICES ASSUME \A k \in Active(o) : k = n PROVE FALSE
    OBVIOUS
  <2>1. Active(o) = {n}
    OBVIOUS
  <2>2. Cardinality(Active(o)) = 1
    BY <2>1, FS_Singleton
  <2> QED BY <1>2, <2>2
<1> QED BY <1>1, <1>2

(* A request on a workspace that begins leaves one active,                 *)
LEMMA ReadLeaves ==
  ASSUME Linked, Linked', NEW o \in Org, o \notin crossed', o \in crossed \/ HasActive(o),
         NEW h \in Job, NEW m \in User, NEW p \in Org, NEW n \in Ws, NEW what \in {"archive", "delete", "settings"},
         ReadWorkspace(h, m, p, n, what)
  PROVE  HasActive(o)'
<1>0. Typed /\ Typed' /\ TypeOK /\ db' = db /\ o \notin crossed
  BY DEF Linked, ReadWorkspace
<1>1. HasActive(o) /\ Active(o)' = Active(o) /\ Lives(o)'
  BY <1>0 DEF Active, HasActive, Lives, NoWorkspace, ReadWorkspace
<1>2. /\ job'[h] = [pc |-> "write", user |-> m, org |-> p, ws |-> n, what |-> what, seen |-> db.ws[p][n]]
      /\ \A g \in Job \ {h} : job'[g] = job[g]
  BY <1>0 DEF ReadWorkspace, Starts, Typed
<1>3. CASE o # p
  <2>1. \A g \in Job : Writes(g, o)' => Writes(g, o) /\ job'[g] = job[g]
    BY <1>2, <1>3 DEF Writes
  <2>2. \A g \in Job : Writes(g, o)' => Leaves(job[g], o)'
    BY <1>1, <2>1 DEF HasActive, Leaves
  <2> QED BY <1>0, <1>1, <2>1, <2>2 DEF HasActive
<1>4. CASE o = p
  <2>1. \A g \in Job : Writes(g, o)' => g = h
    BY <1>0, <1>2, <1>4 DEF ReadWorkspace, Others, Writes
  <2>2. o \in db.orgs /\ db.ws[o][n] \in {"active", "archived"}
    BY <1>0, <1>4 DEF ReadWorkspace, Uses, Typed, TypeOK, DB
  <2>3. Active(o) # {}
    BY <1>1, <2>2 DEF HasActive, Lives, NoWorkspace, None
  <2>4. (what = "settings" /\ db.ws[o][n] = "active") \/ \E k \in Active(o) : k # n
    BY <1>0, <1>4, <2>2, <2>3, UnrefusedLeaves DEF ReadWorkspace
  <2>5. Leaves(job[h], o)'
    BY <1>1, <1>2, <1>4, <2>4 DEF Leaves
  <2> QED BY <1>1, <2>1, <2>3, <2>5 DEF HasActive
<1> QED BY <1>3, <1>4

(* and so does its write,                                                  *)
LEMMA WriteLeaves ==
  ASSUME Linked, Linked', NEW o \in Org, o \notin crossed', o \in crossed \/ HasActive(o),
         NEW h \in Job, WriteWorkspace(h)
  PROVE  HasActive(o)'
<1>0. Typed /\ Typed' /\ db \in DB /\ db' \in DB /\ o \notin crossed /\ HasActive(o)
  BY DEF Linked, Typed, WriteWorkspace, ghosts
<1>1. job'[h] = Idle /\ (\A g \in Job \ {h} : job'[g] = job[g]) /\ job[h] \in Write /\ job[h].pc = "write"
      /\ db'.orgs = db.orgs /\ half' = half
  BY <1>0, JobEnded, WrittenRows DEF WriteWorkspace, ghosts
<1>2. \A g \in Job : Writes(g, o)' => g # h /\ Writes(g, o) /\ job'[g] = job[g]
  BY <1>1 DEF Writes, Idle
<1>3. CASE job[h].org # o
  <2>1. \A n \in Ws : db'.ws[o][n] = db.ws[o][n]
    BY <1>0, <1>3, WrittenRows, WithoutWsRows DEF Write
  <2>2. Active(o)' = Active(o) /\ Lives(o)'
    BY <1>0, <1>1, <2>1 DEF Active, HasActive, Lives, NoWorkspace
  <2>3. \A g \in Job : Writes(g, o)' => Leaves(job[g], o)'
    BY <1>0, <1>2, <2>2 DEF HasActive, Leaves
  <2> QED BY <1>0, <1>1, <1>2, <2>2, <2>3 DEF HasActive
<1>4. CASE job[h].org = o
  <2>1. \A g \in Job : ~ Writes(g, o)'
    BY <1>0, <1>1, <1>2, <1>4 DEF HasActive, Writes
  <2>2. Leaves(job[h], o)
    BY <1>0, <1>1, <1>4 DEF HasActive, Writes
  <2>3. \A n \in Ws : n # job[h].ws => db'.ws[o][n] = db.ws[o][n]
    BY <1>0, <1>4, WrittenRows, WithoutWsRows DEF Write
  <2>4. job[h].what = "settings" => db'.ws[o][job[h].ws] = job[h].seen
    BY <1>0, <1>1, <1>4, Constants DEF WriteWorkspace, DB, Write, Org
  <2>5. Active(o)' # {}
    <3>1. CASE job[h].what = "settings" /\ job[h].seen = "active"
      BY <1>1, <2>4, <3>1 DEF Active, Write
    <3>2. CASE \E n \in Active(o) : n # job[h].ws
      BY <2>3, <3>2 DEF Active
    <3> QED BY <2>2, <3>1, <3>2 DEF Leaves
  <2> QED BY <2>1, <2>5 DEF HasActive, Lives
<1> QED BY <1>3, <1>4

(* and all that keeps the workspaces.                                      *)
LEMMA KeptLeaves ==
  ASSUME Typed, NEW o \in Org, HasActive(o), Kept(o)
  PROVE  HasActive(o)'
<1>1. \A h \in Job : Writes(h, o)' => Leaves(job[h], o)'
  <2> SUFFICES ASSUME NEW h \in Job, Writes(h, o)' PROVE Leaves(job[h], o)'
    OBVIOUS
  <2>1. Writes(h, o) /\ job'[h] = job[h] /\ StillActive(o)
    BY DEF Kept
  <2>2. Active(o) \subseteq Active(o)'
    BY <2>1 DEF StillActive, Active
  <2> QED BY <2>1, <2>2 DEF HasActive, Leaves
<1> QED BY <1>1 DEF HasActive, Kept

(* An organization always has an active workspace, whatever is archived,   *)
(* deleted, restored and saved, unless two requests about its workspaces   *)
(* overlapped - the FOR UPDATE of workspace_settings is lost in count() -  *)
(* or the organization is half made or half removed and has none at all.   *)
THEOREM WorkspaceStays == Spec => []WorkspaceKept
<1>1. Init => WorkspacesLeft
  BY DEF Init, WorkspacesLeft, Writes, Idle
<1>2. Linked /\ Linked' /\ SignupsPrivate /\ WorkspacesLeft /\ [Next]_vars => WorkspacesLeft'
  <2> SUFFICES ASSUME Linked, Linked', SignupsPrivate, WorkspacesLeft, [Next]_vars, NEW o \in Org, o \notin crossed'
               PROVE  HasActive(o)'
    BY DEF WorkspacesLeft, HasActive, Lives
  <2>1. Typed /\ (o \in crossed \/ HasActive(o))
    BY DEF Linked, WorkspacesLeft, HasActive, Lives
  <2>2. CASE Kept(o)
    BY <2>1, <2>2, KeptLeaves DEF Kept
  <2>3. CASE Rewritten
    BY <2>1, <2>3, ReadLeaves, WriteLeaves DEF Rewritten
  <2> QED BY <2>2, <2>3, KeptStep
<1>3. Linked /\ WorkspacesLeft => WorkspaceKept
  BY DEF WorkspacesLeft, WorkspaceKept, Linked, TypeOK, NoWorkspace
<1> QED BY <1>1, <1>2, <1>3, AlwaysLinked, AlwaysPrivate, PTL DEF Spec

-----------------------------------------------------------------------------
(***************************************************************************)
(* Owners                                                                  *)
(***************************************************************************)
(* What every step has to leave of an organization whose owners were kept. *)
Held(o) == o \in db'.orgs => o \in raced' \/ OwnersLeft(o)'

(* A request that neither takes an owner from the organization nor founds  *)
(* it.                                                                     *)
Bystander(j, o) == j.pc \notin {"regrade", "leave", "quit"} /\ ~ (j.pc = "found" /\ j.org = o)

LEMMA TakesUser ==
  ASSUME Typed, NEW g \in Job, NEW o, Takes(g, o)
  PROVE  job[g].user \in User
BY JobKinds DEF Typed, Takes, Regrading, Plain, Quitting

(* The owners are kept when no role is taken and no request begins that    *)
(* will take one.                                                          *)
LEMMA KeptHeld ==
  ASSUME Linked, OwnersStay, NEW o \in Org, o \in db'.orgs => o \in db.orgs, half \subseteq half', raced \subseteq raced',
         \A v \in User : db.role[o][v] = "owner" => db'.role[o][v] = "owner",
         \A g \in Job : Takes(g, o)' => Takes(g, o) /\ job'[g].user = job[g].user,
         \A g \in Job : Founds(g, o)' => Founds(g, o) /\ job'[g].made = job[g].made
  PROVE  Held(o)
<1> SUFFICES ASSUME o \in db'.orgs, o \notin raced' PROVE OwnersLeft(o)'
  BY DEF Held
<1>1. OwnersLeft(o) /\ Owners(db, o) \subseteq Owners(db', o)
  BY DEF OwnersStay, Owners
<1>2. Owners(db', o) # {} \/ (o \in half' /\ \A h \in Job : Founds(h, o)' => job'[h].made = 1)
  BY <1>1 DEF OwnersLeft
<1>3. \A h \in Job : Takes(h, o)' => \E v \in Owners(db', o) : v # job'[h].user
  BY <1>1 DEF OwnersLeft
<1>4. \A g, h \in Job : Takes(g, o)' /\ Takes(h, o)' => g = h
  BY <1>1 DEF OwnersLeft
<1> QED BY <1>2, <1>3, <1>4 DEF OwnersLeft

(* Most steps touch no owner.                                              *)
LEMMA SameHeld ==
  ASSUME Linked, OwnersStay, NEW o \in Org, o \in db'.orgs => o \in db.orgs, half \subseteq half', raced \subseteq raced',
         \A v \in User : db'.role[o][v] = "owner" <=> db.role[o][v] = "owner",
         \A g \in Job : job'[g] = job[g] \/ Bystander(job'[g], o)
  PROVE  Held(o)
<1>1. \A g \in Job : job[g].pc \in {"regrade", "leave", "quit"} => job[g].user \in User
  BY JobKinds DEF Linked, Typed, Regrading, Plain, Quitting
<1>2. \A g \in Job : Takes(g, o)' => Takes(g, o) /\ job'[g].user = job[g].user
  BY <1>1 DEF Takes, Bystander
<1>3. \A g \in Job : Founds(g, o)' => Founds(g, o) /\ job'[g].made = job[g].made
  BY DEF Founds, Bystander
<1> QED BY <1>2, <1>3, KeptHeld

(* An organization that is new has an owner, or its founding has begun.    *)
LEMMA FreshHeld ==
  ASSUME Linked, NEW o \in Org, o \notin db.orgs, Owners(db', o) # {} \/ o \in half',
         \A g \in Job :
           \/ job'[g] = job[g]
           \/ job'[g].pc \notin {"regrade", "leave", "quit"} /\ (job'[g].pc = "found" => job'[g].made = 1)
  PROVE  Held(o)
<1>1. JobsLinked /\ o # None
  BY Constants DEF Linked, Org
<1>2. \A g \in Job : ~ Takes(g, o)'
  BY <1>1 DEF JobsLinked, Takes
<1>3. \A g \in Job : Founds(g, o)' => job'[g].made = 1
  BY <1>1 DEF JobsLinked, Founds
<1> QED BY <1>2, <1>3 DEF Held, OwnersLeft

(* The end of an organization leaves the owners of the others alone.       *)
LEMMA OrphanedHeld ==
  ASSUME Linked, OwnersStay, NEW o \in Org, NEW d \in DB, NEW u \in Org, d.orgs = db.orgs, db' = WithoutOrg(d, u),
         o # u => \A v \in User : d.role[o][v] = "owner" <=> db.role[o][v] = "owner",
         half' = half, raced' = raced,
         \A g \in Job : job'[g] = Orphaned(job[g], u) \/ job'[g].pc \in {"idle", "settle"}
  PROVE  Held(o)
<1>1. /\ db'.orgs = db.orgs \ {u}
      /\ \A p \in Org, v \in User : db'.role[p][v] = IF p = u THEN None ELSE d.role[p][v]
  BY WithoutOrgRows
<1>2. CASE o = u
  BY <1>1, <1>2 DEF Held
<1>3. CASE o # u
  <2>0. o # None /\ Typed
    BY Constants DEF Org, Linked
  <2>1. \A v \in User : db'.role[o][v] = "owner" <=> db.role[o][v] = "owner"
    BY <1>1, <1>3
  <2>2. ASSUME NEW g \in Job, job'[g].pc \notin {"idle", "settle"}
        PROVE  /\ job[g] \in AnyJob /\ job'[g] = Orphaned(job[g], u) /\ job'[g].pc = job[g].pc /\ job'[g].user = job[g].user
               /\ job'[g].org = o => job'[g] = job[g]
               /\ job'[g].pc = "quit" => job'[g].owned \subseteq job[g].owned
    <3>1. job[g] \in AnyJob /\ job'[g] = Orphaned(job[g], u)
      BY <2>0, <2>2 DEF Typed
    <3>2. job'[g].pc = job[g].pc
      BY <3>1, OrphanedJob
    <3>3. job[g] # Idle
      BY <2>2, <3>2 DEF Idle
    <3>4. job'[g].user = job[g].user
      BY <3>1, <3>3, OrphanedJob
    <3>5. job'[g].pc = "quit" => job'[g].owned \subseteq job[g].owned
      BY <3>1, <3>2, OrphanedJob
    <3>6. ASSUME job'[g].org = o PROVE job'[g] = job[g]
      <4>1. job[g].pc # "quit"
        <5> SUFFICES ASSUME job[g].pc = "quit" PROVE FALSE
          OBVIOUS
        <5>1. job[g].org = None
          BY <3>1, JobKinds DEF Quitting
        <5>2. job'[g].org \in {job[g].org, None}
          BY <3>1, OrphanedJob
        <5> QED BY <2>0, <3>6, <5>1, <5>2
      <4>2. job'[g].org \in {job[g].org, None} /\ job'[g].org # None
        BY <2>0, <2>2, <3>1, <3>2, <3>6, OrphanedJob
      <4>3. job[g].org = o
        BY <3>6, <4>2
      <4> QED BY <1>3, <3>1, <4>1, <4>3, OrphanedJob
    <3> QED BY <3>1, <3>2, <3>4, <3>5, <3>6
  <2>3. ASSUME NEW g \in Job, Takes(g, o)' PROVE Takes(g, o) /\ job'[g].user = job[g].user
    <3>1. job'[g].pc \in {"regrade", "leave", "quit"}
      BY <2>3 DEF Takes
    <3>2. /\ job[g] \in AnyJob /\ job'[g].pc = job[g].pc /\ job'[g].user = job[g].user
          /\ job'[g].org = o => job'[g] = job[g]
          /\ job'[g].pc = "quit" => job'[g].owned \subseteq job[g].owned
      BY <2>2, <3>1
    <3>3. job[g].user \in User
      BY <3>1, <3>2, JobKinds DEF Regrading, Plain, Quitting
    <3> QED BY <2>1, <2>3, <3>2, <3>3 DEF Takes
  <2>4. ASSUME NEW g \in Job, Founds(g, o)' PROVE Founds(g, o) /\ job'[g].made = job[g].made
    BY <2>2, <2>4 DEF Founds
  <2>5. o \in db'.orgs => o \in db.orgs
    BY <1>1
  <2> QED BY <2>1, <2>3, <2>4, <2>5, KeptHeld
<1> QED BY <1>2, <1>3

(* A founding that begins makes an organization that is half made.         *)
LEMMA BegunHeld ==
  ASSUME Linked, OwnersStay, NEW o \in Org, NEW h \in Job, NEW by \in User \cup {None}, NEW u \in User,
         NEW rest \in SUBSET User, Begins(h, by, u, rest), raced' = raced
  PROVE  Held(o)
<1>1. /\ Typed /\ u \in Org /\ u \notin db.orgs /\ \A g \in Job \ {h} : job'[g] = job[g]
      /\ job'[h].pc = "found" /\ job'[h].org = u /\ job'[h].made = 1
      /\ db'.orgs = db.orgs \cup {u} /\ half' = half \cup {u}
      /\ \A p \in Org, v \in User : db'.role[p][v] = db.role[p][v]
  BY BegunRows DEF Linked
<1>2. CASE o # u
  <2>1. \A g \in Job : job'[g] = job[g] \/ Bystander(job'[g], o)
    BY <1>1, <1>2 DEF Bystander
  <2> QED BY <1>1, <1>2, <2>1, SameHeld
<1>3. CASE o = u
  BY <1>1, <1>3, FreshHeld
<1> QED BY <1>2, <1>3

(* A signup makes an owner or breaks off before it.                        *)
LEMMA MadeHeld ==
  ASSUME Linked, OwnersStay, NEW o \in Org, NEW u \in User, u \notin db.orgs, NEW k \in 0 .. 4,
         Makes(1 .. k, u, db, db'), half' = IF k \in {0, 4} THEN half ELSE half \cup {u}, raced' = raced,
         \A g \in Job : job'[g] = job[g] \/ job'[g].pc = "join"
  PROVE  Held(o)
<1>0. /\ u \in Org /\ (1 \in 1 .. k <=> k >= 1) /\ (2 \in 1 .. k <=> k >= 2)
      /\ db'.orgs = IF 1 \in 1 .. k THEN db.orgs \cup {u} ELSE db.orgs
      /\ \A p \in Org, v \in User : db'.role[p][v] = IF 2 \in 1 .. k /\ p = u /\ v = u THEN "owner" ELSE db.role[p][v]
  BY DEF Makes, Org
<1>1. CASE o # u
  <2>1. \A g \in Job : job'[g] = job[g] \/ Bystander(job'[g], o)
    BY DEF Bystander
  <2> QED BY <1>0, <1>1, <2>1, SameHeld
<1>2. CASE o = u /\ k = 0
  BY <1>0, <1>2 DEF Held
<1>3. CASE o = u /\ k > 0
  <2>1. Owners(db', o) # {} \/ o \in half'
    <3>1. CASE k >= 2
      BY <1>0, <1>3, <3>1 DEF Owners
    <3>2. CASE k = 1
      BY <1>3, <3>2
    <3> QED BY <1>3, <3>1, <3>2
  <2> QED BY <1>3, <2>1, FreshHeld
<1> QED BY <1>1, <1>2, <1>3

(* A request that has counted the owners and begins to take one: another   *)
(* is left, and it overlaps no other or is noted in raced.                 *)
LEMMA TakingHeld ==
  ASSUME Linked, OwnersStay, NEW o \in Org, NEW h \in Job, NEW j \in AnyJob, Starts(h, j), NEW S,
         db' = db, half' = half, raced' = raced \cup Overlapped(h, S), j.pc \in {"regrade", "leave", "quit"},
         Takes(h, o)' => o \in S /\ \E v \in Owners(db, o) : v # j.user
  PROVE  Held(o)
<1> SUFFICES ASSUME o \in db.orgs, o \notin raced' PROVE OwnersLeft(o)'
  BY DEF Held
<1>1. OwnersLeft(o) /\ o \notin Overlapped(h, S)
  BY DEF OwnersStay
<1>2. job'[h] = j /\ \A g \in Job \ {h} : job'[g] = job[g]
  BY JobStarted DEF Linked
<1>3. \A g \in Job : Takes(g, o)' => g = h \/ Takes(g, o)
  BY <1>2 DEF Takes
<1>4. Takes(h, o)' => \A g \in Job \ {h} : ~ Takes(g, o)
  BY <1>1 DEF Overlapped
<1>5. \A g \in Job : Founds(g, o)' => Founds(g, o) /\ job'[g] = job[g]
  BY <1>2 DEF Founds
<1>6. Owners(db', o) = Owners(db, o)
  OBVIOUS
<1>7. Owners(db', o) # {} \/ (o \in half' /\ \A g \in Job : Founds(g, o)' => job'[g].made = 1)
  BY <1>1, <1>5, <1>6 DEF OwnersLeft
<1>8. \A g \in Job : Takes(g, o)' => \E v \in Owners(db', o) : v # job'[g].user
  BY <1>1, <1>2, <1>3, <1>6 DEF OwnersLeft
<1>9. \A f, g \in Job : Takes(f, o)' /\ Takes(g, o)' => f = g
  <2> SUFFICES ASSUME NEW f \in Job, NEW g \in Job, Takes(f, o)', Takes(g, o)' PROVE f = g
    OBVIOUS
  <2>1. CASE f # h /\ g # h
    BY <1>1, <1>3, <2>1 DEF OwnersLeft
  <2>2. CASE f = h \/ g = h
    BY <1>3, <1>4, <2>2
  <2> QED BY <2>1, <2>2
<1> QED BY <1>7, <1>8, <1>9 DEF OwnersLeft

(* The request that takes the role of an owner was the only one about to,  *)
(* and leaves the other owner it had counted.                              *)
LEMMA TakenHeld ==
  ASSUME Linked, OwnersStay, NEW o \in Org, NEW h \in Job, NEW u \in User, db'.orgs = db.orgs, half' = half,
         raced \subseteq raced', \A g \in Job \ {h} : job'[g] = job[g], Bystander(job'[h], o),
         \A v \in User \ {u} : db'.role[o][v] = "owner" <=> db.role[o][v] = "owner",
         db'.role[o][u] = "owner" => db.role[o][u] = "owner",
         db.role[o][u] = "owner" => db'.role[o][u] = "owner" \/ o \in raced' \/ (Takes(h, o) /\ job[h].user = u)
  PROVE  Held(o)
<1>1. CASE db.role[o][u] = "owner" <=> db'.role[o][u] = "owner"
  BY <1>1, SameHeld
<1>2. CASE db.role[o][u] = "owner" /\ db'.role[o][u] # "owner"
  <2> SUFFICES ASSUME o \in db.orgs, o \notin raced' PROVE OwnersLeft(o)'
    BY DEF Held
  <2>1. OwnersLeft(o) /\ Takes(h, o) /\ job[h].user = u
    BY <1>2 DEF OwnersStay
  <2>2. PICK v \in Owners(db, o) : v # u
    BY <2>1 DEF OwnersLeft
  <2>3. v \in Owners(db', o)
    BY <2>2 DEF Owners
  <2>4. ASSUME NEW g \in Job, Takes(g, o)' PROVE FALSE
    <3>1. g # h /\ job'[g] = job[g]
      BY <2>4 DEF Takes, Bystander
    <3>2. job[g].user \in User
      BY <2>4, <3>1, JobKinds DEF Takes, Linked, Typed, Regrading, Plain, Quitting
    <3>3. Takes(g, o)
      BY <2>4, <3>1, <3>2 DEF Takes
    <3> QED BY <2>1, <3>1, <3>3 DEF OwnersLeft
  <2> QED BY <2>3, <2>4 DEF OwnersLeft
<1> QED BY <1>1, <1>2

(* "Cannot remove the last owner": the code's count leaves another one.    *)
LEMMA UnsparedLeaves ==
  ASSUME NEW o \in Org, NEW u \in User, ~ Spared(o, u), db.role[o][u] = "owner"
  PROVE  \E v \in Owners(db, o) : v # u
<1> SUFFICES ASSUME \A v \in Owners(db, o) : v = u PROVE FALSE
  OBVIOUS
<1>1. Owners(db, o) = {u}
  BY DEF Owners
<1>2. Cardinality(Owners(db, o)) = 1
  BY <1>1, FS_Singleton
<1> QED BY <1>2 DEF Spared

(* A step leaves every organization an owner, or what is named above.      *)
LEMMA OwnersNext ==
  ASSUME Linked, Linked', SignupsPrivate, FoundingsBare, OwnersStay, [Next]_vars, NEW o \in Org
  PROVE  Held(o)
<1> USE DEF ghosts
<1>0. /\ Linked /\ Typed /\ Typed' /\ TypeOK /\ db \in DB /\ db' \in DB /\ o \in Org
  BY DEF Linked, Typed
<1>1. CASE UNCHANGED vars
  BY <1>0, <1>1, SameHeld DEF vars
<1>2. ASSUME NEW u \in User, SignUp(u) PROVE Held(o)
  <2>1. u \notin db.orgs /\ job' = job /\ raced' = raced
    BY <1>2 DEF SignUp
  <2>2. PICK k \in 0 .. 4 : Makes(1 .. k, u, db, db') /\ half' = IF k \in {0, 4} THEN half ELSE half \cup {u}
    BY <1>0, <1>2, SignUpRows
  <2> QED BY <1>0, <2>1, <2>2, MadeHeld
<1>3. ASSUME NEW u \in User, NEW h \in Job, DeleteAccount(h, u) PROVE Held(o)
  <2> DEFINE j == [pc |-> "quit", user |-> u, org |-> None, owned |-> Owned(u)]
  <2>1. /\ j \in AnyJob /\ j.pc = "quit" /\ j.user = u /\ j.owned = Owned(u) /\ Starts(h, j)
        /\ db' = db /\ half' = half /\ raced' = raced \cup Overlapped(h, Owned(u))
        /\ \A p \in Owned(u) : Owners(db, p) # {u}
    BY <1>3 DEF DeleteAccount, AnyJob, Quitting, Owned
  <2> HIDE DEF j
  <2>2. job'[h] = j
    BY <1>0, <2>1, JobStarted
  <2>3. ASSUME Takes(h, o)' PROVE o \in Owned(u) /\ \E v \in Owners(db, o) : v # u
    <3>1. o \in Owned(u)
      BY <2>1, <2>2, <2>3 DEF Takes
    <3>2. u \in Owners(db, o)
      BY <3>1 DEF Owned, Owners
    <3> QED BY <2>1, <3>1, <3>2
  <2> QED BY <1>0, <2>1, <2>3, TakingHeld
<1>4. ASSUME NEW u \in User, NEW p \in Org, CleanUp(u, p) PROVE Held(o)
  <2>1. /\ db' = WithoutOrg(db, p) /\ raced' = raced /\ half' = half
        /\ \A g \in Job : job'[g] = Orphaned(job[g], p)
    BY <1>4 DEF CleanUp
  <2> QED BY <1>0, <2>1, OrphanedHeld
<1>5. ASSUME NEW u \in User, NEW h \in Job, ReadProfile(h, u) PROVE Held(o)
  <2>1. db'.role = db.role /\ db'.orgs = db.orgs /\ half' = half /\ raced' = raced
    BY <1>5 DEF ReadProfile
  <2>2. \A g \in Job : job'[g] = job[g] \/ Bystander(job'[g], o)
    BY <1>0, <1>5 DEF ReadProfile, Starts, Purge, Typed, Bystander
  <2> QED BY <1>0, <2>1, <2>2, SameHeld
<1>6. ASSUME NEW h \in Job, NEW u \in User, NEW i \in Inv, SignUpInvited(h, u, i) PROVE Held(o)
  <2>1. u \notin db.orgs /\ half' = half /\ raced' = raced /\ Makes(1 .. 4, u, db, db')
    BY <1>0, <1>6, FoundedRows DEF SignUpInvited
  <2>2. \A g \in Job : job'[g] = job[g] \/ job'[g].pc = "join"
    BY <1>0, <1>6 DEF SignUpInvited, Starts, Typed
  <2>3. 4 \in 0 .. 4 /\ half' = IF 4 \in {0, 4} THEN half ELSE half \cup {u}
    BY <2>1
  <2> QED BY <1>0, <2>1, <2>2, <2>3, MadeHeld
<1>7. ASSUME NEW h \in Job, NEW u \in User, NEW i \in Inv, Accept(h, u, i) PROVE Held(o)
  <2>1. db'.role = db.role /\ db'.orgs = db.orgs /\ half' = half /\ raced' = raced
    BY <1>7 DEF Accept
  <2>2. \A g \in Job : job'[g] = job[g] \/ Bystander(job'[g], o)
    BY <1>0, <1>7 DEF Accept, Starts, Purge, Typed, Bystander
  <2> QED BY <1>0, <2>1, <2>2, SameHeld
<1>8. ASSUME NEW a \in User, NEW u \in User, NEW p \in Org, NEW S \in SUBSET Ws, SetWorkspaces(a, p, u, S)
       PROVE  Held(o)
  <2>0. PICK acc : db' = [db EXCEPT !.access = acc]
    BY <1>8, Zenon DEF SetWorkspaces, Assigned
  <2>1. db'.role = db.role /\ db'.orgs = db.orgs /\ half' = half /\ raced' = raced
    BY <1>0, <1>8, <2>0 DEF DB, SetWorkspaces
  <2>2. job' = job
    BY <1>8 DEF SetWorkspaces
  <2> QED BY <1>0, <2>1, <2>2, SameHeld
<1>9. ASSUME NEW a \in User, NEW u \in User, NEW p \in Org, NEW S \in SUBSET Ws, NEW r \in Invited \cup {"owner"},
             CreateMember(a, p, u, r, S)
       PROVE  Held(o)
  <2>0. PICK acc : db' = [db EXCEPT !.role[p][u] = r, !.access = acc]
    BY <1>9, Zenon DEF CreateMember
  <2>1. /\ db'.orgs = db.orgs /\ half' = half /\ raced' = raced /\ job' = job
        /\ \A q \in Org, v \in User : db'.role[q][v] = IF q = p /\ v = u THEN r ELSE db.role[q][v]
    <3>1. db'.orgs = db.orgs /\ db'.role = [db.role EXCEPT ![p][u] = r]
      BY <1>0, <2>0 DEF DB
    <3>2. \A q \in Org, v \in User : [db.role EXCEPT ![p][u] = r][q][v] = IF q = p /\ v = u THEN r ELSE db.role[q][v]
      BY <1>0 DEF DB
    <3>3. half' = half /\ raced' = raced /\ job' = job
      BY <1>9 DEF CreateMember
    <3> QED BY <3>1, <3>2, <3>3
  <2>2. /\ \A q \in Org : db.role[q][u] = None
        /\ \A g \in Job : job[g] = Idle \/ job[g].user # u
    BY <1>0, <1>9 DEF CreateMember, New, Requesting, TypeOK
  <2>3. \A v \in User : db.role[o][v] = "owner" => db'.role[o][v] = "owner"
    BY <2>1, <2>2 DEF None
  <2>4. ASSUME NEW g \in Job, Takes(g, o)' PROVE Takes(g, o)
    <3>1. job[g].pc \in {"regrade", "leave", "quit"} /\ job[g] \in AnyJob
      BY <1>0, <2>1, <2>4 DEF Takes, Typed
    <3>2. job[g].user \in User /\ job[g] # Idle
      BY <3>1, JobKinds DEF Regrading, Plain, Quitting, Idle
    <3> QED BY <2>1, <2>2, <2>4, <3>2 DEF Takes
  <2>5. \A g \in Job : Founds(g, o)' => Founds(g, o)
    BY <2>1 DEF Founds
  <2> QED BY <1>0, <2>1, <2>3, <2>4, <2>5, KeptHeld
<1>10. ASSUME NEW a \in User, NEW u \in User, NEW p \in Org, NEW i \in Inv, NEW r \in Invited, NEW n \in 0 .. MaxWs,
              Invite(a, p, i, u, r, n)
       PROVE  Held(o)
  <2>1. db'.role = db.role /\ db'.orgs = db.orgs /\ half' = half /\ raced' = raced
    BY <1>10 DEF Invite, Invites
  <2>2. job' = job
    BY <1>10 DEF Invite, Invites
  <2> QED BY <1>0, <2>1, <2>2, SameHeld
<1>11. ASSUME NEW a \in User, NEW u \in User, NEW p \in Org, NEW i \in Inv, NEW n \in Ws,
              InviteToWorkspace(a, p, i, u, n)
       PROVE  Held(o)
  <2>1. db'.role = db.role /\ db'.orgs = db.orgs /\ half' = half /\ raced' = raced
    BY <1>11 DEF InviteToWorkspace, Invites
  <2>2. job' = job
    BY <1>11 DEF InviteToWorkspace, Invites
  <2> QED BY <1>0, <2>1, <2>2, SameHeld
<1>12. ASSUME NEW h \in Job, NEW a \in User, NEW u \in User, NEW p \in Org, NEW r \in Grades, UpdateRole(h, a, p, u, r)
       PROVE  Held(o)
  <2> DEFINE j == [pc |-> "regrade", user |-> u, org |-> p, role |-> r]
  <2>1. /\ j \in AnyJob /\ j.pc = "regrade" /\ j.user = u /\ j.org = p
        /\ Starts(h, j) /\ db' = db /\ half' = half /\ ~ Spared(p, u)
        /\ raced' = raced \cup Overlapped(h, {p} \cap Owned(u))
    BY <1>12 DEF UpdateRole, AnyJob, Regrading, Maybe
  <2> HIDE DEF j
  <2>2. job'[h] = j
    BY <1>0, <2>1, JobStarted
  <2>3. ASSUME Takes(h, o)' PROVE o \in {p} \cap Owned(u) /\ \E v \in Owners(db, o) : v # u
    <3>1. o = p /\ db.role[o][u] = "owner"
      BY <2>1, <2>2, <2>3 DEF Takes
    <3>2. o \in Owned(u)
      BY <1>0, <3>1 DEF Owned
    <3> QED BY <1>0, <2>1, <3>1, <3>2, UnsparedLeaves
  <2> QED BY <1>0, <2>1, <2>3, TakingHeld
<1>13. ASSUME NEW h \in Job, NEW a \in User, NEW u \in User, NEW p \in Org, RemoveMember(h, a, p, u)
       PROVE  Held(o)
  <2> DEFINE j == [pc |-> "leave", user |-> u, org |-> p]
  <2>1. /\ j \in AnyJob /\ j.pc = "leave" /\ j.user = u /\ j.org = p
        /\ Starts(h, j) /\ db' = db /\ half' = half /\ ~ Spared(p, u)
        /\ raced' = raced \cup Overlapped(h, {p} \cap Owned(u))
    BY <1>13 DEF RemoveMember, AnyJob, Plain, Maybe
  <2> HIDE DEF j
  <2>2. job'[h] = j
    BY <1>0, <2>1, JobStarted
  <2>3. ASSUME Takes(h, o)' PROVE o \in {p} \cap Owned(u) /\ \E v \in Owners(db, o) : v # u
    <3>1. o = p /\ db.role[o][u] = "owner"
      BY <2>1, <2>2, <2>3 DEF Takes
    <3>2. o \in Owned(u)
      BY <1>0, <3>1 DEF Owned
    <3> QED BY <1>0, <2>1, <3>1, <3>2, UnsparedLeaves
  <2> QED BY <1>0, <2>1, <2>3, TakingHeld
<1>14. ASSUME NEW a \in User, NEW u \in User, NEW p \in Org, NEW n \in Ws, LeaveWorkspace(a, p, n, u)
       PROVE  Held(o)
  <2>1. db'.role = db.role /\ db'.orgs = db.orgs /\ half' = half /\ raced' = raced
    BY <1>0, <1>14 DEF LeaveWorkspace, DB
  <2>2. job' = job
    BY <1>14 DEF LeaveWorkspace
  <2> QED BY <1>0, <2>1, <2>2, SameHeld
<1>15. ASSUME NEW i \in Inv, Revoke(i) PROVE Held(o)
  <2>1. db'.role = db.role /\ db'.orgs = db.orgs /\ half' = half /\ raced' = raced
    BY <1>15 DEF Revoke
  <2>2. job' = job
    BY <1>15 DEF Revoke
  <2> QED BY <1>0, <2>1, <2>2, SameHeld
<1>16. ASSUME NEW a \in User, NEW i \in Inv, Resend(a, i) PROVE Held(o)
  <2>1. db'.role = db.role /\ db'.orgs = db.orgs /\ half' = half /\ raced' = raced
    BY <1>16 DEF Resend
  <2>2. job' = job
    BY <1>16 DEF Resend
  <2> QED BY <1>0, <2>1, <2>2, SameHeld
<1>17. ASSUME NEW u \in User, NEW p \in Org, CreateWorkspace(u, p) PROVE Held(o)
  <2>1. db'.role = db.role /\ db'.orgs = db.orgs /\ half' = half /\ raced' = raced /\ job' = job
    BY <1>0, <1>17 DEF CreateWorkspace, DB
  <2> QED BY <1>0, <2>1, SameHeld
<1>18. ASSUME NEW u \in User, NEW p \in Org, NEW n \in Ws, Unarchive(u, p, n) PROVE Held(o)
  <2>1. db'.role = db.role /\ db'.orgs = db.orgs /\ half' = half /\ raced' = raced /\ job' = job
    BY <1>0, <1>18 DEF Unarchive, DB
  <2> QED BY <1>0, <2>1, SameHeld
<1>19. ASSUME NEW h \in Job, NEW u \in User, NEW p \in Org, AskDeletion(h, u, p) PROVE Held(o)
  <2>1. db'.role = db.role /\ db'.orgs = db.orgs /\ half' = half /\ raced' = raced
    BY <1>0, <1>19 DEF AskDeletion, DB
  <2>2. \A g \in Job : job'[g] = job[g] \/ Bystander(job'[g], o)
    BY <1>0, <1>19 DEF AskDeletion, Starts, Purge, Typed, Bystander
  <2> QED BY <1>0, <2>1, <2>2, SameHeld
<1>20. ASSUME NEW h \in Job, NEW u \in User, NEW p \in Org, AskCancel(h, u, p) PROVE Held(o)
  <2>1. db'.role = db.role /\ db'.orgs = db.orgs /\ half' = half /\ raced' = raced
    BY <1>0, <1>20 DEF AskCancel, DB
  <2>2. \A g \in Job : job'[g] = job[g] \/ Bystander(job'[g], o)
    BY <1>0, <1>20 DEF AskCancel, Starts, Purge, Typed, Bystander
  <2> QED BY <1>0, <2>1, <2>2, SameHeld
<1>21. ASSUME NEW h \in Job, NEW u \in User, NEW p \in Org, DeleteNow(h, u, p) PROVE Held(o)
  <2>1. db'.role = db.role /\ db'.orgs = db.orgs /\ half' = half /\ raced' = raced
    BY <1>0, <1>21 DEF DeleteNow, DB
  <2>2. \A g \in Job : job'[g] = job[g] \/ Bystander(job'[g], o)
    BY <1>0, <1>21 DEF DeleteNow, Starts, Purge, Typed, Bystander
  <2> QED BY <1>0, <2>1, <2>2, SameHeld
<1>22. ASSUME NEW h \in Job, NEW u \in User, NEW p \in Org, NEW n \in Ws,
              NEW what \in {"archive", "delete", "settings"}, ReadWorkspace(h, u, p, n, what)
       PROVE  Held(o)
  <2>1. db' = db /\ half' = half /\ raced' = raced
    BY <1>22 DEF ReadWorkspace
  <2>2. \A g \in Job : job'[g] = job[g] \/ Bystander(job'[g], o)
    BY <1>0, <1>22 DEF ReadWorkspace, Starts, Typed, Bystander
  <2> QED BY <1>0, <2>1, <2>2, SameHeld
<1>23. ASSUME NEW h \in Job, SaveProfile(h) PROVE Held(o)
  <2>0. job[h].user \in User /\ raced' = raced
    BY <1>0, <1>23, JobKinds DEF Typed, SaveProfile, Plain
  <2>1. CASE Begins(h, job[h].user, job[h].user, {})
    BY <1>0, <2>0, <2>1, BegunHeld
  <2>2. CASE Ends(h) /\ UNCHANGED << db, half >>
    <3>1. \A g \in Job : job'[g] = job[g] \/ Bystander(job'[g], o)
      BY <1>0, <2>2 DEF Ends, Typed, Idle, Bystander
    <3> QED BY <1>0, <2>0, <2>2, <3>1, SameHeld
  <2> QED BY <1>23, <2>1, <2>2 DEF SaveProfile
<1>24. ASSUME NEW h \in Job, Join(h) PROVE Held(o)
  <2>0. job[h] \in Acceptance /\ job[h].pc = "join" /\ job[h].role \in Grades /\ half' = half /\ raced' = raced
    BY <1>0, <1>24, JobKinds DEF Typed, Join, Accepting, Acceptance
  <2>1. CASE Ends(h) /\ db' = db
    <3>1. \A g \in Job : job'[g] = job[g] \/ Bystander(job'[g], o)
      BY <1>0, <2>1 DEF Ends, Typed, Idle, Bystander
    <3> QED BY <1>0, <2>0, <2>1, <3>1, SameHeld
  <2>2. CASE /\ job[h].org # None /\ job' = [job EXCEPT ![h].pc = "assign"]
             /\ db' = IF db.role[job[h].org][job[h].user] = None
                      THEN [db EXCEPT !.role[job[h].org][job[h].user] = job[h].role] ELSE db
    <3>1. job[h].org \in Org /\ job[h].user \in User
      BY <2>0, <2>2 DEF Acceptance, Maybe
    <3>2. /\ db'.orgs = db.orgs
          /\ \A v \in User : db'.role[o][v] = IF o = job[h].org /\ v = job[h].user /\ db.role[o][v] = None
                                              THEN job[h].role ELSE db.role[o][v]
      BY <1>0, <2>2, <3>1 DEF DB
    <3>3. \A v \in User : db'.role[o][v] = "owner" <=> db.role[o][v] = "owner"
      BY <2>0, <3>2 DEF Grades, None
    <3>4. \A g \in Job : job'[g] = job[g] \/ Bystander(job'[g], o)
      BY <1>0, <2>0, <2>2 DEF Typed, Acceptance, Bystander
    <3> QED BY <1>0, <2>0, <3>2, <3>3, <3>4, SameHeld
  <2> QED BY <1>24, <2>1, <2>2 DEF Join
<1>25. ASSUME NEW h \in Job, Assign(h) PROVE Held(o)
  <2>1. db'.role = db.role /\ db'.orgs = db.orgs /\ half' = half /\ raced' = raced
    BY <1>0, <1>25 DEF Assign, DB
  <2>2. job[h] \in Acceptance /\ job[h].pc \in Accepting
    BY <1>0, <1>25, JobKinds DEF Typed, Assign, Accepting
  <2>3. Ends(h) \/ \E c \in {"assign", "mark", "clean"} : job' = [job EXCEPT ![h].pc = c]
    BY <1>25 DEF Assign
  <2>4. Bystander(job'[h], o) /\ \A g \in Job \ {h} : job'[g] = job[g]
    BY <1>0, <2>2, <2>3 DEF Ends, Typed, Idle, Acceptance, Bystander
  <2> QED BY <1>0, <2>1, <2>4, SameHeld
<1>26. ASSUME NEW h \in Job, Mark(h) PROVE Held(o)
  <2>1. db'.role = db.role /\ db'.orgs = db.orgs /\ half' = half /\ raced' = raced
    BY <1>0, <1>26 DEF Mark, DB
  <2>2. job[h] \in Acceptance /\ job[h].pc \in Accepting
    BY <1>0, <1>26, JobKinds DEF Typed, Mark, Accepting
  <2>3. Ends(h) \/ \E c \in {"assign", "mark", "clean"} : job' = [job EXCEPT ![h].pc = c]
    BY <1>26 DEF Mark
  <2>4. Bystander(job'[h], o) /\ \A g \in Job \ {h} : job'[g] = job[g]
    BY <1>0, <2>2, <2>3 DEF Ends, Typed, Idle, Acceptance, Bystander
  <2> QED BY <1>0, <2>1, <2>4, SameHeld
<1>27. ASSUME NEW h \in Job, Clean(h) PROVE Held(o)
  <2> DEFINE u == job[h].user
             left == Leaving(u, job[h].org)
             alone == Alone(u, job[h].org)
  <2>1. /\ u \in Org /\ u \in User /\ job[h] \in Acceptance
        /\ db' = IF alone THEN WithoutOrg(left, u) ELSE left
        /\ job' = [g \in Job |-> IF g = h THEN Idle ELSE IF alone THEN Orphaned(job[g], u) ELSE job[g]]
    BY <1>0, <1>27, CleanRows
  <2>2. /\ left \in DB /\ left.orgs = db.orgs
        /\ \A p \in Org, v \in User : left.role[p][v] = IF v = u /\ p # job[h].org THEN None ELSE db.role[p][v]
    BY <1>0, <2>1, LeavingRows
  <2>3. raced' = raced /\ half' = half /\ Idle.pc = "idle"
    BY <1>27 DEF Clean, Idle
  <2>4. Secluded(u) /\ Humble(u)
    <3>1. job[h].pc = "clean" /\ job[h].signup
      BY <1>0, <1>27, JobKinds DEF Clean, Typed
    <3> QED BY <3>1 DEF SignupsPrivate, SigningUp
  <2>5. o # u => \A v \in User : left.role[o][v] = "owner" <=> db.role[o][v] = "owner"
    BY <1>0, <2>2, <2>4 DEF Humble, None
  <2>6. u # job[h].org /\ ~ alone => db.role[u][u] = None
    <3> SUFFICES ASSUME u # job[h].org, db.role[u][u] # None PROVE alone
      OBVIOUS
    <3>1. \A v \in User : left.role[u][v] = None
      BY <2>1, <2>2, <2>4 DEF Secluded
    <3> QED BY <3>1 DEF Alone, Members
  <2>7. ~ alone => \A v \in User : left.role[u][v] = "owner" <=> db.role[u][v] = "owner"
    BY <2>1, <2>2, <2>6 DEF None
  <2> HIDE DEF u, left, alone
  <2>8. CASE alone
    <3>1. \A g \in Job : job'[g] = Orphaned(job[g], u) \/ job'[g].pc \in {"idle", "settle"}
      BY <2>1, <2>3, <2>8
    <3> QED BY <1>0, <2>1, <2>2, <2>3, <2>5, <2>8, <3>1, OrphanedHeld
  <2>9. CASE ~ alone
    <3>1. \A g \in Job : job'[g] = job[g] \/ Bystander(job'[g], o)
      BY <2>1, <2>3, <2>9 DEF Bystander
    <3>2. \A v \in User : db'.role[o][v] = "owner" <=> db.role[o][v] = "owner"
      BY <2>1, <2>5, <2>7, <2>9
    <3>3. db'.orgs = db.orgs
      BY <2>1, <2>2, <2>9
    <3> QED BY <1>0, <2>3, <3>1, <3>2, <3>3, SameHeld
  <2> QED BY <2>8, <2>9
<1>28. ASSUME NEW h \in Job, Deactivate(h) PROVE Held(o)
  <2>1. db'.role = db.role /\ db'.orgs = db.orgs /\ half' = half /\ raced' = raced
    BY <1>28 DEF Deactivate
  <2>2. \A g \in Job : job'[g] = job[g] \/ Bystander(job'[g], o)
    BY <1>0, <1>28 DEF Deactivate, Ends, Typed, Idle, Bystander
  <2> QED BY <1>0, <2>1, <2>2, SameHeld
<1>29. ASSUME NEW h \in Job, WriteWorkspace(h) PROVE Held(o)
  <2>0. half' = half /\ raced' = raced
    BY <1>29 DEF WriteWorkspace
  <2>1. db'.role = db.role /\ db'.orgs = db.orgs
    BY <1>0, <1>29, WrittenRows
  <2>2. \A g \in Job : job'[g] = job[g] \/ Bystander(job'[g], o)
    BY <1>0, <1>29 DEF WriteWorkspace, Ends, Typed, Idle, Bystander
  <2> QED BY <1>0, <2>0, <2>1, <2>2, SameHeld
<1>30. ASSUME NEW h \in Job, Schedule(h) PROVE Held(o)
  <2>1. db'.role = db.role /\ db'.orgs = db.orgs /\ half' = half /\ raced' = raced
    BY <1>0, <1>30 DEF Schedule, Delayed, DB
  <2>2. \A g \in Job : job'[g] = job[g] \/ Bystander(job'[g], o)
    BY <1>0, <1>30 DEF Schedule, Ends, Typed, Idle, Bystander
  <2> QED BY <1>0, <2>1, <2>2, SameHeld
<1>31. ASSUME NEW h \in Job, Clear(h) PROVE Held(o)
  <2>1. db'.role = db.role /\ db'.orgs = db.orgs /\ half' = half /\ raced' = raced
    BY <1>0, <1>31 DEF Clear, DB
  <2>2. \A g \in Job : job'[g] = job[g] \/ Bystander(job'[g], o)
    BY <1>0, <1>31 DEF Clear, Ends, Typed, Idle, Bystander
  <2> QED BY <1>0, <2>1, <2>2, SameHeld
<1>32. ASSUME NEW h \in Job, NEW p \in Org, RunTask(h, p) PROVE Held(o)
  <2>1. db'.role = db.role /\ db'.orgs = db.orgs /\ half' = half /\ raced' = raced
    BY <1>0, <1>32 DEF RunTask, DB
  <2>2. \A g \in Job : job'[g] = job[g] \/ Bystander(job'[g], o)
    BY <1>0, <1>32 DEF RunTask, Starts, Purge, Typed, Bystander
  <2> QED BY <1>0, <2>1, <2>2, SameHeld
<1>33. ASSUME NEW h \in Job, DeleteOrg(h) PROVE Held(o)
  <2> DEFINE q == job[h].org
             next == [job[h] EXCEPT !.pc = "settle"]
  <2>0. raced' = raced /\ half' = half /\ next.pc = "settle"
    BY <1>0, <1>33, PurgedRows DEF DeleteOrg
  <2>1. CASE q = None
    <3>1. db' = db /\ job' = [job EXCEPT ![h] = next]
      BY <1>0, <1>33, <2>1, PurgedRows
    <3> HIDE DEF next
    <3>2. \A g \in Job : job'[g] = job[g] \/ Bystander(job'[g], o)
      BY <1>0, <2>0, <3>1 DEF Typed, Bystander
    <3> QED BY <1>0, <2>0, <3>1, <3>2, SameHeld
  <2>2. CASE q # None
    <3>1. /\ q \in Org /\ db' = WithoutOrg(db, q)
          /\ job' = [g \in Job |-> IF g = h THEN next ELSE Orphaned(job[g], q)]
      BY <1>0, <1>33, <2>2, PurgedRows
    <3> HIDE DEF next, q
    <3>2. \A g \in Job : job'[g] = Orphaned(job[g], q) \/ job'[g].pc \in {"idle", "settle"}
      BY <2>0, <3>1
    <3> QED BY <1>0, <2>0, <3>1, <3>2, OrphanedHeld
  <2> QED BY <2>1, <2>2
<1>34. ASSUME NEW h \in Job, NEW u \in User, Settle(h, u) PROVE Held(o)
  <2>1. /\ job[h].user \in User \cup {None} /\ job[h].rest \ {u} \in SUBSET User
        /\ \A g \in Job \ {h} : job'[g] = job[g]
    BY <1>0, <1>34, SettledRows DEF Purging
  <2>2. CASE raced' = raced /\ Begins(h, job[h].user, u, job[h].rest \ {u})
    BY <1>0, <2>1, <2>2, BegunHeld
  <2>3. CASE /\ half' = half /\ (job'[h] = Idle \/ (job'[h] \in Purging /\ job'[h].pc = "settle"))
             /\ \/ raced' = raced /\ db' = db
                \/ raced' = raced \cup Owned(u) /\ db' = WithoutUser(db, u)
    <3>1. Bystander(job'[h], o)
      BY <2>3 DEF Idle, Bystander
    <3>2. CASE raced' = raced /\ db' = db
      BY <1>0, <2>1, <2>3, <3>1, <3>2, SameHeld
    <3>3. CASE raced' = raced \cup Owned(u) /\ db' = WithoutUser(db, u)
      <4>1. /\ db'.orgs = db.orgs
            /\ \A v \in User : db'.role[o][v] = IF v = u THEN None ELSE db.role[o][v]
        BY <1>0, <3>3, WithoutUserRows
      <4>2. db.role[o][u] = "owner" => o \in raced'
        BY <1>0, <3>3 DEF Owned
      <4>3. db'.role[o][u] # "owner"
        BY <4>1 DEF None
      <4> QED BY <1>0, <2>1, <2>3, <3>1, <3>3, <4>1, <4>2, <4>3, TakenHeld
    <3> QED BY <2>3, <3>2, <3>3
  <2> QED BY <1>0, <1>34, <2>2, <2>3, SettledRows
<1>35. ASSUME NEW h \in Job, Crash(h) PROVE Held(o)
  <2>1. db'.role = db.role /\ db'.orgs = db.orgs /\ half' = half /\ raced' = raced
    BY <1>35 DEF Crash
  <2>2. \A g \in Job : job'[g] = job[g] \/ Bystander(job'[g], o)
    BY <1>0, <1>35 DEF Crash, Ends, Typed, Idle, Bystander
  <2> QED BY <1>0, <2>1, <2>2, SameHeld
<1>41. ASSUME NEW h \in Job, Found(h) PROVE Held(o)
  <2> DEFINE p == job[h].org
             k == job[h].made + 1
  <2>0. raced' = raced /\ job[h] \in Founding /\ job[h].pc = "found" /\ \A g \in Job \ {h} : job'[g] = job[g]
    BY <1>0, <1>41, FoundRows DEF Found
  <2>1. CASE Ends(h) /\ db' = db /\ half' = half
    <3>1. \A g \in Job : job'[g] = job[g] \/ Bystander(job'[g], o)
      BY <1>0, <2>1 DEF Ends, Typed, Idle, Bystander
    <3> QED BY <1>0, <2>0, <2>1, <3>1, SameHeld
  <2>2. CASE ~ (Ends(h) /\ db' = db /\ half' = half)
    <3>1. /\ p \in Org /\ k \in {2, 3, 4} /\ db'.orgs = db.orgs
          /\ \A q \in Org, v \in User : db'.role[q][v] = IF k = 2 /\ q = p /\ v = p THEN "owner" ELSE db.role[q][v]
          /\ half' = IF k = 4 THEN half \ {p} ELSE half
          /\ IF k = 4 THEN job'[h] = Idle \/ (job'[h] \in Purging /\ job'[h].pc = "settle")
             ELSE job'[h] \in Founding /\ job'[h].pc = "found" /\ job'[h].org = p /\ job'[h].made = k
      BY <1>0, <1>41, <2>2, FoundRows
    <3>2. job'[h].pc \notin {"regrade", "leave", "quit"} /\ (job'[h].pc = "found" => job'[h].org = p)
      BY <3>1 DEF Idle
    <3>3. job[h].made \in Nat /\ p \in User /\ Founds(h, p)
      BY <2>0, <3>1 DEF Founding, Founds, Org
    <3>4. CASE o # p
      <4>1. /\ \A g \in Job : Takes(g, o)' => Takes(g, o) /\ job'[g].user = job[g].user
            /\ \A g \in Job : Founds(g, o)' => Founds(g, o) /\ job'[g].made = job[g].made
        <5>1. \A g \in Job : Takes(g, o)' => g # h
          BY <3>2 DEF Takes
        <5>2. \A g \in Job : job[g].pc \in {"regrade", "leave", "quit"} => job[g].user \in User
          BY <1>0, JobKinds DEF Typed, Regrading, Plain, Quitting
        <5>3. \A v \in User : db'.role[o][v] = db.role[o][v]
          BY <1>0, <3>1, <3>4
        <5>4. \A g \in Job : Founds(g, o)' => g # h
          BY <3>2, <3>4 DEF Founds
        <5> QED BY <2>0, <5>1, <5>2, <5>3, <5>4 DEF Takes, Founds
      <4> SUFFICES ASSUME o \in db.orgs, o \notin raced PROVE OwnersLeft(o)'
        BY <2>0, <3>1 DEF Held
      <4>2. OwnersLeft(o) /\ Owners(db, o) = Owners(db', o)
        BY <1>0, <3>1, <3>4 DEF OwnersStay, Owners
      <4>3. o \in half => o \in half'
        BY <3>1, <3>4
      <4> QED BY <4>1, <4>2, <4>3 DEF OwnersLeft
    <3>5. CASE o = p /\ k = 2
      <4>1. job[h].made = 1
        BY <3>3, <3>5
      <4>2. Secluded(o)
        BY <3>3, <3>5, <4>1 DEF FoundingsBare, Bare
      <4>3. \A g \in Job : ~ Takes(g, o)'
        BY <2>0, <3>2, <4>2 DEF Takes, Secluded, Away
      <4>4. Owners(db', o) # {}
        BY <1>0, <3>1, <3>3, <3>5 DEF Owners
      <4> QED BY <4>3, <4>4 DEF Held, OwnersLeft
    <3>6. CASE o = p /\ k # 2
      <4> SUFFICES ASSUME o \in db.orgs, o \notin raced PROVE OwnersLeft(o)'
        BY <2>0, <3>1 DEF Held
      <4>1. job[h].made # 1
        BY <3>1, <3>6
      <4>2. OwnersLeft(o) /\ Owners(db, o) # {}
        BY <3>3, <3>6, <4>1 DEF OwnersStay, OwnersLeft
      <4>3. \A v \in User : db'.role[o][v] = db.role[o][v]
        BY <1>0, <3>1, <3>6
      <4>4. Owners(db', o) = Owners(db, o)
        BY <4>3 DEF Owners
      <4>5. \A g \in Job : Takes(g, o)' => Takes(g, o) /\ job'[g].user = job[g].user
        <5>1. \A g \in Job : Takes(g, o)' => g # h
          BY <3>2 DEF Takes
        <5>2. \A g \in Job : job[g].pc \in {"regrade", "leave", "quit"} => job[g].user \in User
          BY <1>0, JobKinds DEF Typed, Regrading, Plain, Quitting
        <5> QED BY <2>0, <4>3, <5>1, <5>2 DEF Takes
      <4> QED BY <4>2, <4>4, <4>5 DEF OwnersLeft
    <3> QED BY <3>4, <3>5, <3>6
  <2> QED BY <2>1, <2>2
<1>42. ASSUME NEW h \in Job, Quit(h) PROVE Held(o)
  <2> DEFINE u == job[h].user
  <2>0. /\ db' = WithoutUser(db, u) /\ u \in User /\ half' = half /\ job[h].pc = "quit"
        /\ raced' = raced \cup (Owned(u) \ job[h].owned) /\ job'[h] = Idle /\ \A g \in Job \ {h} : job'[g] = job[g]
    <3>1. u \in User
      BY <1>0, <1>42, JobKinds DEF Quit, Typed, Quitting
    <3>2. job'[h] = Idle /\ \A g \in Job \ {h} : job'[g] = job[g]
      BY <1>0, <1>42, JobEnded DEF Quit
    <3> QED BY <1>42, <3>1, <3>2 DEF Quit
  <2>1. db'.orgs = db.orgs /\ \A v \in User : db'.role[o][v] = IF v = u THEN None ELSE db.role[o][v]
    BY <1>0, <2>0, WithoutUserRows
  <2>2. db.role[o][u] = "owner" => o \in raced' \/ Takes(h, o)
    BY <1>0, <2>0 DEF Owned, Takes
  <2>3. Bystander(job'[h], o) /\ db'.role[o][u] # "owner" /\ raced \subseteq raced' /\ job[h].user = u
    BY <2>0, <2>1 DEF Bystander, Idle, None
  <2> HIDE DEF u
  <2> QED BY <1>0, <2>0, <2>1, <2>2, <2>3, TakenHeld
<1>43. ASSUME NEW h \in Job, CleanHalf(h) PROVE Held(o)
  <2> DEFINE u == job[h].user
             left == Leaving(u, job[h].org)
  <2>1. /\ u \in User /\ u \in Org /\ db'.orgs = db.orgs /\ half' = half \cup {u} /\ db'.role = left.role
    BY <1>0, <1>43, CleanHalfRows
  <2>2. /\ job[h].pc = "clean" /\ job[h].signup
        /\ raced' = raced \cup {p \in {u} : \E g \in Job : job[g].pc = "found" /\ job[g].org = p}
    BY <1>0, <1>43, JobKinds DEF CleanHalf, Typed
  <2>3. Secluded(u) /\ Humble(u)
    BY <2>2 DEF SignupsPrivate, SigningUp
  <2>4. \A p \in Org, v \in User : left.role[p][v] = IF v = u /\ p # job[h].org THEN None ELSE db.role[p][v]
    BY <1>0, <2>1, LeavingRows
  <2>5. job'[h] = Idle /\ \A g \in Job \ {h} : job'[g] = job[g]
    BY <1>0, <1>43, JobEnded DEF CleanHalf
  <2>6. job'[h].pc = "idle"
    BY <2>5 DEF Idle
  <2> HIDE DEF u, left
  <2>7. CASE o # u
    <3>1. \A v \in User : db'.role[o][v] = "owner" <=> db.role[o][v] = "owner"
      BY <1>0, <2>1, <2>3, <2>4, <2>7 DEF Humble, None
    <3>2. \A g \in Job : job'[g] = job[g] \/ Bystander(job'[g], o)
      BY <2>5, <2>6 DEF Bystander
    <3> QED BY <1>0, <2>1, <2>2, <3>1, <3>2, SameHeld
  <2>8. CASE o = u
    <3> SUFFICES ASSUME o \notin raced' PROVE OwnersLeft(o)'
      BY DEF Held
    <3>1. \A g \in Job : ~ Founds(g, o)
      BY <2>2, <2>8 DEF Founds
    <3>2. \A g \in Job : ~ Founds(g, o)'
      BY <2>5, <2>6, <3>1 DEF Founds
    <3>3. \A g \in Job : ~ Takes(g, o)'
      BY <2>3, <2>5, <2>6, <2>8 DEF Secluded, Away, Takes
    <3>4. o \in half'
      BY <2>1, <2>8
    <3> QED BY <3>2, <3>3, <3>4 DEF OwnersLeft
  <2> QED BY <2>7, <2>8
<1>44. ASSUME NEW h \in Job, Regrade(h) PROVE Held(o)
  <2> DEFINE u == job[h].user
  <2>0. half' = half /\ raced' = raced /\ job[h].pc = "regrade"
    BY <1>44 DEF Regrade
  <2>1. /\ u \in User /\ job[h].role \in Grades /\ db'.orgs = db.orgs
        /\ \A v \in User : db'.role[o][v] = IF o = job[h].org /\ v = u /\ db.role[o][v] # None
                                            THEN job[h].role ELSE db.role[o][v]
    BY <1>0, <1>44, RegradeRows DEF Regrading
  <2>2. job'[h] = Idle /\ \A g \in Job \ {h} : job'[g] = job[g]
    BY <1>0, <1>44, JobEnded DEF Regrade
  <2>3. Bystander(job'[h], o) /\ job[h].user = u
    BY <2>2 DEF Bystander, Idle
  <2>4. /\ \A v \in User \ {u} : db'.role[o][v] = "owner" <=> db.role[o][v] = "owner"
        /\ db'.role[o][u] = "owner" => db.role[o][u] = "owner"
        /\ db.role[o][u] = "owner" => db'.role[o][u] = "owner" \/ Takes(h, o)
    BY <2>0, <2>1 DEF Takes, Grades, None
  <2> HIDE DEF u
  <2> QED BY <1>0, <2>0, <2>1, <2>2, <2>3, <2>4, TakenHeld
<1>45. ASSUME NEW h \in Job, Leave(h) PROVE Held(o)
  <2> DEFINE u == job[h].user
  <2>0. half' = half /\ raced' = raced /\ job[h].pc = "leave"
    BY <1>45 DEF Leave
  <2>1. /\ u \in User /\ db'.orgs = db.orgs
        /\ \A v \in User : db'.role[o][v] = IF o = job[h].org /\ v = u THEN None ELSE db.role[o][v]
    BY <1>0, <1>45, LeaveRows DEF Plain
  <2>2. job'[h].pc = "deactivate" /\ \A g \in Job \ {h} : job'[g] = job[g]
    BY <1>0, <1>45, LeaveRows
  <2>3. Bystander(job'[h], o) /\ job[h].user = u
    BY <2>2 DEF Bystander
  <2>4. /\ \A v \in User \ {u} : db'.role[o][v] = "owner" <=> db.role[o][v] = "owner"
        /\ db'.role[o][u] = "owner" => db.role[o][u] = "owner"
        /\ db.role[o][u] = "owner" => db'.role[o][u] = "owner" \/ Takes(h, o)
    BY <2>0, <2>1 DEF Takes, None
  <2> HIDE DEF u
  <2> QED BY <1>0, <2>0, <2>1, <2>2, <2>3, <2>4, TakenHeld
<1>36. CASE Tick
  <2>1. db'.role = db.role /\ db'.orgs = db.orgs
    BY <1>0, <1>36, TickRows
  <2>2. half' = half /\ raced' = raced /\ job' = job
    BY <1>36 DEF Tick
  <2> QED BY <1>0, <2>1, <2>2, SameHeld
<1>37. CASE AccountRequest
  BY <1>37, <1>2, <1>3, <1>4, <1>5, <1>6, <1>7 DEF AccountRequest
<1>38. CASE MemberRequest
  <2>1. {"admin", "member"} = Grades
    BY DEF Grades
  <2> QED BY <1>38, <2>1, <1>8, <1>9, <1>10, <1>11, <1>12, <1>13, <1>14 DEF MemberRequest
<1>39. CASE OrgRequest
  BY <1>39, <1>15, <1>16, <1>17, <1>18, <1>19, <1>20, <1>21, <1>22 DEF OrgRequest
<1>40. CASE Step
  BY <1>40, <1>23, <1>24, <1>25, <1>26, <1>27, <1>28, <1>29, <1>30, <1>31, <1>32, <1>33, <1>34, <1>35,
     <1>41, <1>42, <1>43, <1>44, <1>45 DEF Step
<1> QED BY <1>1, <1>36, <1>37, <1>38, <1>39, <1>40 DEF Next

(* Every organization has an owner, whatever demotions, removals, account  *)
(* deletions, signups and purges overlap, and however many owners members  *)
(* have been created with: the count of owners leaves another one, and a   *)
(* signup that leaves an organization takes it along because nobody else   *)
(* can have entered it.  What the code does not prevent is named: two that *)
(* counted the owners at the same time, the last steps of a purge, and an  *)
(* organization whose founding or removal broke off half-way.              *)
THEOREM OwnerStays == Spec => []OwnerKept
<1>1. Init => OwnersStay
  BY DEF Init, OwnersStay
<1>2. Linked /\ Linked' /\ SignupsPrivate /\ FoundingsBare /\ OwnersStay /\ [Next]_vars => OwnersStay'
  <2> SUFFICES ASSUME Linked, Linked', SignupsPrivate, FoundingsBare, OwnersStay, [Next]_vars, NEW o \in db'.orgs
               PROVE  o \in raced' \/ OwnersLeft(o)'
    BY DEF OwnersStay
  <2>1. o \in Org
    BY DEF Linked, Typed, DB
  <2>2. Held(o)
    BY <2>1, OwnersNext
  <2> QED BY <2>2 DEF Held
<1>3. OwnersStay => OwnerKept
  BY DEF OwnersStay, OwnersLeft, OwnerKept
<1> QED BY <1>1, <1>2, <1>3, AlwaysLinked, AlwaysPrivate, PTL DEF Spec
=============================================================================
