------------------------------ MODULE Tenancy ------------------------------
(***************************************************************************)
(* Who belongs where: accounts and the organization each new user gets     *)
(* (apps/accounts), members and invitations (apps/members), the deletion   *)
(* of an organization with its grace period (apps/organizations) and its   *)
(* workspaces (apps/workspaces).                                           *)
(*                                                                         *)
(* No request here runs in a transaction of its own, so a request that     *)
(* writes after it has read is a job with one step per write, and other    *)
(* requests and the background worker fall between.  Requests that write   *)
(* once are single steps.                                                  *)
(***************************************************************************)
EXTENDS Integers, FiniteSets

CONSTANTS User,        \* people, by email address
          MaxWs,       \* bound: workspaces of an organization
          MaxInv,      \* bound: invitations
          Invited,     \* the roles the invitation form offers
          Grace,       \* the 14 days of grace, in ticks
          MaxRequests, \* bound: requests after the signups
          MaxJobs,     \* bound: requests in flight
          MaxCrashes   \* bound: processes that die

ASSUME TenancyAssumption ==
  /\ "none" \notin User
  /\ MaxWs \in Nat \ {0} /\ MaxInv \in Nat /\ Grace \in Nat \ {0}
  /\ MaxRequests \in Nat /\ MaxJobs \in Nat \ {0} /\ MaxCrashes \in Nat
  /\ Invited \subseteq {"admin", "member"}

(* An organization goes by the name of its founder: as a bound, nobody     *)
(* founds another while it is there.  Workspace 1 is provisioned with it.  *)
Org  == User
Ws   == 1 .. MaxWs
Inv  == 1 .. MaxInv
None == "none"
Never == -1
Job  == 1 .. MaxJobs
Idle  == [pc |-> "idle"]
Blank == [org |-> None]

VARIABLES account, \* "active", "inactive" (is_active = False) or none
          db,      \* orgs, role, ws, access, due, tasks: see Init
          inv,     \* Invitation rows
          job,     \* requests and background tasks in flight
          used, crashes,
          age,     \* ticks since deletion was last requested
          joined,  \* users an invitation has admitted
          spoiled, \* invitations whose acceptance overlapped another or failed
          crossed, \* organizations of whose workspaces two requests overlapped
          half,    \* organizations whose founding or removal has begun and not ended
          raced    \* organizations of which two requests that take an owner overlapped

ghosts == << joined, spoiled, crossed, half, raced >>
vars == << account, db, inv, job, used, crashes, age, ghosts >>
-----------------------------------------------------------------------------
Init ==
  /\ account = [u \in User |-> None]
  /\ db = [ orgs   |-> {},                                    \* Organization rows
            role   |-> [o \in Org |-> [u \in User |-> None]], \* OrgMembership
            ws     |-> [o \in Org |-> [n \in Ws |-> None]],   \* "active", "archived"
            access |-> {},                                    \* WorkspaceMembership: <<org, ws, user>>
            due    |-> [o \in Org |-> Never],                 \* deletion_scheduled_for
            tasks  |-> [o \in Org |-> {}] ]                   \* queued deletion tasks
  /\ inv = [i \in Inv |-> Blank]
  /\ job = [h \in Job |-> Idle]
  /\ used = 0 /\ crashes = 0
  /\ age = [o \in Org |-> 0]
  /\ joined = [i \in Inv |-> {}]
  /\ spoiled = {} /\ crossed = {} /\ half = {} /\ raced = {}

Members(d, o)  == {u \in User : d.role[o][u] # None}
OrgsOf(d, u)   == {o \in Org : d.role[o][u] # None}
Owners(d, o)   == {u \in User : d.role[o][u] = "owner"}
Owned(u)       == {o \in Org : db.role[o][u] = "owner"}
Active(o)      == {n \in Ws : db.ws[o][n] = "active"}
(* The signup handlers run before the new user is logged in.               *)
SigningUp      == {job[h].user : h \in {g \in Job : job[g].pc \in {"join", "assign", "mark", "clean"} /\ job[g].signup}}
LoggedIn(u)    == account[u] = "active" /\ u \notin SigningUp
IsAdmin(u, o)  == LoggedIn(u) /\ db.role[o][u] \in {"owner", "admin"}
IsOwner(u, o)  == LoggedIn(u) /\ db.role[o][u] = "owner"
(* The request of a member of the workspace; its role there is not kept.   *)
Uses(u, o, n)  == LoggedIn(u) /\ << o, n, u >> \in db.access

(* provision_organization_and_workspace, for a user without a membership:  *)
(* four writes, each committed by itself, of which K are made.             *)
Founded(d, u, K) ==
  [d EXCEPT !.orgs       = IF 1 \in K THEN @ \cup {u} ELSE @,
            !.role[u][u] = IF 2 \in K THEN "owner" ELSE @,
            !.ws[u][1]   = IF 3 \in K THEN "active" ELSE @,
            !.access     = IF 4 \in K THEN @ \cup {<< u, 1, u >>} ELSE @]
(* Organization.delete() and its cascade.  A task whose organization is    *)
(* gone does nothing.                                                      *)
WithoutOrg(d, o) ==
  [d EXCEPT !.orgs = @ \ {o}, !.role[o] = [u \in User |-> None], !.ws[o] = [n \in Ws |-> None],
            !.access = {a \in @ : a[1] # o}, !.due[o] = Never, !.tasks[o] = {}]
(* User.delete() and its cascade.                                          *)
WithoutUser(d, u) ==
  [d EXCEPT !.role = [o \in Org |-> [@[o] EXCEPT ![u] = None]], !.access = {a \in @ : a[3] # u}]
WithoutWs(d, o, n) ==
  [d EXCEPT !.ws[o][n] = None, !.access = {a \in @ : a[1] # o \/ a[2] # n}]
InvWithout(o) == [i \in Inv |-> IF inv[i] # Blank /\ inv[i].org = o THEN Blank ELSE inv[i]]
(* A job that holds an object of an organization that is gone.             *)
Orphaned(j, o) ==
  CASE j.pc = "quit" -> [j EXCEPT !.owned = @ \ {o}]
    [] j.pc \notin {"idle", "settle", "quit"} /\ j.org = o -> [j EXCEPT !.org = None]
    [] OTHER -> j

Request == used < MaxRequests /\ used' = used + 1
Starts(h, j) == job[h] = Idle /\ (\A g \in 1 .. h - 1 : job[g] # Idle) /\ job' = [job EXCEPT ![h] = j]
Ends(h) == job' = [job EXCEPT ![h] = Idle]
(* Those whom a request in flight is by or about.                          *)
Requesting ==
  {u \in User : \E h \in Job : job[h] # Idle
     /\ \/ job[h].user = u
        \/ job[h].pc = "found" /\ job[h].org = u
        \/ job[h].pc \in {"purge", "settle", "found"} /\ u \in job[h].rest}
Others(h) == {job[g] : g \in Job \ {h}}
-----------------------------------------------------------------------------
(* Accounts.                                                               *)

(* The post_save signal provisions every new user.  Until they are logged  *)
(* in nobody reaches what it makes, so this is one step, or one that dies  *)
(* after k writes.  A person signs up again only when no request in flight *)
(* is by or about them.                                                    *)
New(u) == account[u] = None /\ u \notin Requesting
SignUp(u) ==
  /\ New(u) /\ u \notin db.orgs
  /\ account' = [account EXCEPT ![u] = "active"]
  /\ \/ db' = Founded(db, u, 1 .. 4) /\ UNCHANGED << crashes, half >>
     \/ \E k \in 0 .. 3 :
          /\ crashes < MaxCrashes /\ crashes' = crashes + 1
          /\ db' = Founded(db, u, 1 .. k)
          /\ half' = IF k = 0 THEN half ELSE half \cup {u}
  /\ UNCHANGED << inv, job, used, age, joined, spoiled, crossed, raced >>

(* create_organization_on_signup: with an invitation in the session it is  *)
(* accepted next, and the organization just provisioned is removed.        *)
SignUpInvited(h, u, i) ==
  /\ New(u) /\ u \notin db.orgs
  /\ inv[i] # Blank /\ inv[i].open /\ ~inv[i].accepted
  /\ account' = [account EXCEPT ![u] = "active"]
  /\ db' = Founded(db, u, 1 .. 4)
  /\ Starts(h, [pc |-> "join", user |-> u, org |-> inv[i].org, inv |-> i, ws |-> inv[i].ws,
                role |-> inv[i].role, signup |-> TRUE])
  /\ spoiled' = IF \E j \in Others(h) : j.pc \in {"join", "assign", "mark"} /\ j.inv = i
                THEN spoiled \cup {i} ELSE spoiled
  /\ UNCHANGED << inv, used, crashes, age, joined, crossed, half, raced >>

(* create_member: the account, its membership and its workspaces in one    *)
(* transaction, which drops the organization that post_save provisioned.   *)
(* The role is taken as it is posted, "owner" too; one that is none of     *)
(* them gives no more than "member".                                       *)
CreateMember(a, o, u, r, S) ==
  /\ Request /\ IsAdmin(a, o) /\ New(u)
  /\ S \subseteq Active(o)
  /\ account' = [account EXCEPT ![u] = "active"]
  /\ db' = [db EXCEPT !.role[o][u] = r, !.access = @ \cup {<< o, n, u >> : n \in S}]
  /\ UNCHANGED << inv, job, crashes, age, ghosts >>

(* Requests that have counted the owners and will take the role of one.    *)
Takes(h, o) ==
  /\ \/ job[h].pc \in {"regrade", "leave"} /\ job[h].org = o
     \/ job[h].pc = "quit" /\ o \in job[h].owned
  /\ db.role[o][job[h].user] = "owner"
Overlapped(h, S) == {o \in S : \E g \in Job \ {h} : Takes(g, o)}

(* _handle_account_deletion refuses the sole owner of an organization,     *)
(* then deletes the account.                                               *)
DeleteAccount(h, u) ==
  /\ Request /\ LoggedIn(u)
  /\ \A o \in Owned(u) : Owners(db, o) # {u}
  /\ Starts(h, [pc |-> "quit", user |-> u, org |-> None, owned |-> Owned(u)])
  /\ raced' = raced \cup Overlapped(h, Owned(u))
  /\ UNCHANGED << account, db, inv, crashes, age, joined, spoiled, crossed, half >>

Quit(h) ==
  /\ job[h].pc = "quit"
  /\ LET u == job[h].user
     IN  /\ account' = [account EXCEPT ![u] = None] /\ db' = WithoutUser(db, u)
         /\ raced' = raced \cup (Owned(u) \ job[h].owned)
  /\ Ends(h)
  /\ UNCHANGED << inv, used, crashes, age, joined, spoiled, crossed, half >>

(* Provisioning of a user who may be logged in: the first write, together  *)
(* with the look for a membership, then the others one by one.  An account,*)
(* an organization or a workspace that is gone breaks the foreign key.     *)
(* What else the process has to settle comes after.                        *)
Begins(h, by, u, rest) ==
  /\ u \notin db.orgs
  /\ db' = Founded(db, u, {1}) /\ half' = half \cup {u}
  /\ job' = [job EXCEPT ![h] = [pc |-> "found", user |-> by, org |-> u, rest |-> rest, made |-> 1]]

Fails(j) ==
  \/ j.org = None
  \/ j.made \in {1, 3} /\ account[j.org] = None
  \/ j.made = 3 /\ db.ws[j.org][1] = None
GoesOn(h, rest) ==
  IF rest = {} THEN Idle ELSE [pc |-> "settle", user |-> job[h].user, org |-> None, rest |-> rest]

Found(h) ==
  /\ job[h].pc = "found"
  /\ LET j == job[h]
         k == j.made + 1
     IN  IF Fails(j) THEN Ends(h) /\ UNCHANGED << db, half >>
         ELSE /\ db' = Founded(db, j.org, {k})
              /\ half' = IF k = 4 THEN half \ {j.org} ELSE half
              /\ job' = [job EXCEPT ![h] = IF k = 4 THEN GoesOn(h, j.rest) ELSE [j EXCEPT !.made = k]]
  /\ UNCHANGED << account, inv, used, crashes, age, joined, spoiled, crossed, raced >>

(* The photo and password forms save the whole User row.                   *)
ReadProfile(h, u) ==
  /\ Request /\ LoggedIn(u)
  /\ Starts(h, [pc |-> "profile", user |-> u, org |-> None])
  /\ UNCHANGED << account, db, inv, crashes, age, ghosts >>

(* is_active is written back; the save of a deleted row inserts it again,  *)
(* and post_save provisions the user.                                      *)
SaveProfile(h) ==
  /\ job[h].pc = "profile"
  /\ LET u == job[h].user
     IN  /\ account' = [account EXCEPT ![u] = "active"]
         /\ IF account[u] = None THEN Begins(h, u, u, {})
            ELSE Ends(h) /\ UNCHANGED << db, half >>
  /\ UNCHANGED << inv, used, crashes, age, joined, spoiled, crossed, raced >>

(* cleanup_orphaned_orgs: an organization whose one member belongs to      *)
(* another one too.                                                        *)
CleanUp(u, o) ==
  /\ Request /\ Cardinality(OrgsOf(db, u)) > 1 /\ Members(db, o) = {u}
  /\ db' = WithoutOrg(db, o) /\ inv' = InvWithout(o)
  /\ job' = [h \in Job |-> Orphaned(job[h], o)]
  /\ UNCHANGED << account, crashes, age, ghosts >>
-----------------------------------------------------------------------------
(* Invitations.                                                            *)

(* create_invitation: not for a member, not beside a pending one.          *)
Invites(o, i, u, r, n) ==
  /\ inv[i] = Blank /\ \A k \in 1 .. i - 1 : inv[k] # Blank
  /\ db.role[o][u] = None
  /\ ~\E k \in Inv : inv[k] # Blank /\ inv[k].org = o /\ inv[k].to = u /\ inv[k].open /\ ~inv[k].accepted
  /\ n \in {0} \cup Active(o)
  /\ inv' = [inv EXCEPT ![i] = [org |-> o, to |-> u, role |-> r, ws |-> n, open |-> TRUE, accepted |-> FALSE]]
  /\ joined' = [joined EXCEPT ![i] = {}] /\ spoiled' = spoiled \ {i}
  /\ UNCHANGED << account, db, job, crashes, age, crossed, half, raced >>

Invite(a, o, i, u, r, n) == Request /\ IsAdmin(a, o) /\ Invites(o, i, u, r, n)

(* workspace_members, action "invite": a manager of the workspace.         *)
InviteToWorkspace(m, o, i, u, n) == Request /\ Uses(m, o, n) /\ Invites(o, i, u, "member", n)

(* resend_invitation and revoke_invitation; time expires one as well.      *)
Reopened(i) == ~inv[i].accepted /\ inv' = [inv EXCEPT ![i].open = TRUE]
Expired(i)  == ~inv[i].accepted /\ inv' = [inv EXCEPT ![i].open = FALSE]

Resend(a, i) ==
  /\ Request /\ inv[i] # Blank /\ IsAdmin(a, inv[i].org) /\ ~inv[i].open /\ Reopened(i)
  /\ UNCHANGED << account, db, job, crashes, age, ghosts >>

Revoke(i) ==
  /\ Request /\ inv[i] # Blank /\ inv[i].open /\ Expired(i)
  /\ UNCHANGED << account, db, job, crashes, age, ghosts >>

(* Mutant of Acceptable: accepted_at is not looked at.                     *)
AcceptableTwice(i) == inv[i] # Blank /\ inv[i].open
Acceptable(i) == inv[i] # Blank /\ inv[i].open /\ ~inv[i].accepted

(* accept_invite: any user who is logged in and has the link.              *)
Accept(h, u, i) ==
  /\ Request /\ LoggedIn(u) /\ Acceptable(i)
  /\ Starts(h, [pc |-> "join", user |-> u, org |-> inv[i].org, inv |-> i, ws |-> inv[i].ws,
                role |-> inv[i].role, signup |-> FALSE])
  /\ spoiled' = IF \E j \in Others(h) : j.pc \in {"join", "assign", "mark"} /\ j.inv = i
                THEN spoiled \cup {i} ELSE spoiled
  /\ UNCHANGED << account, db, inv, crashes, age, joined, crossed, half, raced >>

(* accept_invitation, first write.  An account or an organization that is  *)
(* gone breaks the foreign key.                                            *)
Join(h) ==
  /\ job[h].pc = "join"
  /\ LET j == job[h] IN
     IF j.org = None \/ account[j.user] = None
     THEN Ends(h) /\ UNCHANGED << db, joined >>
     ELSE /\ db' = IF db.role[j.org][j.user] = None THEN [db EXCEPT !.role[j.org][j.user] = j.role] ELSE db
          /\ joined' = [joined EXCEPT ![j.inv] = @ \cup {j.user}]
          /\ job' = [job EXCEPT ![h].pc = "assign"]
  /\ UNCHANGED << account, inv, used, crashes, age, spoiled, crossed, half, raced >>

(* Second write: the workspaces.  One that was deleted raises an           *)
(* IntegrityError, which nobody catches: the membership stays, and the     *)
(* invitation stays open.                                                  *)
Assign(h) ==
  /\ job[h].pc = "assign"
  /\ LET j == job[h] IN
     IF j.org = None \/ account[j.user] = None \/ (j.ws # 0 /\ db.ws[j.org][j.ws] = None)
     THEN /\ spoiled' = IF j.org = None THEN spoiled ELSE spoiled \cup {j.inv}
          /\ Ends(h) /\ UNCHANGED db
     ELSE /\ db' = IF j.ws = 0 THEN db ELSE [db EXCEPT !.access = @ \cup {<< j.org, j.ws, j.user >>}]
          /\ job' = [job EXCEPT ![h].pc = "mark"]
          /\ UNCHANGED spoiled
  /\ UNCHANGED << account, inv, used, crashes, age, joined, crossed, half, raced >>

(* Third write: accepted_at, unless the row is gone.                       *)
Mark(h) ==
  /\ job[h].pc = "mark"
  /\ LET j == job[h] IN
     IF j.org = None THEN Ends(h) /\ UNCHANGED inv
     ELSE /\ inv' = [inv EXCEPT ![j.inv].accepted = TRUE]
          /\ IF j.signup THEN job' = [job EXCEPT ![h].pc = "clean"] ELSE Ends(h)
  /\ UNCHANGED << account, db, used, crashes, age, ghosts >>

(* create_organization_on_signup leaves every other organization and       *)
(* deletes the one nobody else belongs to.  Nobody reaches that one; the   *)
(* process may die when the membership, or the workspaces too, are gone.   *)
Leaving(u, o) == [db EXCEPT !.role = [p \in Org |-> IF p = o THEN @[p] ELSE [@[p] EXCEPT ![u] = None]]]
Alone(u, o)   == u # o /\ db.role[u][u] # None /\ Members(Leaving(u, o), u) = {}

Clean(h) ==
  /\ job[h].pc = "clean"
  /\ LET u == job[h].user
         left == Leaving(u, job[h].org)
     IN  IF Alone(u, job[h].org)
         THEN /\ db' = WithoutOrg(left, u) /\ inv' = InvWithout(u)
              /\ job' = [g \in Job |-> IF g = h THEN Idle ELSE Orphaned(job[g], u)]
         ELSE db' = left /\ UNCHANGED inv /\ Ends(h)
  /\ UNCHANGED << account, used, crashes, age, ghosts >>

CleanHalf(h) ==
  /\ job[h].pc = "clean" /\ crashes < MaxCrashes /\ crashes' = crashes + 1
  /\ LET u == job[h].user
         left == Leaving(u, job[h].org)
     IN  /\ Alone(u, job[h].org)
         /\ db' \in {left, [left EXCEPT !.ws[u] = [n \in Ws |-> None], !.access = {a \in @ : a[1] # u}]}
         /\ half' = half \cup {u}
         /\ raced' = raced \cup {o \in {u} : \E g \in Job : job[g].pc = "found" /\ job[g].org = o}
  /\ Ends(h)
  /\ UNCHANGED << account, inv, used, age, joined, spoiled, crossed >>
-----------------------------------------------------------------------------
(* Members.                                                                *)

(* Mutant of Spared: owners are not counted.                               *)
SparedNever(o, u) == FALSE
(* The last owner keeps the role and the membership.                       *)
Spared(o, u) == db.role[o][u] = "owner" /\ Cardinality(Owners(db, o)) <= 1

(* update_member_org_role counts the owners, then saves the role.          *)
UpdateRole(h, a, o, u, r) ==
  /\ Request /\ IsAdmin(a, o)
  /\ u \in Members(db, o) /\ db.role[o][u] # r /\ ~Spared(o, u)
  /\ Starts(h, [pc |-> "regrade", user |-> u, org |-> o, role |-> r])
  /\ raced' = raced \cup Overlapped(h, {o} \cap Owned(u))
  /\ UNCHANGED << account, db, inv, crashes, age, joined, spoiled, crossed, half >>

(* A save of one column fails when the row is gone.                        *)
Regrade(h) ==
  /\ job[h].pc = "regrade"
  /\ LET j == job[h]
     IN  db' = IF j.org = None THEN db
               ELSE IF db.role[j.org][j.user] = None THEN db ELSE [db EXCEPT !.role[j.org][j.user] = j.role]
  /\ Ends(h)
  /\ UNCHANGED << account, inv, used, crashes, age, ghosts >>

Left(o, u) == [db EXCEPT !.role[o][u] = None, !.access = {a \in @ : a[1] # o \/ a[3] # u}]

(* remove_member counts the owners, takes the memberships, then            *)
(* deactivates the account, whatever else the user belongs to.             *)
RemoveMember(h, a, o, u) ==
  /\ Request /\ IsAdmin(a, o)
  /\ u \in Members(db, o) \ {a} /\ ~Spared(o, u)
  /\ Starts(h, [pc |-> "leave", user |-> u, org |-> o])
  /\ raced' = raced \cup Overlapped(h, {o} \cap Owned(u))
  /\ UNCHANGED << account, db, inv, crashes, age, joined, spoiled, crossed, half >>

Leave(h) ==
  /\ job[h].pc = "leave"
  /\ db' = IF job[h].org = None THEN db ELSE Left(job[h].org, job[h].user)
  /\ job' = [job EXCEPT ![h].pc = "deactivate"]
  /\ UNCHANGED << account, inv, used, crashes, age, ghosts >>

Deactivate(h) ==
  /\ job[h].pc = "deactivate"
  /\ account' = [account EXCEPT ![job[h].user] = IF @ = None THEN None ELSE "inactive"]
  /\ Ends(h)
  /\ UNCHANGED << db, inv, used, crashes, age, ghosts >>

(* update_workspace_assignments: the workspaces that are not archived.     *)
Assigned(o, u, S) ==
  [db EXCEPT !.access =
     {x \in @ : x[1] # o \/ x[3] # u \/ x[2] \notin Active(o)} \cup {<< o, n, u >> : n \in S}]

SetWorkspaces(a, o, u, S) ==
  /\ Request /\ IsAdmin(a, o) /\ u \in Members(db, o) /\ S \subseteq Active(o)
  /\ db' = Assigned(o, u, S) /\ db' # db
  /\ UNCHANGED << account, inv, job, crashes, age, ghosts >>

(* workspace_members, action "remove".                                     *)
LeaveWorkspace(m, o, n, u) ==
  /\ Request /\ Uses(m, o, n) /\ m # u /\ << o, n, u >> \in db.access
  /\ db' = [db EXCEPT !.access = @ \ {<< o, n, u >>}]
  /\ UNCHANGED << account, inv, job, crashes, age, ghosts >>
-----------------------------------------------------------------------------
(* Workspaces.                                                             *)

(* A number is used again when nothing refers to the workspace that had it,*)
(* and 1 not while the organization is being founded.                      *)
Free(o, n) ==
  /\ db.ws[o][n] = None
  /\ \A i \in Inv : inv[i] # Blank /\ inv[i].org = o => inv[i].ws # n
  /\ \A g \in Job :
       /\ job[g].pc \in {"write", "join", "assign"} /\ job[g].org = o => job[g].ws # n
       /\ job[g].pc = "found" /\ job[g].org = o => n # 1

CreateWorkspace(a, o) ==
  /\ Request /\ IsAdmin(a, o)
  /\ \E n \in Ws :
       /\ Free(o, n) /\ \A k \in 1 .. n - 1 : ~Free(o, k)
       /\ db' = [db EXCEPT !.ws[o][n] = "active", !.access = @ \cup {<< o, n, a >>}]
  /\ UNCHANGED << account, inv, job, crashes, age, ghosts >>

Unarchive(m, o, n) ==
  /\ Request /\ Uses(m, o, n) /\ db.ws[o][n] = "archived"
  /\ db' = [db EXCEPT !.ws[o][n] = "active"]
  /\ UNCHANGED << account, inv, job, crashes, age, ghosts >>

(* Mutant of Refused: the count is off by one.                             *)
RefusedEmpty(o, n, what) ==
  /\ Cardinality(Active(o)) < 1
  /\ what = "archive" \/ (what = "delete" /\ db.ws[o][n] # "archived")
(* The last active workspace is neither archived nor deleted.              *)
Refused(o, n, what) ==
  /\ Cardinality(Active(o)) <= 1
  /\ what = "archive" \/ (what = "delete" /\ db.ws[o][n] # "archived")

(* workspace_settings reads the workspace and counts the active ones.      *)
(* count() drops the FOR UPDATE of the query, so nothing is locked.        *)
ReadWorkspace(h, m, o, n, what) ==
  /\ Request /\ Uses(m, o, n) /\ ~Refused(o, n, what)
  /\ Starts(h, [pc |-> "write", user |-> m, org |-> o, ws |-> n, what |-> what, seen |-> db.ws[o][n]])
  /\ crossed' = IF \E j \in Others(h) : j.pc = "write" /\ j.org = o THEN crossed \cup {o} ELSE crossed
  /\ UNCHANGED << account, db, inv, crashes, age, joined, spoiled, half, raced >>

(* The settings form saves the whole row: is_archived as it was read, and  *)
(* a deleted workspace again.                                              *)
WriteWorkspace(h) ==
  /\ job[h].pc = "write"
  /\ LET j == job[h]
         gone == j.org = None \/ db.ws[j.org][j.ws] = None
     IN  db' = CASE j.org = None -> db
                 [] j.org # None /\ j.what = "settings" -> [db EXCEPT !.ws[j.org][j.ws] = j.seen]
                 [] j.org # None /\ j.what = "archive" /\ ~gone -> [db EXCEPT !.ws[j.org][j.ws] = "archived"]
                 [] j.org # None /\ j.what = "delete" -> WithoutWs(db, j.org, j.ws)
                 [] OTHER -> db
  /\ Ends(h)
  /\ UNCHANGED << account, inv, used, crashes, age, ghosts >>
-----------------------------------------------------------------------------
(* Deletion of an organization.                                            *)

(* _handle_org_deletion: the dates, then the task.                         *)
AskDeletion(h, u, o) ==
  /\ Request /\ IsOwner(u, o)
  /\ db' = [db EXCEPT !.due[o] = Grace] /\ age' = [age EXCEPT ![o] = 0]
  /\ Starts(h, [pc |-> "schedule", user |-> u, org |-> o])
  /\ UNCHANGED << account, inv, crashes, ghosts >>

(* Mutant of Delayed: the task is queued without the delay.                *)
DelayedNot(o) == [db EXCEPT !.tasks[o] = @ \cup {0}]
Delayed(o) == [db EXCEPT !.tasks[o] = @ \cup {Grace}]

Schedule(h) ==
  /\ job[h].pc = "schedule"
  /\ db' = IF job[h].org = None THEN db ELSE Delayed(job[h].org)
  /\ Ends(h)
  /\ UNCHANGED << account, inv, used, crashes, age, ghosts >>

(* _handle_cancel_deletion: the tasks, then the dates.                     *)
AskCancel(h, u, o) ==
  /\ Request /\ IsOwner(u, o) /\ db.due[o] # Never
  /\ db' = [db EXCEPT !.tasks[o] = {}]
  /\ Starts(h, [pc |-> "clear", user |-> u, org |-> o])
  /\ UNCHANGED << account, inv, crashes, age, ghosts >>

Clear(h) ==
  /\ job[h].pc = "clear"
  /\ db' = IF job[h].org = None THEN db ELSE [db EXCEPT !.due[job[h].org] = Never]
  /\ Ends(h)
  /\ UNCHANGED << account, inv, used, crashes, age, ghosts >>

Purge(o, by) == [pc |-> "purge", user |-> by, org |-> o, rest |-> Members(db, o)]

(* _handle_immediate_org_deletion and the first query of hard_delete.      *)
DeleteNow(h, u, o) ==
  /\ Request /\ IsOwner(u, o)
  /\ db' = [db EXCEPT !.tasks[o] = {}]
  /\ Starts(h, Purge(o, u))
  /\ UNCHANGED << account, inv, crashes, age, ghosts >>

(* Mutant of IsDue: the date is not compared.                              *)
IsDueAnytime(o) == db.due[o] # Never
IsDue(o) == db.due[o] = 0

(* execute_scheduled_org_deletion: a cancelled or a later deletion is left *)
(* to another run.                                                         *)
RunTask(h, o) ==
  /\ 0 \in db.tasks[o] /\ \A g \in Job : job[g].pc \in {"purge", "settle", "found"} => job[g].user # None
  /\ \/ IsDue(o) /\ Starts(h, Purge(o, None)) /\ UNCHANGED db
     \/ ~IsDue(o) /\ db' = [db EXCEPT !.tasks[o] = @ \ {0}] /\ UNCHANGED job
  /\ UNCHANGED << account, inv, used, crashes, age, ghosts >>

(* hard_delete.  Deleting a row that is gone does nothing.  Who joined     *)
(* after the query is not settled.                                         *)
DeleteOrg(h) ==
  /\ job[h].pc = "purge"
  /\ LET o == job[h].org
         next == [job[h] EXCEPT !.pc = "settle"]
     IN  IF o = None THEN job' = [job EXCEPT ![h] = next] /\ UNCHANGED << db, inv >>
         ELSE /\ db' = WithoutOrg(db, o) /\ inv' = InvWithout(o)
              /\ job' = [g \in Job |-> IF g = h THEN next ELSE Orphaned(job[g], o)]
  /\ UNCHANGED << account, used, crashes, age, ghosts >>

(* The loop of hard_delete: the owner who asked for it is deleted - with   *)
(* whatever else they own by then - and every other member that is left is *)
(* provisioned.                                                            *)
Settle(h, u) ==
  /\ job[h].pc = "settle" /\ u \in job[h].rest
  /\ IF u = job[h].user
     THEN /\ account' = [account EXCEPT ![u] = None] /\ db' = WithoutUser(db, u)
          /\ raced' = raced \cup Owned(u)
     ELSE UNCHANGED << account, raced >>
  /\ IF u = job[h].user \/ account[u] = None \/ OrgsOf(db, u) # {}
     THEN /\ job' = [job EXCEPT ![h] = GoesOn(h, job[h].rest \ {u})]
          /\ (u # job[h].user => UNCHANGED db) /\ UNCHANGED half
     ELSE Begins(h, job[h].user, u, job[h].rest \ {u})
  /\ UNCHANGED << inv, used, crashes, age, joined, spoiled, crossed >>
-----------------------------------------------------------------------------
(* A process dies.  The worker runs its task again while the organization  *)
(* exists; what was left to found or to settle is not found again.         *)
Crash(h) ==
  /\ crashes < MaxCrashes /\ job[h] # Idle
  /\ spoiled' = IF job[h].pc \in {"assign", "mark"} THEN spoiled \cup {job[h].inv} ELSE spoiled
  /\ crashes' = crashes + 1 /\ Ends(h)
  /\ UNCHANGED << account, db, inv, used, age, joined, crossed, half, raced >>

Later(n) == IF n > 0 THEN n - 1 ELSE n

Tick ==
  /\ \E o \in Org : db.due[o] > 0 \/ \E t \in db.tasks[o] : t > 0
  /\ db' = [db EXCEPT !.due = [o \in Org |-> Later(@[o])],
                      !.tasks = [o \in Org |-> {Later(t) : t \in @[o]}]]
  /\ age' = [o \in Org |-> IF db.due[o] # Never /\ age[o] < Grace THEN age[o] + 1 ELSE age[o]]
  /\ UNCHANGED << account, inv, job, used, crashes, ghosts >>

AccountRequest ==
  \E u \in User :
    \/ SignUp(u) \/ \E o \in Org : CleanUp(u, o)
    \/ \E h \in Job : DeleteAccount(h, u) \/ ReadProfile(h, u) \/ \E i \in Inv : SignUpInvited(h, u, i) \/ Accept(h, u, i)

MemberRequest ==
  \E a, u \in User, o \in Org :
    \/ \E S \in SUBSET Ws : SetWorkspaces(a, o, u, S) \/ \E r \in Invited \cup {"owner"} : CreateMember(a, o, u, r, S)
    \/ \E i \in Inv, r \in Invited, n \in 0 .. MaxWs : Invite(a, o, i, u, r, n)
    \/ \E i \in Inv, n \in Ws : InviteToWorkspace(a, o, i, u, n)
    \/ \E h \in Job : RemoveMember(h, a, o, u) \/ \E r \in {"admin", "member"} : UpdateRole(h, a, o, u, r)
    \/ \E n \in Ws : LeaveWorkspace(a, o, n, u)

OrgRequest ==
  \/ \E i \in Inv : Revoke(i) \/ \E a \in User : Resend(a, i)
  \/ \E u \in User, o \in Org :
       \/ CreateWorkspace(u, o)
       \/ \E n \in Ws : Unarchive(u, o, n)
       \/ \E h \in Job : AskDeletion(h, u, o) \/ AskCancel(h, u, o) \/ DeleteNow(h, u, o)
       \/ \E h \in Job, n \in Ws, what \in {"archive", "delete", "settings"} : ReadWorkspace(h, u, o, n, what)

Step ==
  \E h \in Job :
    \/ SaveProfile(h) \/ Found(h) \/ Quit(h) \/ Join(h) \/ Assign(h) \/ Mark(h) \/ Clean(h) \/ CleanHalf(h)
    \/ Regrade(h) \/ Leave(h) \/ Deactivate(h) \/ WriteWorkspace(h)
    \/ Schedule(h) \/ Clear(h) \/ DeleteOrg(h) \/ Crash(h)
    \/ \E o \in Org : RunTask(h, o)
    \/ \E u \in User : Settle(h, u)

Next == AccountRequest \/ MemberRequest \/ OrgRequest \/ Step \/ Tick

Spec == Init /\ [][Next]_vars
-----------------------------------------------------------------------------
Busy(pcs) == {job[h] : h \in {g \in Job : job[g].pc \in pcs}}

(* Rows refer to rows that exist: members to accounts and organizations,   *)
(* access to workspaces, invitations, dates and tasks to organizations.    *)
TypeOK ==
  /\ account \in [User -> {"active", "inactive", None}]
  /\ db.orgs \subseteq Org
  /\ \A o \in Org, u \in User : db.role[o][u] # None => o \in db.orgs /\ account[u] # None
  /\ \A a \in db.access : db.ws[a[1]][a[2]] # None /\ account[a[3]] # None
  /\ \A o \in Org \ db.orgs : db.due[o] = Never /\ db.tasks[o] = {} /\ \A n \in Ws : db.ws[o][n] = None
  /\ \A i \in Inv : inv[i] # Blank => inv[i].org \in db.orgs

(* Every organization has an owner: no demotion, removal, account deletion,*)
(* signup or purge leaves it without, however many owners it has come to   *)
(* have - unless its founding or its removal broke off half-way, or two    *)
(* that each had counted the owners overlapped.                            *)
OwnerKept == \A o \in db.orgs : Owners(db, o) # {} \/ o \in half \/ o \in raced

(* An invitation admits one user, unless two acceptances overlapped, or    *)
(* one broke off after its first write - the process died, or a workspace  *)
(* it names was deleted - and left the invitation open.                    *)
InvitationSpentOnce == \A i \in Inv : Cardinality(joined[i]) <= 1 \/ i \in spoiled

(* "Cannot archive the last workspace in the organization": an active one  *)
(* is left by every sequence of archiving, deleting, restoring and saving, *)
(* unless two such requests overlapped, or the organization is half made   *)
(* or half removed and has no workspace at all.                            *)
WorkspaceKept ==
  \A o \in db.orgs :
    \/ Active(o) # {} \/ o \in crossed
    \/ o \in half /\ \A n \in Ws : db.ws[o][n] = None

(* A deletion that was requested and not cancelled has a task that will    *)
(* not run too early for it, whatever requests and cancellations overlap,  *)
(* unless a process died between the dates and the task.                   *)
DeletionWillRun ==
  \A o \in db.orgs :
    db.due[o] # Never /\ crashes = 0 /\ (\A j \in Busy({"schedule", "clear", "purge"}) : j.org # o) =>
      \E t \in db.tasks[o] : t >= db.due[o]

(* The background task starts a purge only a whole grace period after the  *)
(* last request for it.                                                    *)
PurgeAfterGrace ==
  [][\A h \in Job : job[h] = Idle /\ job'[h].pc = "purge" /\ job'[h].user = None => age[job'[h].org] >= Grace]_vars
=============================================================================
