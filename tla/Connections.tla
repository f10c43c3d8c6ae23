---------------------------- MODULE Connections -----------------------------
(***************************************************************************)
(* The social accounts of one workspace: connecting them, by a member or   *)
(* by a client over a connection link, keeping their tokens fresh and      *)
(* disconnecting them (apps/social_accounts, apps/onboarding, and the      *)
(* token refresh of the publishing engine).                                *)
(*                                                                         *)
(* A token is the number of its issue, and a refresh token the number of   *)
(* the issue it came with; Providers says when one comes with it.  A new   *)
(* token takes the one it is refreshed from out of use, and a new refresh  *)
(* token the older ones.  The health check, the engine and the web each    *)
(* work on the account they read and save it back, without a lock.         *)
(***************************************************************************)
EXTENDS Integers, FiniteSets

CONSTANTS Acct,        \* accounts on the platform
          Kinds,       \* what their platforms may be
          Start,       \* the ones that are connected already
          Post,        \* posts of the workspace
          Flow,        \* OAuth round trips, by their nonce
          Web,         \* request threads
          Thread,      \* publishing threads of the engine
          MaxTokens,   \* bound: tokens the platform issues for an account
          MaxRequests, \* bound: requests, and tokens that near their end
          MaxFaults    \* bound: crashes, refused calls, withdrawn tokens

Platforms == INSTANCE Providers

ASSUME ConnectionsAssumption ==
  /\ Start \subseteq Acct /\ Kinds \subseteq [Acct -> Platforms!Site]
  /\ MaxTokens \in Nat \ {0} /\ MaxRequests \in Nat /\ MaxFaults \in Nat
  /\ "worker" \notin Web \cup Thread /\ Web \cap Thread = {} /\ Web # {}
  /\ "none" \notin Acct

Process == {"worker"} \cup Web \cup Thread
Status  == {"connected", "token_expiring", "error"}
None    == "none"
NoRow   == [status |-> None, tok |-> 0, ref |-> 0, queue |-> FALSE]
Idle    == [pc |-> "idle"]

VARIABLES kind,    \* the platform of each account; it does not change
          row,     \* SocialAccount: connection_status, oauth_access_token,
                   \* oauth_refresh_token (0 for ""), has a Queue
          issued,  \* tokens the platform has issued for each account
          live,    \* the ones it accepts
          key,     \* the refresh token it accepts, or 0
          soon,    \* the ones that expire within 7 days
          target,  \* accounts each post is for (PlatformPost); NoPost
          tasks,   \* queued check_social_account_health
          job,     \* what each process is doing
          session, \* pool and key of the member, key of the client: flows and
                   \* the platforms they go to
          link,    \* the ConnectionLink that was made: "active", "over"
          used, faults,
          raced,   \* accounts two processes held at a time, one died with, or
                   \* whose new tokens never arrived
          crossed  \* posts retargeted or taken apart during a disconnect

NoPost == {None}
ghosts == << raced, crossed >>
plat   == << kind, issued, live, key, soon >>
vars == << row, plat, target, tasks, job, session, link, used, faults, ghosts >>

Ways(a) == Platforms!Tokens[kind[a]]
Connected == {a \in Acct : row[a] # NoRow}
Request   == used < MaxRequests /\ used' = used + 1
Fault     == faults < MaxFaults /\ faults' = faults + 1
Goes(p, j) == job' = [job EXCEPT ![p] = j]
Holders(a) == {p \in Process : job[p] # Idle /\ job[p].acct = a}
(* A process takes account a in hand.                                      *)
Takes(p, a, j) ==
  /\ job[p] = Idle
  /\ Goes(p, j)
  /\ raced' = IF Holders(a) = {} THEN raced ELSE raced \cup {a}
Leaving == {p \in Web : job[p].pc \in {"count", "posts", "row"}}

(* The refresh token that comes with token n, if one comes.                *)
Ref(n, comes) == IF comes THEN n ELSE 0

(* A post is for some of the connected accounts.                           *)
Init ==
  /\ kind \in Kinds
  /\ \E comes \in [Start -> BOOLEAN] :
       /\ \A a \in Start : comes[a] \in Ways(a).gives
       /\ key = [a \in Acct |-> IF a \in Start THEN Ref(1, comes[a]) ELSE 0]
  /\ row = [a \in Acct |->
       IF a \in Start THEN [status |-> "connected", tok |-> 1, ref |-> key[a], queue |-> TRUE]
       ELSE NoRow]
  /\ issued = [a \in Acct |-> IF a \in Start THEN 1 ELSE 0]
  /\ live = [a \in Acct |-> IF a \in Start THEN {1} ELSE {}]
  /\ target \in [Post -> (SUBSET Start) \ {{}}]
  /\ soon = [a \in Acct |-> {}]
  /\ tasks = {}
  /\ job = [p \in Process |-> Idle]
  /\ session = [pool |-> {}, key |-> {}, client |-> {}]
  /\ link = "active"
  /\ used = 0 /\ faults = 0
  /\ raced = {} /\ crossed = {}
-----------------------------------------------------------------------------
(* The platform.                                                           *)

(* A token nears its end.                                                  *)
Age(a) ==
  /\ soon' = [soon EXCEPT ![a] = live[a]]
  /\ soon' # soon
  /\ Request
  /\ UNCHANGED << kind, row, issued, live, key, target, tasks, job, session, link, faults, ghosts >>

(* The owner of the account withdraws the permission.                      *)
Withdraw(a) ==
  /\ live[a] # {}
  /\ Fault
  /\ live' = [live EXCEPT ![a] = {}] /\ key' = [key EXCEPT ![a] = 0]
  /\ UNCHANGED << kind, row, issued, soon, target, tasks, job, session, link, used, ghosts >>

(* It issues a token in place of the ones in S.                            *)
Issue(a, S) ==
  /\ issued[a] < MaxTokens
  /\ issued' = [issued EXCEPT ![a] = @ + 1]
  /\ live' = [live EXCEPT ![a] = (@ \ S) \cup {issued[a] + 1}]
  /\ UNCHANGED << kind, soon >>

Valid(a, ref) == ref # 0 /\ ref = key[a]

(* refresh_token(ref): a token in place of m's, and the refresh token that *)
(* counts from then on, m's when no new one comes.                         *)
Renews(a, m, comes) ==
  /\ Valid(a, m.ref)
  /\ Issue(a, {m.tok})
  /\ key' = [key EXCEPT ![a] = IF comes THEN issued[a] + 1 ELSE m.ref]

(* Process p goes on with what it got.                                     *)
Refreshed(p, a, m) ==
  /\ \E comes \in Ways(a).new :
       /\ Renews(a, m, comes)
       /\ Goes(p, [job[p] EXCEPT !.pc = "save", !.mem.tok = issued[a] + 1, !.mem.ref = key'[a],
                                 !.mem.status = "connected"])
  /\ UNCHANGED << faults, raced >>

(* The call raises: it is refused, or it is done and its answer is lost.   *)
NotRefreshed(p, a, m) ==
  /\ \/ /\ IF Valid(a, m.ref) /\ issued[a] < MaxTokens THEN Fault ELSE UNCHANGED faults
        /\ UNCHANGED << plat, raced >>
     \/ /\ \E comes \in Ways(a).new : Renews(a, m, comes)
        /\ Fault
        /\ raced' = raced \cup {a}
  /\ Goes(p, IF p = "worker" THEN [job[p] EXCEPT !.pc = "save", !.mem.status = "token_expiring"]
             ELSE Idle)
-----------------------------------------------------------------------------
(* The health check.                                                       *)

(* Mutant of Checked: accounts that need a new token are left out.         *)
CheckedFresh == {a \in Connected : row[a].status = "connected" /\ row[a].tok \notin soon[a]}
(* The filter of schedule_all_health_checks.                               *)
Checked == {a \in Connected : row[a].status \in {"connected", "token_expiring"}}

(* A task too; the tasks of one round end before the next one's begin.     *)
Schedule ==
  /\ tasks = {} /\ job["worker"] = Idle
  /\ Checked # {}
  /\ tasks' = Checked
  /\ UNCHANGED << row, plat, target, job, session, link, used, faults, ghosts >>

(* The tasks run in the order the accounts were listed in, whichever it    *)
(* is.  check_social_account_health reads the account, if it is there.     *)
Check ==
  /\ tasks # {}
  /\ LET a == CHOOSE x \in tasks : TRUE
     IN  /\ tasks' = tasks \ {a}
         /\ IF a \in Connected
            THEN Takes("worker", a,
                       [pc |-> IF row[a].tok \in soon[a] /\ row[a].ref # 0 THEN "refresh" ELSE "save",
                        acct |-> a, mem |-> row[a]])
            ELSE job["worker"] = Idle /\ UNCHANGED << job, raced >>
  /\ UNCHANGED << row, plat, target, session, link, used, faults, crossed >>

Refresh(p) ==
  /\ job[p].pc = "refresh"
  /\ LET a == job[p].acct  m == job[p].mem
     IN  Refreshed(p, a, m) \/ NotRefreshed(p, a, m)
  /\ UNCHANGED << row, target, tasks, session, link, used, crossed >>

(* What a new token comes with: the defaults of update_or_create, and the  *)
(* engine's update_fields.                                                 *)
Renewed(r, m) == [r EXCEPT !.tok = m.tok, !.ref = m.ref, !.status = "connected"]

(* Mutant of Saved: the tokens are left out of update_fields.              *)
SavedStatus(r, m, status) == [r EXCEPT !.status = status]
(* save(update_fields=...) of the health check.                            *)
Saved(r, m, status) == [r EXCEPT !.tok = m.tok, !.ref = m.ref, !.status = status]

(* get_profile, then the save.  It raises when the account is gone; the    *)
(* task is then tried again and finds nothing.                             *)
SaveCheck ==
  /\ job["worker"].pc = "save"
  /\ LET a == job["worker"].acct  m == job["worker"].mem
         after == IF m.status = "token_expiring" THEN m.status ELSE "connected"
     IN  \/ /\ m.tok \in live[a]
            /\ row' = IF a \in Connected THEN [row EXCEPT ![a] = Saved(@, m, after)] ELSE row
            /\ UNCHANGED faults
         \/ /\ IF m.tok \in live[a] THEN Fault ELSE UNCHANGED faults
            /\ row' = IF a \in Connected THEN [row EXCEPT ![a] = Saved(@, m, "error")] ELSE row
  /\ Goes("worker", Idle)
  /\ UNCHANGED << plat, target, tasks, session, link, used, ghosts >>

(* The engine refreshes before it publishes, with a refresh token or       *)
(* without one, and saves what it got, with the account as connected.      *)
(* What it publishes is in Dispatch and Publisher.                         *)
Publish(t, a) ==
  /\ a \in Connected /\ row[a].tok \in soon[a] /\ Ways(a).auth = "oauth2"
  /\ \E p \in Post : a \in target[p]
  /\ Takes(t, a, [pc |-> "refresh", acct |-> a, mem |-> row[a]])
  /\ UNCHANGED << row, plat, target, tasks, session, link, used, faults, crossed >>

(* pinterest_boards of the composer does the same.                         *)
Boards(h, a) ==
  /\ a \in Connected /\ row[a].tok \in soon[a] /\ kind[a] = "pinterest"
  /\ Takes(h, a, [pc |-> "refresh", acct |-> a, mem |-> row[a]])
  /\ UNCHANGED << row, plat, target, tasks, session, link, used, faults, crossed >>

SaveTokens(t) ==
  /\ job[t].pc = "save"
  /\ LET a == job[t].acct
     IN  row' = IF a \in Connected THEN [row EXCEPT ![a] = Renewed(@, job[t].mem)] ELSE row
  /\ Goes(t, Idle)
  /\ UNCHANGED << plat, target, tasks, session, link, used, faults, ghosts >>
-----------------------------------------------------------------------------
(* Connecting.                                                             *)

Nowhere == UNCHANGED << row, plat, target, tasks, ghosts >>
Flows == session.pool \cup session.key \cup session.client
Unused(f) ==
  /\ \A e \in Flows : e[1] # f
  /\ \A p \in Process : "flow" \in DOMAIN job[p] => job[p].flow # f
(* Platforms of the round trip; Bluesky and Mastodon have their own forms. *)
RoundTrip == {kind[a] : a \in Acct} \ {"bluesky", "mastodon"}
Begins(f, s) ==
  /\ Unused(f) /\ Request
  /\ session' = s
  /\ Nowhere /\ UNCHANGED << job, link, faults >>

(* connect_platform: the nonce goes to the pool and to the older key.      *)
StartFlow(f, site) ==
  Begins(f, [session EXCEPT !.pool = @ \cup {<< f, site >>}, !.key = {<< f, site >>}])

(* connect_mastodon: to the key alone.  The instance knows the app from    *)
(* the first time on.                                                      *)
StartMastodon(f) == Begins(f, [session EXCEPT !.key = {<< f, "mastodon" >>}])

(* reconnect                                                               *)
Reconnect(f, a) ==
  /\ a \in Connected /\ kind[a] \in RoundTrip
  /\ Begins(f, [session EXCEPT !.key = {<< f, kind[a] >>}])

(* connection_oauth_start                                                  *)
StartLinkFlow(f, site) ==
  link = "active" /\ Begins(f, [session EXCEPT !.client = {<< f, site >>}])

(* connection_mastodon_start                                               *)
StartLinkMastodon(f) ==
  link = "active" /\ Begins(f, [session EXCEPT !.client = {<< f, "mastodon" >>}])

(* The permission is refused on the platform.                              *)
Declined ==
  /\ Flows # {}
  /\ session' \in {[session EXCEPT !.key = {}], [session EXCEPT !.client = {}]}
  /\ Nowhere /\ UNCHANGED << job, link, used, faults >>

(* oauth_callback takes all nonces out of the session, whichever of them   *)
(* comes back.                                                             *)
Callback(h, e, a) ==
  /\ e \in session.pool \cup session.key
  /\ e[2] = kind[a]
  /\ session' = [session EXCEPT !.pool = {}, !.key = {}]
  /\ Takes(h, a, [pc |-> "exchange", acct |-> a, flow |-> e[1], by |-> "member"])
  /\ UNCHANGED << row, plat, target, tasks, link, used, faults, crossed >>

(* is_active                                                               *)
Usable == link = "active"

(* connection_oauth_callback                                               *)
LinkCallback(h, e, a) ==
  /\ e \in session.client /\ e[2] = kind[a]
  /\ session' = [session EXCEPT !.client = {}]
  /\ IF Usable
     THEN Takes(h, a, [pc |-> "exchange", acct |-> a, flow |-> e[1], by |-> "link"])
     ELSE job[h] = Idle /\ UNCHANGED << job, raced >>
  /\ UNCHANGED << row, plat, target, tasks, link, used, faults, crossed >>

(* A handle and an app password take the place of the round trip.          *)
Password(h, a, by) ==
  /\ kind[a] = "bluesky"
  /\ Request
  /\ Takes(h, a, [pc |-> "exchange", acct |-> a, by |-> by])
  /\ UNCHANGED << row, plat, target, tasks, session, link, faults, crossed >>

(* connect_bluesky                                                         *)
ConnectDirectly(h, a) == Password(h, a, "member")

(* connection_bluesky_connect                                              *)
LinkDirectly(h, a) == Usable /\ Password(h, a, "link")

(* The platform issues tokens for a code or a password.                    *)
Grants(a, comes) ==
  /\ Issue(a, {})
  /\ key' = [key EXCEPT ![a] = Ref(issued[a] + 1, comes)]

(* exchange_code or create_session, then get_profile.  When the second     *)
(* raises, or the answer of the first is lost, nobody stores the tokens.   *)
Exchange(h) ==
  /\ job[h].pc = "exchange"
  /\ LET a == job[h].acct
     IN  \/ /\ \E comes \in Ways(a).gives :
                 /\ Grants(a, comes)
                 /\ Goes(h, [pc |-> "store", acct |-> a, tok |-> issued[a] + 1, ref |-> key'[a],
                             by |-> job[h].by])
            /\ UNCHANGED << faults, raced >>
         \/ /\ \E comes \in Ways(a).gives : Grants(a, comes)
            /\ Fault
            /\ Goes(h, Idle)
            /\ raced' = raced \cup {a}
         \/ /\ IF issued[a] < MaxTokens THEN Fault ELSE UNCHANGED faults
            /\ Goes(h, Idle)
            /\ UNCHANGED << plat, raced >>
  /\ UNCHANGED << row, target, tasks, session, link, used, crossed >>

(* _create_or_update_account                                               *)
Store(h) ==
  /\ job[h].pc = "store"
  /\ LET a == job[h].acct
     IN  /\ row' = [row EXCEPT ![a] = Renewed(@, job[h])]
         /\ Goes(h, IF a \in Connected THEN Idle ELSE [pc |-> "queue", acct |-> a])
  /\ UNCHANGED << plat, target, tasks, session, link, used, faults, ghosts >>

(* create_default_queue_and_slots                                          *)
MakeQueue(h) ==
  /\ job[h].pc = "queue"
  /\ LET a == job[h].acct
     IN  row' = IF a \in Connected THEN [row EXCEPT ![a].queue = TRUE] ELSE row
  /\ Goes(h, Idle)
  /\ UNCHANGED << plat, target, tasks, session, link, used, faults, ghosts >>

(* revoke_link, or the time the link was given passes.                     *)
EndLink ==
  /\ link = "active" /\ Request
  /\ link' = "over"
  /\ Nowhere /\ UNCHANGED << job, session, faults >>
-----------------------------------------------------------------------------
(* Disconnecting.                                                          *)

(* A post is saved for some of the accounts (apps/composer).               *)
Retarget(p, S) ==
  /\ S # {} /\ S \subseteq Connected /\ S # target[p]
  /\ Request
  /\ target' = [target EXCEPT ![p] = S]
  /\ crossed' = IF Leaving # {} THEN crossed \cup {p} ELSE crossed
  /\ UNCHANGED << row, plat, tasks, job, session, link, faults, raced >>

(* disconnect reads the account and has its token revoked, if the platform *)
(* lets it.                                                                *)
Disconnect(h, a) ==
  /\ a \in Connected
  /\ Request
  /\ Takes(h, a, [pc |-> "count", acct |-> a])
  /\ \/ /\ live' = [live EXCEPT ![a] = @ \ {row[a].tok}]
        /\ key' = [key EXCEPT ![a] = IF @ = row[a].ref THEN 0 ELSE @]
        /\ UNCHANGED faults
     \/ Fault /\ UNCHANGED << live, key >>
  /\ crossed' = IF Leaving = {} THEN crossed ELSE crossed \cup Post
  /\ UNCHANGED << kind, row, issued, soon, target, tasks, session, link >>

(* Mutant of Orphans: every post of the account.                           *)
OrphansAll(a) == {p \in Post : a \in target[p]}
(* The posts that are for this account only.                               *)
Orphans(a) == {p \in Post : target[p] = {a}}

CountPosts(h) ==
  /\ job[h].pc = "count"
  /\ Goes(h, [pc |-> "posts", acct |-> job[h].acct, orphans |-> Orphans(job[h].acct)])
  /\ UNCHANGED << row, plat, target, tasks, session, link, used, faults, ghosts >>

DeletePosts(h) ==
  /\ job[h].pc = "posts"
  /\ target' = [p \in Post |-> IF p \in job[h].orphans THEN NoPost ELSE target[p]]
  /\ Goes(h, [pc |-> "row", acct |-> job[h].acct])
  /\ UNCHANGED << row, plat, tasks, session, link, used, faults, ghosts >>

(* account.delete() and its cascade                                        *)
DeleteAccount(h) ==
  /\ job[h].pc = "row"
  /\ row' = [row EXCEPT ![job[h].acct] = NoRow]
  /\ target' = [p \in Post |-> target[p] \ {job[h].acct}]
  /\ Goes(h, Idle)
  /\ UNCHANGED << plat, tasks, session, link, used, faults, ghosts >>
-----------------------------------------------------------------------------
Crash(p) ==
  /\ job[p] # Idle
  /\ Fault
  /\ raced' = raced \cup {job[p].acct}
  /\ crossed' = IF p \in Leaving THEN crossed \cup Post ELSE crossed
  /\ Goes(p, Idle)
  /\ UNCHANGED << row, plat, target, tasks, session, link, used >>

CheckStep  == Schedule \/ Check \/ Refresh("worker") \/ SaveCheck
EngineStep(t) == Refresh(t) \/ SaveTokens(t)
WebStep(h) ==
  \/ Refresh(h) \/ SaveTokens(h) \/ Exchange(h) \/ Store(h) \/ MakeQueue(h)
  \/ CountPosts(h) \/ DeletePosts(h) \/ DeleteAccount(h)

(* The request threads are alike: the first that is free takes a request.  *)
Free == {CHOOSE h \in Web : job[h] = Idle \/ Idle \notin {job[k] : k \in Web}}

Next ==
  \/ CheckStep
  \/ \E t \in Thread : EngineStep(t) \/ \E a \in Acct : Publish(t, a)
  \/ \E h \in Web : WebStep(h)
  \/ \E h \in Free, a \in Acct :
       \/ Boards(h, a)
       \/ Disconnect(h, a)
       \/ ConnectDirectly(h, a) \/ LinkDirectly(h, a)
       \/ \E e \in Flows : Callback(h, e, a) \/ LinkCallback(h, e, a)
  \/ \E f \in Flow :
       \/ \E site \in RoundTrip : StartFlow(f, site) \/ StartLinkFlow(f, site)
       \/ (\E a \in Acct : kind[a] = "mastodon") /\ (StartMastodon(f) \/ StartLinkMastodon(f))
       \/ \E a \in Acct : Reconnect(f, a)
  \/ Declined \/ EndLink
  \/ \E p \in Post, S \in SUBSET Acct : Retarget(p, S)
  \/ \E a \in Acct : Age(a) \/ Withdraw(a)
  \/ \E p \in Process : Crash(p)

(* The health checks recur every 6 hours; what has begun is finished.      *)
Fairness ==
  /\ WF_vars(CheckStep)
  /\ \A t \in Thread : WF_vars(EngineStep(t))
  /\ \A h \in Web : WF_vars(WebStep(h))

Spec == Init /\ [][Next]_vars /\ Fairness
-----------------------------------------------------------------------------
TypeOK ==
  /\ \A a \in Acct : row[a] = NoRow
       \/ row[a] \in [status : Status, tok : 1 .. MaxTokens, ref : 0 .. MaxTokens, queue : BOOLEAN]
  /\ issued \in [Acct -> 0 .. MaxTokens]
  /\ \A a \in Acct : live[a] \cup soon[a] \subseteq 1 .. issued[a] /\ key[a] \in 0 .. issued[a]
  /\ \A p \in Post : target[p] = NoPost \/ target[p] \subseteq Acct
  /\ tasks \subseteq Acct
  /\ kind \in Kinds
  /\ Flows \subseteq Flow \X Platforms!Site
  /\ link \in {"active", "over"}

(* The account keeps the token the platform issued last, and the refresh   *)
(* token the platform accepts, whether it rotates them or not: the engine, *)
(* the health check, the composer and a reconnect lose none, unless two of *)
(* them had the account in hand at a time, one died with it, or the answer *)
(* with the new tokens, or the profile after it, never came.               *)
TokensKept ==
  \A a \in Connected \ raced :
    Holders(a) = {} => row[a].tok = issued[a] /\ key[a] \in {0, row[a].ref}

(* A connected account the platform has shut out is found out: the health  *)
(* check says so, or it is given a token that works, or is disconnected.   *)
ShutOutIsNoticed ==
  \A a \in Acct :
    (a \in Connected /\ row[a].tok \notin live[a])
      ~> (a \notin Connected \/ row[a].status = "error" \/ row[a].tok \in live[a])

(* A disconnect takes the posts that are for this account alone, and them  *)
(* only: no post is ever left for no account, and none that is for another *)
(* one too is lost, unless two disconnects overlap or a post is saved      *)
(* during one.                                                             *)
PostsKeepTargets ==
  /\ [](\A p \in Post \ crossed : target[p] # {})
  /\ [][\A p \in Post \ crossed :
          target[p] # NoPost /\ target'[p] = NoPost => Cardinality(target[p]) = 1]_vars
=============================================================================
