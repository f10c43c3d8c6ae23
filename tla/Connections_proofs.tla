------------------------- MODULE Connections_proofs -------------------------
(***************************************************************************)
(* Machine-checked theorems about the social accounts, for every set of    *)
(* accounts and platforms, posts, round trips and threads, and any number  *)
(* of tokens, requests and faults.                                         *)
(***************************************************************************)
EXTENDS Connections, FiniteSetTheorems, TLAPS

(* A SocialAccount that is there, and what a process may hold.             *)
Account ==
  [status : Status, tok : 1 .. MaxTokens, ref : 0 .. MaxTokens, queue : BOOLEAN]

Jobs ==
  {Idle}
    \cup [pc : {"refresh", "save"}, acct : Acct, mem : Account]
    \cup [pc : {"exchange"}, acct : Acct, flow : Flow, by : {"member", "link"}]
    \cup [pc : {"exchange"}, acct : Acct, by : {"member", "link"}]
    \cup [pc : {"store"}, acct : Acct, tok : 1 .. MaxTokens, ref : 0 .. MaxTokens, by : {"member", "link"}]
    \cup [pc : {"queue", "count", "row"}, acct : Acct]
    \cup [pc : {"posts"}, acct : Acct, orphans : SUBSET Post]

Tables ==
  /\ row \in [Acct -> Account \cup {NoRow}]
  /\ target \in [Post -> (SUBSET Acct) \cup {NoPost}]
  /\ tasks \in SUBSET Acct
Platform ==
  /\ kind \in Kinds
  /\ issued \in [Acct -> 0 .. MaxTokens]
  /\ live \in [Acct -> SUBSET Nat] /\ soon \in [Acct -> SUBSET Nat] /\ key \in [Acct -> Nat]
  /\ \A a \in Acct : live[a] \cup soon[a] \subseteq 1 .. issued[a] /\ key[a] \in 0 .. issued[a]
Sites == Flow \X Platforms!Site
Sessions ==
  /\ session \in [pool : SUBSET Sites, key : SUBSET Sites, client : SUBSET Sites]
  /\ link \in {"active", "over"}
Types == Tables /\ Platform /\ Sessions /\ job \in [Process -> Jobs]

(* What a process holds, by where it is.                                   *)
LEMMA JobKinds ==
  ASSUME NEW j \in Jobs
  PROVE  /\ j # Idle => j.acct \in Acct /\ j.pc # "idle"
         /\ j.pc \in {"refresh", "save"} => j \in [pc : {"refresh", "save"}, acct : Acct, mem : Account]
         /\ j.pc = "exchange" => j.by \in {"member", "link"}
         /\ j.pc = "store" =>
              j \in [pc : {"store"}, acct : Acct, tok : 1 .. MaxTokens, ref : 0 .. MaxTokens, by : {"member", "link"}]
         /\ j.pc = "posts" => j \in [pc : {"posts"}, acct : Acct, orphans : SUBSET Post]
         /\ j.pc # "idle" => j # Idle
BY DEF Jobs, Idle

(* A row that is there.                                                    *)
LEMMA Rows ==
  ASSUME Types, NEW a \in Acct
  PROVE  /\ a \in Connected => row[a] \in Account
         /\ row[a] \in [status : Status \cup {None}, tok : 0 .. MaxTokens, ref : 0 .. MaxTokens, queue : BOOLEAN]
         /\ Account \subseteq [status : Status \cup {None}, tok : 0 .. MaxTokens, ref : 0 .. MaxTokens, queue : BOOLEAN]
<1>1. MaxTokens \in Nat \ {0}
  BY ConnectionsAssumption
<1>2. row[a] \in Account \cup {NoRow} /\ (a \in Connected => row[a] # NoRow)
  BY DEF Types, Tables, Connected
<1>3. Account \subseteq [status : Status \cup {None}, tok : 0 .. MaxTokens, ref : 0 .. MaxTokens, queue : BOOLEAN]
  BY <1>1 DEF Account
<1>4. NoRow \in [status : Status \cup {None}, tok : 0 .. MaxTokens, ref : 0 .. MaxTokens, queue : BOOLEAN]
  BY <1>1 DEF NoRow
<1> QED BY <1>2, <1>3, <1>4

(* The tokens and the status of a row or of a copy of one, set.            *)
LEMMA TokensSet ==
  ASSUME NEW r \in [status : Status \cup {None}, tok : 0 .. MaxTokens, ref : 0 .. MaxTokens, queue : BOOLEAN],
         NEW tok \in 1 .. MaxTokens, NEW ref \in 0 .. MaxTokens, NEW s \in Status
  PROVE  /\ [r EXCEPT !.tok = tok, !.ref = ref, !.status = s] \in Account
         /\ [r EXCEPT !.tok = tok, !.ref = ref, !.status = s].tok = tok
         /\ [r EXCEPT !.tok = tok, !.ref = ref, !.status = s].ref = ref
BY DEF Account

(* The types hold to begin with.                                           *)
LEMMA TypesInit == Init => Types
<1> SUFFICES ASSUME Init PROVE Types
  OBVIOUS
<1>1. MaxTokens \in Nat \ {0} /\ Start \subseteq Acct
  BY ConnectionsAssumption
<1>2. key \in [Acct -> {0, 1}] /\ \A a \in Acct \ Start : key[a] = 0
  <2>1. PICK comes : key = [a \in Acct |-> IF a \in Start THEN Ref(1, comes[a]) ELSE 0]
    BY DEF Init
  <2> QED BY <2>1 DEF Ref
<1>3. Tables
  <2>1. row \in [Acct -> Account \cup {NoRow}]
    <3>1. \A a \in Acct : [status |-> "connected", tok |-> 1, ref |-> key[a], queue |-> TRUE] \in Account
      BY <1>1, <1>2 DEF Account, Status
    <3> QED BY <3>1 DEF Init
  <2>2. target \in [Post -> (SUBSET Acct) \cup {NoPost}]
    BY <1>1 DEF Init
  <2> QED BY <2>1, <2>2 DEF Init, Tables
<1>4. Platform
  BY <1>1, <1>2 DEF Init, Platform
<1>5. Sessions
  BY DEF Init, Sessions
<1>6. job \in [Process -> Jobs]
  BY DEF Init, Jobs
<1> QED BY <1>3, <1>4, <1>5, <1>6 DEF Types

(* One process goes on.                                                    *)
LEMMA GoesOn ==
  ASSUME job \in [Process -> Jobs], NEW p \in Process, NEW j \in Jobs, Goes(p, j)
  PROVE  /\ job' \in [Process -> Jobs] /\ job'[p] = j
         /\ \A q \in Process \ {p} : job'[q] = job[q]
BY DEF Goes

(* What a round trip begins with is a platform of the workspace.           *)
LEMMA TripsAreTyped ==
  ASSUME Types
  PROVE  /\ RoundTrip \subseteq Platforms!Site /\ \A a \in Acct : kind[a] \in Platforms!Site
         /\ "mastodon" \in Platforms!Site
BY ConnectionsAssumption DEF Types, Platform, RoundTrip, Platforms!Site

LEMMA TypesPlatform ==
  ASSUME Types, (\E a \in Acct : Age(a) \/ Withdraw(a)) \/ Schedule \/ Declined \/ EndLink
  PROVE  Types'
<1>1. CASE \E a \in Acct : Age(a)
  <2>1. Platform'
    BY <1>1 DEF Age, Types, Platform, ghosts
  <2> QED BY <1>1, <2>1 DEF Age, Types, Tables, Sessions, ghosts
<1>2. CASE \E a \in Acct : Withdraw(a)
  <2>1. Platform'
    BY <1>2 DEF Withdraw, Types, Platform, ghosts
  <2> QED BY <1>2, <2>1 DEF Withdraw, Types, Tables, Sessions, ghosts
<1>3. CASE Schedule
  BY <1>3 DEF Schedule, Checked, Connected, Types, Tables, Platform, Sessions, plat, ghosts
<1>4. CASE Declined
  <2>1. Sessions'
    BY <1>4 DEF Declined, Types, Sessions
  <2> QED BY <1>4, <2>1 DEF Declined, Nowhere, Types, Tables, Platform, plat, ghosts
<1>5. CASE EndLink
  BY <1>5 DEF EndLink, Nowhere, Types, Tables, Platform, Sessions, plat, ghosts
<1> QED BY <1>1, <1>2, <1>3, <1>4, <1>5

LEMMA TypesFlow ==
  ASSUME Types, NEW f \in Flow,
         \/ \E site \in RoundTrip : StartFlow(f, site) \/ StartLinkFlow(f, site)
         \/ StartMastodon(f) \/ StartLinkMastodon(f)
         \/ \E a \in Acct : Reconnect(f, a)
  PROVE  Types'
<1>1. PICK s \in [pool : SUBSET Sites, key : SUBSET Sites, client : SUBSET Sites] : Begins(f, s)
  <2>1. /\ session \in [pool : SUBSET Sites, key : SUBSET Sites, client : SUBSET Sites]
        /\ \A site \in Platforms!Site : << f, site >> \in Sites
    BY DEF Types, Sessions, Sites
  <2>2. ASSUME NEW site \in Platforms!Site
        PROVE  /\ [session EXCEPT !.pool = @ \cup {<< f, site >>}, !.key = {<< f, site >>}]
                    \in [pool : SUBSET Sites, key : SUBSET Sites, client : SUBSET Sites]
               /\ [session EXCEPT !.key = {<< f, site >>}]
                    \in [pool : SUBSET Sites, key : SUBSET Sites, client : SUBSET Sites]
               /\ [session EXCEPT !.client = {<< f, site >>}]
                    \in [pool : SUBSET Sites, key : SUBSET Sites, client : SUBSET Sites]
    <3> DEFINE S == Sites
               t == << f, site >>
    <3>1. t \in S
      BY <2>1
    <3> HIDE DEF S, t
    <3>2. session \in [pool : SUBSET S, key : SUBSET S, client : SUBSET S]
      BY <2>1 DEF S
    <3>3. /\ [session EXCEPT !.pool = @ \cup {t}, !.key = {t}] \in [pool : SUBSET S, key : SUBSET S, client : SUBSET S]
          /\ [session EXCEPT !.key = {t}] \in [pool : SUBSET S, key : SUBSET S, client : SUBSET S]
          /\ [session EXCEPT !.client = {t}] \in [pool : SUBSET S, key : SUBSET S, client : SUBSET S]
      BY <3>1, <3>2
    <3> QED BY <3>3 DEF S, t
  <2>3. CASE \E site \in RoundTrip : StartFlow(f, site) \/ StartLinkFlow(f, site)
    BY <2>2, <2>3, TripsAreTyped DEF StartFlow, StartLinkFlow
  <2>4. CASE StartMastodon(f) \/ StartLinkMastodon(f)
    BY <2>2, <2>4, TripsAreTyped DEF StartMastodon, StartLinkMastodon
  <2>5. CASE \E a \in Acct : Reconnect(f, a)
    BY <2>2, <2>5, TripsAreTyped DEF Reconnect
  <2> QED BY <2>3, <2>4, <2>5
<1>2. Sessions'
  BY <1>1 DEF Begins, Types, Sessions
<1> QED BY <1>1, <1>2 DEF Begins, Nowhere, Types, Tables, Platform, plat, ghosts

(* A process takes an account in hand, or finds that it may not.           *)
LEMMA TypesTake ==
  ASSUME Types, NEW p \in Process, NEW a \in Acct, NEW j \in Jobs, Takes(p, a, j)
  PROVE  job' \in [Process -> Jobs]
BY GoesOn DEF Takes, Types

LEMMA TypesTakes ==
  ASSUME Types,
         \/ Check
         \/ \E t \in Thread, a \in Acct : Publish(t, a)
         \/ \E h \in Web, a \in Acct : Boards(h, a) \/ Disconnect(h, a) \/ ConnectDirectly(h, a) \/ LinkDirectly(h, a)
         \/ \E h \in Web, a \in Acct, e \in Flows : Callback(h, e, a) \/ LinkCallback(h, e, a)
  PROVE  Types'
<1>0. "worker" \in Process /\ Web \subseteq Process /\ Thread \subseteq Process
  BY DEF Process
<1>1. CASE Check
  <2> DEFINE a == CHOOSE x \in tasks : TRUE
  <2>1. a \in Acct /\ tasks' \in SUBSET Acct
    BY <1>1 DEF Check, Types, Tables
  <2> DEFINE j == [pc |-> IF row[a].tok \in soon[a] /\ row[a].ref # 0 THEN "refresh" ELSE "save",
                   acct |-> a, mem |-> row[a]]
  <2>2. IF a \in Connected THEN Takes("worker", a, j) ELSE job' = job
    BY <1>1 DEF Check
  <2>3. a \in Connected => j \in Jobs
    BY <2>1, Rows DEF Jobs
  <2> HIDE DEF a, j
  <2>4. job' \in [Process -> Jobs]
    BY <1>0, <2>1, <2>2, <2>3, TypesTake DEF Types
  <2> QED BY <1>1, <2>1, <2>4 DEF Check, Types, Tables, Platform, Sessions, plat
<1>2. CASE \E t \in Thread, a \in Acct : Publish(t, a)
  <2>1. PICK t \in Thread, a \in Acct : Publish(t, a)
    BY <1>2
  <2>2. [pc |-> "refresh", acct |-> a, mem |-> row[a]] \in Jobs
    BY <2>1, Rows DEF Publish, Jobs
  <2>3. job' \in [Process -> Jobs]
    BY <1>0, <2>1, <2>2, TypesTake DEF Publish
  <2> QED BY <2>1, <2>3 DEF Publish, Types, Tables, Platform, Sessions, plat
<1>3. CASE \E h \in Web, a \in Acct : Boards(h, a)
  <2>1. PICK h \in Web, a \in Acct : Boards(h, a)
    BY <1>3
  <2>2. [pc |-> "refresh", acct |-> a, mem |-> row[a]] \in Jobs
    BY <2>1, Rows DEF Boards, Jobs
  <2>3. job' \in [Process -> Jobs]
    BY <1>0, <2>1, <2>2, TypesTake DEF Boards
  <2> QED BY <2>1, <2>3 DEF Boards, Types, Tables, Platform, Sessions, plat
<1>4. CASE \E h \in Web, a \in Acct : Disconnect(h, a)
  <2>1. PICK h \in Web, a \in Acct : Disconnect(h, a)
    BY <1>4
  <2>2. [pc |-> "count", acct |-> a] \in Jobs
    BY DEF Jobs
  <2>3. job' \in [Process -> Jobs]
    BY <1>0, <2>1, <2>2, TypesTake DEF Disconnect
  <2>4. Platform'
    <3>1. \/ live' = [live EXCEPT ![a] = @ \ {row[a].tok}] /\ key' = [key EXCEPT ![a] = IF @ = row[a].ref THEN 0 ELSE @]
          \/ live' = live /\ key' = key
      BY <2>1 DEF Disconnect
    <3>2. kind' = kind /\ issued' = issued /\ soon' = soon
      BY <2>1 DEF Disconnect
    <3> QED BY <3>1, <3>2 DEF Types, Platform
  <2> QED BY <2>1, <2>3, <2>4 DEF Disconnect, Types, Tables, Sessions
<1>5. CASE \E h \in Web, a \in Acct : ConnectDirectly(h, a) \/ LinkDirectly(h, a)
  <2>1. PICK h \in Web, a \in Acct, by \in {"member", "link"} : Password(h, a, by)
    BY <1>5 DEF ConnectDirectly, LinkDirectly
  <2>2. [pc |-> "exchange", acct |-> a, by |-> by] \in Jobs
    BY DEF Jobs
  <2>3. job' \in [Process -> Jobs]
    BY <1>0, <2>1, <2>2, TypesTake DEF Password
  <2> QED BY <2>1, <2>3 DEF Password, Types, Tables, Platform, Sessions, plat
<1>6. CASE \E h \in Web, a \in Acct, e \in Flows : Callback(h, e, a) \/ LinkCallback(h, e, a)
  <2>1. PICK h \in Web, a \in Acct, e \in Flows : Callback(h, e, a) \/ LinkCallback(h, e, a)
    BY <1>6
  <2>2. e[1] \in Flow
    BY DEF Types, Sessions, Flows, Sites
  <2>3. \A by \in {"member", "link"} : [pc |-> "exchange", acct |-> a, flow |-> e[1], by |-> by] \in Jobs
    BY <2>2 DEF Jobs
  <2>4. job' \in [Process -> Jobs]
    <3>1. CASE Callback(h, e, a)
      BY <1>0, <2>3, <3>1, TypesTake DEF Callback
    <3>2. CASE LinkCallback(h, e, a)
      BY <1>0, <2>3, <3>2, TypesTake DEF LinkCallback, Types
    <3> QED BY <2>1, <3>1, <3>2
  <2>5. Sessions' /\ UNCHANGED << row, plat, target, tasks >>
    <3>1. session' \in {[session EXCEPT !.pool = {}, !.key = {}], [session EXCEPT !.client = {}]}
          /\ UNCHANGED << row, plat, target, tasks, link >>
      BY <2>1 DEF Callback, LinkCallback
    <3> QED BY <3>1 DEF Types, Sessions
  <2> QED BY <2>4, <2>5 DEF Types, Tables, Platform, plat
<1> QED BY <1>1, <1>2, <1>3, <1>4, <1>5, <1>6

(* A new token, and the refresh token the platform accepts from now on.    *)
LEMMA IssueIsTyped ==
  ASSUME Types, NEW a \in Acct, NEW S, Issue(a, S),
         NEW ref \in 0 .. issued[a] + 1, key' = [key EXCEPT ![a] = ref]
  PROVE  Platform' /\ issued[a] + 1 \in 1 .. MaxTokens /\ issued[a] \in Nat
         /\ issued'[a] = issued[a] + 1 /\ \A b \in Acct \ {a} : issued'[b] = issued[b]
<1>1. /\ issued[a] < MaxTokens /\ issued' = [issued EXCEPT ![a] = @ + 1]
      /\ live' = [live EXCEPT ![a] = (@ \ S) \cup {issued[a] + 1}]
      /\ UNCHANGED << kind, soon >>
  BY DEF Issue
<1>2. issued[a] + 1 \in 1 .. MaxTokens /\ issued[a] \in Nat
  BY <1>1, ConnectionsAssumption DEF Types, Platform
<1>3. kind' \in Kinds
  BY <1>1 DEF Types, Platform
<1>4. issued' \in [Acct -> 0 .. MaxTokens] /\ issued'[a] = issued[a] + 1
      /\ \A b \in Acct \ {a} : issued'[b] = issued[b]
  BY <1>1, <1>2 DEF Types, Platform
<1>5. live' \in [Acct -> SUBSET Nat] /\ live'[a] \subseteq live[a] \cup {issued[a] + 1}
      /\ \A b \in Acct \ {a} : live'[b] = live[b]
  BY <1>1, <1>2 DEF Types, Platform
<1>6. key' \in [Acct -> Nat] /\ key'[a] = ref /\ \A b \in Acct \ {a} : key'[b] = key[b]
  BY <1>2 DEF Types, Platform
<1>7. soon' = soon /\ soon \in [Acct -> SUBSET Nat]
      /\ \A b \in Acct : live[b] \cup soon[b] \subseteq 1 .. issued[b] /\ key[b] \in 0 .. issued[b]
  BY <1>1 DEF Types, Platform
<1>8. ASSUME NEW b \in Acct
      PROVE  live'[b] \cup soon'[b] \subseteq 1 .. issued'[b] /\ key'[b] \in 0 .. issued'[b]
  <2>1. CASE b = a
    <3>1. 1 .. issued[a] \subseteq 1 .. issued[a] + 1 /\ issued[a] + 1 \in 1 .. issued[a] + 1
      BY <1>2
    <3>2. live'[a] \cup soon'[a] \subseteq 1 .. issued[a] + 1
      BY <1>5, <1>7, <3>1
    <3> QED BY <1>4, <1>6, <2>1, <3>2
  <2>2. CASE b # a
    BY <1>4, <1>5, <1>6, <1>7, <2>2
  <2> QED BY <2>1, <2>2
<1> QED BY <1>2, <1>3, <1>4, <1>5, <1>6, <1>7, <1>8 DEF Platform

LEMMA RenewIsTyped ==
  ASSUME Types, NEW a \in Acct, NEW m \in Account, NEW comes, Renews(a, m, comes)
  PROVE  /\ Platform' /\ issued[a] + 1 \in 1 .. MaxTokens /\ key'[a] \in 0 .. MaxTokens
         /\ issued'[a] = issued[a] + 1
         /\ \A b \in Acct \ {a} : issued'[b] = issued[b] /\ key'[b] = key[b]
<1> DEFINE ref == IF comes THEN issued[a] + 1 ELSE m.ref
<1>1. m.ref = key[a] /\ Issue(a, {m.tok}) /\ key' = [key EXCEPT ![a] = ref]
  BY DEF Renews, Valid
<1>2. issued[a] \in Nat /\ m.ref \in 0 .. issued[a]
  BY <1>1 DEF Types, Platform
<1>3. ref \in 0 .. issued[a] + 1
  BY <1>2
<1> HIDE DEF ref
<1>4. key'[a] = ref /\ \A b \in Acct \ {a} : key'[b] = key[b]
  BY <1>1 DEF Types, Platform
<1>5. Platform' /\ issued[a] + 1 \in 1 .. MaxTokens /\ issued'[a] = issued[a] + 1
      /\ \A b \in Acct \ {a} : issued'[b] = issued[b]
  BY <1>1, <1>3, IssueIsTyped
<1>6. ref \in 0 .. MaxTokens
  BY <1>2, <1>3, <1>5, ConnectionsAssumption
<1> QED BY <1>4, <1>5, <1>6

LEMMA GrantIsTyped ==
  ASSUME Types, NEW a \in Acct, NEW comes, Grants(a, comes)
  PROVE  /\ Platform' /\ issued[a] + 1 \in 1 .. MaxTokens /\ key'[a] \in 0 .. MaxTokens
         /\ issued'[a] = issued[a] + 1
         /\ \A b \in Acct \ {a} : issued'[b] = issued[b] /\ key'[b] = key[b]
<1> DEFINE ref == Ref(issued[a] + 1, comes)
<1>1. Issue(a, {}) /\ key' = [key EXCEPT ![a] = ref]
  BY DEF Grants
<1>2. issued[a] \in Nat /\ ref \in 0 .. issued[a] + 1
  BY DEF Ref, Types, Platform
<1> HIDE DEF ref
<1>3. key'[a] = ref /\ \A b \in Acct \ {a} : key'[b] = key[b]
  BY <1>1 DEF Types, Platform
<1>4. Platform' /\ issued[a] + 1 \in 1 .. MaxTokens /\ issued'[a] = issued[a] + 1
      /\ \A b \in Acct \ {a} : issued'[b] = issued[b]
  BY <1>1, <1>2, IssueIsTyped
<1>5. ref \in 0 .. MaxTokens
  BY <1>2, <1>4, ConnectionsAssumption
<1> QED BY <1>3, <1>4, <1>5

LEMMA TypesTokens ==
  ASSUME Types,
         \/ \E p \in Process : Refresh(p)
         \/ SaveCheck
         \/ \E t \in Thread \cup Web : SaveTokens(t)
  PROVE  Types'
<1>0. "worker" \in Process /\ Thread \cup Web \subseteq Process /\ MaxTokens \in Nat \ {0}
  BY ConnectionsAssumption DEF Process
<1>1. CASE \E p \in Process : Refresh(p)
  <2>1. PICK p \in Process : Refresh(p)
    BY <1>1
  <2> DEFINE a == job[p].acct
             m == job[p].mem
  <2>2. job[p] \in [pc : {"refresh", "save"}, acct : Acct, mem : Account] /\ job[p] \in Jobs
    BY <2>1, JobKinds DEF Refresh, Types
  <2>3. a \in Acct /\ m \in Account
    BY <2>2
  <2>4. UNCHANGED << row, target, tasks, session, link >>
    BY <2>1 DEF Refresh
  <2>5. CASE Refreshed(p, a, m)
    <3>1. PICK comes :
            /\ Renews(a, m, comes)
            /\ Goes(p, [job[p] EXCEPT !.pc = "save", !.mem.tok = issued[a] + 1, !.mem.ref = key'[a],
                                      !.mem.status = "connected"])
      BY <2>5 DEF Refreshed
    <3> DEFINE ref == key'[a]
               j == [job[p] EXCEPT !.pc = "save", !.mem.tok = issued[a] + 1, !.mem.ref = ref,
                                   !.mem.status = "connected"]
    <3>4. Platform' /\ issued[a] + 1 \in 1 .. MaxTokens /\ ref \in 0 .. MaxTokens
      BY <2>3, <3>1, RenewIsTyped
    <3>5. j \in Jobs
      <4>1. [m EXCEPT !.tok = issued[a] + 1, !.ref = ref, !.status = "connected"] \in Account
        <5> HIDE DEF ref, a, m
        <5> QED BY <2>3, <3>4 DEF Account, Status
      <4>2. j = [job[p] EXCEPT !.pc = "save", !.mem = [m EXCEPT !.tok = issued[a] + 1, !.ref = ref, !.status = "connected"]]
        BY <2>2 DEF Account
      <4>3. \A x \in Account : [job[p] EXCEPT !.pc = "save", !.mem = x] \in Jobs
        BY <2>2 DEF Jobs
      <4> HIDE DEF j, ref, m, a
      <4> QED BY <4>1, <4>2, <4>3
    <3>6. job' \in [Process -> Jobs]
      <4> HIDE DEF j
      <4>1. Goes(p, j)
        BY <3>1 DEF j
      <4> QED BY <3>5, <4>1, GoesOn DEF Types
    <3> QED BY <2>4, <3>4, <3>6 DEF Types, Tables, Sessions
  <2>6. CASE NotRefreshed(p, a, m)
    <3> DEFINE j == IF p = "worker" THEN [job[p] EXCEPT !.pc = "save", !.mem.status = "token_expiring"] ELSE Idle
    <3>1. Goes(p, j)
      BY <2>6 DEF NotRefreshed
    <3>4. Platform'
      <4>1. UNCHANGED plat \/ \E comes : Renews(a, m, comes)
        BY <2>6 DEF NotRefreshed
      <4>2. UNCHANGED plat => Platform'
        BY DEF Types, Platform, plat
      <4> QED BY <2>3, <4>1, <4>2, RenewIsTyped
    <3>2. j \in Jobs
      <4>1. [m EXCEPT !.status = "token_expiring"] \in Account
        BY <2>3 DEF Account, Status
      <4>2. [job[p] EXCEPT !.pc = "save", !.mem.status = "token_expiring"]
              = [job[p] EXCEPT !.pc = "save", !.mem = [m EXCEPT !.status = "token_expiring"]]
        BY <2>2 DEF Account
      <4>3. \A x \in Account : [job[p] EXCEPT !.pc = "save", !.mem = x] \in Jobs
        BY <2>2 DEF Jobs
      <4>4. [job[p] EXCEPT !.pc = "save", !.mem.status = "token_expiring"] \in Jobs
        BY <4>1, <4>2, <4>3
      <4> QED BY <4>4 DEF Jobs
    <3> HIDE DEF j
    <3>3. job' \in [Process -> Jobs]
      BY <3>1, <3>2, GoesOn DEF Types
    <3> QED BY <2>4, <3>3, <3>4 DEF Types, Tables, Sessions
  <2> QED BY <2>1, <2>5, <2>6 DEF Refresh
<1>2. CASE SaveCheck
  <2> DEFINE a == job["worker"].acct
             m == job["worker"].mem
  <2>1. a \in Acct /\ m \in Account
    BY <1>0, <1>2, JobKinds DEF SaveCheck, Types
  <2>2. PICK s \in Status : row' = IF a \in Connected THEN [row EXCEPT ![a] = Saved(@, m, s)] ELSE row
    <3>1. {"token_expiring", "connected", "error"} \subseteq Status
      BY DEF Status
    <3> QED BY <1>2, <3>1 DEF SaveCheck
  <2>3. a \in Connected => Saved(row[a], m, s) \in Account
    BY <2>1, Rows DEF Saved, Account
  <2>4. job' \in [Process -> Jobs]
    <3>1. Idle \in Jobs /\ Goes("worker", Idle)
      BY <1>2 DEF SaveCheck, Jobs
    <3> QED BY <1>0, <3>1, GoesOn DEF Types
  <2> HIDE DEF a, m
  <2>5. Tables'
    BY <1>2, <2>1, <2>2, <2>3 DEF SaveCheck, Types, Tables
  <2> QED BY <1>2, <2>4, <2>5 DEF SaveCheck, Types, Platform, Sessions, plat
<1>3. CASE \E t \in Thread \cup Web : SaveTokens(t)
  <2>1. PICK t \in Process : SaveTokens(t)
    BY <1>0, <1>3
  <2> DEFINE a == job[t].acct
             m == job[t].mem
  <2>2. a \in Acct /\ m \in Account
    BY <2>1, JobKinds DEF SaveTokens, Types
  <2>3. a \in Connected => Renewed(row[a], m) \in Account
    BY <2>2, Rows DEF Renewed, Account, Status
  <2>4. job' \in [Process -> Jobs]
    <3>1. Idle \in Jobs /\ Goes(t, Idle)
      BY <2>1 DEF SaveTokens, Jobs
    <3> QED BY <3>1, GoesOn DEF Types
  <2>5. row' = IF a \in Connected THEN [row EXCEPT ![a] = Renewed(@, m)] ELSE row
    BY <2>1 DEF SaveTokens
  <2> HIDE DEF a, m
  <2>6. Tables'
    BY <2>1, <2>2, <2>3, <2>5 DEF SaveTokens, Types, Tables
  <2> QED BY <2>1, <2>4, <2>6 DEF SaveTokens, Types, Platform, Sessions, plat
<1> QED BY <1>1, <1>2, <1>3

LEMMA TypesConnecting ==
  ASSUME Types, NEW h \in Web, Exchange(h) \/ Store(h) \/ MakeQueue(h)
  PROVE  Types'
<1>0. h \in Process /\ MaxTokens \in Nat \ {0} /\ job[h] \in Jobs /\ Idle \in Jobs
  BY ConnectionsAssumption DEF Process, Types, Jobs
<1> DEFINE a == job[h].acct
<1>1. CASE Exchange(h)
  <2>1. a \in Acct /\ job[h].by \in {"member", "link"}
    BY <1>0, <1>1, JobKinds DEF Exchange
  <2>2. CASE \E comes : Grants(a, comes)
                   /\ Goes(h, [pc |-> "store", acct |-> a, tok |-> issued[a] + 1, ref |-> key'[a],
                               by |-> job[h].by])
    <3>1. PICK comes :
            /\ Grants(a, comes)
            /\ Goes(h, [pc |-> "store", acct |-> a, tok |-> issued[a] + 1, ref |-> key'[a],
                        by |-> job[h].by])
      BY <2>2
    <3> DEFINE ref == key'[a]
               j == [pc |-> "store", acct |-> a, tok |-> issued[a] + 1, ref |-> ref, by |-> job[h].by]
    <3>3. Platform' /\ issued[a] + 1 \in 1 .. MaxTokens /\ ref \in 0 .. MaxTokens
      BY <2>1, <3>1, GrantIsTyped
    <3>4. j \in Jobs
      <4> HIDE DEF ref
      <4> QED BY <2>1, <3>3 DEF Jobs
    <3>5. job' \in [Process -> Jobs]
      <4> HIDE DEF j
      <4>1. Goes(h, j)
        BY <3>1 DEF j
      <4> QED BY <1>0, <3>4, <4>1, GoesOn DEF Types
    <3> QED BY <1>1, <3>3, <3>5 DEF Exchange, Types, Tables, Sessions
  <2>3. CASE Goes(h, Idle) /\ (UNCHANGED plat \/ \E comes : Grants(a, comes))
    <3>1. job' \in [Process -> Jobs]
      BY <1>0, <2>3, GoesOn DEF Types
    <3>2. Platform'
      <4>1. UNCHANGED plat => Platform'
        BY DEF Types, Platform, plat
      <4> QED BY <2>1, <2>3, <4>1, GrantIsTyped
    <3> QED BY <1>1, <3>1, <3>2 DEF Exchange, Types, Tables, Sessions
  <2> QED BY <1>1, <2>2, <2>3 DEF Exchange
<1>2. CASE Store(h)
  <2>1. a \in Acct /\ job[h].tok \in 1 .. MaxTokens /\ job[h].ref \in 0 .. MaxTokens
    BY <1>0, <1>2, JobKinds DEF Store
  <2>2. Renewed(row[a], job[h]) \in Account
    BY <2>1, Rows DEF Renewed, Account, Status
  <2>3. row' = [row EXCEPT ![a] = Renewed(@, job[h])]
    BY <1>2 DEF Store
  <2>4. job' \in [Process -> Jobs]
    <3> DEFINE j == IF a \in Connected THEN Idle ELSE [pc |-> "queue", acct |-> a]
    <3>1. j \in Jobs
      BY <2>1 DEF Jobs
    <3>2. Goes(h, j)
      BY <1>2 DEF Store
    <3> HIDE DEF j
    <3> QED BY <1>0, <3>1, <3>2, GoesOn DEF Types
  <2> HIDE DEF a
  <2>5. Tables'
    BY <1>2, <2>1, <2>2, <2>3 DEF Store, Types, Tables
  <2> QED BY <1>2, <2>4, <2>5 DEF Store, Types, Platform, Sessions, plat
<1>3. CASE MakeQueue(h)
  <2>1. a \in Acct
    BY <1>0, <1>3, JobKinds DEF MakeQueue, Idle
  <2>2. a \in Connected => [row[a] EXCEPT !.queue = TRUE] \in Account
    BY <2>1, Rows DEF Account
  <2>3. row' = IF a \in Connected THEN [row EXCEPT ![a].queue = TRUE] ELSE row
    BY <1>3 DEF MakeQueue
  <2>4. job' \in [Process -> Jobs]
    BY <1>0, <1>3, GoesOn DEF MakeQueue, Types
  <2> HIDE DEF a
  <2>5. Tables'
    BY <1>3, <2>1, <2>2, <2>3 DEF MakeQueue, Types, Tables
  <2> QED BY <1>3, <2>4, <2>5 DEF MakeQueue, Types, Platform, Sessions, plat
<1> QED BY <1>1, <1>2, <1>3

LEMMA TypesLeaving ==
  ASSUME Types,
         \/ \E h \in Web : CountPosts(h) \/ DeletePosts(h) \/ DeleteAccount(h)
         \/ \E p \in Post, S \in SUBSET Acct : Retarget(p, S)
         \/ \E p \in Process : Crash(p)
  PROVE  Types'
<1>0. Web \subseteq Process /\ Idle \in Jobs
  BY DEF Process, Jobs
<1>1. CASE \E h \in Web : CountPosts(h)
  <2>1. PICK h \in Web : CountPosts(h)
    BY <1>1
  <2>2. job[h].acct \in Acct
    BY <1>0, <2>1, JobKinds DEF CountPosts, Types, Idle
  <2>3. [pc |-> "posts", acct |-> job[h].acct, orphans |-> Orphans(job[h].acct)] \in Jobs
    BY <2>2 DEF Jobs, Orphans
  <2>4. job' \in [Process -> Jobs]
    BY <1>0, <2>1, <2>3, GoesOn DEF CountPosts, Types
  <2> QED BY <2>1, <2>4 DEF CountPosts, Types, Tables, Platform, Sessions, plat
<1>2. CASE \E h \in Web : DeletePosts(h)
  <2>1. PICK h \in Web : DeletePosts(h)
    BY <1>2
  <2>2. job[h].acct \in Acct
    BY <1>0, <2>1, JobKinds DEF DeletePosts, Types, Idle
  <2>3. [pc |-> "row", acct |-> job[h].acct] \in Jobs
    BY <2>2 DEF Jobs
  <2>4. job' \in [Process -> Jobs]
    BY <1>0, <2>1, <2>3, GoesOn DEF DeletePosts, Types
  <2>5. Tables'
    <3>1. target' \in [Post -> (SUBSET Acct) \cup {NoPost}]
      <4>1. target' = [p \in Post |-> IF p \in job[h].orphans THEN NoPost ELSE target[p]]
        BY <2>1 DEF DeletePosts
      <4>2. target \in [Post -> (SUBSET Acct) \cup {NoPost}]
        BY DEF Types, Tables
      <4> DEFINE Lost == job[h].orphans
      <4> HIDE DEF Lost
      <4>3. target' = [p \in Post |-> IF p \in Lost THEN NoPost ELSE target[p]]
        BY <4>1 DEF Lost
      <4> QED BY <4>2, <4>3
    <3> QED BY <2>1, <3>1 DEF DeletePosts, Types, Tables
  <2> QED BY <2>1, <2>4, <2>5 DEF DeletePosts, Types, Platform, Sessions, plat
<1>3. CASE \E h \in Web : DeleteAccount(h)
  <2>1. PICK h \in Web : DeleteAccount(h)
    BY <1>3
  <2>2. job[h].acct \in Acct
    BY <1>0, <2>1, JobKinds DEF DeleteAccount, Types, Idle
  <2>3. job' \in [Process -> Jobs]
    BY <1>0, <2>1, GoesOn DEF DeleteAccount, Types
  <2>4. Tables'
    <3>1. ASSUME NEW p \in Post PROVE target[p] \ {job[h].acct} \in (SUBSET Acct) \cup {NoPost}
      BY <2>2, ConnectionsAssumption DEF Types, Tables, NoPost, None
    <3> QED BY <2>1, <2>2, <3>1 DEF DeleteAccount, Types, Tables
  <2> QED BY <2>1, <2>3, <2>4 DEF DeleteAccount, Types, Platform, Sessions, plat
<1>4. CASE \E p \in Post, S \in SUBSET Acct : Retarget(p, S)
  BY <1>4 DEF Retarget, Types, Tables, Platform, Sessions, plat
<1>5. CASE \E p \in Process : Crash(p)
  <2>1. job' \in [Process -> Jobs]
    BY <1>0, <1>5, GoesOn DEF Crash, Types
  <2> QED BY <1>5, <2>1 DEF Crash, Types, Tables, Platform, Sessions, plat
<1> QED BY <1>1, <1>2, <1>3, <1>4, <1>5

(* The thread that takes a request is one of them.                         *)
LEMMA FreeIsWeb == Free \subseteq Web
<1>1. PICK h \in Web : job[h] = Idle \/ Idle \notin {job[k] : k \in Web}
  BY ConnectionsAssumption
<1>2. (CHOOSE g \in Web : job[g] = Idle \/ Idle \notin {job[k] : k \in Web}) \in Web
  BY <1>1
<1> QED BY <1>2 DEF Free

(* Every step keeps the types.                                             *)
LEMMA TypesStep ==
  ASSUME Types, [Next]_vars
  PROVE  Types'
<1>1. CASE UNCHANGED vars
  BY <1>1 DEF vars, Types, Tables, Platform, Sessions, plat
<1>2. CASE Next
  <2>1. Free \subseteq Web
    BY FreeIsWeb
  <2> QED BY <1>2, <2>1, TypesPlatform, TypesFlow, TypesTakes, TypesTokens, TypesConnecting, TypesLeaving
      DEF Next, CheckStep, EngineStep, WebStep, Process
<1> QED BY <1>1, <1>2

-----------------------------------------------------------------------------
(* A token is the last one, and the refresh token goes with it.            *)
Latest(a, tok, ref) == tok = issued[a] /\ key[a] \in {0, ref}

RowLatest(a) == a \in Connected => Latest(a, row[a].tok, row[a].ref)

(* What a process that has account a in hand alone knows of it: until it   *)
(* has a new token the row is the latest, then what it is about to save.   *)
Knows(a, j) ==
  /\ j.pc \notin {"save", "store"} => RowLatest(a)
  /\ j.pc = "refresh" => a \in Connected /\ j.mem = row[a]
  /\ j.pc = "save" => Latest(a, j.mem.tok, j.mem.ref)
  /\ j.pc = "store" => Latest(a, j.tok, j.ref)

(* TokensKept, for one account: nobody has it, or one process does.        *)
KeptOf(a) ==
  \/ Holders(a) = {} /\ RowLatest(a)
  \/ \E p \in Process : Holders(a) = {p} /\ Knows(a, job[p])

Kept == \A a \in Acct \ raced : KeptOf(a)

(* Nothing of the accounts changes, but that a refresh token goes out of   *)
(* use.                                                                    *)
Aside ==
  /\ UNCHANGED << row, issued, job, raced >>
  /\ \A a \in Acct : key'[a] \in {0, key[a]}

(* A process takes an account in hand.                                     *)
Taken(p, a, j) ==
  /\ Takes(p, a, j)
  /\ j.acct = a /\ j.pc \in {"refresh", "save", "exchange", "count"}
  /\ j.pc \in {"refresh", "save"} => a \in Connected /\ j.mem = row[a]
  /\ UNCHANGED << row, issued >>
  /\ \A b \in Acct : key'[b] \in {0, key[b]}

(* A process goes on with the account it has, or loses what the platform   *)
(* issued for it.                                                          *)
Works(p) ==
  /\ job[p] # Idle /\ Goes(p, job'[p]) /\ job'[p] \in Jobs
  /\ job'[p] # Idle => job'[p].acct = job[p].acct
  /\ raced' \in {raced, raced \cup {job[p].acct}}
  /\ \A b \in Acct \ {job[p].acct} : row'[b] = row[b] /\ issued'[b] = issued[b] /\ key'[b] = key[b]
  /\ \A a \in Acct \ raced' : a = job[p].acct => Knows(a, job[p])'

(* Who holds an account is known by the jobs.                              *)
LEMMA HoldersOf ==
  ASSUME NEW a
  PROVE  /\ \A p \in Process : p \in Holders(a) <=> job[p] # Idle /\ job[p].acct = a
         /\ (\A p \in Process : p \in Holders(a)' <=> job'[p] # Idle /\ job'[p].acct = a)
         /\ Holders(a) \subseteq Process /\ Holders(a)' \subseteq Process
BY DEF Holders

LEMMA AsideKeeps ==
  ASSUME Types, Kept, Aside
  PROVE  Kept'
<1> SUFFICES ASSUME NEW a \in Acct \ raced PROVE KeptOf(a)'
  BY DEF Kept, Aside
<1>1. KeptOf(a) /\ Holders(a)' = Holders(a)
  BY DEF Kept, Aside, Holders
<1>2. \A tok, ref : Latest(a, tok, ref) => Latest(a, tok, ref)'
  BY DEF Aside, Latest
<1>3. RowLatest(a) => RowLatest(a)'
  BY <1>2 DEF RowLatest, Aside, Connected
<1>4. ASSUME NEW p \in Process, Knows(a, job[p]) PROVE Knows(a, job[p])'
  BY <1>2, <1>3, <1>4 DEF Knows, Aside, Connected
<1> QED BY <1>1, <1>3, <1>4 DEF KeptOf

LEMMA TakenKeeps ==
  ASSUME Types, Kept, NEW p \in Process, NEW b \in Acct, NEW j \in Jobs, Taken(p, b, j)
  PROVE  Kept'
<1> SUFFICES ASSUME NEW a \in Acct, a \notin raced' PROVE KeptOf(a)'
  BY DEF Kept
<1>1. /\ job[p] = Idle /\ job'[p] = j /\ j # Idle /\ \A q \in Process \ {p} : job'[q] = job[q]
      /\ a \notin raced /\ (a = b => Holders(b) = {})
  <2>1. Goes(p, j) /\ j # Idle
    BY DEF Taken, Takes, Idle
  <2> QED BY <2>1, GoesOn DEF Types, Taken, Takes
<1>2. \A tok, ref : Latest(a, tok, ref) => Latest(a, tok, ref)'
  BY DEF Taken, Latest
<1>3. RowLatest(a) => RowLatest(a)'
  BY <1>2 DEF RowLatest, Taken, Connected
<1>4. CASE a = b
  <2>1. Holders(a)' = {p}
    BY <1>1, <1>4, HoldersOf DEF Taken
  <2>2. RowLatest(a)
    BY <1>1, <1>4 DEF Kept, KeptOf
  <2>3. Knows(a, j)'
    <3>1. j.pc = "save" => Latest(a, row[a].tok, row[a].ref)'
      BY <1>2, <1>4, <2>2 DEF RowLatest, Taken
    <3>2. RowLatest(a)'
      BY <1>3, <2>2
    <3>3. j.pc \in {"refresh", "save"} => (a \in Connected)' /\ j.mem = row[a] /\ row' = row
      BY <1>4 DEF Taken, Connected
    <3> QED BY <3>1, <3>2, <3>3 DEF Knows, Taken
  <2> QED BY <1>1, <2>1, <2>3 DEF KeptOf
<1>5. CASE a # b
  <2>1. Holders(a)' = Holders(a) /\ p \notin Holders(a)
    <3>1. \A q \in Process : q \in Holders(a)' <=> q \in Holders(a)
      BY <1>1, <1>5, HoldersOf DEF Taken
    <3> QED BY <1>1, <3>1, HoldersOf
  <2>2. ASSUME NEW q \in Process, Holders(a) = {q}, Knows(a, job[q]) PROVE Knows(a, job[q])' 
    <3>1. job'[q] = job[q]
      BY <1>1, <2>1, <2>2
    <3> QED BY <1>2, <1>3, <2>2, <3>1 DEF Knows, Taken, Connected
  <2>3. KeptOf(a)
    BY <1>1 DEF Kept
  <2> QED BY <1>3, <2>1, <2>2, <2>3 DEF KeptOf
<1> QED BY <1>4, <1>5

LEMMA WorkKeeps ==
  ASSUME Types, Kept, NEW p \in Process, Works(p)
  PROVE  Kept'
<1> SUFFICES ASSUME NEW a \in Acct, a \notin raced' PROVE KeptOf(a)'
  BY DEF Kept
<1>1. job[p] # Idle /\ \A q \in Process \ {p} : job'[q] = job[q]
  BY GoesOn DEF Types, Works
<1>2. KeptOf(a)
  BY DEF Kept, Works
<1>3. CASE a = job[p].acct
  <2>1. Holders(a) = {p}
    <3>1. p \in Holders(a)
      BY <1>1, <1>3, HoldersOf
    <3> QED BY <1>2, <3>1 DEF KeptOf
  <2>2. Knows(a, job[p])'
    BY <1>3 DEF Works
  <2>3. CASE job'[p] = Idle
    <3>1. \A q \in Process : q \notin Holders(a)'
      BY <1>1, <2>1, <2>3, HoldersOf
    <3>2. Holders(a)' = {}
      BY <3>1, HoldersOf
    <3>3. RowLatest(a)'
      BY <2>2, <2>3 DEF Knows, Idle
    <3> QED BY <3>2, <3>3 DEF KeptOf
  <2>4. CASE job'[p] # Idle
    <3>1. \A q \in Process : q \in Holders(a)' <=> q = p
      BY <1>1, <1>3, <2>1, <2>4, HoldersOf DEF Works
    <3>2. Holders(a)' = {p}
      BY <3>1, HoldersOf
    <3> QED BY <1>1, <2>2, <3>2 DEF KeptOf
  <2> QED BY <2>3, <2>4
<1>4. CASE a # job[p].acct
  <2>1. Holders(a)' = Holders(a) /\ p \notin Holders(a)
    <3>1. \A q \in Process : q \in Holders(a)' <=> q \in Holders(a)
      BY <1>1, <1>4, HoldersOf DEF Works
    <3> QED BY <1>4, <3>1, HoldersOf
  <2>2. row'[a] = row[a] /\ issued'[a] = issued[a] /\ key'[a] = key[a]
    BY <1>4 DEF Works
  <2>3. RowLatest(a) => RowLatest(a)'
    BY <2>2 DEF RowLatest, Latest, Connected
  <2>4. ASSUME NEW q \in Process, Holders(a) = {q}, Knows(a, job[q]) PROVE Knows(a, job[q])'
    <3>1. job'[q] = job[q]
      BY <1>1, <2>1, <2>4
    <3> QED BY <2>2, <2>3, <2>4, <3>1 DEF Knows, Latest, Connected
  <2> QED BY <1>2, <2>1, <2>3, <2>4 DEF KeptOf
<1> QED BY <1>3, <1>4

LEMMA StepsAside ==
  ASSUME Types,
         \/ UNCHANGED vars
         \/ \E a \in Acct : Age(a) \/ Withdraw(a)
         \/ Schedule \/ Declined \/ EndLink
         \/ \E f \in Flow :
              \/ \E site \in RoundTrip : StartFlow(f, site) \/ StartLinkFlow(f, site)
              \/ StartMastodon(f) \/ StartLinkMastodon(f)
              \/ \E a \in Acct : Reconnect(f, a)
         \/ \E p \in Post, S \in SUBSET Acct : Retarget(p, S)
  PROVE  Aside
<1>1. CASE \E a \in Acct : Withdraw(a)
  BY <1>1 DEF Withdraw, Aside, ghosts, Types, Platform
<1>2. CASE \E f \in Flow : \E s : Begins(f, s)
  BY <1>2 DEF Begins, Nowhere, Aside, plat, ghosts
<1> QED BY <1>1, <1>2 DEF vars, Age, Schedule, Declined, EndLink, Nowhere, Retarget, Aside, plat, ghosts,
             StartFlow, StartLinkFlow, StartMastodon, StartLinkMastodon, Reconnect

LEMMA StepsTake ==
  ASSUME Types,
         \/ Check
         \/ \E t \in Thread, a \in Acct : Publish(t, a)
         \/ \E h \in Web, a \in Acct : Boards(h, a) \/ Disconnect(h, a) \/ ConnectDirectly(h, a) \/ LinkDirectly(h, a)
         \/ \E h \in Web, a \in Acct, e \in Flows : Callback(h, e, a) \/ LinkCallback(h, e, a)
  PROVE  Aside \/ \E p \in Process, a \in Acct, j \in Jobs : Taken(p, a, j)
<1>0. "worker" \in Process /\ Web \subseteq Process /\ Thread \subseteq Process
  BY DEF Process
<1>1. CASE Check
  <2> DEFINE a == CHOOSE x \in tasks : TRUE
  <2>1. a \in Acct
    BY <1>1 DEF Check, Types, Tables
  <2> DEFINE j == [pc |-> IF row[a].tok \in soon[a] /\ row[a].ref # 0 THEN "refresh" ELSE "save",
                   acct |-> a, mem |-> row[a]]
  <2>2. IF a \in Connected THEN Takes("worker", a, j) ELSE job' = job /\ raced' = raced
    BY <1>1 DEF Check
  <2>3. (a \in Connected => j \in Jobs) /\ j.acct = a /\ j.pc \in {"refresh", "save"} /\ j.mem = row[a]
    BY <2>1, Rows DEF Jobs
  <2>4. UNCHANGED << row, issued, key >>
    BY <1>1 DEF Check, plat
  <2> HIDE DEF a, j
  <2> QED BY <1>0, <2>1, <2>2, <2>3, <2>4 DEF Taken, Aside
<1>2. CASE (\E t \in Thread, a \in Acct : Publish(t, a)) \/ \E h \in Web, a \in Acct : Boards(h, a)
  <2>1. PICK p \in Process, a \in Acct :
          /\ Takes(p, a, [pc |-> "refresh", acct |-> a, mem |-> row[a]])
          /\ a \in Connected /\ UNCHANGED << row, plat >>
    BY <1>0, <1>2 DEF Publish, Boards
  <2> DEFINE j == [pc |-> "refresh", acct |-> a, mem |-> row[a]]
  <2>2. j \in Jobs /\ j.acct = a /\ j.pc = "refresh" /\ j.mem = row[a]
    BY <2>1, Rows DEF Jobs
  <2> HIDE DEF j
  <2>3. Taken(p, a, j)
    BY <2>1, <2>2 DEF Taken, plat, j
  <2> QED BY <2>2, <2>3
<1>3. CASE \E h \in Web, a \in Acct : Disconnect(h, a)
  <2>1. PICK h \in Web, a \in Acct : Disconnect(h, a)
    BY <1>3
  <2> DEFINE j == [pc |-> "count", acct |-> a]
  <2>2. j \in Jobs /\ j.acct = a /\ j.pc = "count"
    BY DEF Jobs
  <2>3. \A b \in Acct : key'[b] \in {0, key[b]}
    <3>1. key' = [key EXCEPT ![a] = IF @ = row[a].ref THEN 0 ELSE @] \/ key' = key
      BY <2>1 DEF Disconnect
    <3> QED BY <3>1 DEF Types, Platform
  <2>4. Takes(h, a, j) /\ UNCHANGED << row, issued >>
    BY <2>1 DEF Disconnect
  <2> HIDE DEF j
  <2>5. Taken(h, a, j)
    BY <2>2, <2>3, <2>4 DEF Taken
  <2> QED BY <1>0, <2>2, <2>5
<1>4. CASE \/ \E h \in Web, a \in Acct : ConnectDirectly(h, a) \/ LinkDirectly(h, a)
           \/ \E h \in Web, a \in Acct, e \in Flows : Callback(h, e, a) \/ LinkCallback(h, e, a)
  <2>1. CASE job' = job /\ raced' = raced /\ UNCHANGED << row, plat >>
    BY <2>1 DEF Aside, plat
  <2>2. CASE \E h \in Web, a \in Acct, j \in Jobs :
               Takes(h, a, j) /\ j.acct = a /\ j.pc = "exchange" /\ UNCHANGED << row, plat >>
    BY <1>0, <2>2 DEF Taken, plat
  <2>3. CASE \E h \in Web, a \in Acct : ConnectDirectly(h, a) \/ LinkDirectly(h, a)
    <3>1. PICK h \in Web, a \in Acct, by \in {"member", "link"} : Password(h, a, by)
      BY <2>3 DEF ConnectDirectly, LinkDirectly
    <3> DEFINE j == [pc |-> "exchange", acct |-> a, by |-> by]
    <3>2. j \in Jobs /\ j.acct = a /\ j.pc = "exchange"
      BY DEF Jobs
    <3>3. Takes(h, a, j) /\ UNCHANGED << row, plat >>
      BY <3>1 DEF Password
    <3> HIDE DEF j
    <3> QED BY <2>2, <3>2, <3>3
  <2>4. CASE \E h \in Web, a \in Acct, e \in Flows : Callback(h, e, a) \/ LinkCallback(h, e, a)
    <3>1. PICK h \in Web, a \in Acct, e \in Flows : Callback(h, e, a) \/ LinkCallback(h, e, a)
      BY <2>4
    <3>2. e[1] \in Flow
      BY DEF Types, Sessions, Flows, Sites
    <3>3. ASSUME NEW by \in {"member", "link"},
                 Takes(h, a, [pc |-> "exchange", acct |-> a, flow |-> e[1], by |-> by])
          PROVE  \E j \in Jobs : Takes(h, a, j) /\ j.acct = a /\ j.pc = "exchange"
      <4> DEFINE j == [pc |-> "exchange", acct |-> a, flow |-> e[1], by |-> by]
      <4>1. j \in Jobs /\ j.acct = a /\ j.pc = "exchange"
        BY <3>2 DEF Jobs
      <4>2. Takes(h, a, j)
        BY <3>3
      <4> HIDE DEF j
      <4> QED BY <4>1, <4>2
    <3> QED BY <2>1, <2>2, <3>1, <3>3 DEF Callback, LinkCallback
  <2> QED BY <1>4, <2>3, <2>4
<1> QED BY <1>1, <1>2, <1>3, <1>4

(* What is known of an account that a process has in hand.                 *)
LEMMA HeldIsKnown ==
  ASSUME Types, Kept, NEW p \in Process, job[p] # Idle
  PROVE  /\ job[p] \in Jobs /\ job[p].acct \in Acct
         /\ job[p].acct \notin raced => Knows(job[p].acct, job[p])
<1>1. job[p] \in Jobs /\ job[p].acct \in Acct
  BY JobKinds DEF Types
<1>2. p \in Holders(job[p].acct)
  BY HoldersOf
<1> QED BY <1>1, <1>2 DEF Kept, KeptOf

LEMMA StepsRefresh ==
  ASSUME Types, Kept, NEW p \in Process, Refresh(p)
  PROVE  Works(p)
<1> DEFINE a == job[p].acct
           m == job[p].mem
<1>1. job[p].pc = "refresh" /\ job[p] # Idle /\ UNCHANGED row
      /\ (Refreshed(p, a, m) \/ NotRefreshed(p, a, m))
  BY DEF Refresh, ghosts, Idle
<1>2. /\ job[p] \in [pc : {"refresh", "save"}, acct : Acct, mem : Account] /\ m \in Account
      /\ a \in Acct /\ (a \notin raced => Knows(a, job[p])) /\ job' \in [Process -> Jobs]
  <2>1. Types'
    BY TypesTokens
  <2> QED BY <1>1, <2>1, HeldIsKnown, JobKinds DEF Types
<1>3. CASE Refreshed(p, a, m)
  <2>1. PICK comes :
          /\ Renews(a, m, comes) /\ raced' = raced
          /\ Goes(p, [job[p] EXCEPT !.pc = "save", !.mem.tok = issued[a] + 1, !.mem.ref = key'[a],
                                    !.mem.status = "connected"])
    BY <1>3 DEF Refreshed
  <2> DEFINE ref == key'[a]
             j == [job[p] EXCEPT !.pc = "save", !.mem.tok = issued[a] + 1, !.mem.ref = ref,
                                 !.mem.status = "connected"]
  <2>2. j.pc = "save" /\ j.acct = a /\ j.mem.tok = issued[a] + 1 /\ j.mem.ref = ref
    BY <1>2 DEF Account
  <2>3. Goes(p, j)
    BY <2>1
  <2> HIDE DEF j
  <2>4. job'[p] = j
    BY <1>2, <2>3 DEF Goes, Types
  <2>5. issued'[a] = issued[a] + 1 /\ key'[a] = ref
        /\ \A b \in Acct \ {a} : issued'[b] = issued[b] /\ key'[b] = key[b]
    BY <1>2, <2>1, RenewIsTyped
  <2> HIDE DEF ref
  <2>6. ASSUME NEW b \in Acct \ raced, b = a PROVE Knows(b, job[p])'
    <3>1. job'[p].pc = "save" /\ job'[p].mem.tok = issued'[b] /\ key'[b] = job'[p].mem.ref
      BY <2>2, <2>4, <2>5, <2>6
    <3> QED BY <3>1 DEF Knows, Latest
  <2> QED BY <1>1, <1>2, <2>1, <2>2, <2>3, <2>4, <2>5, <2>6 DEF Works, Idle
<1>4. CASE NotRefreshed(p, a, m)
  <2> DEFINE j == IF p = "worker" THEN [job[p] EXCEPT !.pc = "save", !.mem.status = "token_expiring"] ELSE Idle
  <2>1. Goes(p, j)
    BY <1>4 DEF NotRefreshed
  <2>2. p = "worker" => j.pc = "save" /\ j.acct = a /\ j.mem.tok = m.tok /\ j.mem.ref = m.ref
    BY <1>2 DEF Account
  <2>3. p # "worker" => j = Idle
    OBVIOUS
  <2> HIDE DEF j
  <2>4. job'[p] = j
    BY <1>2, <2>1 DEF Goes, Types
  <2>7. \/ UNCHANGED plat /\ raced' = raced
        \/ (\E comes : Renews(a, m, comes)) /\ raced' = raced \cup {a}
    BY <1>4 DEF NotRefreshed
  <2>8. \A b \in Acct \ {a} : issued'[b] = issued[b] /\ key'[b] = key[b]
    BY <1>2, <2>7, RenewIsTyped DEF plat
  <2>5. ASSUME NEW b \in Acct \ raced', b = a PROVE Knows(b, job[p])'
    <3>0. UNCHANGED plat /\ b \notin raced
      BY <2>5, <2>7
    <3>1. RowLatest(b) /\ b \in Connected /\ m = row[b]
      BY <1>1, <1>2, <2>5, <3>0 DEF Knows
    <3>2. m.tok = issued'[b] /\ key'[b] \in {0, m.ref} /\ RowLatest(b)'
      BY <1>1, <3>0, <3>1 DEF RowLatest, Latest, Connected, plat
    <3>3. CASE p = "worker"
      <4>1. job'[p].pc = "save" /\ job'[p].mem.tok = m.tok /\ job'[p].mem.ref = m.ref
        BY <2>2, <2>4, <3>3
      <4> HIDE DEF m
      <4> QED BY <3>2, <4>1 DEF Knows, Latest
    <3>4. CASE p # "worker"
      BY <2>3, <2>4, <3>2, <3>4 DEF Knows, Idle
    <3> QED BY <3>3, <3>4
  <2>6. j \in Jobs /\ (j # Idle => j.acct = a)
    BY <1>2, <2>2, <2>3, <2>4
  <2> QED BY <1>1, <2>1, <2>4, <2>5, <2>6, <2>7, <2>8 DEF Works
<1> QED BY <1>1, <1>3, <1>4

LEMMA StepsSave ==
  ASSUME Types, Kept, SaveCheck \/ \E t \in Thread \cup Web : SaveTokens(t)
  PROVE  \E p \in Process : Works(p)
<1>1. PICK p \in Process, s \in Status :
        /\ job[p].pc = "save" /\ Goes(p, Idle) /\ UNCHANGED << plat, raced >>
        /\ row' = IF job[p].acct \in Connected
                  THEN [row EXCEPT ![job[p].acct] = Saved(@, job[p].mem, s)] ELSE row
  <2>1. {"token_expiring", "connected", "error"} \subseteq Status
        /\ "worker" \in Process /\ Thread \cup Web \subseteq Process
    BY DEF Status, Process
  <2>2. CASE SaveCheck
    <3>1. job["worker"].pc = "save" /\ Goes("worker", Idle) /\ UNCHANGED << plat, raced >>
      BY <2>2 DEF SaveCheck, ghosts
    <3>2. \E s \in Status :
            row' = IF job["worker"].acct \in Connected
                   THEN [row EXCEPT ![job["worker"].acct] = Saved(@, job["worker"].mem, s)] ELSE row
      BY <2>1, <2>2 DEF SaveCheck
    <3> QED BY <2>1, <3>1, <3>2
  <2>3. CASE \E t \in Thread \cup Web : SaveTokens(t)
    <3>1. \A r, m : Renewed(r, m) = Saved(r, m, "connected")
      BY DEF Renewed, Saved
    <3>2. PICK t \in Process : SaveTokens(t)
      BY <2>1, <2>3
    <3>3. job[t].pc = "save" /\ Goes(t, Idle) /\ UNCHANGED << plat, raced >>
          /\ row' = IF job[t].acct \in Connected
                    THEN [row EXCEPT ![job[t].acct] = Saved(@, job[t].mem, "connected")] ELSE row
      BY <3>1, <3>2 DEF SaveTokens, ghosts
    <3> QED BY <2>1, <3>3
  <2> QED BY <2>2, <2>3
<1> DEFINE a == job[p].acct
           m == job[p].mem
<1>2. job[p] # Idle
  BY <1>1 DEF Idle
<1>3. /\ job[p] \in [pc : {"refresh", "save"}, acct : Acct, mem : Account]
      /\ a \in Acct /\ (a \notin raced => Knows(a, job[p])) /\ m \in Account
  BY <1>1, <1>2, HeldIsKnown, JobKinds
<1>4. job'[p] = Idle /\ Idle \in Jobs
  BY <1>1, GoesOn DEF Types, Jobs
<1>5. \A b \in Acct \ {a} : row'[b] = row[b] /\ issued'[b] = issued[b] /\ key'[b] = key[b]
  BY <1>1 DEF plat, Types, Tables
<1>6. ASSUME NEW b \in Acct \ raced, b = a PROVE Knows(b, job[p])'
  <2>1. m.tok = issued[b] /\ key[b] \in {0, m.ref}
    BY <1>1, <1>3, <1>6 DEF Knows, Latest
  <2>2. RowLatest(b)'
    <3>1. CASE b \notin Connected
      BY <1>1, <1>6, <3>1 DEF RowLatest, Connected
    <3>2. CASE b \in Connected
      <4>1. row'[b] = Saved(row[b], m, s)
        BY <1>1, <1>6, <3>2 DEF Types, Tables
      <4>2. row'[b].tok = m.tok /\ row'[b].ref = m.ref
        <5>1. m.tok \in 1 .. MaxTokens /\ m.ref \in 0 .. MaxTokens
          BY <1>3 DEF Account
        <5> HIDE DEF m
        <5>2. row[b] \in [status : Status \cup {None}, tok : 0 .. MaxTokens, ref : 0 .. MaxTokens, queue : BOOLEAN]
          BY Rows
        <5>3. row'[b] = [row[b] EXCEPT !.tok = m.tok, !.ref = m.ref, !.status = s]
          BY <4>1 DEF Saved
        <5> QED BY <5>1, <5>2, <5>3, TokensSet
      <4> HIDE DEF m
      <4> QED BY <1>1, <2>1, <4>2 DEF RowLatest, Latest, plat
    <3> QED BY <3>1, <3>2
  <2> QED BY <1>4, <2>2 DEF Knows, Idle
<1>7. Works(p)
  BY <1>1, <1>2, <1>4, <1>5, <1>6 DEF Works
<1> QED BY <1>7

LEMMA StepsConnect ==
  ASSUME Types, Kept, NEW h \in Web, Exchange(h) \/ Store(h) \/ MakeQueue(h)
  PROVE  Works(h)
<1> DEFINE a == job[h].acct
<1>1. h \in Process /\ job[h] # Idle /\ (~ Exchange(h) => raced' = raced)
  BY DEF Process, Exchange, Store, MakeQueue, ghosts, Idle
<1>2. /\ a \in Acct /\ (a \notin raced => Knows(a, job[h])) /\ job[h] \in Jobs
      /\ job' \in [Process -> Jobs]
  <2>1. Types'
    BY TypesConnecting
  <2> QED BY <1>1, <2>1, HeldIsKnown DEF Types
<1>3. job'[h] \in Jobs
  BY <1>1, <1>2
<1>4. CASE Exchange(h)
  <2>1. row' = row /\ job[h].pc = "exchange"
    BY <1>4 DEF Exchange
  <2>2. CASE raced' = raced /\ \E comes : Grants(a, comes)
                   /\ Goes(h, [pc |-> "store", acct |-> a, tok |-> issued[a] + 1, ref |-> key'[a],
                               by |-> job[h].by])
    <3>1. PICK comes :
            /\ Grants(a, comes)
            /\ Goes(h, [pc |-> "store", acct |-> a, tok |-> issued[a] + 1, ref |-> key'[a],
                        by |-> job[h].by])
      BY <2>2
    <3> DEFINE ref == key'[a]
               j == [pc |-> "store", acct |-> a, tok |-> issued[a] + 1, ref |-> ref, by |-> job[h].by]
    <3>2. j.pc = "store" /\ j.acct = a /\ j.tok = issued[a] + 1 /\ j.ref = ref
      OBVIOUS
    <3>3. Goes(h, j)
      BY <3>1
    <3> HIDE DEF j
    <3>4. job'[h] = j
      BY <1>1, <3>3 DEF Goes, Types
    <3>5. issued'[a] = issued[a] + 1 /\ key'[a] = ref
          /\ \A b \in Acct \ {a} : issued'[b] = issued[b] /\ key'[b] = key[b]
      BY <1>2, <3>1, GrantIsTyped
    <3> HIDE DEF ref
    <3>6. ASSUME NEW b \in Acct \ raced, b = a PROVE Knows(b, job[h])'
      <4>1. job'[h].pc = "store" /\ job'[h].tok = issued'[b] /\ key'[b] = job'[h].ref
        BY <3>2, <3>4, <3>5, <3>6
      <4> QED BY <4>1 DEF Knows, Latest
    <3> QED BY <1>1, <1>3, <2>1, <2>2, <3>2, <3>3, <3>4, <3>5, <3>6 DEF Works
  <2>4. CASE Goes(h, Idle) /\ raced' = raced \cup {a} /\ \E comes : Grants(a, comes)
    <3>1. job'[h] = Idle
      BY <1>1, <2>4 DEF Goes, Types
    <3>2. \A b \in Acct \ {a} : issued'[b] = issued[b] /\ key'[b] = key[b]
      BY <1>2, <2>4, GrantIsTyped
    <3> QED BY <1>1, <1>3, <2>1, <2>4, <3>1, <3>2 DEF Works
  <2>3. CASE Goes(h, Idle) /\ UNCHANGED plat /\ raced' = raced
    <3>1. job'[h] = Idle
      BY <1>1, <2>3 DEF Goes, Types
    <3>2. ASSUME NEW b \in Acct \ raced, b = a PROVE Knows(b, job[h])'
      <4>1. RowLatest(b)
        BY <1>2, <2>1, <3>2 DEF Knows
      <4>2. RowLatest(b)'
        BY <2>1, <2>3, <4>1 DEF RowLatest, Latest, Connected, plat
      <4> QED BY <3>1, <4>2 DEF Knows, Idle
    <3> QED BY <1>1, <1>3, <2>1, <2>3, <3>1, <3>2 DEF Works, plat
  <2> QED BY <1>4, <2>2, <2>3, <2>4 DEF Exchange
<1>5. CASE Store(h)
  <2>1. job[h].pc = "store" /\ UNCHANGED plat /\ row' = [row EXCEPT ![a] = Renewed(@, job[h])] /\ raced' = raced
    BY <1>5 DEF Store, ghosts
  <2>2. job[h].tok \in 1 .. MaxTokens /\ job[h].ref \in 0 .. MaxTokens
    BY <1>2, <2>1, JobKinds
  <2>3. row'[a] = Renewed(row[a], job[h]) /\ row'[a].tok = job[h].tok /\ row'[a].ref = job[h].ref
    <3>1. row'[a] = Renewed(row[a], job[h])
      BY <1>2, <2>1 DEF Types, Tables
    <3> QED BY <1>2, <2>2, <3>1, Rows, TokensSet DEF Renewed, Status
  <2>4. job'[h] = (IF a \in Connected THEN Idle ELSE [pc |-> "queue", acct |-> a])
    BY <1>1, <1>5 DEF Store, Goes, Types
  <2>5. Goes(h, job'[h])
    BY <1>5, <2>4 DEF Store
  <2>6. ASSUME NEW b \in Acct \ raced, b = a PROVE Knows(b, job[h])'
    <3>1. job[h].tok = issued[b] /\ key[b] \in {0, job[h].ref}
      BY <1>2, <2>1, <2>6 DEF Knows, Latest
    <3>2. RowLatest(b)'
      BY <2>1, <2>3, <2>6, <3>1 DEF RowLatest, Latest, plat
    <3>3. job'[h].pc \in {"idle", "queue"}
      BY <2>4 DEF Idle
    <3> QED BY <3>2, <3>3 DEF Knows
  <2>7. job'[h] # Idle => job'[h].acct = a
    BY <2>4
  <2>8. \A b \in Acct \ {a} : row'[b] = row[b]
    BY <2>1 DEF Types, Tables
  <2> QED BY <1>1, <1>3, <2>1, <2>5, <2>6, <2>7, <2>8 DEF Works, plat
<1>6. CASE MakeQueue(h)
  <2>1. job[h].pc = "queue" /\ UNCHANGED plat /\ Goes(h, Idle) /\ raced' = raced
        /\ row' = IF a \in Connected THEN [row EXCEPT ![a].queue = TRUE] ELSE row
    BY <1>6 DEF MakeQueue, ghosts
  <2>2. job'[h] = Idle
    BY <1>1, <2>1 DEF Goes, Types
  <2>3. ASSUME NEW b \in Acct \ raced, b = a PROVE Knows(b, job[h])'
    <3>1. RowLatest(b)
      BY <1>2, <2>1, <2>3 DEF Knows
    <3>2. b \in Connected => row'[b].tok = row[b].tok /\ row'[b].ref = row[b].ref
      <4>1. b \in Connected => row'[b] = [row[b] EXCEPT !.queue = TRUE] /\ row[b] \in Account
        BY <2>1, <2>3, Rows DEF Types, Tables
      <4> QED BY <4>1 DEF Account
    <3>3. b \notin Connected => row'[b] = row[b]
      BY <2>1, <2>3
    <3>4. RowLatest(b)'
      BY <2>1, <3>1, <3>2, <3>3 DEF RowLatest, Latest, Connected, plat
    <3> QED BY <2>2, <3>4 DEF Knows, Idle
  <2>4. \A b \in Acct \ {a} : row'[b] = row[b]
    BY <2>1 DEF Types, Tables
  <2> QED BY <1>1, <1>3, <2>1, <2>2, <2>3, <2>4 DEF Works, plat
<1> QED BY <1>4, <1>5, <1>6

LEMMA StepsLeave ==
  ASSUME Types, Kept, NEW h \in Web, CountPosts(h) \/ DeletePosts(h) \/ DeleteAccount(h)
  PROVE  Works(h)
<1> DEFINE a == job[h].acct
<1>1. h \in Process /\ job[h] # Idle /\ raced' = raced /\ UNCHANGED plat
  BY DEF Process, CountPosts, DeletePosts, DeleteAccount, ghosts, Idle
<1>2. /\ a \in Acct /\ (a \notin raced => Knows(a, job[h])) /\ job[h] \in Jobs
      /\ job' \in [Process -> Jobs]
  <2>1. Types'
    BY TypesLeaving
  <2> QED BY <1>1, <2>1, HeldIsKnown DEF Types
<1>3. job'[h] \in Jobs /\ job[h].pc \in {"count", "posts", "row"}
  BY <1>1, <1>2 DEF CountPosts, DeletePosts, DeleteAccount
<1>4. Goes(h, job'[h]) /\ job'[h].pc \in {"posts", "row", "idle"} /\ (job'[h] # Idle => job'[h].acct = a)
  BY <1>1 DEF CountPosts, DeletePosts, DeleteAccount, Goes, Types, Idle
<1>5. \A b \in Acct \ {a} : row'[b] = row[b]
  BY DEF CountPosts, DeletePosts, DeleteAccount, Types, Tables
<1>6. ASSUME NEW b \in Acct \ raced, b = a PROVE Knows(b, job[h])'
  <2>1. RowLatest(b)
    BY <1>2, <1>3, <1>6 DEF Knows
  <2>2. row'[b] \in {row[b], NoRow}
    BY <1>2, <1>6 DEF CountPosts, DeletePosts, DeleteAccount, Types, Tables
  <2>3. RowLatest(b)'
    BY <1>1, <2>1, <2>2 DEF RowLatest, Latest, Connected, plat
  <2> QED BY <1>4, <2>3 DEF Knows
<1> QED BY <1>1, <1>3, <1>4, <1>5, <1>6 DEF Works, plat

(* An account that a process died with is not looked at any more.          *)
LEMMA CrashKeeps ==
  ASSUME Types, Kept, NEW p \in Process, Crash(p)
  PROVE  Kept'
<1> SUFFICES ASSUME NEW a \in Acct, a \notin raced' PROVE KeptOf(a)'
  BY DEF Kept
<1>1. job[p] # Idle /\ raced' = raced \cup {job[p].acct} /\ UNCHANGED << row, plat >>
  BY DEF Crash
<1>2. job'[p] = Idle /\ \A q \in Process \ {p} : job'[q] = job[q]
  BY DEF Crash, Goes, Types
<1>3. KeptOf(a) /\ a # job[p].acct
  BY <1>1 DEF Kept
<1>4. \A q \in Process : q \in Holders(a)' <=> q \in Holders(a)
  BY <1>1, <1>2, <1>3, HoldersOf
<1>5. Holders(a)' = Holders(a) /\ p \notin Holders(a)
  BY <1>3, <1>4, HoldersOf
<1>6. RowLatest(a) => RowLatest(a)'
  BY <1>1 DEF RowLatest, Latest, Connected, plat
<1>7. ASSUME NEW q \in Process, Holders(a) = {q}, Knows(a, job[q]) PROVE Knows(a, job[q])'
  <2>1. job'[q] = job[q]
    BY <1>2, <1>5, <1>7
  <2> QED BY <1>1, <1>6, <1>7, <2>1 DEF Knows, Latest, Connected, plat
<1> QED BY <1>3, <1>5, <1>6, <1>7 DEF KeptOf

LEMMA KeptInit == Init => Kept
<1> SUFFICES ASSUME Init, NEW a \in Acct PROVE KeptOf(a)
  BY DEF Kept
<1>1. Holders(a) = {}
  BY DEF Init, Holders
<1>2. RowLatest(a)
  BY ConnectionsAssumption DEF Init, RowLatest, Latest, Connected, NoRow
<1> QED BY <1>1, <1>2 DEF KeptOf

LEMMA KeptStep ==
  ASSUME Types, Kept, [Next]_vars
  PROVE  Kept'
<1>1. Free \subseteq Web /\ Thread \cup Web \subseteq Process /\ "worker" \in Process
  BY FreeIsWeb DEF Process
<1>2. CASE Aside
  BY <1>2, AsideKeeps
<1>3. CASE \E p \in Process, a \in Acct, j \in Jobs : Taken(p, a, j)
  BY <1>3, TakenKeeps
<1>4. CASE \E p \in Process : Works(p)
  BY <1>4, WorkKeeps
<1>5. CASE \E p \in Process : Crash(p)
  BY <1>5, CrashKeeps
<1> QED BY <1>1, <1>2, <1>3, <1>4, <1>5, StepsAside, StepsTake, StepsRefresh, StepsSave, StepsConnect, StepsLeave
     DEF Next, CheckStep, EngineStep, WebStep

-----------------------------------------------------------------------------
(* What a disconnect that has not been disturbed may rely on: it is the    *)
(* only one, the posts it is about to delete are those for its account     *)
(* alone, and none of those is left when it deletes the account.           *)
PostKept(p) ==
  /\ target[p] # {}
  /\ \A g, h \in Leaving : g = h
  /\ \A h \in Leaving : job[h].pc = "posts" => (p \in job[h].orphans <=> target[p] = {job[h].acct})
  /\ \A h \in Leaving : job[h].pc = "row" => target[p] # {job[h].acct}

PostsKept == \A p \in Post \ crossed : PostKept(p)

(* A step that has nothing to do with posts.                               *)
Elsewhere ==
  /\ target' = target /\ crossed \subseteq crossed'
  /\ \A h \in Leaving' : h \in Leaving /\ job'[h] = job[h]

LEMMA LeavingOf ==
  /\ \A h \in Web : h \in Leaving <=> job[h].pc \in {"count", "posts", "row"}
  /\ \A h \in Web : h \in Leaving' <=> job'[h].pc \in {"count", "posts", "row"}
  /\ Leaving \subseteq Web /\ Leaving' \subseteq Web
BY DEF Leaving

LEMMA ElsewhereKeeps ==
  ASSUME PostsKept, Elsewhere
  PROVE  PostsKept'
<1> SUFFICES ASSUME NEW p \in Post, p \notin crossed' PROVE PostKept(p)'
  BY DEF PostsKept
<1>1. PostKept(p)
  BY DEF PostsKept, Elsewhere
<1>2. target' = target /\ \A h \in Leaving' : h \in Leaving /\ job'[h] = job[h]
  BY DEF Elsewhere
<1>3. \A g \in Leaving', h \in Leaving' : g = h
  BY <1>1, <1>2 DEF PostKept
<1>4. ASSUME NEW h \in Leaving'
      PROVE  /\ job'[h].pc = "posts" => (p \in job'[h].orphans <=> target'[p] = {job'[h].acct})
             /\ job'[h].pc = "row" => target'[p] # {job'[h].acct}
  BY <1>1, <1>2 DEF PostKept
<1> QED BY <1>1, <1>2, <1>3, <1>4 DEF PostKept

(* Steps of one process that is not in a disconnect, and stays out of it.  *)
LEMMA OneElsewhere ==
  ASSUME Types, NEW p \in Process, NEW j, Goes(p, j), target' = target, crossed' = crossed,
         j.pc \notin {"count", "posts", "row"}
  PROVE  Elsewhere
<1>1. job'[p] = j /\ \A q \in Process \ {p} : job'[q] = job[q]
  BY DEF Goes, Types
<1>2. ASSUME NEW h \in Leaving' PROVE h \in Leaving /\ job'[h] = job[h]
  <2>1. h \in Web /\ h \in Process /\ job'[h].pc \in {"count", "posts", "row"}
    BY LeavingOf DEF Process
  <2>2. job'[h] = job[h]
    BY <1>1, <2>1
  <2> QED BY <2>1, <2>2, LeavingOf
<1> QED BY <1>2 DEF Elsewhere

(* The steps of a post that is saved for other accounts.                   *)
LEMMA RetargetKeeps ==
  ASSUME Types, PostsKept, NEW q \in Post, NEW S \in SUBSET Acct, Retarget(q, S)
  PROVE  PostsKept'
<1> SUFFICES ASSUME NEW p \in Post, p \notin crossed' PROVE PostKept(p)'
  BY DEF PostsKept
<1>1. /\ S # {} /\ target' = [target EXCEPT ![q] = S] /\ job' = job /\ Leaving' = Leaving
      /\ crossed' = IF Leaving # {} THEN crossed \cup {q} ELSE crossed
  BY DEF Retarget, Leaving
<1>2. PostKept(p)
  BY <1>1 DEF PostsKept
<1>3. target'[q] = S /\ \A x \in Post \ {q} : target'[x] = target[x]
  BY <1>1 DEF Types, Tables
<1>4. CASE Leaving = {}
  BY <1>1, <1>2, <1>3, <1>4 DEF PostKept
<1>5. CASE Leaving # {}
  <2>1. target'[p] = target[p]
    BY <1>1, <1>3, <1>5
  <2> QED BY <1>1, <1>2, <2>1 DEF PostKept
<1> QED BY <1>4, <1>5

LEMMA DisconnectKeeps ==
  ASSUME Types, PostsKept, NEW h \in Web, NEW a \in Acct, Disconnect(h, a)
  PROVE  PostsKept'
<1> SUFFICES ASSUME NEW p \in Post, p \notin crossed' PROVE PostKept(p)'
  BY DEF PostsKept
<1>1. /\ target' = target /\ Goes(h, [pc |-> "count", acct |-> a])
      /\ crossed' = IF Leaving = {} THEN crossed ELSE crossed \cup Post
  BY DEF Disconnect, Takes
<1>2. Leaving = {} /\ PostKept(p)
  BY <1>1 DEF PostsKept
<1>3. job'[h].pc = "count" /\ \A g \in Web \ {h} : job'[g] = job[g]
  BY <1>1 DEF Goes, Types, Process
<1>4. \A g \in Leaving' : g = h /\ job'[g].pc = "count"
  BY <1>2, <1>3, LeavingOf
<1> QED BY <1>1, <1>2, <1>4 DEF PostKept

(* The steps of a disconnect.                                              *)
LEMMA LeavingKeeps ==
  ASSUME Types, PostsKept, NEW h \in Web, CountPosts(h) \/ DeletePosts(h) \/ DeleteAccount(h)
  PROVE  PostsKept'
<1> SUFFICES ASSUME NEW p \in Post, p \notin crossed' PROVE PostKept(p)'
  BY DEF PostsKept
<1> DEFINE a == job[h].acct
<1>1. crossed' = crossed /\ h \in Leaving /\ h \in Process /\ job[h] \in Jobs
      /\ \A g \in Web \ {h} : job'[g] = job[g]
  BY LeavingOf DEF CountPosts, DeletePosts, DeleteAccount, ghosts, Process, Types, Goes
<1>2. PostKept(p) /\ a \in Acct
  <2>1. job[h] # Idle
    BY DEF CountPosts, DeletePosts, DeleteAccount, Idle
  <2> QED BY <1>1, <2>1, JobKinds DEF PostsKept
<1>3. \A g \in Leaving' : g = h
  <2>1. \A g \in Leaving : g = h
    BY <1>1, <1>2 DEF PostKept
  <2> QED BY <1>1, <2>1, LeavingOf
<1>4. target[p] \in (SUBSET Acct) \cup {NoPost} /\ None \notin Acct
  BY ConnectionsAssumption DEF Types, Tables, None
<1>5. CASE CountPosts(h)
  <2>1. target' = target /\ job'[h] = [pc |-> "posts", acct |-> a, orphans |-> Orphans(a)]
    BY <1>1, <1>5 DEF CountPosts, Goes, Types
  <2>2. p \in Orphans(a) <=> target[p] = {a}
    BY DEF Orphans
  <2> QED BY <1>2, <1>3, <2>1, <2>2 DEF PostKept
<1>6. CASE DeletePosts(h)
  <2>1. job'[h] = [pc |-> "row", acct |-> a]
        /\ target'[p] = IF p \in job[h].orphans THEN NoPost ELSE target[p]
    BY <1>1, <1>6 DEF DeletePosts, Goes, Types
  <2>2. p \in job[h].orphans <=> target[p] = {a}
    BY <1>1, <1>2, <1>6 DEF PostKept, DeletePosts
  <2>3. target'[p] # {} /\ target'[p] # {a}
    BY <1>2, <1>4, <2>1, <2>2 DEF PostKept, NoPost
  <2> QED BY <1>3, <2>1, <2>3 DEF PostKept
<1>7. CASE DeleteAccount(h)
  <2>1. job'[h] = Idle /\ target'[p] = target[p] \ {a}
    BY <1>1, <1>7 DEF DeleteAccount, Goes, Types
  <2>2. target[p] # {} /\ target[p] # {a}
    BY <1>1, <1>2, <1>7 DEF PostKept, DeleteAccount
  <2>3. target'[p] # {}
    BY <2>1, <2>2
  <2>4. Leaving' = {}
    BY <1>3, <2>1, LeavingOf DEF Idle
  <2> QED BY <2>3, <2>4 DEF PostKept
<1> QED BY <1>5, <1>6, <1>7

(* The steps that leave the posts alone.                                   *)
LEMMA StepsElsewhere ==
  ASSUME Types,
         \/ UNCHANGED vars
         \/ \E a \in Acct : Age(a) \/ Withdraw(a)
         \/ Schedule \/ Declined \/ EndLink
         \/ \E f \in Flow :
              \/ \E site \in RoundTrip : StartFlow(f, site) \/ StartLinkFlow(f, site)
              \/ StartMastodon(f) \/ StartLinkMastodon(f)
              \/ \E a \in Acct : Reconnect(f, a)
  PROVE  Elsewhere
<1>1. job' = job /\ target' = target /\ crossed' = crossed
  <2>1. CASE \E f \in Flow : \E s : Begins(f, s)
    BY <2>1 DEF Begins, Nowhere, ghosts
  <2> QED BY <2>1 DEF vars, Age, Withdraw, Schedule, Declined, EndLink, Nowhere, ghosts,
             StartFlow, StartLinkFlow, StartMastodon, StartLinkMastodon, Reconnect
<1>2. Leaving' = Leaving
  BY <1>1 DEF Leaving
<1> QED BY <1>1, <1>2 DEF Elsewhere

LEMMA TakesElsewhere ==
  ASSUME Types,
         \/ Check
         \/ \E t \in Thread, a \in Acct : Publish(t, a)
         \/ \E h \in Web, a \in Acct : Boards(h, a) \/ ConnectDirectly(h, a) \/ LinkDirectly(h, a)
         \/ \E h \in Web, a \in Acct, e \in Flows : Callback(h, e, a) \/ LinkCallback(h, e, a)
  PROVE  Elsewhere
<1>0. "worker" \in Process /\ Web \subseteq Process /\ Thread \subseteq Process
  BY DEF Process
<1>1. target' = target /\ crossed' = crossed
  BY DEF Check, Publish, Boards, ConnectDirectly, LinkDirectly, Password, Callback, LinkCallback
<1>2. \/ job' = job
      \/ \E p \in Process : \E j : Goes(p, j) /\ j.pc \in {"refresh", "save", "exchange"}
  <2>1. CASE Check
    <3> DEFINE a == CHOOSE x \in tasks : TRUE
               j == [pc |-> IF row[a].tok \in soon[a] /\ row[a].ref # 0 THEN "refresh" ELSE "save",
                     acct |-> a, mem |-> row[a]]
    <3>1. IF a \in Connected THEN Goes("worker", j) ELSE job' = job
      BY <2>1 DEF Check, Takes
    <3>2. j.pc \in {"refresh", "save"}
      OBVIOUS
    <3> HIDE DEF j
    <3> QED BY <1>0, <3>1, <3>2
  <2>2. ASSUME NEW p \in Process, NEW a \in Acct, Goes(p, [pc |-> "refresh", acct |-> a, mem |-> row[a]])
        PROVE  \E j : Goes(p, j) /\ j.pc = "refresh"
    <3> DEFINE j == [pc |-> "refresh", acct |-> a, mem |-> row[a]]
    <3>1. Goes(p, j) /\ j.pc = "refresh"
      BY <2>2
    <3> HIDE DEF j
    <3> QED BY <3>1
  <2>3. ASSUME NEW p \in Process, NEW a \in Acct, NEW f, NEW by,
               \/ Goes(p, [pc |-> "exchange", acct |-> a, by |-> by])
               \/ Goes(p, [pc |-> "exchange", acct |-> a, flow |-> f, by |-> by])
        PROVE  \E j : Goes(p, j) /\ j.pc = "exchange"
    <3> DEFINE j == [pc |-> "exchange", acct |-> a, by |-> by]
               k == [pc |-> "exchange", acct |-> a, flow |-> f, by |-> by]
    <3>1. (Goes(p, j) \/ Goes(p, k)) /\ j.pc = "exchange" /\ k.pc = "exchange"
      BY <2>3
    <3> HIDE DEF j, k
    <3> QED BY <3>1
  <2>4. CASE \/ \E t \in Thread, a \in Acct : Publish(t, a)
             \/ \E h \in Web, a \in Acct : Boards(h, a)
    BY <1>0, <2>2, <2>4 DEF Publish, Boards, Takes
  <2>5. CASE \E h \in Web, a \in Acct : ConnectDirectly(h, a) \/ LinkDirectly(h, a)
    BY <1>0, <2>3, <2>5 DEF ConnectDirectly, LinkDirectly, Password, Takes
  <2>6. CASE \E h \in Web, a \in Acct, e \in Flows : Callback(h, e, a) \/ LinkCallback(h, e, a)
    BY <1>0, <2>3, <2>6 DEF Callback, LinkCallback, Takes
  <2> QED BY <2>1, <2>4, <2>5, <2>6
<1>3. CASE job' = job
  <2>1. Leaving' = Leaving
    BY <1>3 DEF Leaving
  <2> QED BY <1>1, <1>3, <2>1 DEF Elsewhere
<1> QED BY <1>1, <1>2, <1>3, OneElsewhere

LEMMA WorkElsewhere ==
  ASSUME Types,
         \/ \E p \in Process : Refresh(p)
         \/ SaveCheck \/ \E t \in Thread \cup Web : SaveTokens(t)
         \/ \E h \in Web : Exchange(h) \/ Store(h) \/ MakeQueue(h)
  PROVE  Elsewhere
<1>0. "worker" \in Process /\ Web \subseteq Process /\ Thread \subseteq Process
  BY DEF Process
<1>1. target' = target /\ crossed' = crossed
  BY DEF Refresh, SaveCheck, SaveTokens, Exchange, Store, MakeQueue, ghosts
<1>2. \E p \in Process : \E j : Goes(p, j) /\ j.pc \in {"idle", "save", "store", "queue"}
  <2>1. ASSUME NEW p \in Process, Goes(p, Idle)
        PROVE  \E j : Goes(p, j) /\ j.pc \in {"idle", "save", "store", "queue"}
    BY <2>1 DEF Idle
  <2>2. CASE \E p \in Process : Refresh(p)
    <3>1. PICK p \in Process : Refresh(p)
      BY <2>2
    <3>2. job[p] \in [pc : {"refresh", "save"}, acct : Acct, mem : Account]
      BY <3>1, JobKinds DEF Refresh, Types
    <3>3. CASE Refreshed(p, job[p].acct, job[p].mem)
      <4> DEFINE j == [job[p] EXCEPT !.pc = "save", !.mem.tok = issued[job[p].acct] + 1,
                                     !.mem.ref = key'[job[p].acct], !.mem.status = "connected"]
      <4>1. Goes(p, j)
        BY <3>3 DEF Refreshed
      <4>2. Goes(p, j) /\ j.pc = "save"
        BY <3>2, <4>1
      <4> HIDE DEF j
      <4> QED BY <4>2
    <3>4. CASE NotRefreshed(p, job[p].acct, job[p].mem)
      <4> DEFINE j == [job[p] EXCEPT !.pc = "save", !.mem.status = "token_expiring"]
      <4>1. j.pc = "save" /\ (Goes(p, j) \/ Goes(p, Idle))
        BY <3>2, <3>4 DEF NotRefreshed
      <4> HIDE DEF j
      <4> QED BY <2>1, <4>1
    <3> QED BY <3>1, <3>3, <3>4 DEF Refresh
  <2>3. CASE SaveCheck \/ \E t \in Thread \cup Web : SaveTokens(t)
    BY <1>0, <2>1, <2>3 DEF SaveCheck, SaveTokens
  <2>4. CASE \E h \in Web : Exchange(h)
    <3>1. PICK h \in Web : Exchange(h)
      BY <2>4
    <3>2. ASSUME NEW tok, NEW ref, NEW by, Goes(h, [pc |-> "store", acct |-> job[h].acct, tok |-> tok, ref |-> ref, by |-> by])
          PROVE  \E j : Goes(h, j) /\ j.pc = "store"
      <4> DEFINE j == [pc |-> "store", acct |-> job[h].acct, tok |-> tok, ref |-> ref, by |-> by]
      <4>1. Goes(h, j) /\ j.pc = "store"
        BY <3>2
      <4> HIDE DEF j
      <4> QED BY <4>1
    <3> QED BY <1>0, <2>1, <3>1, <3>2 DEF Exchange
  <2>5. CASE \E h \in Web : Store(h)
    <3>1. PICK h \in Web : Store(h)
      BY <2>5
    <3> DEFINE j == [pc |-> "queue", acct |-> job[h].acct]
    <3>2. j.pc = "queue" /\ (Goes(h, Idle) \/ Goes(h, j))
      BY <3>1 DEF Store
    <3> HIDE DEF j
    <3> QED BY <1>0, <2>1, <3>2
  <2>6. CASE \E h \in Web : MakeQueue(h)
    BY <1>0, <2>1, <2>6 DEF MakeQueue
  <2> QED BY <2>2, <2>3, <2>4, <2>5, <2>6
<1> QED BY <1>1, <1>2, OneElsewhere

LEMMA CrashElsewhere ==
  ASSUME Types, PostsKept, NEW p \in Process, Crash(p)
  PROVE  PostsKept'
<1>1. crossed' = (IF p \in Leaving THEN crossed \cup Post ELSE crossed) /\ target' = target /\ Goes(p, Idle)
  BY DEF Crash
<1>2. CASE p \in Leaving
  BY <1>1, <1>2 DEF PostsKept
<1>3. CASE p \notin Leaving
  <2>1. Idle.pc \notin {"count", "posts", "row"}
    BY DEF Idle
  <2> QED BY <1>1, <1>3, <2>1, OneElsewhere, ElsewhereKeeps
<1> QED BY <1>2, <1>3

LEMMA PostsInit == Init => PostsKept
<1> SUFFICES ASSUME Init, NEW p \in Post PROVE PostKept(p)
  BY DEF PostsKept
<1>1. Leaving = {}
  <2> SUFFICES ASSUME NEW h \in Leaving PROVE FALSE
    OBVIOUS
  <2>1. h \in Web /\ job[h].pc \in {"count", "posts", "row"}
    BY LeavingOf
  <2>2. job[h] = Idle
    BY <2>1 DEF Init, Process
  <2> QED BY <2>1, <2>2 DEF Idle
<1> QED BY <1>1 DEF Init, PostKept

LEMMA PostsStep ==
  ASSUME Types, PostsKept, [Next]_vars
  PROVE  PostsKept'
<1>1. Free \subseteq Web /\ Thread \cup Web \subseteq Process /\ "worker" \in Process
  BY FreeIsWeb DEF Process
<1>2. CASE Elsewhere
  BY <1>2, ElsewhereKeeps
<1>3. CASE \E p \in Post, S \in SUBSET Acct : Retarget(p, S)
  BY <1>3, RetargetKeeps
<1>4. CASE \E h \in Web, a \in Acct : Disconnect(h, a)
  BY <1>4, DisconnectKeeps
<1>5. CASE \E h \in Web : CountPosts(h) \/ DeletePosts(h) \/ DeleteAccount(h)
  BY <1>5, LeavingKeeps
<1>6. CASE \E p \in Process : Crash(p)
  BY <1>6, CrashElsewhere
<1> QED BY <1>1, <1>2, <1>3, <1>4, <1>5, <1>6, StepsElsewhere, TakesElsewhere, WorkElsewhere
     DEF Next, CheckStep, EngineStep, WebStep

(* The three parts hold in every state.                                    *)
LEMMA InvHolds == Spec => [](Types /\ Kept /\ PostsKept)
<1>1. Init => Types /\ Kept /\ PostsKept
  BY TypesInit, KeptInit, PostsInit
<1>2. Types /\ Kept /\ PostsKept /\ [Next]_vars => (Types /\ Kept /\ PostsKept)'
  BY TypesStep, KeptStep, PostsStep
<1> QED BY <1>1, <1>2, PTL DEF Spec

(***************************************************************************)
(* Accounts, posts and the platform keep to their fields, whatever the     *)
(* health check, the engine and the web have in hand and wherever one dies.*)
(***************************************************************************)
THEOREM TypeCorrect == Spec => []TypeOK
<1>1. Types => TypeOK
  <2> SUFFICES ASSUME Types PROVE TypeOK
    OBVIOUS
  <2>1. \A a \in Acct : row[a] = NoRow
          \/ row[a] \in [status : Status, tok : 1 .. MaxTokens, ref : 0 .. MaxTokens, queue : BOOLEAN]
    BY DEF Types, Tables, Account
  <2>2. \A p \in Post : target[p] = NoPost \/ target[p] \subseteq Acct
    BY DEF Types, Tables
  <2>3. Flows \subseteq Flow \X Platforms!Site /\ link \in {"active", "over"}
    BY DEF Types, Sessions, Flows, Sites
  <2> QED BY <2>1, <2>2, <2>3 DEF Types, Tables, Platform, TypeOK
<1> QED BY <1>1, InvHolds, PTL

(***************************************************************************)
(* An account that no two processes had in hand at a time, none died with  *)
(* and none lost an answer for keeps the last token and the refresh token  *)
(* the platform accepts, through every refresh, every connection that      *)
(* fails, every reconnect and disconnect.                                  *)
(***************************************************************************)
THEOREM AccountsKeepTokens == Spec => []TokensKept
<1>1. Kept => TokensKept
  <2> SUFFICES ASSUME Kept, NEW a \in Connected \ raced, Holders(a) = {}
               PROVE  row[a].tok = issued[a] /\ key[a] \in {0, row[a].ref}
    BY DEF TokensKept
  <2>1. a \in Acct \ raced
    BY DEF Connected
  <2> QED BY <2>1 DEF Kept, KeptOf, RowLatest, Latest
<1> QED BY <1>1, InvHolds, PTL

(***************************************************************************)
(* A disconnect that no other one and no save of a post fell into leaves   *)
(* no post without an account, and deletes only those of its own account.  *)
(***************************************************************************)
THEOREM DisconnectSparesPosts == Spec => PostsKeepTargets
<1>1. PostsKept => \A p \in Post \ crossed : target[p] # {}
  BY DEF PostsKept, PostKept
<1>2. Types /\ PostsKept /\ [Next]_vars =>
        [\A p \in Post \ crossed : target[p] # NoPost /\ target'[p] = NoPost => Cardinality(target[p]) = 1]_vars
  <2> SUFFICES ASSUME Types, PostsKept, Next, NEW p \in Post \ crossed, target[p] # NoPost, target'[p] = NoPost
               PROVE  Cardinality(target[p]) = 1
    OBVIOUS
  <2>0. target[p] \subseteq Acct /\ None \notin Acct /\ Free \subseteq Web /\ Thread \cup Web \subseteq Process
        /\ "worker" \in Process
    BY FreeIsWeb, ConnectionsAssumption DEF Types, Tables, None, Process
  <2>1. ~ Elsewhere
    BY DEF Elsewhere
  <2>2. ASSUME NEW q \in Post, NEW S \in SUBSET Acct, Retarget(q, S) PROVE FALSE
    <3>1. target'[p] \subseteq Acct
      BY <2>0, <2>2 DEF Retarget, Types, Tables
    <3> QED BY <2>0, <3>1 DEF NoPost
  <2>3. ASSUME NEW h \in Web, NEW a \in Acct, Disconnect(h, a) PROVE FALSE
    BY <2>3 DEF Disconnect
  <2>4. ASSUME NEW h \in Process, Crash(h) PROVE FALSE
    BY <2>4 DEF Crash
  <2>5. ASSUME NEW h \in Web, CountPosts(h) PROVE FALSE
    BY <2>5 DEF CountPosts
  <2>6. ASSUME NEW h \in Web, DeleteAccount(h) PROVE FALSE
    <3>1. target'[p] \subseteq Acct
      BY <2>0, <2>6 DEF DeleteAccount
    <3> QED BY <2>0, <3>1 DEF NoPost
  <2>7. ASSUME NEW h \in Web, DeletePosts(h) PROVE Cardinality(target[p]) = 1
    <3>1. h \in Leaving /\ job[h].pc = "posts"
      BY <2>7, LeavingOf DEF DeletePosts
    <3>2. p \in job[h].orphans
      BY <2>7 DEF DeletePosts
    <3>3. target[p] = {job[h].acct}
      BY <3>1, <3>2 DEF PostsKept, PostKept
    <3> QED BY <3>3, FS_Singleton
  <2> QED BY <2>0, <2>1, <2>2, <2>3, <2>4, <2>5, <2>6, <2>7, StepsElsewhere, TakesElsewhere, WorkElsewhere
       DEF Next, CheckStep, EngineStep, WebStep
<1> QED BY <1>1, <1>2, InvHolds, PTL DEF Spec, PostsKeepTargets
=============================================================================
