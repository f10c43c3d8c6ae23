------------------------------- MODULE Feeds -------------------------------
(***************************************************************************)
(* The news feeds of one workspace (apps/composer): subscriptions, the     *)
(* pages that show their events, and the cache of events between them.     *)
(* A page lists the feeds, asks the cache and, unless it holds the events  *)
(* of just these feeds, asks every site.  Adding and deleting a feed clear *)
(* the cache, but not what a page under way is about to put there.  The    *)
(* cache is one for all processes (Redis); it keeps the events of a page   *)
(* with the instant at which they were complete.                           *)
(*                                                                         *)
(* A site answers with one of Answers: no answer, a refusal and a page     *)
(* that is no feed are one and the same.  Of an entry the link and the day *)
(* are kept, None when it has none.                                        *)
(***************************************************************************)
EXTENDS Integers, Sequences, FiniteSets

CONSTANTS Url, Page,
          None, NoAnswer,
          Answers,    \* what a site may answer: [site, entries] or NoAnswer
          TTL,        \* FEED_EVENTS_CACHE_TTL_SECONDS
          PageSize,   \* FEED_EVENTS_PAGE_SIZE
          MaxFeeds,   \* bound: subscriptions ever made
          MaxPages,   \* bound: pages opened
          MaxTime     \* bound: the clock

VARIABLES feed,    \* Feed rows: the address of each, None once it is deleted
          cache,   \* the cached events with the feeds they are of
          page,    \* what each page is doing, or has shown
          adding,  \* the request that changes the subscriptions
          now, opened

vars == << feed, cache, page, adding, now, opened >>

Idle   == [at |-> "idle"]

(* What s has at the places K, in an order of them, a set of pairs.        *)
Arranged(s, K, before) ==
  [n \in 1 .. Cardinality(K) |->
     s[CHOOSE k \in K : Cardinality({j \in K : << j, k >> \in before}) = n - 1]]
AsTheyCame(K) == {p \in K \X K : p[1] < p[2]}

Listed == LET there == {n \in 1 .. Len(feed) : feed[n] # None}
          IN  Arranged([n \in 1 .. Len(feed) |-> n], there, AsTheyCame(there))
Subscribed(u) == \E n \in 1 .. Len(feed) : feed[n] = u

(* An entry without a link takes that of its site, so that two of them are *)
(* one event; a site without one is told apart by the day.                 *)
Event(n, answer, entry) ==
  [feed |-> n, day |-> entry.day,
   id   |-> CASE entry.link # None -> entry.link
              [] entry.link = None /\ answer.site # None -> answer.site
              [] OTHER -> << n, entry.day >>]

EventsOf(n, answer) ==
  IF answer = NoAnswer THEN << >>
  ELSE [k \in 1 .. Len(answer.entries) |-> Event(n, answer, answer.entries[k])]

(* The first of the events with the same feed and id.                      *)
Distinct(events) ==
  {k \in 1 .. Len(events) : \A j \in 1 .. k - 1 :
     << events[j].feed, events[j].id >> # << events[k].feed, events[k].id >>}

(* Newest first, those of a day as they came, those without a day last.    *)
DayOf(e) == IF e.day = None THEN 0 ELSE e.day
Before(events, j, k) ==
  DayOf(events[k]) < DayOf(events[j]) \/ (DayOf(events[k]) = DayOf(events[j]) /\ j < k)
Newest(events) ==
  LET K == Distinct(events)
  IN  Arranged(events, K, {p \in K \X K : Before(events, p[1], p[2])})

Batch(events, selected, offset) ==
  LET K  == {k \in 1 .. Len(events) : selected \in {None, events[k].feed}}
      of == Arranged(events, K, AsTheyCame(K))
  IN  SubSeq(of, offset + 1, IF offset + PageSize < Len(of) THEN offset + PageSize ELSE Len(of))

Init ==
  /\ feed = << >> /\ cache = None
  /\ page = [p \in Page |-> Idle] /\ adding = Idle
  /\ now = 0 /\ opened = 0

Goes(p, s) == page' = [page EXCEPT ![p] = s]
Rest == UNCHANGED << feed, adding, now, opened >>

(* ----- a page ----- *)
Open(p) ==
  /\ page[p].at \in {"idle", "shown"} /\ opened < MaxPages /\ opened' = opened + 1
  /\ Goes(p, [at |-> "listed", feeds |-> Listed])
  /\ UNCHANGED << feed, cache, adding, now >>

(* Mutant of Hits: the feeds the events are of are not compared.           *)
HitsAny(feeds) == cache # None
Hits(feeds) == cache # None /\ cache.feeds = feeds

Shows(p, feeds, events, fetched) ==
  \E selected \in {None} \cup {feeds[k] : k \in 1 .. Len(feeds)}, offset \in {0, PageSize} :
    Goes(p, [at |-> "shown", feeds |-> feeds, events |-> Batch(events, selected, offset),
             age |-> now - fetched])

Hit(p) ==
  /\ page[p].at = "listed" /\ Hits(page[p].feeds)
  /\ Shows(p, page[p].feeds, cache.events, cache.fetched)
  /\ Rest /\ UNCHANGED cache

Miss(p) ==
  /\ page[p].at = "listed" /\ ~Hits(page[p].feeds)
  /\ Goes(p, [at |-> "fetching", feeds |-> page[p].feeds, left |-> page[p].feeds, events |-> << >>])
  /\ Rest /\ UNCHANGED cache

Fetch(p) ==
  /\ page[p].at = "fetching" /\ page[p].left # << >>
  /\ \E answer \in Answers :
       Goes(p, [page[p] EXCEPT !.left = Tail(@), !.events = @ \o EventsOf(Head(page[p].left), answer)])
  /\ Rest /\ UNCHANGED cache

Fill(p) ==
  /\ page[p].at = "fetching" /\ page[p].left = << >>
  /\ LET events == Newest(page[p].events) IN
       /\ cache' = [feeds |-> page[p].feeds, events |-> events, fetched |-> now]
       /\ Shows(p, page[p].feeds, events, now)
  /\ Rest

(* ----- subscriptions ----- *)
Unsaved == UNCHANGED << page, now, opened >>

(* The address is tried, and looked up among the feeds there are.          *)
Check(u) ==
  /\ adding = Idle /\ ~Subscribed(u) /\ Len(feed) < MaxFeeds
  /\ adding' = [at |-> "checked", url |-> u]
  /\ UNCHANGED << feed, cache >> /\ Unsaved

(* The pair of workspace and address is unique.                            *)
Subscribe ==
  /\ adding.at = "checked"
  /\ feed' = Append(feed, adding.url) /\ adding' = [at |-> "clearing"]
  /\ UNCHANGED cache /\ Unsaved

Unsubscribe(n) ==
  /\ adding = Idle /\ feed[n] # None
  /\ feed' = [feed EXCEPT ![n] = None] /\ adding' = [at |-> "clearing"]
  /\ UNCHANGED cache /\ Unsaved

Clear == adding.at = "clearing" /\ cache' = None /\ adding' = Idle /\ UNCHANGED feed /\ Unsaved

(* A request may die after any step.                                       *)
Die ==
  /\ \/ adding # Idle /\ adding' = Idle /\ UNCHANGED page
     \/ UNCHANGED adding /\ \E p \in Page : page[p].at \in {"listed", "fetching"} /\ Goes(p, Idle)
  /\ UNCHANGED << feed, cache, now, opened >>

Tick ==
  /\ now < MaxTime /\ now' = now + 1
  /\ cache' = IF cache # None /\ cache.fetched + TTL <= now' THEN None ELSE cache
  /\ UNCHANGED << feed, page, adding, opened >>

Next ==
  \/ \E p \in Page : Open(p) \/ Hit(p) \/ Miss(p) \/ Fetch(p) \/ Fill(p)
  \/ \E u \in Url : Check(u)
  \/ Subscribe \/ Clear \/ Die \/ Tick
  \/ \E n \in 1 .. Len(feed) : Unsubscribe(n)

Spec == Init /\ [][Next]_vars

(* Whatever pages and subscriptions overlap, and although a page may fill  *)
(* the cache after it was cleared, a page shows events of the feeds it     *)
(* lists only, none twice and newest first, and they were complete no      *)
(* longer ago than the cache may keep them.                                *)
ShownAreSubscribed ==
  \A p \in Page : page[p].at = "shown" =>
    LET s == page[p].events IN
      /\ page[p].age < TTL
      /\ \A k \in 1 .. Len(s) : \E j \in 1 .. Len(page[p].feeds) : page[p].feeds[j] = s[k].feed
      /\ \A j, k \in 1 .. Len(s) : j < k =>
           DayOf(s[k]) <= DayOf(s[j]) /\ << s[j].feed, s[j].id >> # << s[k].feed, s[k].id >>
=============================================================================
