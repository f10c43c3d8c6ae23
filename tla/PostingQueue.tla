---------------------------- MODULE PostingQueue ----------------------------
(***************************************************************************)
(* Queue-based scheduling (apps/calendar/services.py) as the composer uses *)
(* it (apps/composer/views.py): Posts wait in queues, and each change of a *)
(* queue deals the account's posting slots out to its entries again.  The  *)
(* slots recur every week and are changed by hand; who waits is not dealt  *)
(* a new one before the next change of the queue.                          *)
(*                                                                         *)
(* Time is counted in hours, a day has Day of them and a week Week.        *)
(***************************************************************************)
EXTENDS Integers, Sequences, FiniteSets

CONSTANTS Post,
          Queue,
          Account,
          AccountOf,   \* Queue.social_account
          Children,    \* <<Post, Account>>: the PlatformPosts
          Day, Week,
          Horizon,     \* days the dealer looks ahead
          Plans,       \* slots the accounts may have to begin with
          Floors,      \* calendar days the composer is opened from
          Reorders,    \* queues are reordered by drag-and-drop
          MaxTime,     \* bound: the clock stops here
          MaxPosition, \* bound: adds stop here
          MaxChanges   \* bound: changes of the slots

ASSUME QueueAssumption ==
  /\ IsFiniteSet(Post) /\ AccountOf \in [Queue -> Account]
  /\ Children \subseteq Post \X Account
  /\ {Day, Week, Horizon} \subseteq Nat \ {0} /\ Week % Day = 0
  /\ MaxTime \in Nat /\ {MaxPosition, MaxChanges} \subseteq Nat /\ Floors \subseteq Nat
  /\ Plans \subseteq [Account -> [0 .. Week - 1 -> {"none", "on", "off"}]]
  /\ Reorders \in BOOLEAN

Null == -1                \* NULL in a datetime or no entry in the queue

VARIABLES now,
          slot,       \* PostingSlot of each account and hour of the week
          changes,
          position,   \* QueueEntry.position of each Post in each Queue
          at,         \* PlatformPost.scheduled_at
          postAt,     \* Post.scheduled_at
          status,     \* PlatformPost.status
          floor       \* the day the author asked for

vars == << now, slot, changes, position, at, postAt, status, floor >>
-----------------------------------------------------------------------------
Init ==
  /\ now = 0
  /\ slot \in Plans /\ changes = 0
  /\ position = [q \in Queue |-> [p \in Post |-> Null]]
  /\ at = [c \in Children |-> Null]
  /\ postAt = [p \in Post |-> Null]
  /\ status = [c \in Children |-> "draft"]
  /\ floor = [c \in Children |-> Null]

Entries(pos) == {p \in DOMAIN pos : pos[p] # Null}
MaxOf(S) == CHOOSE m \in S : \A n \in S : n <= m
MinOf(S) == CHOOSE m \in S : \A n \in S : m <= n

(* _next_slot_datetimes: the active slots after t, up to the last day it   *)
(* looks at, and the n-th of them, Null when they run out.                 *)
Upcoming(a, t) == {s \in t + 1 .. (t \div Day + Horizon) * Day - 1 : slot[a][s % Week] = "on"}
NthSlot(a, n, t) ==
  LET nth == {s \in Upcoming(a, t) : Cardinality({u \in Upcoming(a, t) : u <= s}) = n}
  IN  IF nth = {} THEN Null ELSE MinOf(nth)

(* order_by("position"): equal positions in any order.                     *)
Orders(pos) ==
  {o \in [1 .. Cardinality(Entries(pos)) -> Entries(pos)] :
     \A i, j \in DOMAIN o : i < j => o[i] # o[j] /\ pos[o[i]] <= pos[o[j]]}

(* Mutant of Dealt: the first slot is dealt twice.                         *)
DealtTwice(o, a, ats) ==
  [c \in Children |->
     IF c[2] = a /\ \E i \in DOMAIN o : o[i] = c[1]
     THEN NthSlot(a, MaxOf({1} \cup {i - 1 : i \in {j \in DOMAIN o : o[j] = c[1]}}), now)
     ELSE ats[c]]
(* assign_queue_slots writes the slot of each entry to the PlatformPost of *)
(* the queue's account.                                                    *)
Dealt(o, a, ats) ==
  [c \in Children |->
     IF c[2] = a /\ \E i \in DOMAIN o : o[i] = c[1]
     THEN NthSlot(a, CHOOSE i \in DOMAIN o : o[i] = c[1], now)
     ELSE ats[c]]

Times(p, ats) == {ats[c] : c \in {d \in Children : d[1] = p /\ ats[d] # Null}}
(* Mutant of Synced: a Post that has a time keeps it.                      *)
SyncedOnce(S, ats) ==
  [p \in Post |-> IF p \in S /\ Times(p, ats) # {} /\ postAt[p] = Null
                  THEN MinOf(Times(p, ats)) ELSE postAt[p]]
(* sync_post_scheduled_at: the earliest child; unchanged if none has a time*)
Synced(S, ats) ==
  [p \in Post |-> IF p \in S /\ Times(p, ats) # {} THEN MinOf(Times(p, ats)) ELSE postAt[p]]

(* position = (max_pos or 0) + 1; an entry that exists moves.              *)
Appended(pos, p) == [pos EXCEPT ![p] = MaxOf({pos[x] : x \in Entries(pos)} \cup {0}) + 1]
Prepended(pos, p) ==
  [x \in DOMAIN pos |-> IF x = p THEN 0 ELSE IF pos[x] = Null THEN Null ELSE pos[x] + 1]
Placed(pos, p, priority) == IF priority THEN Prepended(pos, p) ELSE Appended(pos, p)

(* _reassign_queue_slots_from_floor                                        *)
FromFloor(f, c, ats) ==
  IF f = Null \/ Upcoming(c[2], MaxOf({f, now})) = {} THEN ats
  ELSE [ats EXCEPT ![c] = NthSlot(c[2], 1, MaxOf({f, now}))]

(* _transition_post_children(post, "scheduled") on the statuses used here. *)
Moved(s) == IF s = "draft" THEN "scheduled" ELSE s

(* The composer's add_to_queue and add_to_queue_priority with one queue    *)
(* chosen; only the first looks at the day.  In the end all children of    *)
(* the Post move on, with a time or without.                               *)
AddToQueue(p, q, priority, f) ==
  LET c   == << p, AccountOf[q] >>
      pos == Placed(position[q], p, priority)
  IN  /\ c \in Children
      /\ priority => f = Null
      /\ \A i \in Entries(pos) : pos[i] <= MaxPosition
      /\ position' = [position EXCEPT ![q] = pos]
      /\ \E o \in Orders(pos) : at' = FromFloor(f, c, Dealt(o, AccountOf[q], at))
      /\ postAt' = Synced(Entries(pos), at')
      /\ status' = [d \in Children |->
           IF d[1] = p THEN Moved(status[d]) ELSE status[d]]
      /\ floor' = [floor EXCEPT ![c] = f]
      /\ UNCHANGED << now, slot, changes >>

(* reorder_queue with the entries the page listed, perhaps not all.        *)
Reorder(q, o) ==
  LET pos == [p \in Post |-> IF \E i \in DOMAIN o : o[i] = p
                             THEN (CHOOSE i \in DOMAIN o : o[i] = p) - 1
                             ELSE position[q][p]]
  IN  /\ position' = [position EXCEPT ![q] = pos]
      /\ \E x \in Orders(pos) : at' = Dealt(x, AccountOf[q], at)
      /\ postAt' = Synced(Entries(pos), at')
      /\ UNCHANGED << now, slot, changes, status, floor >>

(* Deleting a queue deletes its entries and leaves the PlatformPosts.      *)
DeleteQueue(q) ==
  /\ Entries(position[q]) # {}
  /\ position' = [position EXCEPT ![q] = [p \in Post |-> Null]]
  /\ UNCHANGED << now, slot, changes, at, postAt, status, floor >>

(* Coalesce(scheduled_at, post.scheduled_at), as the engine reads it.      *)
Effective(c) == IF at[c] # Null THEN at[c] ELSE postAt[c[1]]

Publish(c) ==
  /\ status[c] = "scheduled" /\ Effective(c) # Null /\ Effective(c) <= now
  /\ status' = [status EXCEPT ![c] = "published"]
  /\ UNCHANGED << now, slot, changes, position, at, postAt, floor >>

Tick ==
  /\ now < MaxTime
  /\ now' = now + 1
  /\ UNCHANGED << slot, changes, position, at, postAt, status, floor >>

(* ----- the slots; nothing is dealt again ----- *)
Changes(a, plan) ==
  /\ plan # slot[a] /\ changes < MaxChanges
  /\ slot' = [slot EXCEPT ![a] = plan] /\ changes' = changes + 1
  /\ UNCHANGED << now, position, at, postAt, status, floor >>

(* save_posting_slot: one that exists stays as it is.                      *)
SaveSlot(a, h) == Changes(a, [slot[a] EXCEPT ![h] = IF @ = "none" THEN "on" ELSE @])
DeleteSlot(a, h) == Changes(a, [slot[a] EXCEPT ![h] = "none"])

(* toggle_posting_slot_day: off when all are on, otherwise all on.         *)
ToggleDay(a, d) ==
  LET of == {h \in 0 .. Week - 1 : h \div Day = d /\ slot[a][h] # "none"}
      to == IF \A h \in of : slot[a][h] = "on" THEN "off" ELSE "on"
  IN  Changes(a, [h \in 0 .. Week - 1 |-> IF h \in of THEN to ELSE slot[a][h]])

(* update_posting_slot: to a time of its day that has none.                *)
MoveSlot(a, h, k) ==
  /\ slot[a][h] # "none" /\ slot[a][k] = "none" /\ h \div Day = k \div Day
  /\ Changes(a, [slot[a] EXCEPT ![h] = "none", ![k] = slot[a][h]])

(* What a page may list: some entries of the queue in some order.          *)
Listed(q) ==
  UNION {{o \in [1 .. Cardinality(S) -> S] : \A i, j \in DOMAIN o : i # j => o[i] # o[j]} :
           S \in (SUBSET Entries(position[q])) \ {{}}}
-----------------------------------------------------------------------------
Next ==
  \/ \E p \in Post, q \in Queue, priority \in BOOLEAN, f \in Floors \cup {Null} :
       AddToQueue(p, q, priority, f)
  \/ Reorders /\ \E q \in Queue : \E o \in Listed(q) : Reorder(q, o)
  \/ \E q \in Queue : DeleteQueue(q)
  \/ \E c \in Children : Publish(c)
  \/ \E a \in Account, h \in 0 .. Week - 1 :
       \/ SaveSlot(a, h) \/ DeleteSlot(a, h) \/ ToggleDay(a, h \div Day)
       \/ \E k \in 0 .. Week - 1 : MoveSlot(a, h, k)
  \/ Tick

Spec == Init /\ [][Next]_vars
-----------------------------------------------------------------------------
TypeOK ==
  /\ now \in 0 .. MaxTime
  /\ position \in [Queue -> [Post -> {Null} \cup Nat]]
  /\ slot \in [Account -> [0 .. Week - 1 -> {"none", "on", "off"}]] /\ changes \in 0 .. MaxChanges
  /\ at \in [Children -> Nat \cup {Null}] /\ postAt \in [Post -> Nat \cup {Null}]
  /\ status \in [Children -> {"draft", "scheduled", "published"}]
  /\ floor \in [Children -> Floors \cup {Null}]

(* The posts that wait in queue q, as its account will publish them.       *)
Waiting(q) == {c \in Children : /\ c[2] = AccountOf[q] /\ position[q][c[1]] # Null
                                /\ status[c] = "scheduled"}
Undated(q) == {c \in Waiting(q) : floor[c] = Null}

(* No other queue deals out the slots of the account.                      *)
Sole(q) == \A r \in Queue : AccountOf[r] = AccountOf[q] => r = q

(* A slot goes to one waiting entry of the queue, and the entries have     *)
(* theirs in the order of the positions, those without a slot last:        *)
(* whatever adds, priorities, reorders and changes of the slots came       *)
(* before, unless the author named a day or the account has two queues.    *)
QueueOrder ==
  \A q \in Queue : Sole(q) => \A c, d \in Undated(q) :
    /\ c # d /\ at[c] > now => at[c] # at[d]
    /\ position[q][c[1]] < position[q][d[1]] /\ at[d] # Null => at[c] # Null /\ at[c] < at[d]

(* Post.scheduled_at is the earliest time among its children.              *)
PostFollowsChildren ==
  \A p \in Post : Times(p, at) # {} => postAt[p] = MinOf(Times(p, at))
=============================================================================
