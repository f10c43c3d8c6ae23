--------------------------- MODULE Calendar_proofs ---------------------------
(***************************************************************************)
(* Theorems about PostingQueue, for any posts, queues, accounts and slots: *)
(* the queues deal out their slots in order, and the time of a Post is the *)
(* earliest of its children; and about Recurrence, for any rules and       *)
(* months: no day is generated twice.                                      *)
(***************************************************************************)
EXTENDS Calendar, FiniteSetTheorems, WellFoundedInduction, TLAPS

(***************************************************************************)
(* Ranks in finite sets of integers                                        *)
(***************************************************************************)
(* Every set of naturals has a smallest member.                            *)
LEMMA SmallestExists ==
  ASSUME NEW S \in SUBSET Nat, S # {}
  PROVE  \E t \in S : \A u \in S : t <= u
<1>1. PICK x \in S : \A y \in S : ~ (<< y, x >> \in OpToRel(<, Nat))
  BY NatLessThanWellFounded, WFMin, Zenon
<1>2. ASSUME NEW y \in S PROVE x <= y
  <2>1. y \in Nat /\ x \in Nat
    OBVIOUS
  <2>2. (y < x) => << y, x >> \in OpToRel(<, Nat)
    <3>1. OpToRel(<, Nat) = {ss \in Nat \X Nat : ss[1] < ss[2]}
      BY DEF OpToRel
    <3>2. << y, x >> \in Nat \X Nat /\ << y, x >>[1] = y /\ << y, x >>[2] = x
      BY <2>1
    <3> QED BY <3>1, <3>2, Zenon
  <2>3. ~ (y < x)
    BY <1>1, <2>2, Zenon
  <2> QED BY <2>1, <2>3
<1> QED BY <1>2

Below(S, s) == {u \in S : u <= s}
RankIn(S, s) == Cardinality(Below(S, s))

(* A member's rank is between 1 and the number of members, and larger      *)
(* members have larger ranks.                                              *)
LEMMA RanksGrow ==
  ASSUME NEW S \in SUBSET Int, IsFiniteSet(S), NEW s \in S
  PROVE  /\ IsFiniteSet(Below(S, s)) /\ RankIn(S, s) \in 1 .. Cardinality(S) /\ Cardinality(S) \in Nat
         /\ \A t \in S : s < t => RankIn(S, s) < RankIn(S, t)
<1>1. \A t \in S : /\ Below(S, t) \in SUBSET S /\ t \in Below(S, t)
                   /\ IsFiniteSet(Below(S, t)) /\ RankIn(S, t) \in Nat /\ RankIn(S, t) <= Cardinality(S)
  <2> SUFFICES ASSUME NEW t \in S
               PROVE  /\ Below(S, t) \in SUBSET S /\ t \in Below(S, t)
                      /\ IsFiniteSet(Below(S, t)) /\ RankIn(S, t) \in Nat /\ RankIn(S, t) <= Cardinality(S)
    OBVIOUS
  <2>1. Below(S, t) \in SUBSET S /\ t \in Below(S, t)
    BY DEF Below
  <2> QED BY <2>1, FS_Subset, FS_CardinalityType DEF RankIn
<1>2. Cardinality(S) \in Nat
  BY FS_CardinalityType
<1>3. RankIn(S, s) # 0
  BY <1>1, FS_EmptySet DEF RankIn
<1>4. ASSUME NEW t \in S, s < t PROVE RankIn(S, s) < RankIn(S, t)
  <2>1. Below(S, s) \in SUBSET Below(S, t) /\ t \notin Below(S, s)
    <3>1. s \in Int /\ t \in Int /\ \A u \in S : u \in Int
      OBVIOUS
    <3>2. \A u \in S : u <= s => u <= t
      BY <1>4, <3>1
    <3>3. Below(S, s) \subseteq Below(S, t)
      BY <3>2 DEF Below
    <3>4. t \notin Below(S, s)
      BY <1>4, <3>1 DEF Below
    <3> QED BY <3>3, <3>4
  <2>2. RankIn(S, s) <= RankIn(S, t) /\ RankIn(S, s) # RankIn(S, t)
    BY <1>1, <2>1, FS_Subset DEF RankIn
  <2> QED BY <1>1, <2>2
<1> QED BY <1>1, <1>2, <1>3, <1>4

(* A finite set of integers has a largest member.                          *)
LEMMA LargestExists ==
  ASSUME NEW S \in SUBSET Int, IsFiniteSet(S), S # {}
  PROVE  \E t \in S : \A u \in S : u <= t
<1> DEFINE D == {Cardinality(S) - RankIn(S, s) : s \in S}
<1>1. D \in SUBSET Nat /\ D # {}
  BY RanksGrow
<1>2. PICK d \in D : \A e \in D : d <= e
  BY <1>1, SmallestExists
<1>3. PICK t \in S : d = Cardinality(S) - RankIn(S, t)
  BY <1>2
<1>4. ASSUME NEW u \in S, t < u PROVE FALSE
  <2>1. RankIn(S, t) < RankIn(S, u) /\ Cardinality(S) \in Nat /\ RankIn(S, t) \in Nat /\ RankIn(S, u) \in Nat
    BY <1>4, RanksGrow
  <2>2. Cardinality(S) - RankIn(S, u) \in D
    OBVIOUS
  <2>3. d <= Cardinality(S) - RankIn(S, u)
    BY <1>2, <2>2
  <2> QED BY <1>3, <2>1, <2>3
<1>5. \A u \in S : u \in Int /\ t \in Int
  OBVIOUS
<1> QED BY <1>4, <1>5

(* No rank is left out.                                                    *)
LEMMA RanksAreFilled ==
  ASSUME NEW S \in SUBSET Int, IsFiniteSet(S), NEW t \in S, NEW n \in 1 .. RankIn(S, t)
  PROVE  \E s \in S : RankIn(S, s) = n
<1> DEFINE K == {k \in Nat : k >= n /\ \E s \in S : RankIn(S, s) = k}
<1>0. RankIn(S, t) \in Nat
  BY RanksGrow
<1>1. K \in SUBSET Nat /\ K # {}
  BY <1>0
<1>2. PICK k \in K : \A j \in K : k <= j
  BY <1>1, SmallestExists
<1>3. PICK s \in S : RankIn(S, s) = k
  BY <1>2
<1>4. k \in Nat /\ k >= n /\ n \in Nat /\ n >= 1
  BY <1>0, <1>2
<1>5. ASSUME k > n PROVE FALSE
  <2> DEFINE B == Below(S, s) \ {s}
  <2>1. IsFiniteSet(B) /\ Cardinality(B) = k - 1 /\ B \in SUBSET Int
    <3>1. IsFiniteSet(Below(S, s)) /\ s \in Below(S, s)
      BY RanksGrow DEF Below
    <3> QED BY <1>3, <3>1, FS_RemoveElement DEF RankIn, Below
  <2>2. B # {}
    BY <1>4, <1>5, <2>1, FS_EmptySet
  <2>3. PICK r \in B : \A u \in B : u <= r
    BY <2>1, <2>2, LargestExists
  <2>4. r \in S /\ r < s
    BY <2>3 DEF Below
  <2>5. Below(S, r) = B
    <3>1. r \in Int /\ s \in Int /\ \A u \in S : u \in Int
      BY <2>4
    <3>2. \A u \in S : u <= r <=> u <= s /\ u # s
      BY <2>3, <2>4, <3>1 DEF Below
    <3> QED BY <3>2 DEF Below
  <2>6. k - 1 \in K
    BY <1>4, <1>5, <2>1, <2>4, <2>5 DEF RankIn
  <2> QED BY <1>2, <1>4, <2>6
<1> QED BY <1>3, <1>4, <1>5

-----------------------------------------------------------------------------
(***************************************************************************)
(* The operators of the queue                                              *)
(***************************************************************************)
(* The largest member of a finite set is chosen when there is one.         *)
LEMMA LargestIs ==
  ASSUME NEW S \in SUBSET Nat, IsFiniteSet(S), S # {}
  PROVE  MaxOf(S) \in S /\ \A n \in S : n <= MaxOf(S)
<1>1. S \in SUBSET Int
  OBVIOUS
<1>2. \E t \in S : \A u \in S : u <= t
  BY <1>1, LargestExists
<1> QED BY <1>2 DEF MaxOf

(* The same for the smallest; the set may be infinite.                     *)
LEMMA SmallestIs ==
  ASSUME NEW S \in SUBSET Nat, S # {}
  PROVE  MinOf(S) \in S /\ \A n \in S : MinOf(S) <= n
BY SmallestExists DEF MinOf

(* The n-th slot has n slots up to itself, and is missing when none has.   *)
LEMMA NthSlotIs ==
  ASSUME NEW a, NEW t \in Nat, NEW n \in Nat
  PROVE  LET U == Upcoming(a, t)  s == NthSlot(a, n, t)
         IN  /\ U \in SUBSET Nat /\ U \in SUBSET Int /\ IsFiniteSet(U)
             /\ s = Null \/ (s \in U /\ RankIn(U, s) = n)
             /\ s = Null => \A u \in U : RankIn(U, u) # n
<1> DEFINE U == Upcoming(a, t)
           last == (t \div Day + Horizon) * Day - 1
           nth == {s \in U : Cardinality({u \in U : u <= s}) = n}
<1>1. Day \in Nat /\ Horizon \in Nat /\ Day > 0
  BY QueueAssumption
<1>2. last \in Int
  <2>1. t \div Day \in Int
    BY <1>1
  <2> QED BY <1>1, <2>1
<1>3. IsFiniteSet(t + 1 .. last) /\ U \in SUBSET (t + 1 .. last)
  <2> HIDE DEF last
  <2>1. IsFiniteSet(t + 1 .. last)
    BY <1>2, FS_Interval
  <2> QED BY <2>1 DEF Upcoming, last
<1> HIDE DEF last
<1>4. U \in SUBSET Nat /\ U \in SUBSET Int /\ IsFiniteSet(U)
  BY <1>2, <1>3, FS_Subset
<1>5. nth = {s \in U : RankIn(U, s) = n}
  BY DEF RankIn, Below
<1>6. NthSlot(a, n, t) = IF nth = {} THEN Null ELSE MinOf(nth)
  BY DEF NthSlot
<1>7. nth \in SUBSET Nat
  BY <1>4, <1>5
<1> HIDE DEF U, nth
<1>8. CASE nth = {}
  BY <1>4, <1>5, <1>6, <1>8 DEF U
<1>9. CASE nth # {}
  <2>1. MinOf(nth) \in nth
    BY <1>7, <1>9, SmallestIs
  <2>2. NthSlot(a, n, t) \in U /\ NthSlot(a, n, t) # Null
    BY <1>4, <1>5, <1>6, <1>9, <2>1 DEF Null
  <2> QED BY <1>4, <1>5, <1>6, <1>9, <2>1, <2>2 DEF U
<1> QED BY <1>8, <1>9

(* The slots come in their order, and there is none after the last.        *)
LEMMA SlotsInOrder ==
  ASSUME NEW a, NEW t \in Nat, NEW i \in Nat \ {0}, NEW j \in Nat \ {0}
  PROVE  /\ NthSlot(a, i, t) \in Nat \cup {Null}
         /\ NthSlot(a, i, t) # Null /\ i # j => NthSlot(a, i, t) # NthSlot(a, j, t)
         /\ i < j /\ NthSlot(a, j, t) # Null =>
              NthSlot(a, i, t) # Null /\ NthSlot(a, i, t) < NthSlot(a, j, t)
<1> DEFINE U == Upcoming(a, t)
           x == NthSlot(a, i, t)
           y == NthSlot(a, j, t)
<1>1. /\ U \in SUBSET Nat /\ U \in SUBSET Int /\ IsFiniteSet(U)
      /\ x = Null \/ (x \in U /\ RankIn(U, x) = i)
      /\ x = Null => \A u \in U : RankIn(U, u) # i
      /\ y = Null \/ (y \in U /\ RankIn(U, y) = j)
  BY NthSlotIs
<1> HIDE DEF U, x, y
<1>2. x \in Nat \cup {Null}
  BY <1>1
<1>3. x # Null /\ i # j => x # y
  BY <1>1
<1>4. ASSUME i < j, y # Null PROVE x # Null /\ x < y
  <2>1. y \in U /\ RankIn(U, y) = j /\ i \in 1 .. RankIn(U, y)
    BY <1>1, <1>4
  <2>2. \E s \in U : RankIn(U, s) = i
    BY <1>1, <2>1, RanksAreFilled
  <2>3. x \in U /\ RankIn(U, x) = i
    BY <1>1, <2>2
  <2>4. x \in Nat /\ y \in Nat /\ x # y /\ ~ (y < x)
    <3>1. ASSUME y < x PROVE FALSE
      <4>1. RankIn(U, y) < RankIn(U, x)
        BY <1>1, <2>1, <2>3, <3>1, RanksGrow
      <4> QED BY <1>4, <2>1, <2>3, <4>1
    <3> QED BY <1>1, <1>4, <2>1, <2>3, <3>1
  <2> QED BY <2>4 DEF Null
<1> QED BY <1>2, <1>3, <1>4 DEF x, y

(* The entries in the order of their positions: each of them once.         *)
Place(o, x) == CHOOSE i \in DOMAIN o : o[i] = x

(* Each entry has one place, in the order of the positions.                *)
LEMMA OrderIs ==
  ASSUME NEW pos \in [Post -> {Null} \cup Nat], NEW o \in Orders(pos)
  PROVE  /\ Entries(pos) \subseteq Post /\ \A i \in DOMAIN o : o[i] \in Entries(pos)
         /\ \A x \in Entries(pos) : /\ \E i \in DOMAIN o : o[i] = x
                                    /\ Place(o, x) \in DOMAIN o /\ Place(o, x) \in Nat \ {0} /\ o[Place(o, x)] = x
         /\ \A x, y \in Entries(pos) : /\ x # y => Place(o, x) # Place(o, y)
                                       /\ pos[x] < pos[y] => Place(o, x) < Place(o, y)
<1> DEFINE E == Entries(pos)
           n == Cardinality(E)
<1>1. E \in SUBSET Post
  BY DEF Entries
<1>2. IsFiniteSet(E) /\ n \in Nat
  BY <1>1, QueueAssumption, FS_Subset, FS_CardinalityType
<1>3. /\ o \in [1 .. n -> E] /\ DOMAIN o = 1 .. n
      /\ \A i, j \in 1 .. n : i < j => o[i] # o[j] /\ pos[o[i]] <= pos[o[j]]
  BY DEF Orders
<1>4. \A i, j \in 1 .. n : o[i] = o[j] => i = j
  <2> SUFFICES ASSUME NEW i \in 1 .. n, NEW j \in 1 .. n, o[i] = o[j] PROVE i = j
    OBVIOUS
  <2>1. i \in Int /\ j \in Int /\ ~ (i < j) /\ ~ (j < i)
    BY <1>2, <1>3
  <2> QED BY <2>1
<1>5. \A x \in E : \E i \in 1 .. n : o[i] = x
  <2>1. o \in Injection(1 .. n, E)
    BY <1>3, <1>4 DEF Injection, IsInjective
  <2>2. IsFiniteSet(1 .. n) /\ Cardinality(1 .. n) = n
    BY <1>2, FS_Interval
  <2>3. o \in Surjection(1 .. n, E)
    BY <1>2, <2>1, <2>2, FS_Injection
  <2> QED BY <2>3 DEF Surjection
<1>6. \A x \in E : Place(o, x) \in 1 .. n /\ o[Place(o, x)] = x
  BY <1>3, <1>5 DEF Place
<1>7. ASSUME NEW x \in E, NEW y \in E, pos[x] < pos[y] PROVE Place(o, x) < Place(o, y)
  <2>1. Place(o, x) \in 1 .. n /\ Place(o, y) \in 1 .. n /\ o[Place(o, x)] = x /\ o[Place(o, y)] = y
    BY <1>6
  <2>2. pos[x] \in Int /\ pos[y] \in Int
    BY <1>1 DEF Null
  <2>3. ~ (Place(o, y) < Place(o, x))
    BY <1>3, <1>7, <2>1, <2>2
  <2>4. Place(o, x) # Place(o, y)
    BY <1>7, <2>1, <2>2
  <2> QED BY <1>2, <2>1, <2>3, <2>4
<1>8. \A x, y \in E : x # y => Place(o, x) # Place(o, y)
  BY <1>6
<1>9. \A x \in E : Place(o, x) \in Nat \ {0}
  BY <1>2, <1>6
<1> QED BY <1>1, <1>3, <1>5, <1>6, <1>7, <1>8, <1>9

(* Dealing writes the slot of its place to the child of each entry that    *)
(* the queue's account has, and leaves the other children alone.           *)
LEMMA DealtIs ==
  ASSUME NEW pos \in [Post -> {Null} \cup Nat], NEW o \in Orders(pos), NEW a,
         now \in Nat, NEW ats \in [Children -> Nat \cup {Null}]
  PROVE  /\ Dealt(o, a, ats) \in [Children -> Nat \cup {Null}]
         /\ \A c \in Children : (c[2] # a \/ c[1] \notin Entries(pos)) => Dealt(o, a, ats)[c] = ats[c]
         /\ \A c, d \in Children :
              c[2] = a /\ d[2] = a /\ c[1] \in Entries(pos) /\ d[1] \in Entries(pos) =>
                LET s == Dealt(o, a, ats)[c]  t == Dealt(o, a, ats)[d]
                IN  /\ c # d /\ s # Null => s # t
                    /\ pos[c[1]] < pos[d[1]] /\ t # Null => s # Null /\ s < t
<1> DEFINE E == Entries(pos)
<1>1. \A c \in Children : Dealt(o, a, ats)[c] =
        IF c[2] = a /\ c[1] \in E THEN NthSlot(a, Place(o, c[1]), now) ELSE ats[c]
  BY OrderIs DEF Dealt, Place
<1>2. \A x \in E : Place(o, x) \in Nat \ {0}
  BY OrderIs
<1>3. \A x \in E : NthSlot(a, Place(o, x), now) \in Nat \cup {Null}
  BY <1>2, SlotsInOrder
<1>4. Dealt(o, a, ats) \in [Children -> Nat \cup {Null}]
  <2>1. Dealt(o, a, ats) = [c \in Children |-> Dealt(o, a, ats)[c]]
    BY DEF Dealt
  <2>2. \A c \in Children : Dealt(o, a, ats)[c] \in Nat \cup {Null}
    BY <1>1, <1>3
  <2> QED BY <2>1, <2>2
<1>5. ASSUME NEW c \in Children, NEW d \in Children, c[2] = a, d[2] = a, c[1] \in E, d[1] \in E
      PROVE  LET s == Dealt(o, a, ats)[c]  t == Dealt(o, a, ats)[d]
             IN  /\ c # d /\ s # Null => s # t
                 /\ pos[c[1]] < pos[d[1]] /\ t # Null => s # Null /\ s < t
  <2> DEFINE i == Place(o, c[1])
             j == Place(o, d[1])
             s == NthSlot(a, i, now)
             t == NthSlot(a, j, now)
  <2>1. Dealt(o, a, ats)[c] = s /\ Dealt(o, a, ats)[d] = t
    BY <1>1, <1>5
  <2>2. i \in Nat \ {0} /\ j \in Nat \ {0}
    BY <1>2, <1>5
  <2>3. c # d => c[1] # d[1]
    <3>1. c \in Post \X Account /\ d \in Post \X Account
      BY QueueAssumption
    <3> QED BY <1>5, <3>1
  <2>4. (c[1] # d[1] => i # j) /\ (pos[c[1]] < pos[d[1]] => i < j)
    BY <1>5, OrderIs
  <2>5. (s # Null /\ i # j => s # t) /\ (i < j /\ t # Null => s # Null /\ s < t)
    BY <2>2, SlotsInOrder
  <2> QED BY <2>1, <2>3, <2>4, <2>5
<1> QED BY <1>1, <1>4, <1>5

(* A Post's time follows its children when it is read again.               *)
LEMMA SyncedIs ==
  ASSUME NEW S, NEW ats \in [Children -> Nat \cup {Null}], postAt \in [Post -> Nat \cup {Null}]
  PROVE  /\ Synced(S, ats) \in [Post -> Nat \cup {Null}]
         /\ \A p \in Post : Synced(S, ats)[p] =
              IF p \in S /\ Times(p, ats) # {} THEN MinOf(Times(p, ats)) ELSE postAt[p]
<1>1. \A p \in Post : Times(p, ats) \in SUBSET Nat
  BY DEF Times, Null
<1>2. \A p \in Post : Times(p, ats) # {} => MinOf(Times(p, ats)) \in Nat
  BY <1>1, SmallestIs
<1> QED BY <1>2 DEF Synced

(* Where an added post stands.                                             *)
LEMMA PlacedIs ==
  ASSUME NEW pos \in [Post -> {Null} \cup Nat], NEW p \in Post, NEW priority \in BOOLEAN
  PROVE  Placed(pos, p, priority) \in [Post -> {Null} \cup Nat] /\ p \in Entries(Placed(pos, p, priority))
<1>1. CASE priority
  <2>1. Prepended(pos, p) \in [Post -> {Null} \cup Nat] /\ Prepended(pos, p)[p] = 0
    BY DEF Prepended, Null
  <2> QED BY <1>1, <2>1 DEF Placed, Entries, Null
<1>2. CASE ~ priority
  <2> DEFINE S == {pos[x] : x \in Entries(pos)} \cup {0}
  <2>1. S \in SUBSET Nat /\ S # {}
    BY DEF Entries, Null
  <2>2. IsFiniteSet(S)
    <3>1. IsFiniteSet(Entries(pos))
      BY QueueAssumption, FS_Subset DEF Entries
    <3>2. IsFiniteSet({pos[x] : x \in Entries(pos)})
      <4> DEFINE f == [x \in Entries(pos) |-> pos[x]]
                 T == {pos[x] : x \in Entries(pos)}
      <4>1. f \in Surjection(Entries(pos), T)
        BY DEF Surjection
      <4> HIDE DEF f, T
      <4>2. IsFiniteSet(T)
        BY <3>1, <4>1, FS_Surjection
      <4> QED BY <4>2 DEF T
    <3> QED BY <3>2, FS_AddElement
  <2>3. MaxOf(S) \in Nat
    BY <2>1, <2>2, LargestIs
  <2>4. Appended(pos, p) = [pos EXCEPT ![p] = MaxOf(S) + 1]
    BY DEF Appended
  <2> HIDE DEF S
  <2>5. Appended(pos, p) \in [Post -> {Null} \cup Nat] /\ Appended(pos, p)[p] # Null
    BY <2>3, <2>4 DEF Null
  <2> QED BY <1>2, <2>5 DEF Placed, Entries
<1> QED BY <1>1, <1>2

-----------------------------------------------------------------------------
(***************************************************************************)
(* The invariant                                                           *)
(***************************************************************************)
(* The entries of q whose author named no day, published or not: dealing   *)
(* does not ask.                                                           *)
Entered(q) == {c \in Children : /\ c[2] = AccountOf[q] /\ position[q][c[1]] # Null
                                /\ floor[c] = Null}

(* Entries have their slots in order whatever their status; a slot that    *)
(* has passed is still of one entry.                                       *)
OrderInv ==
  \A q \in Queue : Sole(q) => \A c, d \in Entered(q) :
    /\ c # d /\ at[c] # Null => at[c] # at[d]
    /\ position[q][c[1]] < position[q][d[1]] /\ at[d] # Null => at[c] # Null /\ at[c] < at[d]

Inv == TypeOK /\ OrderInv /\ PostFollowsChildren

(* Steps that leave the queues and the times alone.                        *)
LEMMA StillKeeps ==
  ASSUME Inv, TypeOK', UNCHANGED << position, at, postAt, floor >>
  PROVE  Inv'
BY DEF Inv, OrderInv, Entered, PostFollowsChildren, Times

(* A queue deals its slots: the children of its entries have theirs in     *)
(* order, but for one whose author named a day.                            *)
LEMMA DealKeeps ==
  ASSUME Inv, TypeOK', NEW q \in Queue, NEW pos \in [Post -> {Null} \cup Nat], NEW o \in Orders(pos),
         position' = [position EXCEPT ![q] = pos],
         \A c \in Children : (at'[c] = Dealt(o, AccountOf[q], at)[c] /\ floor'[c] \in {floor[c], Null})
           \/ (floor'[c] # Null /\ c[2] = AccountOf[q] /\ c[1] \in Entries(pos)),
         \A c \in Children : floor'[c] # floor[c] => c[2] = AccountOf[q],
         postAt' = Synced(Entries(pos), at')
  PROVE  Inv'
<1> DEFINE a == AccountOf[q]
           D == Dealt(o, a, at)
           E == Entries(pos)
<1>0. /\ at \in [Children -> Nat \cup {Null}] /\ now \in Nat /\ postAt \in [Post -> Nat \cup {Null}]
      /\ at' \in [Children -> Nat \cup {Null}] /\ position \in [Queue -> [Post -> {Null} \cup Nat]]
      /\ Children \subseteq Post \X Account
  BY QueueAssumption DEF Inv, TypeOK
<1>1. /\ D \in [Children -> Nat \cup {Null}]
      /\ \A c \in Children : (c[2] # a \/ c[1] \notin E) => D[c] = at[c]
      /\ \A c, d \in Children :
           c[2] = a /\ d[2] = a /\ c[1] \in E /\ d[1] \in E =>
             LET s == D[c]  t == D[d]
             IN  /\ c # d /\ s # Null => s # t
                 /\ pos[c[1]] < pos[d[1]] /\ t # Null => s # Null /\ s < t
  BY <1>0, DealtIs
<1>2. PostFollowsChildren'
  <2> SUFFICES ASSUME NEW p \in Post, Times(p, at') # {} PROVE postAt'[p] = MinOf(Times(p, at'))
    BY DEF PostFollowsChildren, Times
  <2>1. postAt'[p] = IF p \in E THEN MinOf(Times(p, at')) ELSE postAt[p]
    BY <1>0, SyncedIs
  <2>2. CASE p \notin E
    <3>1. \A c \in Children : c[1] = p => at'[c] = at[c]
      BY <1>1, <2>2
    <3>2. Times(p, at') = Times(p, at)
      BY <3>1 DEF Times
    <3> QED BY <2>1, <2>2, <3>2 DEF Inv, PostFollowsChildren
  <2> QED BY <2>1, <2>2
<1>3. OrderInv'
  <2> SUFFICES ASSUME NEW r \in Queue, Sole(r), NEW c \in Entered(r)', NEW d \in Entered(r)'
               PROVE  /\ c # d /\ at'[c] # Null => at'[c] # at'[d]
                      /\ position'[r][c[1]] < position'[r][d[1]] /\ at'[d] # Null
                           => at'[c] # Null /\ at'[c] < at'[d]
    BY DEF OrderInv, Sole
  <2>0. /\ c \in Children /\ c[2] = AccountOf[r] /\ position'[r][c[1]] # Null /\ floor'[c] = Null
        /\ d \in Children /\ d[2] = AccountOf[r] /\ position'[r][d[1]] # Null /\ floor'[d] = Null
        /\ c[1] \in Post /\ d[1] \in Post
    BY <1>0 DEF Entered
  <2>1. at'[c] = D[c] /\ at'[d] = D[d]
    BY <2>0
  <2>2. CASE r = q
    <3>1. position'[r] = pos /\ c[1] \in E /\ d[1] \in E
      BY <1>0, <2>0, <2>2 DEF Entries
    <3> HIDE DEF D
    <3> QED BY <1>1, <2>0, <2>1, <2>2, <3>1
  <2>3. CASE r # q
    <3>1. AccountOf[r] # a
      BY <2>3 DEF Sole
    <3>2. /\ position'[r] = position[r] /\ at'[c] = at[c] /\ at'[d] = at[d]
          /\ floor[c] = Null /\ floor[d] = Null
      BY <1>0, <1>1, <2>0, <2>1, <2>3, <3>1
    <3>3. c \in Entered(r) /\ d \in Entered(r)
      BY <2>0, <3>2 DEF Entered
    <3> QED BY <3>2, <3>3 DEF Inv, OrderInv
  <2> QED BY <2>2, <2>3
<1> QED BY <1>2, <1>3 DEF Inv

(* A slot is dealt again from the day the author asked for: only the child *)
(* asked for changes, to a slot.                                           *)
LEMMA FromFloorIs ==
  ASSUME NEW f \in Floors \cup {Null}, NEW c \in Children, NEW ats \in [Children -> Nat \cup {Null}],
         now \in Nat
  PROVE  /\ FromFloor(f, c, ats) \in [Children -> Nat \cup {Null}]
         /\ f = Null => FromFloor(f, c, ats) = ats
         /\ \A d \in Children : d # c => FromFloor(f, c, ats)[d] = ats[d]
<1>1. CASE f = Null \/ Upcoming(c[2], MaxOf({f, now})) = {}
  BY <1>1 DEF FromFloor
<1>2. CASE ~ (f = Null \/ Upcoming(c[2], MaxOf({f, now})) = {})
  <2> DEFINE m == MaxOf({f, now})
  <2>1. {f, now} \in SUBSET Nat /\ {f, now} # {}
    BY <1>2, QueueAssumption
  <2>2. IsFiniteSet({f, now})
    <3>1. IsFiniteSet({f})
      BY FS_Singleton
    <3>2. IsFiniteSet({f} \cup {now})
      BY <3>1, FS_AddElement
    <3>3. {f} \cup {now} = {f, now}
      OBVIOUS
    <3> QED BY <3>2, <3>3
  <2>3. m \in Nat
    BY <2>1, <2>2, LargestIs
  <2> HIDE DEF m
  <2>4. NthSlot(c[2], 1, m) \in Nat \cup {Null}
    BY <2>3, SlotsInOrder
  <2>5. FromFloor(f, c, ats) = [ats EXCEPT ![c] = NthSlot(c[2], 1, m)]
    BY <1>2 DEF FromFloor, m
  <2> QED BY <1>2, <2>4, <2>5
<1> QED BY <1>1, <1>2

-----------------------------------------------------------------------------
(***************************************************************************)
(* The steps                                                               *)
(***************************************************************************)
(* Adding a post to a queue.                                               *)
LEMMA AddKeeps ==
  ASSUME Inv, NEW p \in Post, NEW q \in Queue, NEW priority \in BOOLEAN, NEW f \in Floors \cup {Null},
         AddToQueue(p, q, priority, f)
  PROVE  Inv'
<1> DEFINE a == AccountOf[q]
           c == << p, a >>
           pos == Placed(position[q], p, priority)
<1>0. /\ at \in [Children -> Nat \cup {Null}] /\ now \in Nat /\ postAt \in [Post -> Nat \cup {Null}]
      /\ position \in [Queue -> [Post -> {Null} \cup Nat]] /\ position[q] \in [Post -> {Null} \cup Nat]
      /\ floor \in [Children -> Floors \cup {Null}]
      /\ status \in [Children -> {"draft", "scheduled", "published"}]
      /\ Children \subseteq Post \X Account
  BY QueueAssumption DEF Inv, TypeOK
<1>1. pos \in [Post -> {Null} \cup Nat] /\ p \in Entries(pos)
  BY <1>0, PlacedIs
<1>2. /\ c \in Children /\ position' = [position EXCEPT ![q] = pos]
      /\ postAt' = Synced(Entries(pos), at')
      /\ status' = [d \in Children |-> IF d[1] = p THEN Moved(status[d]) ELSE status[d]]
      /\ floor' = [floor EXCEPT ![c] = f]
      /\ UNCHANGED << now, slot, changes >>
  BY DEF AddToQueue
<1>3. PICK o \in Orders(pos) : at' = FromFloor(f, c, Dealt(o, a, at))
  BY DEF AddToQueue
<1> HIDE DEF pos
<1>4. Dealt(o, a, at) \in [Children -> Nat \cup {Null}]
  BY <1>0, <1>1, DealtIs
<1>5. /\ at' \in [Children -> Nat \cup {Null}]
      /\ f = Null => at' = Dealt(o, a, at)
      /\ \A d \in Children : d # c => at'[d] = Dealt(o, a, at)[d]
  BY <1>0, <1>2, <1>3, <1>4, FromFloorIs
<1>6. postAt' \in [Post -> Nat \cup {Null}]
  BY <1>0, <1>2, <1>5, SyncedIs
<1>7. status' \in [Children -> {"draft", "scheduled", "published"}]
  BY <1>0, <1>2 DEF Moved
<1>8. floor' \in [Children -> Floors \cup {Null}] /\ position' \in [Queue -> [Post -> {Null} \cup Nat]]
  BY <1>0, <1>1, <1>2
<1>9. TypeOK'
  BY <1>2, <1>5, <1>6, <1>7, <1>8 DEF Inv, TypeOK
<1>10. \A d \in Children : (at'[d] = Dealt(o, a, at)[d] /\ floor'[d] \in {floor[d], Null})
          \/ (floor'[d] # Null /\ d[2] = a /\ d[1] \in Entries(pos))
  <2> SUFFICES ASSUME NEW d \in Children
               PROVE  (at'[d] = Dealt(o, a, at)[d] /\ floor'[d] \in {floor[d], Null})
                        \/ (floor'[d] # Null /\ d[2] = a /\ d[1] \in Entries(pos))
    OBVIOUS
  <2>1. CASE d # c
    BY <1>0, <1>2, <1>5, <2>1
  <2>2. CASE d = c /\ f = Null
    BY <1>0, <1>2, <1>5, <2>2
  <2>3. CASE d = c /\ f # Null
    <3>1. floor'[d] = f
      BY <1>0, <1>2, <2>3
    <3> QED BY <1>1, <2>3, <3>1
  <2> QED BY <2>1, <2>2, <2>3
<1>11. \A d \in Children : floor'[d] # floor[d] => d[2] = a
  BY <1>0, <1>2
<1> QED BY <1>1, <1>2, <1>9, <1>10, <1>11, DealKeeps

(* Reordering a queue.                                                     *)
LEMMA ReorderKeeps ==
  ASSUME Inv, NEW q \in Queue, NEW o \in Listed(q), Reorder(q, o)
  PROVE  Inv'
<1> DEFINE pos == [p \in Post |-> IF \E i \in DOMAIN o : o[i] = p
                                  THEN (CHOOSE i \in DOMAIN o : o[i] = p) - 1
                                  ELSE position[q][p]]
           a == AccountOf[q]
<1>0. /\ at \in [Children -> Nat \cup {Null}] /\ now \in Nat /\ postAt \in [Post -> Nat \cup {Null}]
      /\ position \in [Queue -> [Post -> {Null} \cup Nat]]
  BY DEF Inv, TypeOK
<1>1. PICK S : S \in SUBSET Entries(position[q]) /\ o \in [1 .. Cardinality(S) -> S]
  BY DEF Listed
<1>2. pos \in [Post -> {Null} \cup Nat]
  <2>1. IsFiniteSet(S) /\ Cardinality(S) \in Nat
    BY <1>0, <1>1, QueueAssumption, FS_Subset, FS_CardinalityType DEF Entries
  <2>2. DOMAIN o = 1 .. Cardinality(S)
    BY <1>1
  <2>3. \A p \in Post : (\E i \in DOMAIN o : o[i] = p) => (CHOOSE i \in DOMAIN o : o[i] = p) \in DOMAIN o
    OBVIOUS
  <2>4. \A i \in DOMAIN o : i - 1 \in Nat
    BY <2>1, <2>2
  <2> QED BY <1>0, <2>3, <2>4
<1>3. /\ position' = [position EXCEPT ![q] = pos] /\ postAt' = Synced(Entries(pos), at')
      /\ UNCHANGED << now, slot, changes, status, floor >>
  BY DEF Reorder
<1>4. PICK x \in Orders(pos) : at' = Dealt(x, a, at)
  BY DEF Reorder
<1> HIDE DEF pos
<1>5. at' \in [Children -> Nat \cup {Null}]
  BY <1>0, <1>2, <1>4, DealtIs
<1>6. postAt' \in [Post -> Nat \cup {Null}]
  BY <1>0, <1>3, <1>5, SyncedIs
<1>7. position' \in [Queue -> [Post -> {Null} \cup Nat]]
  BY <1>0, <1>2, <1>3
<1>8. TypeOK'
  BY <1>3, <1>5, <1>6, <1>7 DEF Inv, TypeOK
<1>9. \A d \in Children : (at'[d] = Dealt(x, a, at)[d] /\ floor'[d] \in {floor[d], Null})
        \/ (floor'[d] # Null /\ d[2] = a /\ d[1] \in Entries(pos))
  BY <1>3, <1>4
<1>10. \A d \in Children : floor'[d] # floor[d] => d[2] = a
  BY <1>3
<1> QED BY <1>2, <1>3, <1>8, <1>9, <1>10, DealKeeps

(* Deleting a queue: its entries are gone, their times stay.               *)
LEMMA DeleteKeeps ==
  ASSUME Inv, NEW q \in Queue, DeleteQueue(q)
  PROVE  Inv'
<1>1. /\ position' = [position EXCEPT ![q] = [p \in Post |-> Null]]
      /\ UNCHANGED << now, slot, changes, at, postAt, status, floor >>
  BY DEF DeleteQueue
<1>2. position \in [Queue -> [Post -> {Null} \cup Nat]] /\ Children \subseteq Post \X Account
  BY QueueAssumption DEF Inv, TypeOK
<1>3. TypeOK'
  BY <1>1, <1>2 DEF Inv, TypeOK
<1>4. \A r \in Queue : \A c \in Entered(r)' : c \in Entered(r) /\ position'[r] = position[r]
  BY <1>1, <1>2 DEF Entered
<1>5. OrderInv'
  BY <1>1, <1>4 DEF Inv, OrderInv, Sole
<1>6. PostFollowsChildren'
  BY <1>1 DEF Inv, PostFollowsChildren, Times
<1> QED BY <1>3, <1>5, <1>6 DEF Inv

(* The clock, the engine and changes of the slots.                         *)
LEMMA OthersKeep ==
  ASSUME Inv,
         \/ Tick
         \/ \E c \in Children : Publish(c)
         \/ \E a \in Account, h \in 0 .. Week - 1 :
              \/ SaveSlot(a, h) \/ DeleteSlot(a, h) \/ ToggleDay(a, h \div Day)
              \/ \E k \in 0 .. Week - 1 : MoveSlot(a, h, k)
  PROVE  Inv'
<1>0. MaxTime \in Nat /\ MaxChanges \in Nat
  BY QueueAssumption
<1>1. CASE Tick
  <2>1. TypeOK'
    BY <1>0, <1>1 DEF Tick, Inv, TypeOK
  <2> QED BY <1>1, <2>1, StillKeeps DEF Tick
<1>2. ASSUME NEW c \in Children, Publish(c) PROVE Inv'
  <2>1. TypeOK'
    BY <1>2 DEF Publish, Inv, TypeOK
  <2> QED BY <1>2, <2>1, StillKeeps DEF Publish
<1>3. ASSUME NEW a \in Account, NEW plan \in [0 .. Week - 1 -> {"none", "on", "off"}], Changes(a, plan)
      PROVE  Inv'
  <2>1. TypeOK'
    BY <1>0, <1>3 DEF Changes, Inv, TypeOK
  <2> QED BY <1>3, <2>1, StillKeeps DEF Changes
<1>4. ASSUME NEW a \in Account, NEW h \in 0 .. Week - 1,
             \/ SaveSlot(a, h) \/ DeleteSlot(a, h) \/ ToggleDay(a, h \div Day)
             \/ \E k \in 0 .. Week - 1 : MoveSlot(a, h, k)
      PROVE  Inv'
  <2>1. slot[a] \in [0 .. Week - 1 -> {"none", "on", "off"}]
    BY DEF Inv, TypeOK
  <2>2. CASE SaveSlot(a, h)
    <3>1. [slot[a] EXCEPT ![h] = IF @ = "none" THEN "on" ELSE @] \in [0 .. Week - 1 -> {"none", "on", "off"}]
      BY <2>1
    <3> QED BY <1>3, <2>2, <3>1 DEF SaveSlot
  <2>3. CASE DeleteSlot(a, h)
    <3>1. [slot[a] EXCEPT ![h] = "none"] \in [0 .. Week - 1 -> {"none", "on", "off"}]
      BY <2>1
    <3> QED BY <1>3, <2>3, <3>1 DEF DeleteSlot
  <2>4. CASE ToggleDay(a, h \div Day)
    <3>1. PICK plan \in [0 .. Week - 1 -> {"none", "on", "off"}] : Changes(a, plan)
      BY <2>1, <2>4 DEF ToggleDay
    <3> QED BY <1>3, <3>1
  <2>5. ASSUME NEW k \in 0 .. Week - 1, MoveSlot(a, h, k) PROVE Inv'
    <3>1. [slot[a] EXCEPT ![h] = "none", ![k] = slot[a][h]] \in [0 .. Week - 1 -> {"none", "on", "off"}]
      BY <2>1
    <3> QED BY <1>3, <2>5, <3>1 DEF MoveSlot
  <2> QED BY <1>4, <2>2, <2>3, <2>4, <2>5
<1> QED BY <1>1, <1>2, <1>4

(* Nothing waits to begin with, and every step keeps the invariant.        *)
LEMMA AlwaysInv == Spec => []Inv
<1>1. Init => Inv
  <2> SUFFICES ASSUME Init PROVE Inv
    OBVIOUS
  <2>1. TypeOK
    BY QueueAssumption DEF Init, TypeOK
  <2>2. OrderInv
    BY QueueAssumption DEF Init, OrderInv, Entered
  <2>3. PostFollowsChildren
    BY DEF Init, PostFollowsChildren, Times
  <2> QED BY <2>1, <2>2, <2>3 DEF Inv
<1>2. Inv /\ [Next]_vars => Inv'
  <2> SUFFICES ASSUME Inv, [Next]_vars PROVE Inv'
    OBVIOUS
  <2>1. CASE UNCHANGED vars
    <3>1. TypeOK'
      BY <2>1 DEF vars, Inv, TypeOK
    <3> QED BY <2>1, <3>1, StillKeeps DEF vars
  <2>2. CASE Next
    BY <2>2, AddKeeps, ReorderKeeps, DeleteKeeps, OthersKeep DEF Next
  <2> QED BY <2>1, <2>2
<1> QED BY <1>1, <1>2, PTL DEF Spec

-----------------------------------------------------------------------------
(***************************************************************************)
(* Theorems                                                                *)
(***************************************************************************)
(* Every state is of its types.                                            *)
THEOREM TypeCorrect == Spec => []TypeOK
<1>1. Inv => TypeOK
  BY DEF Inv
<1> QED BY <1>1, AlwaysInv, PTL

(* Whatever is added, reordered, deleted and published, the time of a Post *)
(* is the earliest of its children's: queues write the children first.     *)
THEOREM PostTimeFollows == Spec => []PostFollowsChildren
<1>1. Inv => PostFollowsChildren
  BY DEF Inv
<1> QED BY <1>1, AlwaysInv, PTL

(* The only queue of an account gives each waiting entry a slot of its     *)
(* own, in the order of the positions.                                     *)
THEOREM SlotsKeepOrder == Spec => []QueueOrder
<1>1. Inv => QueueOrder
  <2> SUFFICES ASSUME Inv, NEW q \in Queue, Sole(q), NEW c \in Undated(q), NEW d \in Undated(q)
               PROVE  /\ c # d /\ at[c] > now => at[c] # at[d]
                      /\ position[q][c[1]] < position[q][d[1]] /\ at[d] # Null
                           => at[c] # Null /\ at[c] < at[d]
    BY DEF QueueOrder
  <2>1. c \in Entered(q) /\ d \in Entered(q)
    BY DEF Undated, Waiting, Entered
  <2>2. now \in Nat /\ at[c] \in Nat \cup {Null}
    BY DEF Inv, TypeOK, Undated, Waiting
  <2>3. at[c] > now => at[c] # Null
    BY <2>2 DEF Null
  <2> QED BY <2>1, <2>3 DEF Inv, OrderInv
<1> QED BY <1>1, AlwaysInv, PTL

-----------------------------------------------------------------------------
(***************************************************************************)
(* Recurrence                                                              *)
(***************************************************************************)

(* Every day of the calendar is in a month.                                *)
LEMMA MonthIs ==
  ASSUME NEW d \in Nat, d <= MaxDay
  PROVE  /\ R!MonthOf(d) \in R!Month
         /\ FirstDays[R!MonthOf(d)] <= d /\ d < FirstDays[R!MonthOf(d) + 1]
<1> DEFINE E == {m \in R!Month : d < FirstDays[m + 1]}
           l == Len(FirstDays)
<1>1. l \in Nat /\ l > 1 /\ FirstDays[1] = 0 /\ \A m \in 1 .. l : FirstDays[m] \in Nat
  BY CalendarAssumption
<1>2. E \in SUBSET Nat /\ l - 1 \in E
  BY <1>1, CalendarAssumption DEF R!Month
<1>3. PICK t \in E : \A u \in E : t <= u
  <2> HIDE DEF E
  <2> QED BY <1>2, SmallestExists
<1>4. t \in R!Month /\ t \in Nat /\ t + 1 \in 1 .. l /\ d < FirstDays[t + 1]
  BY <1>1, <1>3 DEF R!Month
<1>5. FirstDays[t] <= d
  <2>1. CASE t = 1
    BY <1>1, <2>1
  <2>2. CASE t # 1
    <3>1. t - 1 \in R!Month /\ (t - 1) + 1 = t /\ ~ (t <= t - 1) /\ t \in 1 .. l
      BY <1>1, <1>4, <2>2 DEF R!Month
    <3>2. t - 1 \notin E
      BY <1>3, <3>1
    <3> QED BY <1>1, <3>1, <3>2
  <2> QED BY <2>1, <2>2
<1> QED BY <1>4, <1>5 DEF R!MonthOf

(* An occurrence comes after the one before, unless that is past the end   *)
(* of the calendar.                                                        *)
LEMMA StepIs ==
  ASSUME NEW r \in Rules, NEW d \in Nat
  PROVE  /\ R!Step(r, d) \in Nat
         /\ d > MaxDay => R!Step(r, d) = d
         /\ d <= MaxDay => d < R!Step(r, d)
<1>1. MaxDay \in Nat /\ WeekLength \in Nat \ {0} /\ r.interval \in Nat \ {0}
  BY CalendarAssumption
<1>2. CASE d > MaxDay
  BY <1>1, <1>2 DEF R!Step
<1>3. CASE d <= MaxDay /\ r.frequency \in {"daily", "weekly"}
  <2>1. WeekLength * r.interval \in Nat \ {0}
    BY <1>1
  <2> QED BY <1>1, <1>3, <2>1 DEF R!Step
<1>4. CASE d <= MaxDay /\ r.frequency = "monthly"
  <2> DEFINE a == R!MonthOf(d)
             m == a + r.interval
             past == d - FirstDays[a]
  <2>1. R!Step(r, d) = R!AddMonths(d, r.interval)
    BY <1>1, <1>4 DEF R!Step
  <2>2. a \in R!Month /\ FirstDays[a] <= d /\ d < FirstDays[a + 1]
    BY <1>4, MonthIs
  <2> HIDE DEF a
  <2>3. /\ Len(FirstDays) \in Nat /\ \A n \in 1 .. Len(FirstDays) : FirstDays[n] \in Nat
        /\ a \in 1 .. Len(FirstDays) /\ a + 1 \in 1 .. Len(FirstDays)
    BY <2>2, CalendarAssumption DEF R!Month
  <2>4. CASE m \notin R!Month
    BY <1>1, <1>4, <2>1, <2>4 DEF R!AddMonths, a
  <2>5. CASE m \in R!Month
    <3>1. /\ m \in 1 .. Len(FirstDays) /\ m + 1 \in 1 .. Len(FirstDays)
          /\ m = a + 1 \/ a + 1 < m
      BY <1>1, <2>3, <2>5 DEF R!Month
    <3>2. FirstDays[a + 1] <= FirstDays[m] /\ FirstDays[m] < FirstDays[m + 1]
      BY <2>3, <3>1, CalendarAssumption
    <3> HIDE DEF m
    <3>3. past \in Nat /\ R!LengthOf(m) \in Nat \ {0}
      BY <2>2, <2>3, <3>1, <3>2 DEF R!LengthOf
    <3>4. R!Step(r, d) = FirstDays[m] + IF past < R!LengthOf(m) THEN past ELSE R!LengthOf(m) - 1
      BY <2>1, <2>5 DEF R!AddMonths, a, m
    <3> HIDE DEF past
    <3>5. FirstDays[m] \in Nat /\ d < FirstDays[m]
      BY <2>2, <2>3, <3>1, <3>2
    <3>6. R!Step(r, d) \in Nat /\ FirstDays[m] <= R!Step(r, d)
      BY <3>3, <3>4, <3>5
    <3> QED BY <1>1, <1>4, <3>5, <3>6
  <2> QED BY <2>4, <2>5
<1>5. r.frequency \in {"daily", "weekly", "monthly"}
  BY CalendarAssumption
<1> QED BY <1>1, <1>2, <1>3, <1>4, <1>5

Chain(f, r, base, m) == f = [n \in 0 .. m |-> IF n = 0 THEN base ELSE R!Step(r, f[n - 1])]

(* The occurrences are computed one from the other, and as far as the      *)
(* calendar goes no two of them are on a day (by the smallest number for   *)
(* which it would not be so).                                              *)
LEMMA OccurrencesAre ==
  ASSUME NEW r \in Rules, NEW base \in Nat
  PROVE  LET date == R!Occurrences(r, base) IN
           /\ \A n \in 0 .. 2 * Lookahead : date[n] \in Nat
           /\ \A i, j \in 0 .. 2 * Lookahead : i < j /\ date[j] <= MaxDay => date[i] < date[j]
<1> DEFINE N    == 2 * Lookahead
           date == R!Occurrences(r, base)
           Bad  == {m \in 0 .. N : ~ \E f : Chain(f, r, base, m)}
<1>1. N \in Nat /\ MaxDay \in Nat
  BY CalendarAssumption
<1> HIDE DEF N
<1>2. Bad = {}
  <2> SUFFICES ASSUME Bad # {} PROVE FALSE
    OBVIOUS
  <2>1. Bad \in SUBSET Nat
    OBVIOUS
  <2>2. PICK m \in Bad : \A k \in Bad : m <= k
    <3> HIDE DEF Bad
    <3> QED BY <2>1, SmallestExists
  <2>3. m # 0
    <3>1. Chain([n \in 0 .. 0 |-> base], r, base, 0)
      BY DEF Chain
    <3> QED BY <2>2, <3>1
  <2>4. m \in Nat /\ m - 1 \in 0 .. N /\ m - 1 \notin Bad
    BY <1>1, <2>2, <2>3
  <2>5. PICK f : Chain(f, r, base, m - 1)
    BY <2>4
  <2> DEFINE h == [n \in 0 .. m |-> IF n = m THEN R!Step(r, f[m - 1]) ELSE f[n]]
  <2>6. h = [n \in 0 .. m |-> IF n = 0 THEN base ELSE R!Step(r, h[n - 1])]
    <3>1. ASSUME NEW n \in 0 .. m PROVE h[n] = IF n = 0 THEN base ELSE R!Step(r, h[n - 1])
      <4>1. CASE n = m
        <5>1. m - 1 \in 0 .. m /\ m - 1 # m /\ m \in 0 .. m
          BY <2>4
        <5>2. h[m] = R!Step(r, f[m - 1]) /\ h[m - 1] = f[m - 1]
          BY <5>1
        <5> HIDE DEF h
        <5> QED BY <2>3, <4>1, <5>2
      <4>2. CASE n # m
        <5>1. n \in 0 .. m - 1 /\ (n # 0 => n - 1 \in 0 .. m /\ n - 1 # m)
          BY <2>4, <4>2
        <5>2. f[n] = IF n = 0 THEN base ELSE R!Step(r, f[n - 1])
          BY <2>5, <5>1 DEF Chain
        <5> QED BY <4>2, <5>1, <5>2
      <4> QED BY <4>1, <4>2
    <3> HIDE DEF h
    <3>2. h = [n \in 0 .. m |-> h[n]]
      BY DEF h
    <3> QED BY <3>1, <3>2
  <2> QED BY <2>2, <2>6 DEF Chain
<1>3. Chain(date, r, base, N)
  <2>1. \E f : Chain(f, r, base, N)
    BY <1>1, <1>2
  <2>2. date = CHOOSE f : Chain(f, r, base, N)
    BY DEF R!Occurrences, Chain, N
  <2> HIDE DEF date
  <2> QED BY <2>1, <2>2
<1> HIDE DEF date
<1>4. /\ date[0] = base
      /\ \A n \in 0 .. N : n # 0 => n - 1 \in 0 .. N /\ n - 1 < n /\ date[n] = R!Step(r, date[n - 1])
  BY <1>1, <1>3 DEF Chain
<1>5. \A n \in 0 .. N : date[n] \in Nat
  <2> DEFINE Odd == {n \in 0 .. N : date[n] \notin Nat}
  <2> SUFFICES ASSUME Odd # {} PROVE FALSE
    OBVIOUS
  <2>1. Odd \in SUBSET Nat
    OBVIOUS
  <2>2. PICK n \in Odd : \A k \in Odd : n <= k
    <3> HIDE DEF Odd
    <3> QED BY <2>1, SmallestExists
  <2>3. n # 0 /\ n \in Nat
    BY <1>4, <2>2
  <2>4. n - 1 \in 0 .. N /\ ~ (n <= n - 1) /\ date[n] = R!Step(r, date[n - 1])
    BY <1>4, <2>2, <2>3
  <2>5. date[n - 1] \in Nat
    BY <2>2, <2>4
  <2> QED BY <2>2, <2>4, <2>5, StepIs
<1>6. ASSUME NEW i \in 0 .. N PROVE \A j \in 0 .. N : i < j /\ date[j] <= MaxDay => date[i] < date[j]
  <2> DEFINE Odd == {j \in 0 .. N : i < j /\ date[j] <= MaxDay /\ ~ (date[i] < date[j])}
  <2> SUFFICES ASSUME Odd # {} PROVE FALSE
    OBVIOUS
  <2>1. Odd \in SUBSET Nat
    OBVIOUS
  <2>2. PICK j \in Odd : \A k \in Odd : j <= k
    <3> HIDE DEF Odd
    <3> QED BY <2>1, SmallestExists
  <2>3. j \in 0 .. N /\ j \in Nat /\ i < j /\ date[j] <= MaxDay /\ ~ (date[i] < date[j]) /\ i \in Nat
    BY <2>2
  <2>4. j - 1 \in 0 .. N /\ ~ (j <= j - 1) /\ date[j] = R!Step(r, date[j - 1]) /\ (j - 1 = i \/ i < j - 1)
    BY <1>4, <2>3
  <2>5. date[j - 1] \in Nat /\ date[j] \in Nat /\ date[i] \in Nat
    BY <1>5, <2>3, <2>4
  <2>6. date[j - 1] <= MaxDay /\ date[j - 1] < date[j]
    BY <1>1, <2>3, <2>4, <2>5, StepIs
  <2>7. j - 1 # i => date[i] < date[j - 1]
    BY <2>2, <2>4, <2>6
  <2> QED BY <2>3, <2>5, <2>6, <2>7
<1> QED BY <1>5, <1>6 DEF N, date

(* Days by their numbers, none of them twice.                              *)
Numbered(f) ==
  /\ DOMAIN f \in SUBSET Nat /\ f \in [DOMAIN f -> Nat]
  /\ \A m, n \in DOMAIN f : m # n => f[m] # f[n]

LEMMA DatesAre ==
  ASSUME NEW r \in Rules, NEW base \in Nat, NEW cutoff \in Nat, cutoff <= MaxDay
  PROVE  Numbered(R!Dates(r, base, cutoff))
<1> DEFINE date  == R!Occurrences(r, base)
           limit == IF r.end = None \/ r.end > cutoff THEN cutoff ELSE r.end
           D     == {m \in 1 .. 2 * Lookahead : date[m] <= limit}
           f     == [n \in D |-> date[n]]
<1>1. limit \in Nat /\ limit <= MaxDay /\ MaxDay \in Nat /\ Lookahead \in Nat
  BY CalendarAssumption
<1>2. /\ \A n \in 0 .. 2 * Lookahead : date[n] \in Nat
      /\ \A i, j \in 0 .. 2 * Lookahead : i < j /\ date[j] <= MaxDay => date[i] < date[j]
  BY OccurrencesAre
<1>3. R!Dates(r, base, cutoff) = f
  BY DEF R!Dates
<1> HIDE DEF date, limit
<1>4. \A n \in D : n \in Nat /\ n \in 0 .. 2 * Lookahead /\ date[n] \in Nat /\ date[n] <= MaxDay
  BY <1>1, <1>2
<1>5. \A m, n \in D : m < n => date[m] < date[n]
  BY <1>2, <1>4
<1> HIDE DEF D
<1>6. \A m, n \in D : m # n => date[m] # date[n]
  <2> SUFFICES ASSUME NEW m \in D, NEW n \in D, m # n PROVE date[m] # date[n]
    OBVIOUS
  <2>1. m < n \/ n < m
    BY <1>4
  <2> QED BY <1>4, <1>5, <2>1
<1>7. DOMAIN f \in SUBSET Nat /\ f \in [DOMAIN f -> Nat] /\ \A m, n \in DOMAIN f : m # n => f[m] # f[n]
  BY <1>4, <1>6
<1> QED BY <1>3, <1>7 DEF Numbered
-----------------------------------------------------------------------------
CloneRow == [of : Nat, day : Nat, live : BOOLEAN, alike : BOOLEAN, accounts : SUBSET Account, media : BOOLEAN]

RunState(s) ==
  /\ s.at \in {"idle", "post", "accounts", "media"}
  /\ s # R!Idle => s.at # "idle" /\ Numbered(s.left)

(* The occurrences a run has yet to make a post of.                        *)
Coming(s) == IF s.at = "post" THEN DOMAIN s.left ELSE DOMAIN s.left \ {R!First(s.left)}

Types ==
  /\ rule \in Rules /\ day \in Nat /\ accounts \in SUBSET Account
  /\ today \in Nat /\ today + Lookahead <= MaxDay
  /\ clone \in Seq(CloneRow)
  /\ run = [w \in Runner |-> run[w]] /\ \A w \in Runner : RunState(run[w])

Alone == \A v, w \in Runner : run[v] # R!Idle /\ run[w] # R!Idle => v = w

(* While nobody interferes a clone is found again by caption and day, and  *)
(* the run under way has no day left that has been made.                   *)
Found == \A k \in 1 .. Len(clone) : clone[k].live /\ clone[k].alike /\ clone[k].day = clone[k].of
Once  == \A j, k \in 1 .. Len(clone) : j # k => clone[j].of # clone[k].of
Ahead == \A w \in Runner : run[w] # R!Idle =>
           \A k \in 1 .. Len(clone), n \in Coming(run[w]) : clone[k].of # run[w].left[n]

RecurrenceInv == Types /\ (~disturbed => Alone /\ Found /\ Once /\ Ahead)

(* The accounts of a post are all at its time.                             *)
Level == \A a \in Account : Offset[a] = 0

LEMMA FirstIs ==
  ASSUME NEW f, Numbered(f), DOMAIN f # {}
  PROVE  R!First(f) \in DOMAIN f
<1>1. \E n \in DOMAIN f : \A m \in DOMAIN f : n <= m
  BY SmallestExists DEF Numbered
<1> QED BY <1>1 DEF R!First

LEMMA FewerAreNumbered ==
  ASSUME NEW f, Numbered(f), NEW D \in SUBSET DOMAIN f
  PROVE  Numbered([n \in D |-> f[n]])
BY DEF Numbered

(* A run goes on to s, and no clone changes.                               *)
LEMMA RunGoes ==
  ASSUME RecurrenceInv, NEW w \in Runner, NEW s, R!Goes(w, s), RunState(s), R!Kept, clone' = clone,
         disturbed' \in BOOLEAN, disturbed => disturbed',
         ~disturbed' => /\ s # R!Idle => \A v \in Runner : v # w => run[v] = R!Idle
                        /\ s # R!Idle => \A k \in 1 .. Len(clone), n \in Coming(s) : clone[k].of # s.left[n]
  PROVE  RecurrenceInv'
<1>1. run' = [run EXCEPT ![w] = s] /\ UNCHANGED << rule, day, accounts, today, clone >>
  BY DEF R!Goes, R!Kept
<1>2. run' = [v \in Runner |-> run'[v]] /\ \A v \in Runner : run'[v] = IF v = w THEN s ELSE run[v]
  BY <1>1 DEF RecurrenceInv, Types
<1>3. Types'
  BY <1>1, <1>2 DEF RecurrenceInv, Types
<1>4. ASSUME ~disturbed' PROVE (Alone /\ Found /\ Once /\ Ahead)'
  <2>1. Alone /\ Found /\ Once /\ Ahead
    BY <1>4 DEF RecurrenceInv
  <2>2. Alone'
    BY <1>2, <1>4, <2>1 DEF Alone
  <2>3. Found' /\ Once'
    BY <1>1, <2>1 DEF Found, Once
  <2>4. Ahead'
    BY <1>1, <1>2, <1>4, <2>1 DEF Ahead
  <2> QED BY <2>2, <2>3, <2>4
<1> QED BY <1>3, <1>4 DEF RecurrenceInv

LEMMA RecurrenceInit == R!Init => RecurrenceInv
<1> SUFFICES ASSUME R!Init PROVE RecurrenceInv
  OBVIOUS
<1>1. RunState(R!Idle)
  BY DEF RunState, R!Idle
<1>2. Types
  BY <1>1, CalendarAssumption DEF R!Init, Types
<1> QED BY <1>2 DEF R!Init, RecurrenceInv, Alone, Found, Once, Ahead

LEMMA BeginStep ==
  ASSUME RecurrenceInv, NEW w \in Runner, R!Begin(w)
  PROVE  RecurrenceInv'
<1> DEFINE date == R!Dates(rule, day, today + Lookahead)
           days == {date[n] : n \in DOMAIN date}
           new  == {n \in DOMAIN date : date[n] \notin R!Existing(days) /\ date[n] > today}
           left == [n \in new |-> date[n]]
           s    == [at |-> "post", left |-> left]
<1>1. /\ R!Goes(w, s) /\ disturbed' = (disturbed \/ \E v \in Runner : run[v] # R!Idle)
      /\ R!Kept /\ clone' = clone
  BY DEF R!Begin
<1>2. Numbered(date)
  <2>1. today + Lookahead \in Nat
    BY CalendarAssumption DEF RecurrenceInv, Types
  <2> QED BY <2>1, DatesAre DEF RecurrenceInv, Types
<1> HIDE DEF date
<1>3. Numbered(left)
  BY <1>2, FewerAreNumbered
<1>4. DOMAIN left = new /\ \A n \in new : left[n] = date[n] /\ date[n] \in days /\ date[n] \notin R!Existing(days)
  OBVIOUS
<1> HIDE DEF left
<1>5. RunState(s)
  BY <1>3 DEF RunState
<1>6. s # R!Idle /\ s.left = left /\ Coming(s) = DOMAIN left
  BY DEF R!Idle, Coming
<1>7. ASSUME ~disturbed, NEW k \in 1 .. Len(clone), NEW n \in Coming(s) PROVE clone[k].of # s.left[n]
  <2>1. clone[k].live /\ clone[k].alike /\ clone[k].day = clone[k].of
    BY <1>7 DEF RecurrenceInv, Found
  <2>2. s.left[n] \in days /\ s.left[n] \notin R!Existing(days)
    BY <1>4, <1>6, <1>7
  <2> HIDE DEF days, s
  <2>3. s.left[n] # clone[k].day
    BY <2>1, <2>2 DEF R!Existing, R!Live
  <2> QED BY <2>1, <2>3
<1> HIDE DEF s
<1>8. disturbed' \in BOOLEAN /\ (disturbed => disturbed')
  BY <1>1
<1>9. ~disturbed' => ~disturbed /\ \A v \in Runner : run[v] = R!Idle
  BY <1>1
<1> QED BY <1>1, <1>5, <1>7, <1>8, <1>9, RunGoes

(* The clones change, and the run of w goes on to s.                       *)
LEMMA ClonesChange ==
  ASSUME RecurrenceInv, NEW w \in Runner, run[w] # R!Idle, NEW s, R!Goes(w, s), RunState(s), s # R!Idle,
         R!Kept, UNCHANGED disturbed, clone' \in Seq(CloneRow),
         ~disturbed => Found' /\ Once' /\ \A k \in 1 .. Len(clone'), n \in Coming(s) : clone'[k].of # s.left[n]
  PROVE  RecurrenceInv'
<1>1. run' = [run EXCEPT ![w] = s] /\ UNCHANGED << rule, day, accounts, today >>
  BY DEF R!Goes, R!Kept
<1>2. run' = [v \in Runner |-> run'[v]] /\ \A v \in Runner : run'[v] = IF v = w THEN s ELSE run[v]
  BY <1>1 DEF RecurrenceInv, Types
<1>3. Types'
  BY <1>1, <1>2 DEF RecurrenceInv, Types
<1>4. ASSUME ~disturbed' PROVE (Alone /\ Found /\ Once /\ Ahead)'
  <2>1. ~disturbed /\ Alone
    BY <1>4 DEF RecurrenceInv
  <2>2. Alone' /\ \A v \in Runner : run'[v] # R!Idle => v = w
    BY <1>2, <2>1 DEF Alone
  <2>3. Ahead'
    BY <1>2, <2>1, <2>2 DEF Ahead
  <2> QED BY <2>1, <2>2, <2>3
<1> QED BY <1>3, <1>4 DEF RecurrenceInv

LEMMA MakePostStep ==
  ASSUME RecurrenceInv, NEW w \in Runner, R!MakePost(w)
  PROVE  RecurrenceInv'
<1> DEFINE left == run[w].left
           f    == R!First(left)
           row  == R!Made(left[f])
           s    == [at |-> "accounts", left |-> left, post |-> Len(clone) + 1]
<1>1. /\ run[w].at = "post" /\ DOMAIN left # {} /\ R!Kept /\ UNCHANGED disturbed
      /\ clone' = Append(clone, row) /\ R!Goes(w, s)
  BY DEF R!MakePost
<1>2. run[w] # R!Idle /\ Numbered(left) /\ Coming(run[w]) = DOMAIN left
  BY <1>1 DEF RecurrenceInv, Types, RunState, R!Idle, Coming
<1> HIDE DEF left
<1>3. f \in DOMAIN left /\ left[f] \in Nat
  <2>1. f \in DOMAIN left
    BY <1>1, <1>2, FirstIs
  <2> HIDE DEF f
  <2> QED BY <1>2, <2>1 DEF Numbered
<1> HIDE DEF f
<1>4. /\ row \in CloneRow /\ row.of = left[f] /\ row.day = row.of /\ row.live /\ row.alike
  BY <1>3 DEF R!Made, CloneRow
<1>5. RunState(s) /\ s # R!Idle /\ s.left = left /\ Coming(s) = DOMAIN left \ {f}
  BY <1>2 DEF RunState, R!Idle, Coming, f
<1> HIDE DEF row, s
<1>6. clone \in Seq(CloneRow) /\ Len(clone) \in Nat
  BY DEF RecurrenceInv, Types
<1>7. /\ clone' \in Seq(CloneRow) /\ Len(clone') = Len(clone) + 1
      /\ \A k \in 1 .. Len(clone') : clone'[k] = IF k = Len(clone) + 1 THEN row ELSE clone[k]
      /\ \A k \in 1 .. Len(clone') : k # Len(clone) + 1 => k \in 1 .. Len(clone)
  BY <1>1, <1>4, <1>6
<1>8. ASSUME ~disturbed
      PROVE  Found' /\ Once' /\ \A k \in 1 .. Len(clone'), n \in Coming(s) : clone'[k].of # s.left[n]
  <2>1. Found /\ Once /\ \A k \in 1 .. Len(clone), n \in DOMAIN left : clone[k].of # left[n]
    BY <1>2, <1>8 DEF RecurrenceInv, Ahead, left
  <2>2. Found'
    BY <1>4, <1>7, <2>1 DEF Found
  <2>3. Once'
    BY <1>3, <1>4, <1>7, <2>1 DEF Once
  <2>4. ASSUME NEW k \in 1 .. Len(clone'), NEW n \in Coming(s) PROVE clone'[k].of # s.left[n]
    <3>1. n \in DOMAIN left /\ n # f /\ s.left[n] = left[n]
      BY <1>5, <2>4
    <3>2. left[n] # left[f]
      BY <1>2, <1>3, <3>1 DEF Numbered
    <3> QED BY <1>4, <1>7, <2>1, <3>1, <3>2
  <2> QED BY <2>2, <2>3, <2>4
<1> QED BY <1>1, <1>2, <1>5, <1>7, <1>8, ClonesChange

(* The rest of a post is made; it stays on its day.                        *)
LEMMA PostGoesOn ==
  ASSUME Level, RecurrenceInv, NEW w \in Runner, R!AddAccounts(w) \/ R!AddMedia(w)
  PROVE  RecurrenceInv'
<1> DEFINE left == run[w].left
           p    == run[w].post
<1>1. run[w].at \in {"accounts", "media"} /\ R!Kept /\ UNCHANGED disturbed
  BY DEF R!AddAccounts, R!AddMedia
<1>2. run[w] # R!Idle /\ Numbered(left) /\ Coming(run[w]) = DOMAIN left \ {R!First(left)} /\ RunState(run[w])
  BY <1>1 DEF RecurrenceInv, Types, RunState, R!Idle, Coming
<1>3. clone \in Seq(CloneRow) /\ Len(clone) \in Nat /\ \A k \in 1 .. Len(clone) : clone[k] \in CloneRow
  BY DEF RecurrenceInv, Types
<1>4. PICK s : /\ R!Goes(w, s) /\ RunState(s) /\ s # R!Idle
               /\ Coming(s) = Coming(run[w]) /\ \A n \in Coming(s) : s.left[n] = left[n]
  <2>1. CASE R!AddAccounts(w)
    <3> DEFINE s == [run[w] EXCEPT !.at = "media"]
    <3>1. R!Goes(w, s)
      BY <2>1 DEF R!AddAccounts
    <3>2. s.at = "media" /\ s.left = left
      BY <1>2 DEF RunState
    <3> HIDE DEF s
    <3>3. RunState(s) /\ s # R!Idle /\ Coming(s) = Coming(run[w])
      BY <1>2, <3>2 DEF RunState, R!Idle, Coming
    <3> QED BY <3>1, <3>2, <3>3
  <2>2. CASE R!AddMedia(w)
    <3> DEFINE D == DOMAIN left \ {R!First(left)}
               s == [at |-> "post", left |-> [n \in D |-> left[n]]]
    <3>1. R!Goes(w, s)
      BY <2>2 DEF R!AddMedia
    <3>2. Numbered([n \in D |-> left[n]])
      BY <1>2, FewerAreNumbered
    <3>3. RunState(s) /\ s # R!Idle
      BY <3>2 DEF RunState, R!Idle
    <3>4. Coming(s) = D /\ \A n \in D : s.left[n] = left[n]
      BY DEF Coming
    <3> QED BY <1>2, <3>1, <3>3, <3>4
  <2> QED BY <2>1, <2>2
<1>5. /\ clone' \in Seq(CloneRow) /\ Len(clone') = Len(clone)
      /\ \A k \in 1 .. Len(clone) :
           /\ clone'[k].of = clone[k].of /\ clone'[k].live = clone[k].live /\ clone'[k].alike = clone[k].alike
           /\ clone'[k].day \in {clone[k].day, clone[k].of}
  <2>1. CASE R!AddAccounts(w)
    <3> DEFINE d  == IF accounts = {} THEN clone[p].day ELSE clone[p].of + R!Earliest(accounts)
               row == [clone[p] EXCEPT !.accounts = accounts, !.day = d]
    <3>1. clone' = [clone EXCEPT ![p] = row]
      BY <2>1 DEF R!AddAccounts
    <3>2. accounts # {} => R!Earliest(accounts) = 0
      BY DEF R!Earliest, Level, RecurrenceInv, Types
    <3>3. ASSUME p \in 1 .. Len(clone) PROVE d \in {clone[p].day, clone[p].of}
      <4>1. clone[p].of \in Nat
        BY <1>3, <3>3 DEF CloneRow
      <4> QED BY <3>2, <4>1
    <3> HIDE DEF d
    <3>4. ASSUME p \in 1 .. Len(clone)
          PROVE  /\ row \in CloneRow /\ row.of = clone[p].of /\ row.live = clone[p].live
                 /\ row.alike = clone[p].alike /\ row.day = d
      BY <1>3, <3>3, <3>4 DEF CloneRow, RecurrenceInv, Types
    <3> HIDE DEF row, p
    <3>5. CASE p \in 1 .. Len(clone)
      <4>1. clone' \in Seq(CloneRow) /\ Len(clone') = Len(clone)
        BY <1>3, <3>1, <3>4, <3>5
      <4>2. \A k \in 1 .. Len(clone) : clone'[k] = IF k = p THEN row ELSE clone[k]
        BY <1>3, <3>1
      <4> QED BY <3>3, <3>4, <3>5, <4>1, <4>2
    <3>6. CASE p \notin 1 .. Len(clone)
      <4>1. clone' = clone
        BY <1>3, <3>1, <3>6
      <4> QED BY <1>3, <4>1
    <3> QED BY <3>5, <3>6
  <2>2. CASE R!AddMedia(w)
    <3> DEFINE row == [clone[p] EXCEPT !.media = TRUE]
    <3>1. clone' = [clone EXCEPT ![p] = row]
      BY <2>2 DEF R!AddMedia
    <3>2. ASSUME p \in 1 .. Len(clone)
          PROVE  /\ row \in CloneRow /\ row.of = clone[p].of /\ row.live = clone[p].live
                 /\ row.alike = clone[p].alike /\ row.day = clone[p].day
      BY <1>3, <3>2 DEF CloneRow
    <3> HIDE DEF row, p
    <3>3. CASE p \in 1 .. Len(clone)
      <4>1. clone' \in Seq(CloneRow) /\ Len(clone') = Len(clone)
        BY <1>3, <3>1, <3>2, <3>3
      <4>2. \A k \in 1 .. Len(clone) : clone'[k] = IF k = p THEN row ELSE clone[k]
        BY <1>3, <3>1
      <4> QED BY <3>2, <3>3, <4>1, <4>2
    <3>4. CASE p \notin 1 .. Len(clone)
      <4>1. clone' = clone
        BY <1>3, <3>1, <3>4
      <4> QED BY <1>3, <4>1
    <3> QED BY <3>3, <3>4
  <2> QED BY <2>1, <2>2
<1>6. ASSUME ~disturbed
      PROVE  Found' /\ Once' /\ \A k \in 1 .. Len(clone'), n \in Coming(s) : clone'[k].of # s.left[n]
  <2>1. Found /\ Once /\ \A k \in 1 .. Len(clone), n \in Coming(run[w]) : clone[k].of # left[n]
    BY <1>2, <1>6 DEF RecurrenceInv, Ahead
  <2>2. Found'
    BY <1>5, <2>1 DEF Found
  <2>3. Once'
    BY <1>5, <2>1 DEF Once
  <2> QED BY <1>4, <1>5, <2>1, <2>2, <2>3
<1> QED BY <1>1, <1>2, <1>4, <1>5, <1>6, ClonesChange

(* Whoever changes a post disturbs; taking an account off does not.        *)
LEMMA EditSteps ==
  ASSUME RecurrenceInv,
         \/ \E a \in accounts : R!RemoveAccount(a)
         \/ \E k \in R!Live : R!EditClone(k)
         \/ R!EditSource \/ R!NextDay
  PROVE  RecurrenceInv'
<1>1. clone \in Seq(CloneRow) /\ Len(clone) \in Nat /\ DOMAIN clone = 1 .. Len(clone)
      /\ \A k \in 1 .. Len(clone) : clone[k] \in CloneRow
  BY DEF RecurrenceInv, Types
<1>2. CASE (\E a \in accounts : R!RemoveAccount(a)) \/ R!NextDay
  <2>1. /\ UNCHANGED << rule, day, clone, run, disturbed >>
        /\ accounts' \in SUBSET accounts /\ today' \in Nat /\ today' + Lookahead <= MaxDay
    <3>1. CASE \E a \in accounts : R!RemoveAccount(a)
      BY <3>1 DEF R!RemoveAccount, R!Edits, RecurrenceInv, Types
    <3>2. CASE R!NextDay
      BY <3>2, CalendarAssumption DEF R!NextDay, RecurrenceInv, Types
    <3> QED BY <1>2, <3>1, <3>2
  <2> QED BY <2>1 DEF RecurrenceInv, Types, Alone, Found, Once, Ahead
<1>3. CASE (\E k \in R!Live : R!EditClone(k)) \/ R!EditSource
  <2>1. UNCHANGED << rule, run, accounts, today >> /\ disturbed' = TRUE
    BY <1>3 DEF R!EditClone, R!EditSource, R!Edits
  <2>2. day' \in Nat
    BY <1>3, CalendarAssumption DEF R!EditClone, R!EditSource, R!Edits, RecurrenceInv, Types
  <2>3. clone' \in Seq(CloneRow)
    <3>1. ASSUME NEW k \in 1 .. Len(clone)
          PROVE  /\ \A d \in Nat : [clone[k] EXCEPT !.day = d] \in CloneRow
                 /\ [clone[k] EXCEPT !.alike = FALSE] \in CloneRow
                 /\ [clone[k] EXCEPT !.live = FALSE] \in CloneRow
      BY <1>1 DEF CloneRow
    <3>2. CASE \E k \in R!Live : R!EditClone(k)
      <4>1. PICK k \in 1 .. Len(clone) : R!EditClone(k)
        BY <3>2 DEF R!Live
      <4>2. PICK row \in CloneRow : clone' = [clone EXCEPT ![k] = row]
        <5>1. \A d \in today + 1 .. MaxDay : d \in Nat
          BY CalendarAssumption DEF RecurrenceInv, Types
        <5> QED BY <3>1, <4>1, <5>1 DEF R!EditClone
      <4> QED BY <1>1, <4>2
    <3>3. CASE R!EditSource
      <4>1. CASE clone' = clone
        BY <1>1, <4>1
      <4>2. CASE clone' = [k \in DOMAIN clone |-> [clone[k] EXCEPT !.alike = FALSE]]
        <5>1. clone' = [k \in 1 .. Len(clone) |-> [clone[k] EXCEPT !.alike = FALSE]]
          BY <1>1, <4>2
        <5>2. \A k \in 1 .. Len(clone) : [clone[k] EXCEPT !.alike = FALSE] \in CloneRow
          BY <3>1
        <5> QED BY <1>1, <5>1, <5>2
      <4> QED BY <3>3, <4>1, <4>2 DEF R!EditSource
    <3> QED BY <1>3, <3>2, <3>3
  <2> QED BY <2>1, <2>2, <2>3 DEF RecurrenceInv, Types
<1> QED BY <1>2, <1>3

LEMMA RecurrenceStep ==
  ASSUME Level, RecurrenceInv, [R!Next]_R!vars
  PROVE  RecurrenceInv'
<1>1. ASSUME NEW w \in Runner, R!End(w) \/ R!Die(w) PROVE RecurrenceInv'
  <2>1. R!Goes(w, R!Idle) /\ R!Kept /\ clone' = clone /\ disturbed' = disturbed
    BY <1>1 DEF R!End, R!Die
  <2>2. RunState(R!Idle)
    BY DEF RunState, R!Idle
  <2>3. run' = [run EXCEPT ![w] = R!Idle] /\ UNCHANGED << rule, day, accounts, today, clone >>
    BY <2>1 DEF R!Goes, R!Kept
  <2>4. /\ run' = [v \in Runner |-> run'[v]]
        /\ \A v \in Runner : run'[v] = IF v = w THEN R!Idle ELSE run[v]
    BY <2>3 DEF RecurrenceInv, Types
  <2>5. Types'
    BY <2>2, <2>3, <2>4 DEF RecurrenceInv, Types
  <2> QED BY <2>1, <2>3, <2>4, <2>5 DEF RecurrenceInv, Alone, Found, Once, Ahead
<1>2. CASE UNCHANGED R!vars
  BY <1>2 DEF R!vars, RecurrenceInv, Types, Alone, Found, Once, Ahead
<1> QED BY <1>1, <1>2, BeginStep, MakePostStep, PostGoesOn, EditSteps DEF R!Next

(* No day of a rule is generated twice, whatever runs died half-way, while *)
(* runs do not overlap, nobody changes a clone or moves the source, and    *)
(* the accounts of the post are all at its time.                           *)
THEOREM DaysMadeOnce == ASSUME Level PROVE R!Spec => []OncePerDate
<1>1. RecurrenceInv => OncePerDate
  BY DEF RecurrenceInv, Once, OncePerDate, R!OncePerDate
<1>2. RecurrenceInv /\ [R!Next]_R!vars => RecurrenceInv'
  BY Level, RecurrenceStep
<1> QED BY <1>1, <1>2, RecurrenceInit, PTL DEF R!Spec
=============================================================================
