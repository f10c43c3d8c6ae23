---------------------------- MODULE Studio_proofs ----------------------------
(***************************************************************************)
(* Theorems about the parts of Studio, each for itself: comments, new      *)
(* posts, media library, import, ideas and news feeds, for any constants   *)
(* and any number of requests at a time.                                   *)
(***************************************************************************)
EXTENDS Studio, FiniteSetTheorems, SequenceTheorems, TLAPS

-----------------------------------------------------------------------------
(***************************************************************************)
(* Comments                                                                *)
(***************************************************************************)
CommentWork == {T!Idle} \cup [at : {"adding", "editing"}, comment : Comment, row : CommentRow]
                 \cup [at : {"deleting"}, comment : Comment]

(* A comment that is being added has no row yet, and one request adds it.  *)
CommentInv ==
  /\ comment \in [Comment -> CommentRow \cup {Unmade, Deleted}]
  /\ work \in [Handler -> CommentWork]
  /\ role \in [User -> T!Roles \cup {None}]
  /\ \A r \in Handler : work[r].at = "adding" => comment[work[r].comment] \in {Unmade, Deleted}
  /\ \A r \in Handler : work[r].at \in {"editing", "deleting"} => comment[work[r].comment] # Unmade
  /\ \A q, r \in Handler :
       work[q].at = "adding" /\ work[r].at = "adding" /\ work[q].comment = work[r].comment => q = r

(* What a step does to the rows: one that is there keeps its parent, and   *)
(* is deleted when it was.                                                 *)
CommentMoves ==
  \A c \in Comment : comment[c] \in CommentRow =>
    \/ comment'[c] = Deleted
    \/ /\ comment'[c] \in CommentRow /\ comment'[c].parent = comment[c].parent
       /\ comment[c].deleted => comment'[c].deleted

(* Every step keeps the invariant and moves the rows like that.            *)
LEMMA CommentStep ==
  ASSUME CommentKinds, CommentInv, [T!Next]_(T!vars)
  PROVE  CommentInv' /\ CommentMoves
<1>0. /\ comment \in [Comment -> CommentRow \cup {Unmade, Deleted}]
      /\ work \in [Handler -> CommentWork]
      /\ role \in [User -> T!Roles \cup {None}]
  BY DEF CommentInv
<1>1. CASE UNCHANGED T!vars
  BY <1>1 DEF T!vars, CommentInv, CommentMoves
<1>2. ASSUME NEW r \in Handler, NEW u \in User, NEW c \in Comment,
             NEW parent \in Comment \cup {None}, NEW shown \in {"internal", "external"},
             T!BeginAdd(r, u, c, parent, shown)
      PROVE  CommentInv' /\ CommentMoves
  <2> DEFINE row == [author |-> u, parent |-> IF parent \in T!Live THEN parent ELSE None,
                     text |-> 1, shown |-> shown, deleted |-> FALSE]
             w == [at |-> "adding", comment |-> c, row |-> row]
  <2>1. /\ comment[c] = Unmade /\ \A q \in Handler : work[q].at = "adding" => work[q].comment # c
        /\ work' = [work EXCEPT ![r] = w] /\ UNCHANGED << comment, role, changes >>
    BY <1>2 DEF T!BeginAdd, T!Goes
  <2>2. w \in CommentWork /\ w.at = "adding" /\ w.comment = c
    BY DEF CommentRow, CommentWork
  <2> HIDE DEF w
  <2> QED BY <1>0, <2>1, <2>2 DEF CommentInv, CommentMoves
<1>3. ASSUME NEW r \in Handler, NEW u \in User, NEW c \in Comment, T!BeginEdit(r, u, c) \/ T!BeginDelete(r, u, c)
      PROVE  CommentInv' /\ CommentMoves
  <2>1. PICK w \in CommentWork : /\ w.at \in {"editing", "deleting"} /\ comment[w.comment] # Unmade
                                 /\ work' = [work EXCEPT ![r] = w]
                                 /\ UNCHANGED << comment, role, changes >>
    <3>1. comment[c] \in CommentRow
      BY <1>0, <1>3 DEF T!BeginEdit, T!BeginDelete, T!Live, T!Rows
    <3>2. CASE T!BeginEdit(r, u, c)
      <4> DEFINE w == [at |-> "editing", comment |-> c, row |-> comment[c]]
      <4>1. w \in CommentWork /\ w.at = "editing" /\ comment[w.comment] # Unmade
        BY <3>1 DEF CommentWork, CommentKinds
      <4>2. work' = [work EXCEPT ![r] = w] /\ UNCHANGED << comment, role, changes >>
        BY <3>2 DEF T!BeginEdit, T!Goes
      <4> QED BY <4>1, <4>2
    <3>3. CASE T!BeginDelete(r, u, c)
      <4> DEFINE w == [at |-> "deleting", comment |-> c]
      <4>1. w \in CommentWork /\ w.at = "deleting" /\ comment[w.comment] # Unmade
        BY <3>1 DEF CommentWork, CommentKinds
      <4>2. work' = [work EXCEPT ![r] = w] /\ UNCHANGED << comment, role, changes >>
        BY <3>3 DEF T!BeginDelete, T!Goes
      <4> QED BY <4>1, <4>2
    <3> QED BY <1>3, <3>2, <3>3
  <2> QED BY <1>0, <2>1 DEF CommentInv, CommentMoves
<1>4. ASSUME NEW r \in Handler, T!Add(r)
      PROVE  CommentInv' /\ CommentMoves
  <2> DEFINE c == work[r].comment
  <2>1. /\ work[r].at = "adding" /\ work' = [work EXCEPT ![r] = T!Idle] /\ UNCHANGED << role, changes >>
        /\ comment' = IF comment[c] = Deleted THEN comment ELSE [comment EXCEPT ![c] = work[r].row]
    BY <1>4 DEF T!Add, T!Goes
  <2>2. c \in Comment /\ work[r].row \in CommentRow /\ comment[c] \in {Unmade, Deleted}
    BY <1>0, <2>1 DEF CommentInv, CommentWork, T!Idle
  <2>3. T!Idle \in CommentWork /\ T!Idle.at = "idle"
    BY DEF CommentWork, T!Idle
  <2>4. \A q \in Handler : work'[q].at = "adding" => work[q].at = "adding" /\ work'[q] = work[q] /\ work[q].comment # c
    BY <1>0, <2>1, <2>3 DEF CommentInv
  <2> HIDE DEF c
  <2> QED BY <1>0, <2>1, <2>2, <2>3, <2>4 DEF CommentInv, CommentMoves, CommentKinds
<1>5. ASSUME NEW r \in Handler, T!Delete(r) \/ T!Die(r) \/ \E text \in 1 .. MaxText : T!Edit(r, text)
      PROVE  CommentInv' /\ CommentMoves
  <2>1. work' = [work EXCEPT ![r] = T!Idle] /\ UNCHANGED << role, changes >>
    BY <1>5 DEF T!Delete, T!Die, T!Edit, T!Goes
  <2>2. CASE comment' = comment
    BY <1>0, <2>1, <2>2 DEF CommentInv, CommentWork, CommentMoves, T!Idle
  <2>3. CASE comment' # comment
    <3> DEFINE c == work[r].comment
    <3>1. c \in Comment /\ comment[c] \in CommentRow
      <4>1. work[r].at \in {"editing", "deleting"} /\ comment[c] # Deleted
        BY <1>5, <2>3 DEF T!Delete, T!Die, T!Edit
      <4>2. c \in Comment
        BY <1>0, <4>1 DEF CommentWork, T!Idle
      <4> QED BY <1>0, <4>1, <4>2 DEF CommentInv
    <3>2. PICK x : /\ comment' = [comment EXCEPT ![c] = x] /\ x \in CommentRow
                   /\ x.parent = comment[c].parent /\ (comment[c].deleted => x.deleted)
      <4>1. CASE T!Delete(r)
        <5> DEFINE x == [comment[c] EXCEPT !.deleted = TRUE]
        <5>1. x \in CommentRow /\ x.parent = comment[c].parent /\ x.deleted
          BY <3>1 DEF CommentRow
        <5>2. comment' = [comment EXCEPT ![c] = x]
          BY <4>1, <2>3 DEF T!Delete
        <5> QED BY <5>1, <5>2
      <4>2. ASSUME NEW text \in 1 .. MaxText, T!Edit(r, text)
            PROVE  \E x : /\ comment' = [comment EXCEPT ![c] = x] /\ x \in CommentRow
                          /\ x.parent = comment[c].parent /\ (comment[c].deleted => x.deleted)
        <5> DEFINE x == [comment[c] EXCEPT !.text = text]
        <5>1. x \in CommentRow /\ x.parent = comment[c].parent /\ x.deleted = comment[c].deleted
          BY <3>1 DEF CommentRow
        <5>2. comment' = [comment EXCEPT ![c] = x]
          BY <4>2, <2>3 DEF T!Edit, T!Rewritten
        <5> QED BY <5>1, <5>2
      <4> QED BY <1>5, <2>3, <4>1, <4>2 DEF T!Die
    <3> HIDE DEF c
    <3>3. CommentMoves /\ comment' \in [Comment -> CommentRow \cup {Unmade, Deleted}]
      BY <1>0, <3>1, <3>2 DEF CommentMoves
    <3>4. \A d \in Comment : (comment[d] \in {Unmade, Deleted} => comment'[d] = comment[d])
                             /\ (comment[d] # Unmade => comment'[d] # Unmade)
      BY <1>0, <3>1, <3>2 DEF CommentKinds
    <3>5. \A q \in Handler : work[q].at \in {"adding", "editing", "deleting"} => work[q].comment \in Comment
      BY <1>0 DEF CommentWork, T!Idle
    <3> QED BY <1>0, <2>1, <3>3, <3>4, <3>5 DEF CommentInv, CommentWork, T!Idle
  <2> QED BY <2>2, <2>3
<1>6. ASSUME NEW u \in User, NEW x \in T!Roles \cup {None}, T!SetRole(u, x)
      PROVE  CommentInv' /\ CommentMoves
  BY <1>0, <1>6 DEF T!SetRole, CommentInv, CommentMoves
<1>7. CASE T!DeletePost
  <2>1. comment' = [c \in Comment |-> Deleted] /\ UNCHANGED << role, work, changes >>
    BY <1>7 DEF T!DeletePost
  <2>2. \A q \in Handler : work[q].at \in {"adding", "editing", "deleting"} => work[q].comment \in Comment
    BY <1>0 DEF CommentWork, T!Idle
  <2> QED BY <1>0, <2>1, <2>2 DEF CommentInv, CommentMoves, CommentKinds
<1> QED BY <1>1, <1>2, <1>3, <1>4, <1>5, <1>6, <1>7 DEF T!Next

(* No row and no request to begin with.                                    *)
LEMMA CommentAlways ==
  ASSUME CommentKinds
  PROVE  T!Spec => []CommentInv
<1>1. T!Init => CommentInv
  BY DEF T!Init, T!Idle, T!Roles, CommentInv, CommentWork
<1> QED BY <1>1, CommentStep, PTL DEF T!Spec

(***************************************************************************)
(* A deleted comment and the replies to it are shown to nobody again,      *)
(* whatever edits, replies and deletions were under way.                   *)
(***************************************************************************)
THEOREM DeletedAreGone == T!Spec => DeletedStaysAway
<1> USE StudioAssumption
<1> DEFINE A == \A u \in T!Members, c \in T!Rows \ T!Live :
                  {c} \cup {d \in T!Rows : comment[d].parent = c} \subseteq Comment \ T!Shown(u)'
<1>1. CommentInv /\ [T!Next]_(T!vars) => A
  <2> SUFFICES ASSUME CommentInv, [T!Next]_(T!vars),
                      NEW u \in T!Members, NEW c \in T!Rows \ T!Live,
                      NEW d \in T!Rows, d = c \/ comment[d].parent = c,
                      d \in T!Shown(u)'
               PROVE  FALSE
    BY DEF T!Rows
  <2>1. CommentInv' /\ CommentMoves
    BY CommentStep
  <2>2. /\ c \in Comment /\ comment[c] \in CommentRow /\ comment[c].deleted
        /\ d \in Comment /\ comment[d] \in CommentRow
    BY DEF CommentInv, T!Rows, T!Live
  <2>3. comment'[c] = Deleted \/ comment'[c].deleted
    BY <2>1, <2>2 DEF CommentMoves
  <2>4. c \notin T!Live'
    BY <2>3 DEF T!Live, T!Rows
  <2>5. d \in T!Live'
    BY DEF T!Shown, T!Threads
  <2>6. d # c /\ comment'[d].parent = c
    BY <2>1, <2>2, <2>4, <2>5 DEF CommentMoves, T!Live, T!Rows
  <2>7. c \in T!Live' \/ c = None
    BY <2>6 DEF T!Shown, T!Threads
  <2> QED BY <2>2, <2>4, <2>7 DEF CommentKinds
<1>2. CommentInv /\ [T!Next]_(T!vars) => [A]_(T!vars)
  BY <1>1
<1> QED BY <1>2, CommentAlways, PTL DEF DeletedStaysAway, T!Spec, T!DeletedStaysAway

-----------------------------------------------------------------------------
(***************************************************************************)
(* New posts                                                               *)
(***************************************************************************)
DraftJob == [at : {"begun", "saved", "autosaved"}, page : Tab, pending : SUBSET Medium, post : NewPost \cup {None}]

DraftTypes ==
  /\ pending \in SUBSET Medium
  /\ draftAsset \in [Medium -> {"own", "shared", Unmade, Deleted}]
  /\ draft \in [NewPost -> DraftRow \cup {Unmade, Deleted}]
  /\ known \in [Tab -> NewPost \cup {None}]
  /\ request \in [Handler -> DraftJob \cup {D!Idle}]
  /\ \A r \in Handler : request[r].at \in {"saved", "autosaved"} => request[r].post \in NewPost

(* What waits, or was read as waiting, is the workspace's own, or was      *)
(* deleted by the user.                                                    *)
OwnOrDropped(S) == \A a \in S : draftAsset[a] = "own" \/ a \in dropped
WaitingIsOwn ==
  /\ \A a \in Medium : draftAsset[a] # "shared"
  /\ OwnOrDropped(pending)
  /\ \A r \in Handler : request[r] # D!Idle => OwnOrDropped(request[r].pending)

(* A page whose requests never overlapped, died or lost its post has one   *)
(* request at a time, which knows what the page knows; and its post is the *)
(* one an autosave has just made, or the one the page knows.               *)
Serving(r, g) == request[r] # D!Idle /\ request[r].page = g
Saving(r, g)  == request[r].at = "autosaved" /\ request[r].page = g
Orderly(g) ==
  /\ \A q, r \in Handler : Serving(q, g) /\ Serving(r, g) => q = r
  /\ \A r \in Handler : request[r].at = "begun" /\ request[r].page = g => request[r].post = known[g]
  /\ \A r \in Handler : request[r].at = "saved" => request[r].page # g
  /\ \A p \in D!Posts : draft[p].page = g =>
       /\ \A r \in Handler : Saving(r, g) => request[r].post = p
       /\ (\A r \in Handler : ~ Saving(r, g)) => known[g] = p
PagesInOrder == \A g \in Tab \ twice : Orderly(g)

DraftInv == DraftTypes /\ PagesInOrder

(* What a request that has begun or has saved looks like.                  *)
LEMMA DraftJobs ==
  ASSUME DraftTypes, NEW r \in Handler, request[r].at \in {"begun", "saved", "autosaved"} \/ request[r] # D!Idle
  PROVE  /\ request[r] \in DraftJob /\ request[r] # D!Idle /\ request[r].page \in Tab
         /\ request[r].pending \in SUBSET Medium /\ request[r].post \in NewPost \cup {None}
BY DEF DraftTypes, DraftJob, D!Idle

(* A request that ends: the others are as they were.                       *)
LEMMA DraftEnds ==
  ASSUME DraftTypes, NEW r \in Handler, NEW L \in SUBSET Medium, D!Ends(r, L)
  PROVE  /\ pending' = L /\ request' \in [Handler -> DraftJob \cup {D!Idle}]
         /\ request'[r] = D!Idle /\ request'[r].at = "idle"
         /\ \A q \in Handler \ {r} : request'[q] = request[q]
         /\ lost' = lost \cup (pending \ (L \cup request[r].pending))
BY DEF D!Ends, DraftTypes, D!Idle

(* A row that is not unmade or deleted is a row.                           *)
LEMMA DraftPosts ==
  ASSUME DraftKinds, DraftTypes
  PROVE  /\ \A p \in NewPost : p \in D!Posts <=> draft[p] \in DraftRow
         /\ \A p \in D!Posts : p \in NewPost /\ draft[p].media \in SUBSET Medium /\ draft[p].page \in Tab
BY DEF DraftKinds, DraftTypes, DraftRow, D!Posts

(* How a request ends that has written rows: a row keeps its page, none is *)
(* added, and no medium becomes the organization's.                        *)
Finishes(r, L) ==
  /\ L \in SUBSET Medium /\ D!Ends(r, L)
  /\ draftAsset' \in [Medium -> {"own", "shared", Unmade, Deleted}]
  /\ \A a \in Medium : draftAsset'[a] = "shared" => draftAsset[a] = "shared"
  /\ draft' \in [NewPost -> DraftRow \cup {Unmade, Deleted}]
  /\ \A p \in NewPost : draft'[p] \in DraftRow => draft[p] \in DraftRow /\ draft'[p].page = draft[p].page
  /\ twice' = twice

(* And what becomes of the media it has read of, taken out, or written to  *)
(* the session.                                                            *)
Keeps(r, L) ==
  /\ dropped \subseteq dropped'
  /\ chosen' \subseteq chosen \cup L
  /\ \A a \in Medium : draftAsset[a] = "own" => draftAsset'[a] = "own" \/ a \in dropped'
  /\ \A a \in L : draftAsset'[a] = "own" \/ a \in dropped'
  /\ \A p \in NewPost : draft[p] \in DraftRow =>
       \A a \in draft[p].media : a \in dropped' \/ (draft'[p] \in DraftRow /\ a \in draft'[p].media)
  /\ \A a \in request[r].pending :
       a \in L \cup dropped' \/ \E p \in NewPost : draft'[p] \in DraftRow /\ a \in draft'[p].media

(* The media of one row written over.                                      *)
LEMMA MediaWritten ==
  ASSUME DraftKinds, DraftTypes, NEW p \in D!Posts, NEW S \in SUBSET Medium,
         draft' = [draft EXCEPT ![p].media = S]
  PROVE  /\ draft' \in [NewPost -> DraftRow \cup {Unmade, Deleted}]
         /\ \A q \in NewPost \ {p} : draft'[q] = draft[q]
         /\ draft[p] \in DraftRow /\ draft'[p] \in DraftRow
         /\ draft'[p].page = draft[p].page /\ draft'[p].media = S
<1>1. draft[p] \in DraftRow /\ p \in NewPost
  BY DraftPosts
<1> DEFINE x == [draft[p] EXCEPT !.media = S]
<1>2. x \in DraftRow /\ x.page = draft[p].page /\ x.media = S
  BY <1>1 DEF DraftRow
<1>3. draft' = [draft EXCEPT ![p] = x]
  OBVIOUS
<1> HIDE DEF x
<1> QED BY <1>1, <1>2, <1>3 DEF DraftTypes

(* The requests that choose a medium for a post without a row.             *)
LEMMA Chooses ==
  ASSUME DraftKinds, DraftTypes, NEW r \in Handler, NEW a \in Medium,
         D!UploadPending(r, a) \/ D!PickPending(r, a)
  PROVE  LET L == request[r].pending \cup {a}
         IN  Finishes(r, L) /\ known' = known /\ (WaitingIsOwn => Keeps(r, L))
<1> DEFINE L == request[r].pending \cup {a}
<1>1. request[r].pending \in SUBSET Medium /\ request[r] # D!Idle
  BY DraftJobs DEF D!UploadPending, D!PickPending, D!Choose, D!Working
<1>2. /\ D!Ends(r, L) /\ chosen' = chosen \cup {a} /\ known' = known /\ dropped' = dropped /\ twice' = twice
      /\ draft' = draft
  BY DEF D!UploadPending, D!PickPending, D!Choose
<1>3. \/ draftAsset[a] = Unmade /\ draftAsset' = [draftAsset EXCEPT ![a] = "own"]
      \/ draftAsset[a] \in {"own", "shared"} /\ draftAsset' = draftAsset
  BY DEF D!UploadPending, D!PickPending, D!Usable
<1>4. Finishes(r, L)
  BY <1>1, <1>2, <1>3 DEF Finishes, DraftTypes
<1>5. ASSUME WaitingIsOwn PROVE Keeps(r, L)
  <2>1. \A b \in Medium : draftAsset[b] = "own" => draftAsset'[b] = "own"
    BY <1>3 DEF DraftTypes
  <2>2. draftAsset'[a] = "own"
    BY <1>3, <1>5 DEF DraftTypes, WaitingIsOwn
  <2>3. \A b \in request[r].pending : draftAsset[b] = "own" \/ b \in dropped
    BY <1>1, <1>5 DEF WaitingIsOwn, OwnOrDropped
  <2> QED BY <1>1, <1>2, <2>1, <2>2, <2>3 DEF Keeps
<1> QED BY <1>2, <1>4, <1>5

(* A medium taken off the page goes with its asset, or only off the page.  *)
LEMMA Removes ==
  ASSUME DraftKinds, DraftTypes, NEW r \in Handler, NEW a \in Medium, D!RemovePending(r, a)
  PROVE  LET L == request[r].pending \ {a}
         IN  Finishes(r, L) /\ known' = known /\ (WaitingIsOwn => Keeps(r, L))
<1> DEFINE L == request[r].pending \ {a}
<1>1. request[r].pending \in SUBSET Medium /\ request[r] # D!Idle
  BY DraftJobs DEF D!RemovePending, D!Working
<1>2. D!Ends(r, L) /\ chosen' = chosen /\ known' = known /\ dropped' = dropped \cup {a} /\ twice' = twice
  BY DEF D!RemovePending
<1>3. /\ draftAsset' \in [Medium -> {"own", "shared", Unmade, Deleted}]
      /\ \A b \in Medium \ {a} : draftAsset'[b] = draftAsset[b]
      /\ draftAsset'[a] = "shared" => draftAsset[a] = "shared"
  BY DEF D!RemovePending, D!rows, DraftTypes, DraftKinds
<1>4. \A p \in NewPost : \/ draft'[p] = draft[p]
                      \/ /\ draft[p] \in DraftRow /\ draft'[p] \in DraftRow
                         /\ draft'[p].page = draft[p].page /\ draft'[p].media = draft[p].media \ {a}
  <2>1. CASE UNCHANGED draft
    BY <2>1
  <2>2. CASE draft' = [p \in NewPost |-> IF p \in D!Posts THEN [draft[p] EXCEPT !.media = @ \ {a}] ELSE draft[p]]
    <3> SUFFICES ASSUME NEW p \in D!Posts, p \in NewPost
                 PROVE  /\ draft[p] \in DraftRow /\ draft'[p] \in DraftRow
                        /\ draft'[p].page = draft[p].page /\ draft'[p].media = draft[p].media \ {a}
      BY <2>2
    <3>1. draft[p] \in DraftRow
      BY DraftPosts
    <3> QED BY <2>2, <3>1 DEF DraftRow
  <2> QED BY <2>1, <2>2 DEF D!RemovePending, D!rows
<1>5. draft' \in [NewPost -> DraftRow \cup {Unmade, Deleted}]
  <2>1. DOMAIN draft' = NewPost /\ draft' = [p \in NewPost |-> draft'[p]]
    BY DEF D!RemovePending, D!rows, DraftTypes
  <2> QED BY <1>4, <2>1 DEF DraftTypes
<1>6. Finishes(r, L)
  BY <1>1, <1>2, <1>3, <1>4, <1>5 DEF Finishes
<1>7. ASSUME WaitingIsOwn PROVE Keeps(r, L)
  <2>1. \A b \in request[r].pending : draftAsset[b] = "own" \/ b \in dropped
    BY <1>1, <1>7 DEF WaitingIsOwn, OwnOrDropped
  <2>2. /\ \A b \in Medium : draftAsset[b] = "own" => draftAsset'[b] = "own" \/ b \in dropped'
        /\ \A b \in L : draftAsset'[b] = "own" \/ b \in dropped'
    BY <1>1, <1>2, <1>3, <2>1
  <2>3. \A p \in NewPost : draft[p] \in DraftRow =>
          \A b \in draft[p].media : b \in dropped' \/ (draft'[p] \in DraftRow /\ b \in draft'[p].media)
    BY <1>2, <1>4
  <2> QED BY <1>2, <2>2, <2>3 DEF Keeps
<1> QED BY <1>2, <1>6, <1>7

(* Rows keep their pages, and lose media only to the user's hand.          *)
RowsKept ==
  /\ dropped \subseteq dropped'
  /\ draft' \in [NewPost -> DraftRow \cup {Unmade, Deleted}]
  /\ \A p \in NewPost : draft'[p] \in DraftRow => draft[p] \in DraftRow /\ draft'[p].page = draft[p].page
  /\ \A p \in NewPost : draft[p] \in DraftRow =>
       \A a \in draft[p].media : a \in dropped' \/ (draft'[p] \in DraftRow /\ a \in draft'[p].media)

(* The requests that leave the list alone, and change the media of one     *)
(* post at most.                                                           *)
LEMMA Leaves ==
  ASSUME DraftKinds, DraftTypes, NEW r \in Handler,
         \/ D!SaveAgain(r) \/ D!Return(r) \/ D!DeletePost(r)
         \/ \E a \in Medium : D!Attach(r, a) \/ D!Detach(r, a)
  PROVE  LET L == request[r].pending
         IN  Finishes(r, L) /\ known' = known /\ (WaitingIsOwn => Keeps(r, L))
<1> DEFINE L == request[r].pending
<1>1. request[r].pending \in SUBSET Medium /\ request[r] # D!Idle
  BY DraftJobs DEF D!SaveAgain, D!Return, D!DeletePost, D!Attach, D!Detach, D!Working
<1>2. D!Ends(r, L) /\ chosen' = chosen /\ known' = known /\ twice' = twice /\ draftAsset' = draftAsset
  BY DEF D!SaveAgain, D!Return, D!DeletePost, D!Attach, D!Detach, D!rows
<1>3. RowsKept
  <2> DEFINE p == request[r].post
  <2>1. CASE D!SaveAgain(r) \/ D!Return(r)
    BY <2>1 DEF RowsKept, D!SaveAgain, D!Return, D!rows, DraftTypes
  <2>2. CASE D!DeletePost(r)
    <3>1. p \in D!Posts /\ draft' = [draft EXCEPT ![p] = Deleted] /\ dropped' = dropped \cup draft[p].media
      BY <2>2 DEF D!DeletePost
    <3>2. Deleted \notin DraftRow
      BY DEF DraftKinds
    <3> HIDE DEF p
    <3> QED BY <3>1, <3>2, DraftPosts DEF RowsKept, DraftTypes
  <2>3. ASSUME NEW a \in Medium, D!Attach(r, a)
        PROVE  RowsKept
    <3> DEFINE S == draft[p].media \cup {a}
    <3>1. p \in D!Posts /\ draft' = [draft EXCEPT ![p].media = S] /\ dropped' = dropped
      BY <2>3 DEF D!Attach
    <3>2. S \in SUBSET Medium
      BY <3>1, DraftPosts
    <3> HIDE DEF p, S
    <3>3. /\ draft' \in [NewPost -> DraftRow \cup {Unmade, Deleted}]
          /\ \A q \in NewPost \ {p} : draft'[q] = draft[q]
          /\ draft[p] \in DraftRow /\ draft'[p] \in DraftRow
          /\ draft'[p].page = draft[p].page /\ draft'[p].media = S
      BY <3>1, <3>2, MediaWritten
    <3> QED BY <3>1, <3>3 DEF RowsKept, DraftTypes, S
  <2>4. ASSUME NEW a \in Medium, D!Detach(r, a)
        PROVE  RowsKept
    <3> DEFINE S == draft[p].media \ {a}
    <3>1. p \in D!Posts /\ draft' = [draft EXCEPT ![p].media = S] /\ dropped' = dropped \cup {a}
      BY <2>4 DEF D!Detach
    <3>2. S \in SUBSET Medium
      BY <3>1, DraftPosts
    <3> HIDE DEF p, S
    <3>3. /\ draft' \in [NewPost -> DraftRow \cup {Unmade, Deleted}]
          /\ \A q \in NewPost \ {p} : draft'[q] = draft[q]
          /\ draft[p] \in DraftRow /\ draft'[p] \in DraftRow
          /\ draft'[p].page = draft[p].page /\ draft'[p].media = S
      BY <3>1, <3>2, MediaWritten
    <3> QED BY <3>1, <3>3 DEF RowsKept, DraftTypes, S
  <2> QED BY <2>1, <2>2, <2>3, <2>4
<1>4. Finishes(r, L)
  BY <1>1, <1>2, <1>3 DEF RowsKept, Finishes, DraftTypes
<1>5. ASSUME WaitingIsOwn PROVE Keeps(r, L)
  <2>1. \A b \in request[r].pending : draftAsset[b] = "own" \/ b \in dropped
    BY <1>1, <1>5 DEF WaitingIsOwn, OwnOrDropped
  <2> QED BY <1>2, <1>3, <2>1 DEF RowsKept, Keeps
<1> QED BY <1>2, <1>4, <1>5

(* The requests that attach what they have read of, to the post saved just *)
(* now or to one that is there.                                            *)
LEMMA Attaches ==
  ASSUME DraftKinds, DraftTypes, NEW r \in Handler,
         D!AttachPending(r) \/ \E a \in Medium : D!UploadTo(r, a) /\ request[r].post \in D!Posts
  PROVE  Finishes(r, {}) /\ (WaitingIsOwn => Keeps(r, {}))
<1> DEFINE p == request[r].post  R == request[r].pending
<1>1. R \in SUBSET Medium /\ request[r] # D!Idle
  BY DraftJobs DEF D!AttachPending, D!UploadTo, D!Working
<1>2. D!Ends(r, {}) /\ chosen' = chosen /\ twice' = twice /\ dropped' = dropped /\ p \in D!Posts
  BY DEF D!AttachPending, D!UploadTo
<1>3. p \in NewPost /\ draft[p] \in DraftRow
  BY <1>2, DraftPosts
<1>4. D!Attached(p, R).media = draft[p].media \cup D!Own(R)
      /\ D!Attached(p, R) = [draft[p] EXCEPT !.media = draft[p].media \cup D!Own(R)]
  BY <1>3 DEF D!Attached, DraftRow
<1>5. \E B \in SUBSET Medium :
        /\ draft' = [draft EXCEPT ![p].media = draft[p].media \cup D!Own(R) \cup B]
        /\ draftAsset' \in [Medium -> {"own", "shared", Unmade, Deleted}]
        /\ \A a \in Medium : draftAsset'[a] = draftAsset[a] \/ draftAsset'[a] = "own"
  <2>1. CASE D!AttachPending(r)
    <3>1. draft' = [draft EXCEPT ![p] = [draft[p] EXCEPT !.media = draft[p].media \cup D!Own(R)]]
          /\ draftAsset' = draftAsset
      BY <1>4, <2>1 DEF D!AttachPending
    <3>2. draft' = [draft EXCEPT ![p].media = draft[p].media \cup D!Own(R) \cup {}]
      BY <3>1
    <3>3. {} \in SUBSET Medium /\ draftAsset' \in [Medium -> {"own", "shared", Unmade, Deleted}]
      BY <3>1 DEF DraftTypes
    <3> HIDE DEF p, R
    <3> QED BY <3>1, <3>2, <3>3
  <2>2. ASSUME NEW a \in Medium, D!UploadTo(r, a)
        PROVE  /\ draft' = [draft EXCEPT ![p].media = draft[p].media \cup D!Own(R) \cup {a}]
               /\ draftAsset' \in [Medium -> {"own", "shared", Unmade, Deleted}]
               /\ \A b \in Medium : draftAsset'[b] = draftAsset[b] \/ draftAsset'[b] = "own"
    BY <1>2, <1>4, <2>2 DEF D!UploadTo, DraftTypes
  <2>3. \A a \in Medium : {a} \in SUBSET Medium
    OBVIOUS
  <2> HIDE DEF p, R
  <2> QED BY <2>1, <2>2, <2>3
<1>55. PICK B \in SUBSET Medium :
        /\ draft' = [draft EXCEPT ![p].media = draft[p].media \cup D!Own(R) \cup B]
        /\ draftAsset' \in [Medium -> {"own", "shared", Unmade, Deleted}]
        /\ \A a \in Medium : draftAsset'[a] = draftAsset[a] \/ draftAsset'[a] = "own"
  BY <1>5
<1> DEFINE S == draft[p].media \cup D!Own(R) \cup B
<1>6. S \in SUBSET Medium
  BY <1>1, <1>2, DraftPosts DEF D!Own
<1>7. \A a \in R : draftAsset[a] = "own" => a \in S
  BY DEF D!Own
<1> HIDE DEF p
<1>8. /\ draft' \in [NewPost -> DraftRow \cup {Unmade, Deleted}]
      /\ \A q \in NewPost \ {p} : draft'[q] = draft[q]
      /\ draft[p] \in DraftRow /\ draft'[p] \in DraftRow
      /\ draft'[p].page = draft[p].page /\ draft'[p].media = S
  BY <1>2, <1>55, <1>6, MediaWritten
<1>9. Finishes(r, {})
  BY <1>2, <1>55, <1>8 DEF Finishes
<1>10. ASSUME WaitingIsOwn PROVE Keeps(r, {})
  <2>1. \A b \in R : draftAsset[b] = "own" \/ b \in dropped
    BY <1>1, <1>10 DEF WaitingIsOwn, OwnOrDropped
  <2> QED BY <1>2, <1>3, <1>55, <1>7, <1>8, <2>1 DEF Keeps
<1> QED BY <1>9, <1>10

(* An upload to a post that was deleted by now.                            *)
LEMMA Uploads ==
  ASSUME DraftKinds, DraftTypes, NEW r \in Handler, NEW a \in Medium,
         D!UploadTo(r, a), request[r].post \notin D!Posts
  PROVE  LET L == request[r].pending IN Finishes(r, L) /\ (WaitingIsOwn => Keeps(r, L))
<1> DEFINE L == request[r].pending
<1>1. L \in SUBSET Medium /\ request[r] # D!Idle
  BY DraftJobs DEF D!UploadTo, D!Working
<1>2. /\ D!Ends(r, L) /\ chosen' = chosen /\ twice' = twice /\ dropped' = dropped /\ draft' = draft
      /\ draftAsset' = [draftAsset EXCEPT ![a] = "own"]
  BY DEF D!UploadTo
<1>3. \A b \in Medium : draftAsset'[b] = draftAsset[b] \/ draftAsset'[b] = "own"
  BY <1>2 DEF DraftTypes
<1>4. Finishes(r, L)
  BY <1>1, <1>2, <1>3 DEF Finishes, DraftTypes
<1>5. ASSUME WaitingIsOwn PROVE Keeps(r, L)
  <2>1. \A b \in L : draftAsset[b] = "own" \/ b \in dropped
    BY <1>1, <1>5 DEF WaitingIsOwn, OwnOrDropped
  <2> QED BY <1>1, <1>2, <1>3, <2>1 DEF Keeps
<1> QED BY <1>4, <1>5

(* A page that loads takes out what is pending.                            *)
LEMMA Loads ==
  ASSUME DraftKinds, DraftTypes, NEW r \in Handler, D!Load(r)
  PROVE  Finishes(r, {}) /\ known' = known /\ (WaitingIsOwn => Keeps(r, {}))
<1>1. /\ D!Ends(r, {}) /\ chosen' = chosen /\ known' = known /\ twice' = twice
      /\ dropped' = dropped \cup request[r].pending
      /\ draftAsset' = draftAsset /\ draft' = draft
  BY DEF D!Load, D!rows
<1> QED BY <1>1 DEF Finishes, Keeps, DraftTypes

(* Every request but a save that makes a row, and the one that ends it,    *)
(* ends with the page knowing what it knew.                                *)
Working(r) ==
  \/ D!SaveAgain(r) \/ D!DeletePost(r) \/ D!Load(r)
  \/ \E a \in Medium : \/ D!UploadPending(r, a) \/ D!PickPending(r, a) \/ D!RemovePending(r, a)
                      \/ D!UploadTo(r, a) \/ D!Attach(r, a) \/ D!Detach(r, a)

(* What one of these requests, or a save that ends, does.                  *)
LEMMA RequestEnds ==
  ASSUME DraftKinds, DraftTypes, NEW r \in Handler, Working(r) \/ D!AttachPending(r) \/ D!Return(r)
  PROVE  \E L \in SUBSET Medium : Finishes(r, L) /\ (WaitingIsOwn => Keeps(r, L))
<1>1. request[r].pending \in SUBSET Medium
  BY DraftJobs DEF Working, D!AttachPending, D!Return, D!Load, D!SaveAgain, D!DeletePost, D!UploadPending, D!PickPending,
                   D!Choose, D!RemovePending, D!UploadTo, D!Attach, D!Detach, D!Working
<1>2. \A a \in Medium : request[r].pending \cup {a} \in SUBSET Medium /\ request[r].pending \ {a} \in SUBSET Medium
  BY <1>1
<1>3. {} \in SUBSET Medium
  OBVIOUS
<1>4. CASE D!AttachPending(r) \/ D!Load(r)
  BY <1>3, <1>4, Attaches, Loads
<1>5. CASE D!SaveAgain(r) \/ D!DeletePost(r) \/ D!Return(r)
  BY <1>1, <1>5, Leaves
<1>6. ASSUME NEW a \in Medium, D!Attach(r, a) \/ D!Detach(r, a)
      PROVE  \E L \in SUBSET Medium : Finishes(r, L) /\ (WaitingIsOwn => Keeps(r, L))
  BY <1>1, <1>6, Leaves
<1>7. ASSUME NEW a \in Medium, D!UploadPending(r, a) \/ D!PickPending(r, a)
      PROVE  \E L \in SUBSET Medium : Finishes(r, L) /\ (WaitingIsOwn => Keeps(r, L))
  BY <1>2, <1>7, Chooses
<1>8. ASSUME NEW a \in Medium, D!RemovePending(r, a)
      PROVE  \E L \in SUBSET Medium : Finishes(r, L) /\ (WaitingIsOwn => Keeps(r, L))
  BY <1>2, <1>8, Removes
<1>9. ASSUME NEW a \in Medium, D!UploadTo(r, a)
      PROVE  \E L \in SUBSET Medium : Finishes(r, L) /\ (WaitingIsOwn => Keeps(r, L))
  BY <1>1, <1>3, <1>9, Attaches, Uploads
<1> QED BY <1>4, <1>5, <1>6, <1>7, <1>8, <1>9 DEF Working

(* They keep the types, and what the pages know is theirs to say.          *)
LEMMA EndsTyped ==
  ASSUME DraftTypes, NEW r \in Handler, NEW L, Finishes(r, L), known' \in [Tab -> NewPost \cup {None}]
  PROVE  DraftTypes'
<1>1. /\ pending' = L /\ request' \in [Handler -> DraftJob \cup {D!Idle}]
      /\ request'[r].at = "idle" /\ \A q \in Handler \ {r} : request'[q] = request[q]
  BY DraftEnds DEF Finishes
<1> QED BY <1>1 DEF DraftTypes, Finishes, D!Idle

(* And leave every page in order.                                          *)
LEMMA WorkingInOrder ==
  ASSUME DraftKinds, DraftTypes, PagesInOrder, NEW r \in Handler, Working(r)
  PROVE  DraftTypes' /\ PagesInOrder'
<1>1. known' = known /\ request[r].at = "begun"
  BY DEF Working, D!Load, D!SaveAgain, D!DeletePost, D!UploadPending, D!PickPending,
         D!Choose, D!RemovePending, D!UploadTo, D!Attach, D!Detach, D!Working
<1>2. PICK L \in SUBSET Medium : Finishes(r, L)
  BY RequestEnds
<1>3. DraftTypes'
  BY <1>1, <1>2, EndsTyped DEF DraftTypes
<1>4. /\ request'[r] = D!Idle /\ request'[r].at = "idle"
      /\ \A q \in Handler \ {r} : request'[q] = request[q]
  BY <1>2, DraftEnds DEF Finishes
<1>5. \A p \in D!Posts' : p \in D!Posts /\ draft'[p].page = draft[p].page
  <2>1. \A p \in D!Posts' : p \in NewPost /\ draft'[p] \in DraftRow
    BY <1>3, DraftKinds DEF DraftTypes, DraftKinds, D!Posts
  <2> QED BY <1>2, <2>1, DraftPosts DEF Finishes
<1>6. ASSUME NEW g \in Tab \ twice PROVE Orderly(g)'
  <2>1. Orderly(g)
    BY DEF PagesInOrder
  <2>2. \A q \in Handler : /\ Serving(q, g)' => Serving(q, g)
                           /\ Saving(q, g)' <=> Saving(q, g)
                           /\ request'[q].at \in {"begun", "saved"} => request'[q] = request[q]
    BY <1>1, <1>4 DEF Serving, Saving
  <2>3. \A q \in Handler : Saving(q, g) => request'[q] = request[q]
    BY <1>1, <1>4 DEF Saving
  <2> QED BY <1>1, <1>5, <2>1, <2>2, <2>3 DEF Orderly
<1> QED BY <1>2, <1>3, <1>6 DEF PagesInOrder, Finishes

(* An autosave tells the page its post, a save nothing.                    *)
LEMMA AttachInOrder ==
  ASSUME DraftKinds, DraftTypes, PagesInOrder, NEW r \in Handler, D!AttachPending(r) \/ D!Return(r)
  PROVE  DraftTypes' /\ PagesInOrder'
<1> DEFINE p == request[r].post  h == request[r].page
<1>1. /\ \/ request[r].at = "saved" /\ known' = known
         \/ request[r].at = "autosaved" /\ known' = [known EXCEPT ![h] = p]
      /\ p \in NewPost /\ h \in Tab /\ request[r] # D!Idle
  BY DraftJobs DEF D!AttachPending, D!Return, D!Serves, DraftTypes
<1>2. PICK L \in SUBSET Medium : Finishes(r, L)
  BY RequestEnds
<1>3. DraftTypes'
  <2>1. known' \in [Tab -> NewPost \cup {None}]
    BY <1>1 DEF DraftTypes
  <2> QED BY <1>2, <2>1, EndsTyped
<1>4. /\ request'[r] = D!Idle /\ request'[r].at = "idle"
      /\ \A q \in Handler \ {r} : request'[q] = request[q]
  BY <1>2, DraftEnds DEF Finishes
<1>5. \A q \in D!Posts' : q \in D!Posts /\ draft'[q].page = draft[q].page
  <2>1. \A q \in D!Posts' : q \in NewPost /\ draft'[q] \in DraftRow
    BY <1>3, DraftKinds DEF DraftTypes, DraftKinds, D!Posts
  <2> QED BY <1>2, <2>1, DraftPosts DEF Finishes
<1>6. ASSUME NEW g \in Tab \ twice PROVE Orderly(g)'
  <2>1. Orderly(g)
    BY DEF PagesInOrder
  <2>2. \A q \in Handler : /\ Serving(q, g)' => Serving(q, g) /\ q # r
                           /\ Saving(q, g)' => Saving(q, g) /\ q # r
                           /\ request'[q].at \in {"begun", "saved"} => request'[q] = request[q] /\ q # r
    BY <1>1, <1>4 DEF Serving, Saving
  <2>3. CASE g = h
    <3>1. Serving(r, g) /\ Saving(r, g) /\ known' = [known EXCEPT ![h] = p]
      BY <1>1, <2>1, <2>3 DEF Serving, Saving, Orderly
    <3>2. \A q \in Handler : ~ Serving(q, g)'
      BY <2>1, <2>2, <3>1 DEF Orderly
    <3>3. \A q \in Handler : request'[q].at \in {"begun", "saved", "autosaved"} => request'[q].page # g
      BY <3>2, <1>4 DEF Serving, D!Idle
    <3>4. \A q \in D!Posts' : draft'[q].page = g => known'[g] = q
      BY <1>1, <1>5, <2>1, <2>3, <3>1 DEF Orderly, DraftTypes
    <3> QED BY <3>2, <3>3, <3>4 DEF Orderly, Saving
  <2>4. CASE g # h
    <3>1. known'[g] = known[g]
      BY <1>1, <2>4 DEF DraftTypes
    <3>2. \A q \in Handler : Saving(q, g)' <=> Saving(q, g)
      BY <1>1, <1>4, <2>4 DEF Saving
    <3>3. \A q \in Handler : Saving(q, g) => request'[q] = request[q]
      BY <1>1, <1>4, <2>4 DEF Saving
    <3> QED BY <1>5, <2>1, <2>2, <3>1, <3>2, <3>3 DEF Orderly
  <2> QED BY <2>3, <2>4
<1> QED BY <1>2, <1>3, <1>6 DEF PagesInOrder, Finishes

(* A request that begins alone on its page knows what the page knows.      *)
LEMMA BeginInOrder ==
  ASSUME DraftKinds, DraftTypes, PagesInOrder, NEW r \in Handler, NEW h \in Tab, D!Begin(r, h)
  PROVE  DraftTypes' /\ PagesInOrder'
<1> DEFINE w == [at |-> "begun", page |-> h, pending |-> pending, post |-> known[h]]
<1>1. /\ request[r] = D!Idle /\ request' = [request EXCEPT ![r] = w]
      /\ UNCHANGED << pending, draftAsset, draft, known >>
      /\ twice' = IF \E q \in Handler : Serving(q, h) THEN twice \cup {h} ELSE twice
  BY DEF D!Begin, D!Serves, Serving, D!rows
<1>2. w \in DraftJob /\ w.at = "begun" /\ w.page = h /\ w.post = known[h] /\ w # D!Idle
  BY DEF DraftTypes, DraftJob, D!Idle
<1> HIDE DEF w
<1>3. DraftTypes'
  BY <1>1, <1>2 DEF DraftTypes
<1>4. D!Posts' = D!Posts
  BY <1>1 DEF D!Posts
<1>5. request[r].at = "idle"
  BY <1>1 DEF D!Idle
<1>6. request'[r] = w /\ \A q \in Handler \ {r} : request'[q] = request[q]
  BY <1>1 DEF DraftTypes
<1>7. ASSUME NEW g \in Tab \ twice' PROVE Orderly(g)'
  <2>1. Orderly(g) /\ (g = h => \A q \in Handler : ~ Serving(q, g))
    BY <1>1, <1>7 DEF PagesInOrder
  <2>2. \A q \in Handler : /\ Serving(q, g)' <=> (Serving(q, g) \/ (q = r /\ g = h))
                           /\ Saving(q, g)' <=> Saving(q, g)
    BY <1>1, <1>2, <1>5, <1>6 DEF Serving, Saving
  <2>3. \A q \in Handler : Saving(q, g) => request'[q] = request[q]
    BY <1>5, <1>6 DEF Saving
  <2>4. \A q, s \in Handler : Serving(q, g)' /\ Serving(s, g)' => q = s
    BY <2>1, <2>2 DEF Orderly
  <2>5. \A q \in Handler : request'[q].at = "begun" /\ request'[q].page = g => request'[q].post = known'[g]
    BY <1>1, <1>2, <1>6, <2>1 DEF Orderly
  <2>6. \A p \in D!Posts' : draft'[p].page = g =>
          /\ \A q \in Handler : Saving(q, g)' => request'[q].post = p
          /\ (\A q \in Handler : ~ Saving(q, g)') => known'[g] = p
    BY <1>1, <1>4, <2>1, <2>2, <2>3 DEF Orderly
  <2>7. \A q \in Handler : request'[q].at = "saved" => request'[q].page # g
    BY <1>2, <1>6, <2>1 DEF Orderly
  <2> QED BY <2>4, <2>5, <2>6, <2>7 DEF Orderly
<1> QED BY <1>3, <1>7 DEF PagesInOrder

(* A save that makes a row makes the page's only one, unless the page lost *)
(* one.                                                                    *)
LEMMA SaveInOrder ==
  ASSUME DraftKinds, DraftTypes, PagesInOrder, NEW r \in Handler, NEW p \in NewPost,
         NEW by \in {"autosaved", "saved"}, D!Save(r, p, by)
  PROVE  DraftTypes' /\ PagesInOrder'
<1> DEFINE h == request[r].page
           w == [at |-> by, page |-> h, pending |-> request[r].pending, post |-> p]
           x == [media |-> {}, page |-> h]
<1>1. /\ request[r].at = "begun" /\ request' = [request EXCEPT ![r] = w]
      /\ draft[p] = Unmade /\ draft' = [draft EXCEPT ![p] = x]
      /\ request[r].post = None \/ request[r].post \in D!Lost
      /\ UNCHANGED << pending, draftAsset, known >>
      /\ twice' = IF by = "saved" \/ request[r].post \in D!Lost THEN twice \cup {h} ELSE twice
  BY DEF D!Save, D!Working, D!Creates, D!Serves
<1>2. h \in Tab /\ request[r] # D!Idle /\ request[r].pending \in SUBSET Medium
  BY <1>1, DraftJobs
<1>3. w \in DraftJob /\ w.at = by /\ w.page = h /\ w.post = p /\ w # D!Idle
  BY <1>2 DEF DraftJob, D!Idle
<1>4. x \in DraftRow /\ x.page = h
  BY <1>2 DEF DraftRow
<1> HIDE DEF w, x, h
<1>5. DraftTypes'
  BY <1>1, <1>3, <1>4 DEF DraftTypes
<1>6. \A q \in NewPost : q \in D!Posts' <=> q \in D!Posts \/ q = p
  BY <1>1, <1>4 DEF D!Posts, DraftKinds, DraftTypes
<1>7. /\ request'[r] = w /\ \A q \in Handler \ {r} : request'[q] = request[q]
      /\ draft'[p] = x /\ \A q \in NewPost \ {p} : draft'[q] = draft[q]
  BY <1>1 DEF DraftTypes
<1>8. ASSUME NEW g \in Tab \ twice' PROVE Orderly(g)'
  <2>1. Orderly(g)
    BY <1>1 DEF PagesInOrder
  <2>2. \A q \in Handler : Serving(q, g)' <=> Serving(q, g)
    BY <1>2, <1>3, <1>7 DEF Serving, h
  <2>3. D!Posts' \subseteq NewPost
    BY DEF D!Posts
  <2>4. CASE g = h
    <3>1. request[r].post = None /\ known[g] = None /\ Serving(r, g) /\ by = "autosaved"
      BY <1>1, <1>2, <2>1, <2>4 DEF Orderly, Serving, h
    <3>2. \A q \in Handler : Serving(q, g) => q = r
      BY <2>1, <3>1 DEF Orderly
    <3>3. \A q \in Handler \ {r} : request[q].at \in {"begun", "saved", "autosaved"} => request[q].page # g
      BY <3>2, DraftJobs DEF Serving
    <3>4. \A q \in D!Posts : draft[q].page # g
      <4>1. \A q \in Handler : ~ Saving(q, g)
        BY <1>1, <3>3 DEF Saving
      <4> QED BY <2>1, <3>1, <4>1 DEF Orderly, D!Posts, DraftKinds
    <3>5. \A q \in D!Posts' : draft'[q].page = g => q = p
      BY <1>6, <1>7, <2>3, <3>4
    <3>6. request'[r].at = "autosaved" /\ request'[r].post = p
      BY <1>3, <1>7, <3>1 DEF w
    <3>7. \A q \in Handler : /\ Saving(q, g)' => request'[q].post = p
                             /\ request'[q].at = "begun" => request'[q].page # g
                             /\ request'[q].at = "saved" => request'[q].page # g
      BY <1>7, <3>3, <3>6 DEF Saving
    <3>8. Saving(r, g)'
      BY <1>3, <1>7, <2>4, <3>6 DEF Saving, h
    <3> QED BY <2>1, <2>2, <3>5, <3>7, <3>8 DEF Orderly
  <2>5. CASE g # h
    <3>1. \A q \in Handler : /\ request'[q].at = "begun" /\ request'[q].page = g =>
                                  request[q].at = "begun" /\ request[q].page = g /\ request'[q] = request[q]
                             /\ Saving(q, g)' <=> Saving(q, g)
                             /\ Saving(q, g) => request'[q] = request[q]
                             /\ request'[q].at = "saved" => request'[q] = request[q] \/ request'[q].page # g
      BY <1>1, <1>3, <1>7, <2>5 DEF Saving, h
    <3>2. \A q \in D!Posts' : draft'[q].page = g => q \in D!Posts /\ draft[q].page = g
      BY <1>4, <1>6, <1>7, <2>3, <2>5
    <3>3. known' = known
      BY <1>1
    <3> QED BY <2>1, <2>2, <3>1, <3>2, <3>3 DEF Orderly
  <2> QED BY <2>4, <2>5
<1> QED BY <1>5, <1>8 DEF PagesInOrder

(* A request that dies leaves the other pages in order.                    *)
LEMMA DieInOrder ==
  ASSUME DraftKinds, DraftTypes, PagesInOrder, NEW r \in Handler, D!Die(r)
  PROVE  DraftTypes' /\ PagesInOrder'
<1>1. /\ request[r] # D!Idle /\ request' = [request EXCEPT ![r] = D!Idle]
      /\ twice' = twice \cup {request[r].page}
      /\ UNCHANGED << pending, draftAsset, draft, known >>
  BY DEF D!Die, D!Serves, D!rows
<1>2. /\ request'[r] = D!Idle /\ request'[r].at = "idle"
      /\ \A q \in Handler \ {r} : request'[q] = request[q]
  BY <1>1 DEF DraftTypes, D!Idle
<1>3. DraftTypes'
  BY <1>1, <1>2 DEF DraftTypes
<1>4. ASSUME NEW g \in Tab \ twice' PROVE Orderly(g)'
  <2>1. Orderly(g) /\ request[r].page # g
    BY <1>1 DEF PagesInOrder
  <2>2. \A q \in Handler : /\ Serving(q, g)' <=> Serving(q, g)
                           /\ Saving(q, g)' <=> Saving(q, g)
                           /\ Saving(q, g) => request'[q] = request[q]
                           /\ request'[q].at \in {"begun", "saved"} => request'[q] = request[q]
    BY <1>1, <1>2, <2>1 DEF Serving, Saving
  <2>3. D!Posts' = D!Posts /\ draft' = draft /\ known' = known
    BY <1>1 DEF D!Posts
  <2> QED BY <2>1, <2>2, <2>3 DEF Orderly
<1> QED BY <1>3, <1>4 DEF PagesInOrder

(* So the composer's pages stay in order.                                  *)
LEMMA DraftStep ==
  ASSUME DraftKinds, DraftInv, [D!Next]_(D!vars)
  PROVE  DraftInv'
<1>1. CASE UNCHANGED D!vars
  BY <1>1 DEF D!vars, D!rows, D!bounds, D!ghosts, DraftInv, DraftTypes, PagesInOrder, Orderly, Serving, Saving, D!Posts
<1>2. ASSUME NEW r \in Handler, NEW h \in Tab, D!Begin(r, h) PROVE DraftInv'
  BY <1>2, BeginInOrder DEF DraftInv
<1>3. ASSUME NEW r \in Handler, NEW p \in NewPost, NEW by \in {"autosaved", "saved"}, D!Save(r, p, by)
      PROVE  DraftInv'
  BY <1>3, SaveInOrder DEF DraftInv
<1>4. ASSUME NEW r \in Handler, D!AttachPending(r) \/ D!Return(r) \/ D!Die(r) \/ Working(r) PROVE DraftInv'
  BY <1>4, AttachInOrder, DieInOrder, WorkingInOrder DEF DraftInv
<1> QED BY <1>1, <1>2, <1>3, <1>4 DEF D!Next, Working

(* No page, request or post has anything to begin with.                    *)
LEMMA DraftAlways ==
  ASSUME DraftKinds
  PROVE  D!Spec => []DraftInv
<1>1. D!Init => DraftInv
  <2> SUFFICES ASSUME D!Init PROVE DraftInv
    OBVIOUS
  <2>1. DraftTypes
    BY DEF D!Init, DraftTypes, D!Idle
  <2>2. \A q \in Handler : request[q] = D!Idle /\ request[q].at = "idle"
    BY DEF D!Init, D!Idle
  <2>3. D!Posts = {}
    BY DEF D!Init, D!Posts
  <2> QED BY <2>1, <2>2, <2>3 DEF DraftInv, PagesInOrder, Orderly, Serving, Saving
<1> QED BY <1>1, DraftStep, PTL DEF D!Spec

(***************************************************************************)
(* A page of the composer makes one post, however its autosaves, saves and *)
(* uploads are ordered, unless two of its requests overlap, one dies, its  *)
(* post is deleted under it, or it is saved before an autosave.            *)
(***************************************************************************)
THEOREM OnePostPerPage == D!Spec => []OneDraftPerPage
<1> USE StudioAssumption
<1>1. DraftInv => D!OneDraftPerPage
  <2> SUFFICES ASSUME DraftInv, NEW p \in D!Posts, NEW q \in D!Posts, p # q,
                      draft[p].page = draft[q].page, draft[p].page \notin twice
               PROVE  FALSE
    BY DEF D!OneDraftPerPage
  <2> DEFINE g == draft[p].page
  <2>1. g \in Tab /\ Orderly(g)
    BY DraftPosts DEF DraftInv, PagesInOrder
  <2> QED BY <2>1 DEF Orderly
<1> QED BY <1>1, DraftAlways, PTL DEF OneDraftPerPage

KeptInv == DraftInv /\ WaitingIsOwn /\ D!ChosenIsKept

(* A request that ends keeps what is waiting the workspace's own, and what *)
(* was chosen somewhere.                                                   *)
LEMMA EndsKept ==
  ASSUME DraftKinds, KeptInv, DraftTypes', NEW r \in Handler, NEW L \in SUBSET Medium,
         Finishes(r, L), Keeps(r, L)
  PROVE  WaitingIsOwn' /\ D!ChosenIsKept'
<1>0. DraftTypes /\ WaitingIsOwn /\ D!ChosenIsKept
  BY DEF KeptInv, DraftInv
<1>1. /\ pending' = L /\ request'[r] = D!Idle
      /\ \A q \in Handler \ {r} : request'[q] = request[q]
      /\ lost' = lost \cup (pending \ (L \cup request[r].pending))
  BY <1>0, DraftEnds DEF Finishes
<1>2. ASSUME NEW S \in SUBSET Medium, OwnOrDropped(S) PROVE OwnOrDropped(S)'
  BY <1>2 DEF OwnOrDropped, Keeps
<1>3. WaitingIsOwn'
  <2>1. \A a \in Medium : draftAsset'[a] # "shared"
    BY <1>0 DEF WaitingIsOwn, Finishes
  <2>2. OwnOrDropped(pending)'
    BY <1>1 DEF OwnOrDropped, Keeps
  <2>3. ASSUME NEW q \in Handler, request'[q] # D!Idle PROVE OwnOrDropped(request[q].pending)'
    <3>1. q # r /\ request'[q] = request[q] /\ request[q] # D!Idle
      BY <1>1, <2>3
    <3>2. request[q].pending \in SUBSET Medium /\ OwnOrDropped(request[q].pending)
      BY <1>0, <3>1, DraftJobs DEF WaitingIsOwn
    <3>3. \A a \in request[q].pending : draftAsset'[a] = "own" \/ a \in dropped'
      BY <3>2 DEF OwnOrDropped, Keeps
    <3> QED BY <3>1, <3>3 DEF OwnOrDropped
  <2> QED BY <2>1, <2>2, <2>3 DEF WaitingIsOwn
<1>4. \A p \in NewPost : /\ p \in D!Posts <=> draft[p] \in DraftRow
                         /\ p \in D!Posts' <=> draft'[p] \in DraftRow
  BY <1>0 DEF DraftKinds, DraftTypes, D!Posts
<1>5. D!ChosenIsKept'
  <2> SUFFICES ASSUME NEW a \in chosen'
               PROVE  \/ a \in pending' \cup dropped' \cup lost'
                      \/ \E p \in NewPost : draft'[p] \in DraftRow /\ a \in draft'[p].media
    BY <1>4 DEF D!ChosenIsKept, D!Posts
  <2>1. CASE a \in L
    BY <1>1, <2>1
  <2>2. CASE a \in chosen
    <3>1. \/ a \in pending \cup dropped \cup lost
          \/ \E p \in NewPost : draft[p] \in DraftRow /\ a \in draft[p].media
      <4>1. a \in pending \cup dropped \cup lost \/ \E p \in D!Posts : a \in draft[p].media
        BY <1>0, <2>2 DEF D!ChosenIsKept
      <4>2. D!Posts \subseteq NewPost
        BY DEF D!Posts
      <4> QED BY <1>4, <4>1, <4>2
    <3>2. CASE a \in dropped \cup lost
      BY <1>1, <3>2 DEF Keeps
    <3>3. CASE a \in pending
      BY <1>1, <3>3 DEF Keeps
    <3>4. CASE \E p \in NewPost : draft[p] \in DraftRow /\ a \in draft[p].media
      BY <3>4 DEF Keeps
    <3> QED BY <3>1, <3>2, <3>3, <3>4
  <2> QED BY <2>1, <2>2 DEF Keeps
<1> QED BY <1>3, <1>5

(* The steps that end no request read the list or leave it alone.          *)
LEMMA OtherKept ==
  ASSUME DraftKinds, KeptInv, NEW r \in Handler,
         D!Die(r) \/ (\E h \in Tab : D!Begin(r, h)) \/ (\E p \in NewPost, by \in {"autosaved", "saved"} : D!Save(r, p, by))
  PROVE  WaitingIsOwn' /\ D!ChosenIsKept'
<1>0. DraftTypes /\ WaitingIsOwn /\ D!ChosenIsKept
  BY DEF KeptInv, DraftInv
<1>1. UNCHANGED << pending, draftAsset, chosen, dropped, lost >>
  BY DEF D!Die, D!Begin, D!Save, D!rows
<1>2. /\ \A q \in Handler \ {r} : request'[q] = request[q]
      /\ \/ request'[r] = D!Idle
         \/ request'[r].pending = pending
         \/ request[r] # D!Idle /\ request'[r].pending = request[r].pending
  <2>1. CASE D!Die(r)
    BY <1>0, <2>1 DEF D!Die, DraftTypes
  <2>2. ASSUME NEW h \in Tab, D!Begin(r, h) PROVE <1>2
    BY <1>0, <2>2 DEF D!Begin, DraftTypes
  <2>3. ASSUME NEW p \in NewPost, NEW by \in {"autosaved", "saved"}, D!Save(r, p, by) PROVE <1>2
    BY <1>0, <2>3 DEF D!Save, D!Working, DraftTypes, D!Idle
  <2> QED BY <2>1, <2>2, <2>3
<1>3. \A p \in D!Posts : p \in D!Posts' /\ draft'[p].media = draft[p].media
  <2>1. CASE draft' = draft
    BY <2>1 DEF D!Posts
  <2>2. ASSUME NEW p \in NewPost, NEW by \in {"autosaved", "saved"}, D!Save(r, p, by) PROVE <1>3
    BY <1>0, <2>2 DEF D!Save, D!Posts, DraftTypes
  <2> QED BY <2>1, <2>2 DEF D!Die, D!Begin, D!rows
<1>4. WaitingIsOwn'
  BY <1>0, <1>1, <1>2 DEF WaitingIsOwn, OwnOrDropped
<1> QED BY <1>0, <1>1, <1>3, <1>4 DEF D!ChosenIsKept

(***************************************************************************)
(* A medium chosen for a new post waits in the session or is in a post,    *)
(* until the user takes it out, a page loads, or a request that had not    *)
(* read of it writes the session over it: in an organization that shares no*)
(* library, for a shared medium is dropped without a word, as the run      *)
(* shared_media shows.                                                     *)
(***************************************************************************)
THEOREM ChosenMediaKept ==
  ASSUME Shared = {}
  PROVE  D!Spec => []ChosenIsKept
<1> USE StudioAssumption
<1>1. D!Init => KeptInv
  <2> SUFFICES ASSUME D!Init PROVE KeptInv
    OBVIOUS
  <2>1. DraftInv
    <3>1. DraftTypes
      BY DEF D!Init, DraftTypes, D!Idle
    <3>2. \A q \in Handler : request[q] = D!Idle /\ request[q].at = "idle"
      BY DEF D!Init, D!Idle
    <3>3. D!Posts = {}
      BY DEF D!Init, D!Posts
    <3> QED BY <3>1, <3>2, <3>3 DEF DraftInv, PagesInOrder, Orderly, Serving, Saving
  <2>2. WaitingIsOwn
    BY DEF D!Init, WaitingIsOwn, OwnOrDropped, DraftKinds
  <2>3. D!ChosenIsKept
    BY DEF D!Init, D!ChosenIsKept
  <2> QED BY <2>1, <2>2, <2>3 DEF KeptInv
<1>2. KeptInv /\ [D!Next]_(D!vars) => KeptInv'
  <2> SUFFICES ASSUME KeptInv, [D!Next]_(D!vars) PROVE KeptInv'
    OBVIOUS
  <2>1. DraftInv' /\ DraftTypes' /\ DraftInv /\ DraftTypes /\ WaitingIsOwn
    BY DraftStep DEF KeptInv, DraftInv
  <2>2. CASE UNCHANGED D!vars
    BY <2>1, <2>2 DEF D!vars, D!rows, D!bounds, D!ghosts, KeptInv, WaitingIsOwn, OwnOrDropped, D!ChosenIsKept, D!Posts
  <2>3. ASSUME NEW r \in Handler, Working(r) \/ D!AttachPending(r) \/ D!Return(r) PROVE KeptInv'
    <3>1. PICK L \in SUBSET Medium : Finishes(r, L) /\ (WaitingIsOwn => Keeps(r, L))
      BY <2>1, <2>3, RequestEnds
    <3> QED BY <2>1, <3>1, EndsKept DEF KeptInv
  <2>4. ASSUME NEW r \in Handler,
               D!Die(r) \/ (\E h \in Tab : D!Begin(r, h)) \/ (\E p \in NewPost, by \in {"autosaved", "saved"} : D!Save(r, p, by))
        PROVE  KeptInv'
    BY <2>1, <2>4, OtherKept DEF KeptInv
  <2> QED BY <2>2, <2>3, <2>4 DEF D!Next, Working
<1>3. KeptInv => D!ChosenIsKept
  BY DEF KeptInv
<1> QED BY <1>1, <1>2, <1>3, PTL DEF ChosenIsKept, D!Spec

-----------------------------------------------------------------------------
(***************************************************************************)
(* The media library                                                       *)
(***************************************************************************)
Place      == Folder \cup {"root"}
AssetRow   == [file : Nat, current : Nat, folder : Place,
               status : {"pending", "processing", "completed", "failed"}]
VersionRow == [file : Nat, sized : BOOLEAN]
FolderRow  == [parent : Place, name : Name]
PostRow    == [state : {"draft", "scheduled", "publishing"}, media : SUBSET Asset, cover : SUBSET Asset]

(* What a process may be doing.                                            *)
Sweeping   == [pc : {"next"}, left : SUBSET Asset]
Deleting   == [pc : {"files", "row"}, asset : Asset, rest : {Idle} \cup Sweeping]
Versioning == [pc : {"number", "point", "show"}, asset : Asset, last : Nat, file : Nat,
               restore : BOOLEAN, sized : BOOLEAN]
Queueing   == [pc : {"queue"}, task : {"process", "edit"} \X Asset \X Nat]
Processing == [pc : {"process"}, asset : Asset]
Editing    == [pc : {"edit"}, asset : Asset, n : Nat]
Collecting == [pc : {"json"}, spared : SUBSET Asset]
Making     == [pc : {"mkdir"}, new : Folder, parent : Place, name : Name]
Folding    == [pc : {"assets", "subs", "rmdir"}, folder : Folder, parent : Place]
MediaJob   == {Idle} \cup Sweeping \cup Deleting \cup Versioning \cup Queueing \cup Processing
                \cup Editing \cup Collecting \cup Making \cup Folding

MediaTypes ==
  /\ asset \in [Asset -> AssetRow \cup {New, Gone}]
  /\ version \in [Asset -> Seq(VersionRow)]
  /\ stored \in [Asset -> SUBSET Nat]
  /\ folder \in [Folder -> FolderRow \cup {New, Gone}]
  /\ post \in [Post -> PostRow]
  /\ job \in [Process -> MediaJob]

(* A row that is there is one, and of the right kind.                      *)
LEMMA MediaRows ==
  ASSUME MediaTypes
  PROVE  /\ \A a \in Asset : a \in Assets <=> asset[a] \in AssetRow
         /\ \A d \in Folder : d \in Folders <=> folder[d] \in FolderRow
         /\ New # Gone /\ Assets \subseteq Asset /\ Folders \subseteq Folder
<1>1. New # Gone /\ {New, Gone} \cap AssetRow = {} /\ {New, Gone} \cap FolderRow = {}
  BY DEF New, Gone, AssetRow, FolderRow
<1> HIDE DEF New, Gone
<1> QED BY <1>1 DEF MediaTypes, Assets, Folders

(* What is being done says its shape.                                      *)
LEMMA MediaJobs ==
  ASSUME MediaTypes, NEW p \in Process
  PROVE  /\ job[p] \in MediaJob
         /\ job[p].pc = "next" => job[p] \in Sweeping
         /\ job[p].pc \in {"files", "row"} => job[p] \in Deleting
         /\ job[p].pc \in {"number", "point", "show"} => job[p] \in Versioning
         /\ job[p].pc = "queue" => job[p] \in Queueing
         /\ job[p].pc = "process" => job[p] \in Processing
         /\ job[p].pc = "edit" => job[p] \in Editing
         /\ job[p].pc = "json" => job[p] \in Collecting
         /\ job[p].pc = "mkdir" => job[p] \in Making
         /\ job[p].pc \in {"assets", "subs", "rmdir"} => job[p] \in Folding
         /\ job[p] = Idle => job[p].pc = "idle"
<1>1. job[p] \in MediaJob
  BY DEF MediaTypes
<1> QED
  BY <1>1 DEF MediaJob, Sweeping, Deleting, Versioning, Queueing, Processing, Editing, Collecting,
              Making, Folding, Idle

(* A process goes on to something else.                                    *)
LEMMA MediaGoes ==
  ASSUME MediaTypes, NEW p \in Process, NEW j \in MediaJob, Goes(p, j)
  PROVE  job' \in [Process -> MediaJob] /\ job'[p] = j /\ \A q \in Process \ {p} : job'[q] = job[q]
BY DEF Goes, MediaTypes

(* The processes.                                                          *)
LEMMA MediaProcesses ==
  /\ "worker" \in Process /\ "cleanup" \in Process /\ "worker" # "cleanup"
  /\ \A w \in Web : w \in Process /\ w # "cleanup" /\ w # "worker"
BY MediaAssumption DEF Process

(* The steps that leave the jobs alone.                                    *)
LEMMA SimpleTyped ==
  ASSUME MediaTypes,
         \/ \E p \in Post : \/ \E a \in Asset : Attach(p, a) \/ Detach(p, a)
                            \/ \E S \in SUBSET Asset : Cover(p, S)
                            \/ \E s \in {"draft", "scheduled", "publishing"} : Turn(p, s)
         \/ \E d \in Folder, n \in Name : RenameFolder(d, n)
         \/ \E a \in Asset, d \in Folder \cup {"root"} : Move(a, d)
  PROVE  MediaTypes'
<1>1. ASSUME NEW p \in Post, NEW x \in PostRow, Composes([post EXCEPT ![p] = x]) PROVE MediaTypes'
  BY <1>1 DEF Composes, Rewrite, library, MediaTypes
<1>2. ASSUME NEW p \in Post, NEW a \in Asset, Attach(p, a) \/ Detach(p, a) PROVE MediaTypes'
  <2> DEFINE x == [post[p] EXCEPT !.media = @ \cup {a}]
             y == [post[p] EXCEPT !.media = @ \ {a}]
  <2>1. x \in PostRow /\ y \in PostRow
    BY DEF MediaTypes, PostRow
  <2>2. Composes([post EXCEPT ![p] = x]) \/ Composes([post EXCEPT ![p] = y])
    BY <1>2 DEF Attach, Detach
  <2> HIDE DEF x, y
  <2> QED BY <1>1, <2>1, <2>2
<1>3. ASSUME NEW p \in Post, NEW S \in SUBSET Asset, Cover(p, S) PROVE MediaTypes'
  <2> DEFINE x == [post[p] EXCEPT !.cover = S]
  <2>1. x \in PostRow
    BY DEF MediaTypes, PostRow
  <2>2. Composes([post EXCEPT ![p] = x])
    BY <1>3 DEF Cover
  <2> HIDE DEF x
  <2> QED BY <1>1, <2>1, <2>2
<1>4. ASSUME NEW p \in Post, NEW s \in {"draft", "scheduled", "publishing"}, Turn(p, s) PROVE MediaTypes'
  <2> DEFINE x == [post[p] EXCEPT !.state = s]
  <2>1. x \in PostRow
    BY DEF MediaTypes, PostRow
  <2>2. Composes([post EXCEPT ![p] = x])
    BY <1>4 DEF Turn
  <2> HIDE DEF x
  <2> QED BY <1>1, <2>1, <2>2
<1>5. ASSUME NEW d \in Folder, NEW n \in Name, RenameFolder(d, n) PROVE MediaTypes'
  <2> DEFINE x == [folder[d] EXCEPT !.name = n]
  <2>1. x \in FolderRow
    BY <1>5, MediaRows DEF RenameFolder, FolderRow
  <2>2. folder' = [folder EXCEPT ![d] = x] /\ UNCHANGED << asset, version, stored, post, job >>
    BY <1>5 DEF RenameFolder, library
  <2> HIDE DEF x
  <2> QED BY <2>1, <2>2 DEF MediaTypes
<1>6. ASSUME NEW a \in Asset, NEW d \in Folder \cup {"root"}, Move(a, d) PROVE MediaTypes'
  <2> DEFINE x == [asset[a] EXCEPT !.folder = d]
  <2>1. x \in AssetRow
    BY <1>6, MediaRows DEF Move, AssetRow, Place
  <2>2. asset' = [asset EXCEPT ![a] = x] /\ UNCHANGED << folder, version, stored, post, job >>
    BY <1>6 DEF Move
  <2> HIDE DEF x
  <2> QED BY <2>1, <2>2 DEF MediaTypes
<1> QED BY <1>2, <1>3, <1>4, <1>5, <1>6

(* The steps that begin something, or end it, and change nothing else that *)
(* has a type.                                                             *)
LEMMA BeginTyped ==
  ASSUME MediaTypes,
         \/ \E w \in Web : \/ Queue(w)
                           \/ \E a \in Asset : Edit(w, a) \/ Delete(w, a) \/ \E k \in 1 .. MaxVersions : Restore(w, a, k)
                           \/ \E d \in Folder : \/ DeleteFolder(w, d)
                                                \/ \E u \in Folder \cup {"root"}, n \in Name : CreateFolder(w, d, u, n)
         \/ Collect \/ Scan \/ Sweep
         \/ \E p \in Process : Crash(p)
         \/ \E a \in Asset, n \in 1 .. MaxVersions : TakeEdit(a, n)
  PROVE  MediaTypes'
<1>1. ASSUME NEW p \in Process, NEW j \in MediaJob, Goes(p, j), UNCHANGED << library, folder, post >>
      PROVE  MediaTypes'
  BY <1>1, MediaGoes DEF MediaTypes, library
<1>2. ASSUME NEW w \in Process, Queue(w) \/ Crash(w) PROVE MediaTypes'
  <2>1. Idle \in MediaJob
    BY DEF MediaJob
  <2> QED BY <1>1, <1>2, <2>1 DEF Queue, Crash
<1>3. ASSUME NEW w \in Web, NEW a \in Asset, Edit(w, a) PROVE MediaTypes'
  <2> DEFINE j == [pc |-> "number", asset |-> a, last |-> Len(version[a]), file |-> asset[a].file,
                   restore |-> FALSE, sized |-> FALSE]
  <2>1. asset[a].file \in Nat /\ Len(version[a]) \in Nat
    BY <1>3, MediaRows DEF Edit, AssetRow, MediaTypes
  <2>2. j \in MediaJob
    BY <2>1 DEF MediaJob, Versioning
  <2>3. Goes(w, j) /\ UNCHANGED << library, folder, post >>
    BY <1>3 DEF Edit, Begins
  <2> HIDE DEF j
  <2> QED BY <1>1, <2>2, <2>3, MediaProcesses
<1>4. ASSUME NEW w \in Web, NEW a \in Asset, NEW k \in 1 .. MaxVersions, Restore(w, a, k) PROVE MediaTypes'
  <2> DEFINE j == [pc |-> "number", asset |-> a, last |-> Len(version[a]), file |-> version[a][k].file,
                   restore |-> TRUE, sized |-> version[a][k].sized]
  <2>1. version[a][k] \in VersionRow /\ Len(version[a]) \in Nat
    BY <1>4 DEF Restore, MediaTypes
  <2>2. j \in MediaJob
    BY <2>1 DEF MediaJob, Versioning, VersionRow
  <2>3. Goes(w, j) /\ UNCHANGED << library, folder, post >>
    BY <1>4 DEF Restore, Begins
  <2> HIDE DEF j
  <2> QED BY <1>1, <2>2, <2>3, MediaProcesses
<1>5. ASSUME NEW p \in Process, NEW a \in Asset, NEW rest \in {Idle} \cup Sweeping, Doom(p, a, rest),
             UNCHANGED << library, folder, post >>
      PROVE  MediaTypes'
  <2> DEFINE j == [pc |-> "files", asset |-> a, rest |-> rest]
  <2>1. j \in MediaJob /\ rest \in MediaJob
    BY DEF MediaJob, Deleting
  <2>2. Goes(p, j) \/ Goes(p, rest)
    BY <1>5 DEF Doom
  <2> HIDE DEF j
  <2> QED BY <1>1, <1>5, <2>1, <2>2
<1>6. ASSUME NEW w \in Web, NEW a \in Asset, Delete(w, a) PROVE MediaTypes'
  BY <1>5, <1>6, MediaProcesses DEF Delete
<1>7. ASSUME NEW w \in Web, NEW d \in Folder, DeleteFolder(w, d) PROVE MediaTypes'
  <2> DEFINE j == [pc |-> "assets", folder |-> d, parent |-> folder[d].parent]
  <2>1. j \in MediaJob
    BY <1>7, MediaRows DEF DeleteFolder, MediaJob, Folding, FolderRow
  <2>2. Goes(w, j) /\ UNCHANGED << library, folder, post >>
    BY <1>7 DEF DeleteFolder, Begins
  <2> HIDE DEF j
  <2> QED BY <1>1, <2>1, <2>2, MediaProcesses
<1>8. ASSUME NEW w \in Web, NEW d \in Folder, NEW u \in Folder \cup {"root"}, NEW n \in Name, CreateFolder(w, d, u, n)
      PROVE  MediaTypes'
  <2> DEFINE j == [pc |-> "mkdir", new |-> d, parent |-> u, name |-> n]
  <2>1. j \in MediaJob
    BY DEF MediaJob, Making, Place
  <2>2. Goes(w, j) /\ UNCHANGED << library, folder, post >>
    BY <1>8 DEF CreateFolder, Begins
  <2> HIDE DEF j
  <2> QED BY <1>1, <2>1, <2>2, MediaProcesses
<1>9. CASE Collect
  <2> DEFINE j == [pc |-> "json", spared |-> Named(FK(post))]
  <2>1. Named(FK(post)) \subseteq Asset
    BY DEF Named, FK, MediaTypes, PostRow
  <2>2. j \in MediaJob
    BY <2>1 DEF MediaJob, Collecting
  <2>3. Goes("cleanup", j) /\ UNCHANGED << library, folder, post >>
    BY <1>9 DEF Collect, Begins
  <2> HIDE DEF j
  <2> QED BY <1>1, <2>2, <2>3, MediaProcesses
<1>10. CASE Scan
  <2>1. PICK S \in SUBSET Asset : Goes("cleanup", [pc |-> "next", left |-> S])
    <3>1. Orphans(job["cleanup"].spared) \subseteq Asset
      BY DEF Orphans, Assets
    <3> QED BY <1>10, <3>1 DEF Scan
  <2> DEFINE j == [pc |-> "next", left |-> S]
  <2>2. j \in MediaJob
    BY DEF MediaJob, Sweeping
  <2>3. Goes("cleanup", j) /\ UNCHANGED << library, folder, post >>
    BY <1>10, <2>1 DEF Scan
  <2> HIDE DEF j
  <2> QED BY <1>1, <2>2, <2>3, MediaProcesses
<1>11. CASE Sweep
  <2> DEFINE left == job["cleanup"].left  a == CHOOSE x \in left : TRUE
             j == [pc |-> "next", left |-> left \ {a}]
  <2>1. left \in SUBSET Asset
    BY <1>11, MediaJobs, MediaProcesses DEF Sweep, Sweeping
  <2>2. CASE left = {}
    <3>1. Idle \in MediaJob
      BY DEF MediaJob
    <3> QED BY <1>1, <1>11, <2>2, <3>1, MediaProcesses DEF Sweep
  <2>3. CASE left # {}
    <3>1. a \in Asset
      BY <2>1, <2>3
    <3>2. j \in Sweeping
      BY <2>1 DEF Sweeping
    <3>3. Doom("cleanup", a, j) /\ UNCHANGED << library, folder, post >>
      BY <1>11, <2>3 DEF Sweep
    <3> HIDE DEF a, j
    <3> QED BY <1>5, <3>1, <3>2, <3>3, MediaProcesses
  <2> QED BY <2>2, <2>3
<1>12. ASSUME NEW a \in Asset, NEW n \in 1 .. MaxVersions, TakeEdit(a, n) PROVE MediaTypes'
  <2> DEFINE j == [pc |-> "edit", asset |-> a, n |-> n]
  <2>1. j \in MediaJob /\ Idle \in MediaJob
    BY DEF MediaJob, Editing
  <2>2. (Goes("worker", j) \/ Goes("worker", Idle)) /\ UNCHANGED << library, folder, post >>
    BY <1>12 DEF TakeEdit, Ends
  <2> HIDE DEF j
  <2> QED BY <1>1, <2>1, <2>2, MediaProcesses
<1> QED BY <1>2, <1>3, <1>4, <1>6, <1>7, <1>8, <1>9, <1>10, <1>11, <1>12, MediaProcesses

(* The steps that write assets, versions and files.                        *)
LEMMA WriteTyped ==
  ASSUME MediaTypes,
         \/ \E w \in Web : \/ Number(w) \/ Point(w) \/ Show(w)
                           \/ \E a \in Asset, d \in Folder \cup {"root"} : Upload(w, a, d)
         \/ Processed \/ EditDone \/ \E a \in Asset : Take(a)
         \/ \E p \in Process : RemoveFiles(p) \/ RemoveRow(p)
  PROVE  MediaTypes'
<1>1. ASSUME NEW w \in Web, NEW a \in Asset, NEW d \in Place, Upload(w, a, d) PROVE MediaTypes'
  <2> DEFINE x == Uploaded(d, "pending")
             j == [pc |-> "queue", task |-> << "process", a, 0 >>]
  <2>1. x \in AssetRow /\ j \in MediaJob
    BY DEF Uploaded, AssetRow, MediaJob, Queueing
  <2>2. /\ asset' = [asset EXCEPT ![a] = x] /\ stored' = [stored EXCEPT ![a] = {0}] /\ Goes(w, j)
        /\ UNCHANGED << version, folder, post >>
    BY <1>1 DEF Upload, Begins
  <2> HIDE DEF x, j
  <2> QED BY <2>1, <2>2, MediaGoes, MediaProcesses DEF MediaTypes
<1>2. ASSUME NEW a \in Asset, Take(a) PROVE MediaTypes'
  <2> DEFINE x == [asset[a] EXCEPT !.status = "processing"]
             j == [pc |-> "process", asset |-> a]
  <2>1. j \in MediaJob /\ Idle \in MediaJob /\ (a \in Assets => x \in AssetRow)
    BY MediaRows DEF MediaJob, Processing, AssetRow
  <2>2. /\ \/ a \in Assets /\ asset' = [asset EXCEPT ![a] = x] /\ Goes("worker", j)
           \/ asset' = asset /\ Goes("worker", Idle)
        /\ UNCHANGED << version, stored, folder, post >>
    BY <1>2 DEF Take, Ends
  <2> HIDE DEF x, j
  <2> QED BY <2>1, <2>2, MediaGoes, MediaProcesses DEF MediaTypes
<1>3. CASE Processed
  <2> DEFINE a == job["worker"].asset
             x(ok) == [asset[a] EXCEPT !.status = Outcome(ok, @)]
  <2>1. a \in Asset /\ Idle \in MediaJob
    BY <1>3, MediaJobs, MediaProcesses DEF Processed, Processing, MediaJob
  <2>2. a \in Assets => x(TRUE) \in AssetRow /\ x(FALSE) \in AssetRow
    BY <2>1, MediaRows DEF AssetRow, Outcome
  <2>3. /\ \/ asset' = asset
           \/ a \in Assets /\ (asset' = [asset EXCEPT ![a] = x(TRUE)] \/ asset' = [asset EXCEPT ![a] = x(FALSE)])
        /\ Goes("worker", Idle) /\ UNCHANGED << version, stored, folder, post >>
    BY <1>3 DEF Processed, Ends
  <2> HIDE DEF x, a
  <2> QED BY <2>1, <2>2, <2>3, MediaGoes, MediaProcesses DEF MediaTypes
<1>4. CASE EditDone
  <2> DEFINE a == job["worker"].asset  n == job["worker"].n
             v == [file |-> n, sized |-> TRUE]
             x == [version[a] EXCEPT ![n] = v]
  <2>1. a \in Asset /\ n \in Nat /\ Idle \in MediaJob
    BY <1>4, MediaJobs, MediaProcesses DEF EditDone, Editing, MediaJob
  <2>2. v \in VersionRow
    BY <2>1 DEF VersionRow
  <2>3. /\ \/ version' = version /\ stored' = stored
           \/ /\ version' = [version EXCEPT ![a] = x]
              /\ stored' = [stored EXCEPT ![a] = stored[a] \cup {n}]
        /\ Goes("worker", Idle) /\ UNCHANGED << asset, folder, post >>
    BY <1>4 DEF EditDone, Ends, Edited
  <2> HIDE DEF v, a, n
  <2>4. x \in Seq(VersionRow)
    <3>1. version[a] \in Seq(VersionRow)
      BY <2>1 DEF MediaTypes
    <3>2. CASE n \in 1 .. Len(version[a])
      BY <2>2, <3>1, <3>2, ExceptSeq
    <3>3. CASE n \notin 1 .. Len(version[a])
      <4>1. x = version[a]
        BY <3>1, <3>3
      <4> QED BY <3>1, <4>1
    <3> QED BY <3>2, <3>3
  <2>5. stored' \in [Asset -> SUBSET Nat]
    <3>1. stored[a] \cup {n} \in SUBSET Nat
      BY <2>1 DEF MediaTypes
    <3> QED BY <2>3, <3>1 DEF MediaTypes
  <2> HIDE DEF x
  <2>6. version' \in [Asset -> Seq(VersionRow)]
    BY <2>3, <2>4 DEF MediaTypes
  <2> QED BY <2>1, <2>3, <2>5, <2>6, MediaGoes, MediaProcesses DEF MediaTypes
<1>5. ASSUME NEW w \in Web, Number(w) PROVE MediaTypes'
  <2> DEFINE a == job[w].asset
             v == [file |-> job[w].file, sized |-> FALSE]
             j == [job[w] EXCEPT !.pc = "point"]
  <2>1. job[w] \in Versioning
    BY <1>5, MediaJobs, MediaProcesses DEF Number
  <2>2. a \in Asset /\ v \in VersionRow /\ j \in MediaJob /\ Idle \in MediaJob
    BY <2>1 DEF Versioning, VersionRow, MediaJob
  <2>3. /\ \/ version' = version /\ Goes(w, Idle)
           \/ version' = [version EXCEPT ![a] = Append(version[a], v)] /\ Goes(w, j)
        /\ UNCHANGED << asset, stored, folder, post >>
    BY <1>5 DEF Number
  <2> HIDE DEF v, j, a
  <2>4. Append(version[a], v) \in Seq(VersionRow)
    BY <2>2 DEF MediaTypes
  <2> QED BY <2>2, <2>3, <2>4, MediaGoes, MediaProcesses DEF MediaTypes
<1>6. ASSUME NEW w \in Web, Point(w) PROVE MediaTypes'
  <2> DEFINE a == job[w].asset  n == job[w].last + 1
             x == [asset[a] EXCEPT !.current = n]
             j == [job[w] EXCEPT !.pc = "show"]
             k == [pc |-> "queue", task |-> << "edit", a, n >>]
  <2>1. job[w] \in Versioning
    BY <1>6, MediaJobs, MediaProcesses DEF Point
  <2>2. a \in Asset /\ n \in Nat /\ j \in MediaJob /\ k \in MediaJob /\ Idle \in MediaJob
    BY <2>1 DEF Versioning, MediaJob, Queueing
  <2>3. a \in Assets => x \in AssetRow
    BY <2>2, MediaRows DEF AssetRow
  <2>4. /\ \/ asset' = asset /\ Goes(w, Idle)
           \/ a \in Assets /\ asset' = [asset EXCEPT ![a] = x] /\ (Goes(w, j) \/ Goes(w, k))
        /\ UNCHANGED << version, stored, folder, post >>
    BY <1>6 DEF Point
  <2> HIDE DEF x, j, k, a, n
  <2> QED BY <2>2, <2>3, <2>4, MediaGoes, MediaProcesses DEF MediaTypes
<1>7. ASSUME NEW w \in Web, Show(w) PROVE MediaTypes'
  <2> DEFINE a == job[w].asset
             x == [asset[a] EXCEPT !.file = job[w].file]
  <2>1. job[w] \in Versioning
    BY <1>7, MediaJobs, MediaProcesses DEF Show
  <2>2. a \in Asset /\ job[w].file \in Nat /\ Idle \in MediaJob
    BY <2>1 DEF Versioning, MediaJob
  <2>3. a \in Assets => x \in AssetRow
    BY <2>2, MediaRows DEF AssetRow
  <2>4. /\ asset' = asset \/ (a \in Assets /\ asset' = [asset EXCEPT ![a] = x])
        /\ Goes(w, Idle) /\ UNCHANGED << version, stored, folder, post >>
    BY <1>7 DEF Show
  <2> HIDE DEF x, a
  <2> QED BY <2>2, <2>3, <2>4, MediaGoes, MediaProcesses DEF MediaTypes
<1>8. ASSUME NEW p \in Process, RemoveFiles(p) PROVE MediaTypes'
  <2> DEFINE j == [job[p] EXCEPT !.pc = "row"]
  <2>1. job[p] \in Deleting
    BY <1>8, MediaJobs DEF RemoveFiles
  <2>2. j \in MediaJob
    BY <2>1 DEF Deleting, MediaJob
  <2>3. stored' \in [Asset -> SUBSET Nat]
    BY <1>8, <2>1 DEF RemoveFiles, Deleting, MediaTypes
  <2>4. Goes(p, j) /\ UNCHANGED << asset, version, folder, post >>
    BY <1>8 DEF RemoveFiles
  <2> HIDE DEF j
  <2> QED BY <2>2, <2>3, <2>4, MediaGoes DEF MediaTypes
<1>9. ASSUME NEW p \in Process, RemoveRow(p) PROVE MediaTypes'
  <2> DEFINE a == job[p].asset
  <2>1. a \in Asset /\ job[p].rest \in MediaJob
    BY <1>9, MediaJobs DEF RemoveRow, Deleting, MediaJob
  <2>2. post' \in [Post -> PostRow]
    <3>1. \A q \in Post : [post[q] EXCEPT !.media = @ \ {a}] \in PostRow
      BY DEF MediaTypes, PostRow
    <3> QED BY <1>9, <3>1 DEF RemoveRow, Rewrite
  <2>3. << >> \in Seq(VersionRow)
    OBVIOUS
  <2>4. /\ asset' = [asset EXCEPT ![a] = Gone] /\ version' = [version EXCEPT ![a] = << >>]
        /\ Goes(p, job[p].rest) /\ UNCHANGED << stored, folder >>
    BY <1>9 DEF RemoveRow
  <2> HIDE DEF a
  <2> QED BY <2>1, <2>2, <2>3, <2>4, MediaGoes DEF MediaTypes
<1> QED BY <1>1, <1>2, <1>3, <1>4, <1>5, <1>6, <1>7, <1>8, <1>9 DEF Place

(* The steps on folders.                                                   *)
LEMMA FolderTyped ==
  ASSUME MediaTypes, NEW w \in Web, MakeFolder(w) \/ MoveAssets(w) \/ MoveFolders(w) \/ RemoveFolder(w)
  PROVE  MediaTypes'
<1>0. Idle \in MediaJob
  BY DEF MediaJob
<1>1. CASE MakeFolder(w)
  <2> DEFINE d == job[w].new  x == [parent |-> job[w].parent, name |-> job[w].name]
  <2>1. d \in Folder /\ x \in FolderRow
    BY <1>1, MediaJobs, MediaProcesses DEF MakeFolder, Making, FolderRow
  <2>2. /\ folder' = folder \/ folder' = [folder EXCEPT ![d] = x]
        /\ Goes(w, Idle) /\ UNCHANGED << asset, version, stored, post >>
    BY <1>1 DEF MakeFolder, library
  <2> HIDE DEF d, x
  <2> QED BY <1>0, <2>1, <2>2, MediaGoes, MediaProcesses DEF MediaTypes
<1>2. CASE MoveAssets(w)
  <2> DEFINE up == job[w].parent  j == [job[w] EXCEPT !.pc = "subs"]
             In == {a \in Assets : asset[a].folder = job[w].folder}
  <2>1. job[w] \in Folding
    BY <1>2, MediaJobs, MediaProcesses DEF MoveAssets
  <2>2. j \in MediaJob /\ up \in Place
    BY <2>1 DEF Folding, MediaJob
  <2>3. \A a \in In : a \in Asset /\ [asset[a] EXCEPT !.folder = up] \in AssetRow
    BY <2>2, MediaRows DEF AssetRow
  <2>4. /\ \/ asset' = asset /\ Goes(w, Idle)
           \/ /\ asset' = [a \in Asset |-> IF a \in In THEN [asset[a] EXCEPT !.folder = up] ELSE asset[a]]
              /\ Goes(w, j)
        /\ UNCHANGED << version, stored, folder, post >>
    BY <1>2 DEF MoveAssets
  <2> HIDE DEF up, j, In
  <2>5. asset' \in [Asset -> AssetRow \cup {New, Gone}]
    <3>1. CASE asset' = asset
      BY <3>1 DEF MediaTypes
    <3>2. CASE asset' = [a \in Asset |-> IF a \in In THEN [asset[a] EXCEPT !.folder = up] ELSE asset[a]]
      <4>1. \A a \in Asset : (IF a \in In THEN [asset[a] EXCEPT !.folder = up] ELSE asset[a])
                               \in AssetRow \cup {New, Gone}
        BY <2>3 DEF MediaTypes
      <4> QED BY <3>2, <4>1
    <3> QED BY <2>4, <3>1, <3>2
  <2> QED BY <1>0, <2>2, <2>4, <2>5, MediaGoes, MediaProcesses DEF MediaTypes
<1>3. CASE MoveFolders(w)
  <2> DEFINE d == job[w].folder  up == job[w].parent  j == [job[w] EXCEPT !.pc = "rmdir"]
  <2>1. job[w] \in Folding
    BY <1>3, MediaJobs, MediaProcesses DEF MoveFolders
  <2>2. j \in MediaJob /\ up \in Place
    BY <2>1 DEF Folding, MediaJob
  <2>3. \A e \in Folders : e \in Folder /\ [folder[e] EXCEPT !.parent = up] \in FolderRow
    BY <2>2, MediaRows DEF FolderRow
  <2>4. Lifted(d, up) \in [Folder -> FolderRow \cup {New, Gone}]
    BY <2>3 DEF Lifted, MediaTypes
  <2>5. /\ (folder' = folder /\ Goes(w, Idle)) \/ (folder' = Lifted(d, up) /\ Goes(w, j))
        /\ UNCHANGED << asset, version, stored, post >>
    BY <1>3 DEF MoveFolders, library
  <2> HIDE DEF d, up, j
  <2> QED BY <1>0, <2>2, <2>4, <2>5, MediaGoes, MediaProcesses DEF MediaTypes
<1>4. CASE RemoveFolder(w)
  <2>1. PICK Down : /\ folder' = [e \in Folder |-> IF e \in Down THEN Gone ELSE folder[e]]
                    /\ asset' = [a \in Asset |-> IF a \in Assets /\ asset[a].folder \in Down
                                                 THEN [asset[a] EXCEPT !.folder = "root"] ELSE asset[a]]
    BY <1>4 DEF RemoveFolder
  <2>2. \A a \in Assets : a \in Asset /\ [asset[a] EXCEPT !.folder = "root"] \in AssetRow
    BY MediaRows DEF AssetRow, Place
  <2>3. asset' \in [Asset -> AssetRow \cup {New, Gone}]
    BY <2>1, <2>2 DEF MediaTypes
  <2>4. folder' \in [Folder -> FolderRow \cup {New, Gone}]
    BY <2>1 DEF MediaTypes
  <2>5. Goes(w, Idle) /\ UNCHANGED << version, stored, post >>
    BY <1>4 DEF RemoveFolder
  <2> QED BY <1>0, <2>3, <2>4, <2>5, MediaGoes, MediaProcesses DEF MediaTypes
<1> QED BY <1>1, <1>2, <1>3, <1>4

(* Every row and every job keeps its type.                                 *)
LEMMA MediaTyped ==
  ASSUME MediaTypes, [Next]_vars
  PROVE  MediaTypes'
<1>1. CASE UNCHANGED vars
  BY <1>1 DEF vars, library, MediaTypes
<1> QED BY <1>1, SimpleTyped, BeginTyped, WriteTyped, FolderTyped DEF Next, WorkerStep

(* A process that deletes has its asset doomed, and one that makes a       *)
(* version works on an asset that was made, with a file the asset has      *)
(* unless it is doomed.                                                    *)
Fits(q) ==
  /\ job[q].pc \in {"files", "row"} => job[q].asset \in doomed
  /\ job[q].pc \in {"number", "point", "show"} =>
       /\ asset[job[q].asset] # New
       /\ job[q].asset \in doomed \/ job[q].file \in stored[job[q].asset]

FilesInv ==
  /\ VersionsKeepFiles
  /\ \A a \in Asset : asset[a] = New => version[a] = << >>
  /\ \A q \in Process : Fits(q)

(* A step that makes no asset unmade, takes files only of doomed assets,   *)
(* and leaves the processes it moves in a fitting place.                   *)
FilesGrow ==
  /\ doomed \subseteq doomed'
  /\ \A a \in Asset : asset[a] # New => asset'[a] # New /\ (a \in doomed' \/ stored[a] \subseteq stored'[a])
  /\ \A a \in Asset : asset'[a] = New => version'[a] = << >>
  /\ VersionsKeepFiles'

(* Such a step keeps the invariant.                                        *)
LEMMA FilesStep ==
  ASSUME MediaTypes, FilesInv, FilesGrow, \A q \in Process : job'[q] = job[q] \/ Fits(q)'
  PROVE  FilesInv'
<1> SUFFICES ASSUME NEW q \in Process, job'[q] = job[q] PROVE Fits(q)'
  BY DEF FilesInv, FilesGrow
<1>1. Fits(q) /\ (job[q].pc \in {"number", "point", "show"} => job[q].asset \in Asset)
  BY MediaJobs DEF FilesInv, Versioning
<1> QED BY <1>1 DEF Fits, FilesGrow

(* Assets that keep their files, their versions and the versions' files.   *)
LEMMA FilesQuiet ==
  ASSUME MediaTypes, FilesInv, doomed \subseteq doomed', version' = version, stored' = stored,
         \A a \in Asset : \/ asset'[a] = asset[a]
                          \/ /\ asset[a] \in AssetRow /\ asset'[a] \in AssetRow
                             /\ asset'[a].file = asset[a].file
  PROVE  FilesGrow
<1>1. New # Gone /\ {New, Gone} \cap AssetRow = {}
  BY DEF New, Gone, AssetRow
<1>2. \A a \in Asset : /\ asset'[a] = New <=> asset[a] = New
                       /\ asset'[a] = Gone <=> asset[a] = Gone
                       /\ asset[a] \in AssetRow => asset'[a].file = asset[a].file
  BY <1>1
<1>3. \A a \in Assets' \ doomed' : a \in Assets \ doomed /\ asset'[a].file = asset[a].file
  BY <1>2, MediaRows DEF Assets
<1> QED BY <1>2, <1>3 DEF FilesInv, FilesGrow, VersionsKeepFiles

(* The steps that touch no file and make no version.                       *)
LEMMA QuietFiles ==
  ASSUME MediaTypes, FilesInv,
         \/ \E p \in Post : \/ \E a \in Asset : Attach(p, a) \/ Detach(p, a)
                            \/ \E S \in SUBSET Asset : Cover(p, S)
                            \/ \E s \in {"draft", "scheduled", "publishing"} : Turn(p, s)
         \/ \E d \in Folder, n \in Name : RenameFolder(d, n)
         \/ \E w \in Web : \/ Queue(w)
                           \/ \E d \in Folder : \/ DeleteFolder(w, d)
                                                \/ \E u \in Folder \cup {"root"}, n \in Name : CreateFolder(w, d, u, n)
                           \/ MakeFolder(w) \/ MoveFolders(w)
         \/ Collect \/ Scan
         \/ \E p \in Process : Crash(p)
         \/ \E a \in Asset, n \in 1 .. MaxVersions : TakeEdit(a, n)
  PROVE  FilesInv'
<1> USE DEF library, ghosts
<1>1. doomed' = doomed /\ UNCHANGED << asset, version, stored >>
  BY DEF Attach, Detach, Cover, Turn, Composes, Rewrite, RenameFolder, Queue, DeleteFolder, CreateFolder,
         MakeFolder, MoveFolders, Collect, Scan, Crash, TakeEdit
<1>2. FilesGrow
  BY <1>1, FilesQuiet
<1>3. CASE job' = job
  BY <1>2, <1>3, FilesStep
<1>4. ASSUME NEW p \in Process, NEW j, Goes(p, j), j.pc \notin {"files", "row", "number", "point", "show"}
      PROVE  FilesInv'
  <2>1. job'[p] = j /\ \A q \in Process \ {p} : job'[q] = job[q]
    BY <1>4 DEF Goes, MediaTypes
  <2>2. Fits(p)'
    BY <1>4, <2>1 DEF Fits
  <2> QED BY <1>2, <2>1, <2>2, FilesStep
<1>5. job' = job \/ \E p \in Process : \E j : Goes(p, j) /\ j.pc \notin {"files", "row", "number", "point", "show"}
  <2>1. Idle.pc = "idle"
    BY DEF Idle
  <2>2. ASSUME NEW w \in Process, Queue(w) \/ Crash(w) \/ MakeFolder(w) PROVE <1>5
    BY <2>1, <2>2 DEF Queue, Crash, MakeFolder
  <2>3. ASSUME NEW w \in Process, NEW d \in Folder, DeleteFolder(w, d) PROVE <1>5
    <3> DEFINE j == [pc |-> "assets", folder |-> d, parent |-> folder[d].parent]
    <3>1. Goes(w, j) /\ j.pc = "assets"
      BY <2>3 DEF DeleteFolder, Begins
    <3> QED BY <3>1
  <2>4. ASSUME NEW w \in Process, NEW d \in Folder, NEW u \in Folder \cup {"root"}, NEW n \in Name, CreateFolder(w, d, u, n)
        PROVE  <1>5
    <3> DEFINE j == [pc |-> "mkdir", new |-> d, parent |-> u, name |-> n]
    <3>1. Goes(w, j) /\ j.pc = "mkdir"
      BY <2>4 DEF CreateFolder, Begins
    <3> QED BY <3>1
  <2>5. ASSUME NEW w \in Process, MoveFolders(w) PROVE <1>5
    <3> DEFINE j == [job[w] EXCEPT !.pc = "rmdir"]
    <3>1. j.pc = "rmdir" /\ (Goes(w, j) \/ Goes(w, Idle))
      BY <2>5, MediaJobs DEF MoveFolders, Folding
    <3> HIDE DEF j
    <3> QED BY <2>1, <3>1
  <2>6. CASE Collect
    <3> DEFINE j == [pc |-> "json", spared |-> Named(FK(post))]
    <3>1. Goes("cleanup", j) /\ j.pc = "json"
      BY <2>6 DEF Collect, Begins
    <3> QED BY <3>1, MediaProcesses
  <2>7. CASE Scan
    <3>1. PICK S \in SUBSET Orphans(job["cleanup"].spared) : Goes("cleanup", [pc |-> "next", left |-> S])
      BY <2>7 DEF Scan
    <3> DEFINE j == [pc |-> "next", left |-> S]
    <3>2. Goes("cleanup", j) /\ j.pc = "next"
      BY <3>1
    <3> QED BY <3>2, MediaProcesses
  <2>8. ASSUME NEW a \in Asset, NEW n \in 1 .. MaxVersions, TakeEdit(a, n) PROVE <1>5
    <3> DEFINE j == [pc |-> "edit", asset |-> a, n |-> n]
    <3>1. j.pc = "edit" /\ (Goes("worker", j) \/ Goes("worker", Idle))
      BY <2>8 DEF TakeEdit, Ends
    <3> HIDE DEF j
    <3> QED BY <2>1, <3>1, MediaProcesses
  <2> QED BY <2>2, <2>3, <2>4, <2>5, <2>6, <2>7, <2>8, MediaProcesses
          DEF Attach, Detach, Cover, Turn, Composes, RenameFolder
<1> QED BY <1>3, <1>4, <1>5

(* A process goes on, to anything.                                         *)
LEMMA MediaWent ==
  ASSUME MediaTypes, NEW p \in Process, NEW j, Goes(p, j)
  PROVE  job'[p] = j /\ \A q \in Process \ {p} : job'[q] = job[q]
BY DEF Goes, MediaTypes

(* An asset's row is left alone, or rewritten but for its file.            *)
KeepsRow(a) == \/ asset'[a] = asset[a]
               \/ /\ asset[a] \in AssetRow /\ asset'[a] \in AssetRow
                  /\ asset'[a].file = asset[a].file

(* The steps that rewrite an asset's row, but not its file.                *)
LEMMA RowsRewritten ==
  ASSUME MediaTypes,
         \/ \E a \in Asset, d \in Folder \cup {"root"} : Move(a, d)
         \/ \E w \in Web : Point(w) \/ MoveAssets(w) \/ RemoveFolder(w)
         \/ Processed \/ \E a \in Asset : Take(a)
  PROVE  \A b \in Asset : KeepsRow(b)
<1>0. \A a \in Assets : a \in Asset /\ asset[a] \in AssetRow
  BY MediaRows
<1>1. ASSUME NEW a \in Asset, NEW x, asset' = [asset EXCEPT ![a] = x], a \in Assets,
             x \in AssetRow, x.file = asset[a].file
      PROVE  \A b \in Asset : KeepsRow(b)
  BY <1>0, <1>1 DEF MediaTypes, KeepsRow
<1>2. ASSUME NEW a \in Asset, NEW d \in Folder \cup {"root"}, Move(a, d) PROVE \A b \in Asset : KeepsRow(b)
  <2> DEFINE x == [asset[a] EXCEPT !.folder = d]
  <2>1. x \in AssetRow /\ x.file = asset[a].file /\ a \in Assets /\ asset' = [asset EXCEPT ![a] = x]
    BY <1>0, <1>2 DEF Move, AssetRow, Place
  <2> HIDE DEF x
  <2> QED BY <1>1, <2>1
<1>3. ASSUME NEW w \in Web, Point(w) PROVE \A b \in Asset : KeepsRow(b)
  <2> DEFINE a == job[w].asset  n == job[w].last + 1  x == [asset[a] EXCEPT !.current = n]
  <2>1. n \in Nat /\ a \in Asset
    BY <1>3, MediaJobs, MediaProcesses DEF Point, Versioning
  <2>2. a \in Assets => x \in AssetRow /\ x.file = asset[a].file
    BY <1>0, <2>1 DEF AssetRow
  <2>3. asset' = asset \/ (a \in Assets /\ asset' = [asset EXCEPT ![a] = x])
    BY <1>3 DEF Point
  <2> HIDE DEF x, a
  <2> QED BY <1>1, <2>1, <2>2, <2>3 DEF KeepsRow
<1>4. ASSUME NEW w \in Web, MoveAssets(w) PROVE \A b \in Asset : KeepsRow(b)
  <2> DEFINE up == job[w].parent  In == {a \in Assets : asset[a].folder = job[w].folder}
  <2>1. up \in Place
    BY <1>4, MediaJobs, MediaProcesses DEF MoveAssets, Folding
  <2>2. \A a \in In : [asset[a] EXCEPT !.folder = up] \in AssetRow /\ [asset[a] EXCEPT !.folder = up].file = asset[a].file
    BY <1>0, <2>1 DEF AssetRow
  <2>3. \/ asset' = asset
        \/ asset' = [a \in Asset |-> IF a \in In THEN [asset[a] EXCEPT !.folder = up] ELSE asset[a]]
    BY <1>4 DEF MoveAssets
  <2>4. In \subseteq Assets
    OBVIOUS
  <2> HIDE DEF up, In
  <2> QED BY <1>0, <2>2, <2>3, <2>4 DEF KeepsRow
<1>5. ASSUME NEW w \in Web, RemoveFolder(w) PROVE \A b \in Asset : KeepsRow(b)
  <2>1. PICK Down : asset' = [a \in Asset |-> IF a \in Assets /\ asset[a].folder \in Down
                                              THEN [asset[a] EXCEPT !.folder = "root"] ELSE asset[a]]
    BY <1>5 DEF RemoveFolder
  <2>2. \A a \in Assets : [asset[a] EXCEPT !.folder = "root"] \in AssetRow /\ [asset[a] EXCEPT !.folder = "root"].file = asset[a].file
    BY <1>0 DEF AssetRow, Place
  <2> QED BY <1>0, <2>1, <2>2 DEF KeepsRow
<1>6. CASE Processed
  <2> DEFINE a == job["worker"].asset
             x(ok) == [asset[a] EXCEPT !.status = Outcome(ok, @)]
  <2>1. a \in Asset
    BY <1>6, MediaJobs, MediaProcesses DEF Processed, Processing
  <2>2. a \in Assets => /\ x(TRUE) \in AssetRow /\ x(TRUE).file = asset[a].file
                        /\ x(FALSE) \in AssetRow /\ x(FALSE).file = asset[a].file
    BY <1>0, <2>1 DEF AssetRow, Outcome
  <2>3. \/ asset' = asset
        \/ a \in Assets /\ (asset' = [asset EXCEPT ![a] = x(TRUE)] \/ asset' = [asset EXCEPT ![a] = x(FALSE)])
    BY <1>6 DEF Processed
  <2> HIDE DEF x, a
  <2> QED BY <1>1, <2>1, <2>2, <2>3 DEF KeepsRow
<1>7. ASSUME NEW a \in Asset, Take(a) PROVE \A b \in Asset : KeepsRow(b)
  <2> DEFINE x == [asset[a] EXCEPT !.status = "processing"]
  <2>1. a \in Assets => x \in AssetRow /\ x.file = asset[a].file
    BY <1>0 DEF AssetRow
  <2>2. asset' = asset \/ (a \in Assets /\ asset' = [asset EXCEPT ![a] = x])
    BY <1>7 DEF Take
  <2> HIDE DEF x
  <2> QED BY <1>1, <2>1, <2>2 DEF KeepsRow
<1> QED BY <1>2, <1>3, <1>4, <1>5, <1>6, <1>7

(* So these steps keep the files.                                          *)
LEMMA RowFiles ==
  ASSUME MediaTypes, MediaTypes', FilesInv,
         \/ \E a \in Asset, d \in Folder \cup {"root"} : Move(a, d)
         \/ \E w \in Web : Point(w) \/ MoveAssets(w) \/ RemoveFolder(w)
         \/ Processed \/ \E a \in Asset : Take(a)
  PROVE  FilesInv'
<1> USE DEF library, ghosts
<1>0. Idle.pc = "idle" /\ \A a \in Assets : a \in Asset /\ asset[a] \in AssetRow
  BY MediaRows DEF Idle
<1>1. doomed' = doomed /\ UNCHANGED << version, stored >>
  BY DEF Move, Point, MoveAssets, RemoveFolder, Processed, Take
<1>2. \A a \in Asset : KeepsRow(a)
  BY RowsRewritten
<1>3. FilesGrow
  BY <1>1, <1>2, FilesQuiet DEF KeepsRow
<1>4. ASSUME NEW p \in Process, NEW j, Goes(p, j), j.pc \notin {"files", "row", "number", "point", "show"}
      PROVE  FilesInv'
  <2>1. job'[p] = j /\ \A q \in Process \ {p} : job'[q] = job[q]
    BY <1>4, MediaWent
  <2>2. Fits(p)'
    BY <1>4, <2>1 DEF Fits
  <2> QED BY <1>3, <2>1, <2>2, FilesStep
<1>5. ASSUME NEW a \in Asset, NEW d \in Folder \cup {"root"}, Move(a, d) PROVE FilesInv'
  BY <1>3, <1>5, FilesStep DEF Move
<1>6. ASSUME NEW w \in Process, RemoveFolder(w) \/ Processed PROVE FilesInv'
  BY <1>0, <1>4, <1>6, MediaProcesses DEF RemoveFolder, Processed, Ends
<1>7. ASSUME NEW w \in Process, MoveAssets(w) PROVE FilesInv'
  <2> DEFINE j == [job[w] EXCEPT !.pc = "subs"]
  <2>1. j.pc = "subs" /\ (Goes(w, j) \/ Goes(w, Idle))
    BY <1>7, MediaJobs DEF MoveAssets, Folding
  <2> HIDE DEF j
  <2> QED BY <1>0, <1>4, <2>1
<1>8. ASSUME NEW a \in Asset, Take(a) PROVE FilesInv'
  <2> DEFINE j == [pc |-> "process", asset |-> a]
  <2>1. j.pc = "process" /\ (Goes("worker", j) \/ Goes("worker", Idle))
    BY <1>8 DEF Take, Ends
  <2> HIDE DEF j
  <2> QED BY <1>0, <1>4, <2>1, MediaProcesses
<1>9. ASSUME NEW w \in Process, Point(w) PROVE FilesInv'
  <2> DEFINE a == job[w].asset  n == job[w].last + 1
             j == [job[w] EXCEPT !.pc = "show"]
             k == [pc |-> "queue", task |-> << "edit", a, n >>]
  <2>1. job[w] \in Versioning
    BY <1>9, MediaJobs DEF Point
  <2>2. j.pc = "show" /\ j.asset = a /\ j.file = job[w].file /\ k.pc = "queue" /\ a \in Asset
    BY <2>1 DEF Versioning
  <2>3. Goes(w, Idle) \/ Goes(w, j) \/ Goes(w, k)
    BY <1>9 DEF Point
  <2>4. Fits(w) /\ job[w].pc = "point"
    BY <1>9 DEF Point, FilesInv
  <2> HIDE DEF j, k, a
  <2>5. CASE Goes(w, j)
    <3>1. job'[w] = j /\ \A q \in Process \ {w} : job'[q] = job[q]
      BY <2>5, MediaWent
    <3>2. Fits(w)'
      BY <1>3, <2>2, <2>4, <3>1 DEF Fits, FilesGrow, a
    <3> QED BY <1>3, <3>1, <3>2, FilesStep
  <2> QED BY <1>0, <1>4, <2>2, <2>3, <2>5
<1> QED BY <1>5, <1>6, <1>7, <1>8, <1>9, MediaProcesses

(* The requests that make a version: with a file the asset has.            *)
LEMMA VersionFiles ==
  ASSUME MediaTypes, MediaTypes', FilesInv, NEW w \in Process,
         \/ \E a \in Asset : Edit(w, a) \/ \E k \in 1 .. MaxVersions : Restore(w, a, k)
         \/ Number(w) \/ Show(w)
  PROVE  FilesInv'
<1> USE DEF library, ghosts
<1>0. Idle.pc = "idle" /\ New # Gone /\ New \notin AssetRow /\ Gone \notin AssetRow
  BY DEF Idle, New, Gone, AssetRow
<1>1. doomed' = doomed /\ stored' = stored
  BY DEF Edit, Restore, Number, Show
<1>2. ASSUME NEW a \in Asset, a \in Assets, NEW f, NEW j, Goes(w, j), UNCHANGED << asset, version >>,
             j.asset = a, j.file = f, j.pc = "number", f \in stored[a] \/ a \in doomed
      PROVE  FilesInv'
  <2>1. FilesGrow
    BY <1>1, <1>2, FilesQuiet
  <2>2. job'[w] = j /\ \A q \in Process \ {w} : job'[q] = job[q]
    BY <1>2, MediaWent
  <2>3. asset'[a] # New
    BY <1>0, <1>2, MediaRows
  <2>4. Fits(w)'
    BY <1>1, <1>2, <2>2, <2>3 DEF Fits
  <2> QED BY <2>1, <2>2, <2>4, FilesStep
<1>3. ASSUME NEW a \in Asset, Edit(w, a) PROVE FilesInv'
  <2> DEFINE j == [pc |-> "number", asset |-> a, last |-> Len(version[a]), file |-> asset[a].file,
                   restore |-> FALSE, sized |-> FALSE]
  <2>1. a \in Assets /\ Goes(w, j) /\ UNCHANGED << asset, version >>
    BY <1>3 DEF Edit, Begins
  <2>2. asset[a].file \in stored[a] \/ a \in doomed
    BY <2>1 DEF FilesInv, VersionsKeepFiles
  <2>3. j.asset = a /\ j.file = asset[a].file /\ j.pc = "number"
    OBVIOUS
  <2> HIDE DEF j
  <2> QED BY <1>2, <2>1, <2>2, <2>3
<1>4. ASSUME NEW a \in Asset, NEW k \in 1 .. MaxVersions, Restore(w, a, k) PROVE FilesInv'
  <2> DEFINE j == [pc |-> "number", asset |-> a, last |-> Len(version[a]), file |-> version[a][k].file,
                   restore |-> TRUE, sized |-> version[a][k].sized]
  <2>1. a \in Assets /\ k \in DOMAIN version[a] /\ Goes(w, j) /\ UNCHANGED << asset, version >>
    BY <1>4 DEF Restore, Begins
  <2>2. version[a][k].file \in stored[a] \/ a \in doomed
    BY <2>1 DEF FilesInv, VersionsKeepFiles
  <2>3. j.asset = a /\ j.file = version[a][k].file /\ j.pc = "number"
    OBVIOUS
  <2> HIDE DEF j
  <2> QED BY <1>2, <2>1, <2>2, <2>3
<1>5. CASE Number(w)
  <2> DEFINE a == job[w].asset  f == job[w].file
             v == [file |-> f, sized |-> FALSE]
             j == [job[w] EXCEPT !.pc = "point"]
  <2>1. job[w] \in Versioning /\ Fits(w) /\ job[w].pc = "number"
    BY <1>5, MediaJobs DEF Number, FilesInv
  <2>2. /\ j.pc = "point" /\ j.asset = a /\ j.file = f /\ a \in Asset /\ v.file = f /\ v \in VersionRow
        /\ asset[a] # New /\ (a \in doomed \/ f \in stored[a])
    BY <2>1 DEF Versioning, Fits, VersionRow
  <2>3. /\ \/ version' = version /\ Goes(w, Idle)
           \/ version' = [version EXCEPT ![a] = Append(version[a], v)] /\ Goes(w, j)
        /\ asset' = asset
    BY <1>5 DEF Number
  <2>4. version[a] \in Seq(VersionRow)
    BY <2>2 DEF MediaTypes
  <2> HIDE DEF a, f, v, j
  <2>5. CASE version' = version /\ Goes(w, Idle)
    <3>1. FilesGrow
      BY <1>1, <2>3, <2>5, FilesQuiet
    <3>2. job'[w] = Idle /\ \A q \in Process \ {w} : job'[q] = job[q]
      BY <2>5, MediaWent
    <3>3. Fits(w)'
      BY <1>0, <3>2 DEF Fits
    <3> QED BY <3>1, <3>2, <3>3, FilesStep
  <2>6. CASE version' = [version EXCEPT ![a] = Append(version[a], v)] /\ Goes(w, j)
    <3>1. \A n \in DOMAIN version'[a] : (n \in DOMAIN version[a] /\ version'[a][n] = version[a][n]) \/ version'[a][n] = v
      BY <2>2, <2>4, <2>6 DEF MediaTypes
    <3>2. \A b \in Asset \ {a} : version'[b] = version[b]
      BY <2>6 DEF MediaTypes
    <3>3. \A b \in Assets' \ doomed' : /\ b \in Assets \ doomed /\ b \in Asset
                                       /\ asset'[b].file \in stored'[b]
                                       /\ \A n \in DOMAIN version'[b] : version'[b][n].file \in stored'[b]
      BY <1>1, <2>2, <2>3, <3>1, <3>2 DEF Assets, FilesInv, VersionsKeepFiles
    <3>4. FilesGrow
      BY <1>1, <2>2, <2>3, <3>2, <3>3 DEF FilesInv, FilesGrow, VersionsKeepFiles
    <3>5. job'[w] = j /\ \A q \in Process \ {w} : job'[q] = job[q]
      BY <2>6, MediaWent
    <3>6. Fits(w)'
      BY <1>1, <2>2, <2>3, <3>5 DEF Fits
    <3> QED BY <3>4, <3>5, <3>6, FilesStep
  <2> QED BY <2>3, <2>5, <2>6
<1>6. CASE Show(w)
  <2> DEFINE a == job[w].asset  f == job[w].file  x == [asset[a] EXCEPT !.file = f]
  <2>1. job[w] \in Versioning /\ Fits(w) /\ job[w].pc = "show"
    BY <1>6, MediaJobs DEF Show, FilesInv
  <2>2. a \in Asset /\ f \in Nat /\ (a \in doomed \/ f \in stored[a])
    BY <2>1 DEF Versioning, Fits
  <2>3. a \in Assets => x \in AssetRow /\ x.file = f
    BY <2>2, MediaRows DEF AssetRow
  <2>4. /\ asset' = asset \/ (a \in Assets /\ asset' = [asset EXCEPT ![a] = x])
        /\ Goes(w, Idle) /\ version' = version
    BY <1>6 DEF Show
  <2> HIDE DEF a, f, x
  <2>5. FilesGrow
    <3>1. CASE asset' = asset
      BY <1>1, <2>4, <3>1, FilesQuiet
    <3>2. CASE a \in Assets /\ asset' = [asset EXCEPT ![a] = x]
      <4>1. asset'[a] = x /\ \A b \in Asset \ {a} : asset'[b] = asset[b]
        BY <2>2, <3>2 DEF MediaTypes
      <4>2. x # New /\ x # Gone /\ asset[a] # New /\ asset[a] # Gone
        BY <1>0, <2>3, <3>2 DEF Assets
      <4>3. \A b \in Assets' \ doomed' : /\ b \in Assets \ doomed
                                         /\ asset'[b].file \in stored[b]
                                         /\ \A n \in DOMAIN version[b] : version[b][n].file \in stored[b]
        BY <1>1, <2>2, <2>3, <3>2, <4>1, <4>2 DEF Assets, FilesInv, VersionsKeepFiles
      <4> QED BY <1>1, <2>4, <4>1, <4>2, <4>3 DEF FilesInv, FilesGrow, VersionsKeepFiles
    <3> QED BY <2>4, <3>1, <3>2
  <2>6. job'[w] = Idle /\ \A q \in Process \ {w} : job'[q] = job[q]
    BY <2>4, MediaWent
  <2>7. Fits(w)'
    BY <1>0, <2>6 DEF Fits
  <2> QED BY <2>5, <2>6, <2>7, FilesStep
<1> QED BY <1>3, <1>4, <1>5, <1>6

(* A new asset has the file that was uploaded, and an edit leaves the file *)
(* the version had to the asset.                                           *)
LEMMA NewFiles ==
  ASSUME MediaTypes, MediaTypes', FilesInv,
         EditDone \/ \E w \in Web, a \in Asset, d \in Folder \cup {"root"} : Upload(w, a, d)
  PROVE  FilesInv'
<1> USE DEF library, ghosts
<1>0. Idle.pc = "idle" /\ New # Gone /\ New \notin AssetRow /\ Gone \notin AssetRow
  BY DEF Idle, New, Gone, AssetRow
<1>1. ASSUME NEW w \in Web, NEW a \in Asset, NEW d \in Folder \cup {"root"}, Upload(w, a, d) PROVE FilesInv'
  <2> DEFINE x == Uploaded(d, "pending")  j == [pc |-> "queue", task |-> << "process", a, 0 >>]
  <2>1. x \in AssetRow /\ x.file = 0 /\ j.pc = "queue"
    BY DEF Uploaded, AssetRow, Place
  <2>2. /\ asset' = [asset EXCEPT ![a] = x] /\ stored' = [stored EXCEPT ![a] = {0}] /\ Goes(w, j)
        /\ asset[a] = New /\ version' = version /\ doomed' = doomed
    BY <1>1 DEF Upload, Begins
  <2> HIDE DEF x, j
  <2>3. /\ asset'[a] = x /\ stored'[a] = {0} /\ version'[a] = << >>
        /\ \A b \in Asset \ {a} : asset'[b] = asset[b] /\ stored'[b] = stored[b]
    BY <2>2 DEF MediaTypes, FilesInv
  <2>4. \A b \in Assets' \ doomed' : /\ asset'[b].file \in stored'[b]
                                     /\ \A n \in DOMAIN version'[b] : version'[b][n].file \in stored'[b]
    BY <2>1, <2>2, <2>3 DEF Assets, FilesInv, VersionsKeepFiles
  <2>5. FilesGrow
    BY <1>0, <2>1, <2>2, <2>3, <2>4 DEF FilesInv, FilesGrow, VersionsKeepFiles
  <2>6. job'[w] = j /\ \A q \in Process \ {w} : job'[q] = job[q]
    BY <2>2, MediaWent, MediaProcesses
  <2>7. Fits(w)'
    BY <2>1, <2>6 DEF Fits
  <2> QED BY <2>5, <2>6, <2>7, FilesStep
<1>2. CASE EditDone
  <2> DEFINE a == job["worker"].asset  n == job["worker"].n
             v == [file |-> n, sized |-> TRUE]
             x == [version[a] EXCEPT ![n] = v]
  <2>1. a \in Asset /\ v.file = n
    BY <1>2, MediaJobs, MediaProcesses DEF EditDone, Editing
  <2>2. /\ \/ version' = version /\ stored' = stored
           \/ /\ version' = [version EXCEPT ![a] = x]
              /\ stored' = [stored EXCEPT ![a] = stored[a] \cup {n}]
              /\ a \in Assets
        /\ Goes("worker", Idle) /\ asset' = asset /\ doomed' = doomed
    BY <1>2 DEF EditDone, Ends, Edited
  <2>3. \A k \in DOMAIN x : k \in DOMAIN version[a] /\ (x[k] = version[a][k] \/ x[k] = v)
    OBVIOUS
  <2> HIDE DEF a, n, v, x
  <2>4. FilesGrow
    <3>1. CASE version' = version /\ stored' = stored
      BY <2>2, <3>1, FilesQuiet
    <3>2. CASE a \in Assets /\ version' = [version EXCEPT ![a] = x] /\ stored' = [stored EXCEPT ![a] = stored[a] \cup {n}]
      <4>1. /\ version'[a] = x /\ stored'[a] = stored[a] \cup {n}
            /\ \A b \in Asset \ {a} : version'[b] = version[b] /\ stored'[b] = stored[b]
        BY <2>1, <3>2 DEF MediaTypes
      <4>2. \A b \in Assets' \ doomed' : /\ asset'[b].file \in stored'[b]
                                         /\ \A k \in DOMAIN version'[b] : version'[b][k].file \in stored'[b]
        BY <2>1, <2>2, <2>3, <4>1 DEF Assets, FilesInv, VersionsKeepFiles
      <4>3. asset[a] # New
        BY <3>2 DEF Assets
      <4>4. \A b \in Asset : stored[b] \subseteq stored'[b] /\ (asset'[b] = New => version'[b] = << >>)
        BY <2>2, <4>1, <4>3 DEF FilesInv
      <4> QED BY <2>2, <4>2, <4>4 DEF FilesGrow, VersionsKeepFiles
    <3> QED BY <2>2, <3>1, <3>2
  <2>5. job'["worker"] = Idle /\ \A q \in Process \ {"worker"} : job'[q] = job[q]
    BY <2>2, MediaWent, MediaProcesses
  <2>6. Fits("worker")'
    BY <1>0, <2>5 DEF Fits
  <2> QED BY <2>4, <2>5, <2>6, FilesStep
<1> QED BY <1>1, <1>2

(* A deletion dooms the asset before it takes a file of it.                *)
LEMMA DeletedFiles ==
  ASSUME MediaTypes, MediaTypes', FilesInv,
         \/ \E w \in Web, a \in Asset : Delete(w, a)
         \/ Sweep
         \/ \E p \in Process : RemoveFiles(p) \/ RemoveRow(p)
  PROVE  FilesInv'
<1> USE DEF library, ghosts
<1>0. /\ Idle.pc = "idle" /\ New # Gone /\ New \notin AssetRow /\ Gone \notin AssetRow
      /\ \A s \in Sweeping : s.pc = "next"
  BY DEF Idle, New, Gone, AssetRow, Sweeping
<1>1. ASSUME NEW p \in Process, NEW j, Goes(p, j), UNCHANGED << asset, version, stored >>, doomed \subseteq doomed',
             j.pc \in {"idle", "next"} \/ (j.pc = "files" /\ j.asset \in doomed')
      PROVE  FilesInv'
  <2>1. FilesGrow
    BY <1>1, FilesQuiet
  <2>2. job'[p] = j /\ \A q \in Process \ {p} : job'[q] = job[q]
    BY <1>1, MediaWent
  <2>3. Fits(p)'
    BY <1>1, <2>2 DEF Fits
  <2> QED BY <2>1, <2>2, <2>3, FilesStep
<1>2. ASSUME NEW p \in Process, NEW a, NEW rest, rest.pc \in {"idle", "next"}, Doom(p, a, rest),
             UNCHANGED << asset, version, stored >>
      PROVE  FilesInv'
  <2> DEFINE j == [pc |-> "files", asset |-> a, rest |-> rest]
  <2>1. /\ (Goes(p, j) /\ doomed' = doomed \cup {a}) \/ (Goes(p, rest) /\ doomed' = doomed)
        /\ j.pc = "files" /\ j.asset = a
    BY <1>2 DEF Doom
  <2> HIDE DEF j
  <2> QED BY <1>1, <1>2, <2>1
<1>3. ASSUME NEW w \in Web, NEW a \in Asset, Delete(w, a) PROVE FilesInv'
  BY <1>0, <1>2, <1>3, MediaProcesses DEF Delete
<1>4. CASE Sweep
  <2> DEFINE left == job["cleanup"].left  a == CHOOSE x \in left : TRUE
             j == [pc |-> "next", left |-> left \ {a}]
  <2>1. /\ (Goes("cleanup", Idle) /\ doomed' = doomed) \/ Doom("cleanup", a, j)
        /\ j.pc = "next" /\ UNCHANGED << asset, version, stored >>
    BY <1>4 DEF Sweep
  <2> HIDE DEF a, j
  <2> QED BY <1>0, <1>1, <1>2, <2>1, MediaProcesses
<1>5. ASSUME NEW p \in Process, RemoveFiles(p) PROVE FilesInv'
  <2> DEFINE a == job[p].asset  j == [job[p] EXCEPT !.pc = "row"]
  <2>1. job[p] \in Deleting /\ Fits(p) /\ job[p].pc = "files"
    BY <1>5, MediaJobs DEF RemoveFiles, FilesInv
  <2>2. a \in Asset /\ a \in doomed /\ j.pc = "row" /\ j.asset = a
    BY <2>1 DEF Deleting, Fits
  <2>3. /\ Goes(p, j) /\ UNCHANGED << asset, version, doomed >>
        /\ \A b \in Asset \ {a} : stored'[b] = stored[b]
    BY <1>5 DEF RemoveFiles, MediaTypes
  <2> HIDE DEF a, j
  <2>4. FilesGrow
    BY <2>2, <2>3 DEF FilesInv, FilesGrow, VersionsKeepFiles, Assets
  <2>5. job'[p] = j /\ \A q \in Process \ {p} : job'[q] = job[q]
    BY <2>3, MediaWent
  <2>6. Fits(p)'
    BY <2>2, <2>3, <2>5 DEF Fits
  <2> QED BY <2>4, <2>5, <2>6, FilesStep
<1>6. ASSUME NEW p \in Process, RemoveRow(p) PROVE FilesInv'
  <2> DEFINE a == job[p].asset
  <2>1. job[p] \in Deleting /\ Fits(p) /\ job[p].pc = "row"
    BY <1>6, MediaJobs DEF RemoveRow, FilesInv
  <2>2. a \in Asset /\ a \in doomed /\ job[p].rest.pc \in {"idle", "next"}
    BY <1>0, <2>1 DEF Deleting, Fits
  <2>3. /\ Goes(p, job[p].rest) /\ stored' = stored /\ doomed' = doomed
        /\ asset' = [asset EXCEPT ![a] = Gone] /\ version' = [version EXCEPT ![a] = << >>]
    BY <1>6 DEF RemoveRow
  <2> HIDE DEF a
  <2>4. /\ asset'[a] = Gone /\ version'[a] = << >>
        /\ \A b \in Asset \ {a} : asset'[b] = asset[b] /\ version'[b] = version[b]
    BY <2>2, <2>3 DEF MediaTypes
  <2>5. FilesGrow
    BY <1>0, <2>2, <2>3, <2>4 DEF FilesInv, FilesGrow, VersionsKeepFiles, Assets
  <2>6. job'[p] = job[p].rest /\ \A q \in Process \ {p} : job'[q] = job[q]
    BY <2>3, MediaWent
  <2>7. Fits(p)'
    BY <2>2, <2>6 DEF Fits
  <2> QED BY <2>5, <2>6, <2>7, FilesStep
<1> QED BY <1>3, <1>4, <1>5, <1>6

(* Every step keeps the files.                                             *)
LEMMA MediaFiles ==
  ASSUME MediaTypes, FilesInv, [Next]_vars
  PROVE  MediaTypes' /\ FilesInv'
<1>1. MediaTypes'
  BY MediaTyped
<1>2. CASE UNCHANGED vars
  <2>1. UNCHANGED << asset, version, stored, job, doomed >>
    BY <1>2 DEF vars, library, ghosts
  <2>2. \A q \in Process : Fits(q)'
    BY <2>1 DEF FilesInv, Fits
  <2>3. VersionsKeepFiles'
    BY <2>1 DEF FilesInv, VersionsKeepFiles, Assets
  <2> QED BY <1>1, <2>1, <2>2, <2>3 DEF FilesInv
<1> QED BY <1>1, <1>2, QuietFiles, RowFiles, VersionFiles, NewFiles, DeletedFiles, MediaProcesses DEF Next, WorkerStep

(* The posts' media are there, and an asset that is in use though its      *)
(* deletion began has crossed it.                                          *)
UseInv ==
  /\ \A p \in Post : post[p].media \subseteq Assets
  /\ doomed \cap InUse(post) \subseteq crossed

(* Only the end of a deletion takes an asset's row.                        *)
LEMMA AssetsStay ==
  ASSUME MediaTypes, [Next]_vars
  PROVE  Assets \subseteq Assets' \/ \E p \in Process : RemoveRow(p)
<1> USE DEF library, ghosts
<1>0. New \notin AssetRow /\ Gone \notin AssetRow /\ \A a \in Assets : a \in Asset /\ asset[a] \in AssetRow
  BY MediaRows DEF New, Gone, AssetRow
<1>1. CASE \A a \in Asset : KeepsRow(a)
  BY <1>0, <1>1 DEF KeepsRow, Assets
<1>2. CASE asset' = asset
  BY <1>2 DEF Assets
<1>3. ASSUME NEW w \in Web, NEW a \in Asset, NEW d \in Folder \cup {"root"}, Upload(w, a, d) PROVE Assets \subseteq Assets'
  <2>1. asset[a] = New /\ \A b \in Asset \ {a} : asset'[b] = asset[b]
    BY <1>3 DEF Upload, MediaTypes
  <2> QED BY <2>1 DEF Assets
<1>4. ASSUME NEW w \in Web, Show(w) PROVE Assets \subseteq Assets'
  <2> DEFINE a == job[w].asset  x == [asset[a] EXCEPT !.file = job[w].file]
  <2>1. a \in Asset /\ job[w].file \in Nat
    BY <1>4, MediaJobs, MediaProcesses DEF Show, Versioning
  <2>2. a \in Assets => x \in AssetRow
    BY <1>0, <2>1 DEF AssetRow
  <2>3. asset' = asset \/ (a \in Assets /\ asset' = [asset EXCEPT ![a] = x])
    BY <1>4 DEF Show
  <2> HIDE DEF a, x
  <2> QED BY <1>0, <2>1, <2>2, <2>3 DEF Assets, MediaTypes
<1>5. \/ asset' = asset
      \/ \E a \in Asset, d \in Folder \cup {"root"} : Move(a, d)
      \/ \E w \in Web : \/ Point(w) \/ MoveAssets(w) \/ RemoveFolder(w) \/ Show(w)
                        \/ \E a \in Asset, d \in Folder \cup {"root"} : Upload(w, a, d)
      \/ Processed \/ \E a \in Asset : Take(a)
      \/ \E p \in Process : RemoveRow(p)
  <2>1. CASE UNCHANGED vars
    BY <2>1 DEF vars
  <2>2. CASE Next
    BY <2>2 DEF Next, WorkerStep, Attach, Detach, Cover, Turn, Composes, RenameFolder, Queue, DeleteFolder,
           CreateFolder, MakeFolder, MoveFolders, Collect, Scan, Sweep, Crash, TakeEdit, EditDone, Edit,
           Restore, Number, Delete, RemoveFiles
  <2> QED BY <2>1, <2>2
<1> QED BY <1>1, <1>2, <1>3, <1>4, <1>5, RowsRewritten

(* What a post is made to refer to: media it had, or assets there are.     *)
LEMMA ComposeMedia ==
  ASSUME MediaTypes,
         \E p \in Post : \/ \E a \in Asset : Attach(p, a) \/ Detach(p, a)
                         \/ \E S \in SUBSET Asset : Cover(p, S)
                         \/ \E s \in {"draft", "scheduled", "publishing"} : Turn(p, s)
  PROVE  /\ \A q \in Post : post'[q].media \subseteq post[q].media \cup Assets
         /\ Rewrite(post') /\ UNCHANGED << asset, stored, job, doomed >>
<1>1. PICK p \in Post : \/ \E a \in Asset : Attach(p, a) \/ Detach(p, a)
                        \/ \E S \in SUBSET Asset : Cover(p, S)
                        \/ \E s \in {"draft", "scheduled", "publishing"} : Turn(p, s)
  OBVIOUS
<1>2. Rewrite(post') /\ UNCHANGED << asset, stored, job, doomed >>
  BY <1>1 DEF Attach, Detach, Cover, Turn, Composes, Rewrite, library
<1>3. post[p] \in PostRow
  BY DEF MediaTypes
<1>4. \E x : post' = [post EXCEPT ![p] = x] /\ x.media \subseteq post[p].media \cup Assets
  <2>1. ASSUME NEW a \in Asset, Attach(p, a) PROVE <1>4
    <3> DEFINE x == [post[p] EXCEPT !.media = @ \cup {a}]
    <3>1. post' = [post EXCEPT ![p] = x] /\ x.media = post[p].media \cup {a} /\ a \in Assets
      BY <1>3, <2>1 DEF Attach, Composes, Rewrite, PostRow
    <3> QED BY <3>1
  <2>2. ASSUME NEW a \in Asset, Detach(p, a) PROVE <1>4
    <3> DEFINE x == [post[p] EXCEPT !.media = @ \ {a}]
    <3>1. post' = [post EXCEPT ![p] = x] /\ x.media = post[p].media \ {a}
      BY <1>3, <2>2 DEF Detach, Composes, Rewrite, PostRow
    <3> QED BY <3>1
  <2>3. ASSUME NEW S \in SUBSET Asset, Cover(p, S) PROVE <1>4
    <3> DEFINE x == [post[p] EXCEPT !.cover = S]
    <3>1. post' = [post EXCEPT ![p] = x] /\ x.media = post[p].media
      BY <1>3, <2>3 DEF Cover, Composes, Rewrite, PostRow
    <3> QED BY <3>1
  <2>4. ASSUME NEW s \in {"draft", "scheduled", "publishing"}, Turn(p, s) PROVE <1>4
    <3> DEFINE x == [post[p] EXCEPT !.state = s]
    <3>1. post' = [post EXCEPT ![p] = x] /\ x.media = post[p].media
      BY <1>3, <2>4 DEF Turn, Composes, Rewrite, PostRow
    <3> QED BY <3>1
  <2> QED BY <1>1, <2>1, <2>2, <2>3, <2>4
<1> QED BY <1>2, <1>4 DEF MediaTypes

(* Media are there, and the doomed ones in use have crossed.               *)
LEMMA MediaUse ==
  ASSUME MediaTypes, UseInv, [Next]_vars
  PROVE  UseInv'
<1> USE DEF library, ghosts
<1>1. ASSUME NEW p \in Process, RemoveRow(p) PROVE UseInv'
  <2> DEFINE a == job[p].asset
  <2>1. a \in Asset
    BY <1>1, MediaJobs DEF RemoveRow, Deleting
  <2>2. /\ asset' = [asset EXCEPT ![a] = Gone] /\ doomed' = doomed
        /\ post' = [q \in Post |-> [post[q] EXCEPT !.media = @ \ {a}]]
        /\ crossed' = crossed \cup (doomed \cap InUse(post'))
    BY <1>1 DEF RemoveRow, Rewrite
  <2>3. \A q \in Post : post'[q].media = post[q].media \ {a}
    BY <2>2 DEF MediaTypes, PostRow
  <2> HIDE DEF a
  <2>4. Assets \ {a} \subseteq Assets'
    BY <2>1, <2>2 DEF Assets, MediaTypes
  <2> QED BY <2>2, <2>3, <2>4 DEF UseInv
<1>2. ASSUME Assets \subseteq Assets', UNCHANGED << post, doomed, crossed >> PROVE UseInv'
  BY <1>2 DEF UseInv, InUse
<1>3. ASSUME NEW p \in Post,
             \/ \E a \in Asset : Attach(p, a) \/ Detach(p, a)
             \/ \E S \in SUBSET Asset : Cover(p, S)
             \/ \E s \in {"draft", "scheduled", "publishing"} : Turn(p, s)
      PROVE  UseInv'
  <2>1. Assets' = Assets /\ doomed' = doomed /\ crossed' = crossed \cup (doomed \cap InUse(post'))
    BY <1>3, ComposeMedia DEF Rewrite, Assets
  <2>2. \A q \in Post : post'[q].media \subseteq post[q].media \cup Assets
    BY <1>3, ComposeMedia
  <2> QED BY <2>1, <2>2 DEF UseInv
<1>4. ASSUME NEW p, NEW a, NEW rest, Doom(p, a, rest), Assets \subseteq Assets', UNCHANGED << post, crossed >>
      PROVE  UseInv'
  <2>1. doomed' = doomed \/ (doomed' = doomed \cup {a} /\ Referencing(a) = {})
    BY <1>4 DEF Doom
  <2>2. Referencing(a) = {} => a \notin InUse(post)
    BY DEF Referencing, InUse, InFlight
  <2> QED BY <1>4, <2>1, <2>2 DEF UseInv, InUse
<1>5. \/ UNCHANGED << post, doomed, crossed >>
      \/ \E p \in Process : RemoveRow(p)
      \/ \E p \in Post : \/ \E a \in Asset : Attach(p, a) \/ Detach(p, a)
                         \/ \E S \in SUBSET Asset : Cover(p, S)
                         \/ \E s \in {"draft", "scheduled", "publishing"} : Turn(p, s)
      \/ (\E p, a, rest : Doom(p, a, rest)) /\ UNCHANGED << post, crossed >>
  <2>1. CASE UNCHANGED vars
    BY <2>1 DEF vars
  <2>2. CASE Next
    BY <2>2 DEF Next, WorkerStep, Processed, EditDone, Take, TakeEdit, Queue, Number, Point, Show, MakeFolder,
           MoveAssets, MoveFolders, RemoveFolder, Edit, Delete, Restore, Upload, DeleteFolder, CreateFolder,
           RenameFolder, Move, Collect, Scan, Sweep, RemoveFiles, Crash
  <2> QED BY <2>1, <2>2
<1> QED BY <1>1, <1>2, <1>3, <1>4, <1>5, AssetsStay

MediaInv == MediaTypes /\ FilesInv /\ UseInv

(* Assets that were uploaded and processed, of which nobody makes use yet. *)
LEMMA MediaAlways == Spec => []MediaInv
<1>1. Init => MediaInv
  <2> SUFFICES ASSUME Init PROVE MediaInv
    OBVIOUS
  <2>1. /\ folder \in [Folder -> FolderRow \cup {New, Gone}] /\ Folders \subseteq Folder
    BY TreesAssumption DEF Init, FolderRow, Place, Folders
  <2>2. \A a \in Asset : asset[a] = New \/ (asset[a] \in AssetRow /\ asset[a].file = 0)
    BY <2>1 DEF Init, Uploaded, AssetRow, Place
  <2>3. asset \in [Asset -> AssetRow \cup {New, Gone}]
    BY <2>2 DEF Init
  <2>4. stored \in [Asset -> SUBSET Nat] /\ \A a \in Assets : stored[a] = {0}
    BY DEF Init, Assets
  <2>5. version \in [Asset -> Seq(VersionRow)] /\ \A a \in Asset : version[a] = << >>
    BY DEF Init
  <2>6. post \in [Post -> PostRow] /\ \A p \in Post : post[p].media = {} /\ post[p].state = "draft"
    BY DEF Init, PostRow
  <2>7. job \in [Process -> MediaJob] /\ \A p \in Process : job[p].pc = "idle"
    BY DEF Init, MediaJob, Idle
  <2>8. MediaTypes
    BY <2>1, <2>3, <2>4, <2>5, <2>6, <2>7 DEF MediaTypes
  <2>9. FilesInv
    <3>1. \A a \in Assets : a \in Asset /\ asset[a].file = 0
      BY <2>2 DEF Assets
    <3> QED BY <2>4, <2>5, <2>7, <3>1 DEF FilesInv, Fits, VersionsKeepFiles
  <2>10. UseInv
    BY <2>6 DEF Init, UseInv
  <2> QED BY <2>8, <2>9, <2>10 DEF MediaInv
<1>2. MediaInv /\ [Next]_vars => MediaInv'
  BY MediaFiles, MediaUse DEF MediaInv
<1> QED BY <1>1, <1>2, PTL DEF Spec

(***************************************************************************)
(* Versions share files with each other and with the asset, and each has   *)
(* its file until a deletion of the asset begins, whatever edits, restores *)
(* and failures there were.                                                *)
(***************************************************************************)
THEOREM VersionsHaveFiles == Spec => []VersionsKeepFiles
<1>1. MediaInv => VersionsKeepFiles
  BY DEF MediaInv, FilesInv
<1> QED BY <1>1, MediaAlways, PTL

(***************************************************************************)
(* A post that is scheduled or being published has the files of its media, *)
(* unless it came to need an asset whose deletion had begun.               *)
(***************************************************************************)
THEOREM InFlightHaveFiles == Spec => []InFlightKeepsFiles
<1>1. MediaInv => InFlightKeepsFiles
  <2> SUFFICES ASSUME MediaInv, NEW a \in InUse(post) \ crossed PROVE asset[a].file \in stored[a]
    BY DEF InFlightKeepsFiles
  <2>1. a \in Assets \ doomed
    BY DEF MediaInv, UseInv, InUse
  <2> QED BY <2>1 DEF MediaInv, FilesInv, VersionsKeepFiles
<1> QED BY <1>1, MediaAlways, PTL

(* What the cleanup goes on to delete is not referred to by what has been  *)
(* held since it began; and what is held is still referred to.             *)
Spares(j) ==
  /\ j.pc = "json" => \A r \in held : r[1] = "media" => r[3] \in j.spared
  /\ j.pc = "next" => j.left \cap Named(held) = {}
  /\ j.pc \in {"files", "row"} =>
       /\ j.asset \notin Named(held)
       /\ j.rest.pc = "next" => j.rest.left \cap Named(held) = {}

SpareInv ==
  /\ held \subseteq FK(post) \cup JSON(post)
  /\ Spares(job["cleanup"])

(* References by foreign key and by an id in a field are told apart.       *)
LEMMA ReferenceKinds ==
  ASSUME NEW ps
  PROVE  /\ \A r \in FK(ps) : r[1] = "media"
         /\ \A r \in JSON(ps) : r[1] = "cover"
BY DEF FK, JSON

(* Who moves the cleanup, and what is held.                                *)
LEMMA CleanupMoves ==
  ASSUME MediaTypes, [Next]_vars
  PROVE  /\ \/ job'["cleanup"] = job["cleanup"]
            \/ Collect \/ Scan \/ Sweep
            \/ RemoveFiles("cleanup") \/ RemoveRow("cleanup") \/ Crash("cleanup")
         /\ \/ UNCHANGED << post, held >> \/ Rewrite(post')
            \/ Collect \/ Sweep \/ Crash("cleanup")
<1> USE DEF library, ghosts
<1>1. CASE UNCHANGED vars
  BY <1>1 DEF vars
<1>2. ASSUME NEW p \in Process \ {"cleanup"}, NEW j, Goes(p, j) PROVE job'["cleanup"] = job["cleanup"]
  BY <1>2, MediaProcesses DEF Goes, MediaTypes
<1>3. CASE WorkerStep
  BY <1>2, <1>3, MediaProcesses DEF WorkerStep, Processed, EditDone, Take, TakeEdit, Ends
<1>4. ASSUME NEW w \in Web,
             \/ Queue(w) \/ Number(w) \/ Point(w) \/ Show(w)
             \/ MakeFolder(w) \/ MoveAssets(w) \/ MoveFolders(w) \/ RemoveFolder(w)
             \/ \E a \in Asset :
                  \/ Edit(w, a) \/ Delete(w, a)
                  \/ \E k \in 1 .. MaxVersions : Restore(w, a, k)
                  \/ \E d \in Folder \cup {"root"} : Upload(w, a, d)
             \/ \E d \in Folder :
                  \/ DeleteFolder(w, d)
                  \/ \E u \in Folder \cup {"root"}, n \in Name : CreateFolder(w, d, u, n)
      PROVE  job'["cleanup"] = job["cleanup"] /\ UNCHANGED << post, held >>
  BY <1>2, <1>4, MediaProcesses
     DEF Queue, Number, Point, Show, MakeFolder, MoveAssets, MoveFolders, RemoveFolder, Edit, Delete, Doom,
         Restore, Upload, DeleteFolder, CreateFolder, Begins
<1>5. ASSUME NEW p \in Process, RemoveFiles(p) \/ RemoveRow(p) \/ Crash(p)
      PROVE  /\ p = "cleanup" \/ job'["cleanup"] = job["cleanup"]
             /\ (UNCHANGED << post, held >> \/ Rewrite(post')) \/ (Crash(p) /\ p = "cleanup")
  BY <1>2, <1>5 DEF RemoveFiles, RemoveRow, Crash, Rewrite
<1>6. ASSUME NEW p \in Post,
             \/ \E a \in Asset : Attach(p, a) \/ Detach(p, a)
             \/ \E S \in SUBSET Asset : Cover(p, S)
             \/ \E s \in {"draft", "scheduled", "publishing"} : Turn(p, s)
      PROVE  Rewrite(post') /\ job' = job
  BY <1>6, ComposeMedia
<1>7. CASE (\E d \in Folder, n \in Name : RenameFolder(d, n)) \/ (\E a \in Asset, d \in Folder \cup {"root"} : Move(a, d))
  BY <1>7 DEF RenameFolder, Move
<1>8. CASE Scan
  BY <1>8 DEF Scan
<1> QED BY <1>1, <1>3, <1>4, <1>5, <1>6, <1>7, <1>8 DEF Next, WorkerStep, Processed, EditDone, Take, TakeEdit

(* Every step keeps the cleanup from what is held.                         *)
LEMMA SpareStep ==
  ASSUME MediaTypes, SpareInv, [Next]_vars
  PROVE  SpareInv'
<1> DEFINE c == "cleanup"
<1> USE DEF library, ghosts
<1>0. Idle.pc = "idle" /\ c \in Process /\ (job[c] = Idle => job[c].pc = "idle")
  BY MediaProcesses, MediaJobs DEF Idle
<1>1. CASE Collect
  <2> DEFINE j == [pc |-> "json", spared |-> Named(FK(post))]
  <2>1. Goes(c, j) /\ held' = FK(post) \cup JSON(post) /\ post' = post
    BY <1>1 DEF Collect, Begins
  <2>2. job'[c] = j
    BY <1>0, <2>1, MediaWent
  <2>3. \A r \in held' : r[1] = "media" => r[3] \in j.spared
    BY <2>1, ReferenceKinds DEF Named
  <2> QED BY <2>1, <2>2, <2>3 DEF SpareInv, Spares
<1>2. CASE Sweep
  <2> DEFINE left == job[c].left  a == CHOOSE x \in left : TRUE
             j == [pc |-> "next", left |-> left \ {a}]
             k == [pc |-> "files", asset |-> a, rest |-> j]
  <2>1. job[c].pc = "next" /\ post' = post
    BY <1>2 DEF Sweep
  <2>2. left \cap Named(held) = {}
    BY <2>1 DEF SpareInv, Spares
  <2>3. CASE left = {}
    <3>1. Goes(c, Idle) /\ held' = {}
      BY <1>2, <2>3 DEF Sweep
    <3>2. job'[c] = Idle
      BY <1>0, <3>1, MediaWent
    <3> QED BY <1>0, <3>1, <3>2 DEF SpareInv, Spares
  <2>4. CASE left # {}
    <3>1. held' = held /\ (Goes(c, k) \/ Goes(c, j)) /\ a \in left
      BY <1>2, <2>4 DEF Sweep, Doom
    <3>2. job'[c] = k \/ job'[c] = j
      BY <1>0, <3>1, MediaWent
    <3>3. a \notin Named(held') /\ (left \ {a}) \cap Named(held') = {}
      BY <2>2, <3>1
    <3>4. /\ k.pc = "files" /\ k.asset = a /\ k.rest.pc = "next" /\ k.rest.left = left \ {a}
          /\ j.pc = "next" /\ j.left = left \ {a}
      OBVIOUS
    <3>5. held' \subseteq FK(post') \cup JSON(post')
      BY <2>1, <3>1 DEF SpareInv
    <3> HIDE DEF a, left, j, k
    <3> QED BY <3>2, <3>3, <3>4, <3>5 DEF SpareInv, Spares
  <2> QED BY <2>3, <2>4
<1>3. CASE Crash(c)
  <2>1. Goes(c, Idle) /\ held' = {}
    BY <1>3 DEF Crash
  <2>2. job'[c] = Idle
    BY <1>0, <2>1, MediaWent
  <2> QED BY <1>0, <2>1, <2>2 DEF SpareInv, Spares
<1>4. CASE UNCHANGED << post, held >> \/ Rewrite(post')
  <2>1. held' \subseteq held /\ held' \subseteq FK(post') \cup JSON(post')
    BY <1>4 DEF Rewrite, SpareInv
  <2>2. Named(held') \subseteq Named(held)
    BY <2>1 DEF Named
  <2>3. CASE job'[c] = job[c]
    BY <2>1, <2>2, <2>3 DEF SpareInv, Spares
  <2>4. CASE Scan
    <3>1. PICK S \in SUBSET Orphans(job[c].spared) : Goes(c, [pc |-> "next", left |-> S])
      BY <2>4 DEF Scan
    <3> DEFINE j == [pc |-> "next", left |-> S]
    <3>2. job'[c] = j
      BY <1>0, <3>1, MediaWent
    <3>3. \A r \in held : r[3] \notin S
      <4> SUFFICES ASSUME NEW r \in held PROVE r[3] \in job[c].spared \cup Named(JSON(post))
        BY DEF Orphans
      <4>1. CASE r \in FK(post)
        BY <2>4, <4>1, ReferenceKinds DEF Scan, SpareInv, Spares
      <4>2. CASE r \in JSON(post)
        BY <4>2 DEF Named
      <4> QED BY <4>1, <4>2 DEF SpareInv
    <3>4. S \cap Named(held') = {}
      BY <2>2, <3>3 DEF Named
    <3> QED BY <2>1, <3>2, <3>4 DEF SpareInv, Spares
  <2>5. CASE RemoveFiles(c)
    <3> DEFINE j == [job[c] EXCEPT !.pc = "row"]
    <3>1. job[c].pc = "files" /\ job[c] \in Deleting /\ Goes(c, j)
      BY <1>0, <2>5, MediaJobs DEF RemoveFiles
    <3>2. job'[c] = j
      BY <1>0, <3>1, MediaWent
    <3>3. j.pc = "row" /\ j.asset = job[c].asset /\ j.rest = job[c].rest
      BY <3>1 DEF Deleting
    <3> HIDE DEF j
    <3> QED BY <2>1, <2>2, <3>1, <3>2, <3>3 DEF SpareInv, Spares
  <2>6. CASE RemoveRow(c)
    <3>1. job[c].pc = "row" /\ job[c] \in Deleting /\ Goes(c, job[c].rest)
      BY <1>0, <2>6, MediaJobs DEF RemoveRow
    <3>2. job'[c] = job[c].rest /\ job[c].rest.pc \in {"idle", "next"}
      BY <1>0, <3>1, MediaWent DEF Deleting, Sweeping
    <3> QED BY <2>1, <2>2, <3>1, <3>2 DEF SpareInv, Spares
  <2> QED BY <1>1, <1>2, <1>3, <2>3, <2>4, <2>5, <2>6, CleanupMoves
<1> QED BY <1>1, <1>2, <1>3, <1>4, CleanupMoves

(***************************************************************************)
(* The cleanup takes no file of an asset that a post has referred to in    *)
(* the same way ever since the cleanup began to look, though it looks      *)
(* twice and deletes one asset after the other.                            *)
(***************************************************************************)
THEOREM CleanupSpares == Spec => CleanupSparesReferenced
<1> DEFINE A == \A a \in Named(held) :
                  job["cleanup"].pc = "files" /\ job'["cleanup"].pc = "row" => stored'[a] = stored[a]
<1>1. Init => SpareInv
  BY MediaProcesses DEF Init, SpareInv, Spares, Idle
<1>2. SpareInv /\ MediaInv /\ [Next]_vars => SpareInv'
  BY SpareStep DEF MediaInv
<1>3. SpareInv /\ MediaInv /\ [Next]_vars => [A]_vars
  <2> SUFFICES ASSUME SpareInv, MediaTypes, [Next]_vars, NEW a \in Named(held),
                      job["cleanup"].pc = "files", job'["cleanup"].pc = "row"
               PROVE  stored'[a] = stored[a]
    BY DEF MediaInv
  <2>1. CASE RemoveFiles("cleanup")
    BY <2>1 DEF RemoveFiles, SpareInv, Spares, MediaTypes
  <2>2. job'["cleanup"] # job["cleanup"] /\ ~ Collect /\ ~ Scan /\ ~ Sweep /\ ~ RemoveRow("cleanup")
    BY MediaJobs, MediaProcesses DEF Collect, Begins, Scan, Sweep, RemoveRow
  <2>3. ~ Crash("cleanup")
    <3> SUFFICES ASSUME Crash("cleanup") PROVE FALSE
      OBVIOUS
    <3>1. job'["cleanup"] = Idle
      BY MediaWent, MediaProcesses DEF Crash
    <3> QED BY <3>1 DEF Idle
  <2> QED BY <2>1, <2>2, <2>3, CleanupMoves
<1> QED BY <1>1, <1>2, <1>3, MediaAlways, PTL DEF Spec, CleanupSparesReferenced

-----------------------------------------------------------------------------
(***************************************************************************)
(* The import of posts from a file                                         *)
(***************************************************************************)
File      == Nat \cup {None}
Session   == [data : File, mapping : File]
ImportRow == [file : Nat, row : Nat, accounts : SUBSET Account, status : {"draft", "scheduled"}]
Paging    == [at : {"page"}, session : Session]
Importing == [at : {"importing"}, session : Session, row : Nat \ {0}]
SavedRow   == [at : {"saved"}, session : Session, row : Nat \ {0}, post : Nat, left : SUBSET Account]

(* Files are numbered as they are uploaded, and an import has a file.      *)
CsvTypes ==
  /\ uploads \in Nat /\ connected \in SUBSET Account
  /\ session \in Session
  /\ importer \in [Handler -> {C!Idle} \cup Paging \cup Importing \cup SavedRow]
  /\ imported \in Seq(ImportRow)
Numbered(s) == s.data # None => s.data <= uploads
CsvNumbers ==
  /\ Numbered(session)
  /\ \A r \in Handler : importer[r].at \in {"page", "importing", "saved"} => Numbered(importer[r].session)
  /\ \A r \in Handler : importer[r].at \in {"importing", "saved"} => importer[r].session.data # None
  /\ \A j \in 1 .. Len(imported) : imported[j].file <= uploads

(* A file that was not imported again has one import at a time, which is   *)
(* past the rows that have a post; they have one each, and once the import *)
(* is over the session holds that file no more.                            *)
Imports(r, f) == importer[r].at \in {"importing", "saved"} /\ importer[r].session.data = f
Past(r, j) == IF importer[r].at = "saved" THEN imported[j].row <= importer[r].row
                                          ELSE imported[j].row < importer[r].row
Of(f) == {j \in 1 .. Len(imported) : imported[j].file = f}
Once(f) ==
  /\ \A q, r \in Handler : Imports(q, f) /\ Imports(r, f) => q = r
  /\ \A r \in Handler : Imports(r, f) => \A j \in Of(f) : Past(r, j)
  /\ \A j, k \in Of(f) : imported[j].row = imported[k].row => j = k
  /\ Of(f) # {} => session.data # f \/ \E r \in Handler : Imports(r, f)

CsvInv == CsvTypes /\ CsvNumbers /\ \A f \in Nat \ again : Once(f)

(* What a request on the import looks like.                                *)
LEMMA CsvJobs ==
  ASSUME CsvTypes, NEW r \in Handler
  PROVE  /\ importer[r] = C!Idle => importer[r].at = "idle"
         /\ importer[r].at = "page" => importer[r] \in Paging
         /\ importer[r].at = "importing" => importer[r] \in Importing
         /\ importer[r].at = "saved" => importer[r] \in SavedRow
         /\ importer[r].at \in {"idle", "page", "importing", "saved"}
<1>1. importer[r] \in {C!Idle} \cup Paging \cup Importing \cup SavedRow
  BY DEF CsvTypes
<1> QED BY <1>1 DEF C!Idle, Paging, Importing, SavedRow

(* A request goes on, to anything.                                         *)
LEMMA CsvWent ==
  ASSUME CsvTypes, NEW r \in Handler, NEW q, C!Goes(r, q)
  PROVE  /\ importer'[r] = q /\ \A p \in Handler \ {r} : importer'[p] = importer[p]
         /\ q \in {C!Idle} \cup Paging \cup Importing \cup SavedRow =>
              importer' \in [Handler -> {C!Idle} \cup Paging \cup Importing \cup SavedRow]
BY DEF C!Goes, CsvTypes

(* The steps that write the session back: a file it held before comes back *)
(* only as one that may be imported again.                                 *)
LEMMA CsvSaves ==
  ASSUME CsvKinds, CsvInv, NEW r \in Handler, NEW s \in Session, C!Saved(r, s),
         UNCHANGED << imported, connected >>,
         \/ uploads' = uploads /\ Numbered(s) /\ importer[r].at = "page"
         \/ uploads' = uploads + 1 /\ s.data = uploads + 1 /\ importer[r].at = "page"
         \/ uploads' = uploads /\ s.data = None
  PROVE  CsvInv'
<1>1. CsvTypes /\ CsvNumbers
  BY DEF CsvInv
<1>2. /\ importer'[r] = C!Idle /\ \A p \in Handler \ {r} : importer'[p] = importer[p]
      /\ importer' \in [Handler -> {C!Idle} \cup Paging \cup Importing \cup SavedRow]
      /\ session' = s /\ C!Idle.at = "idle"
      /\ again' = IF s.data # None /\ s.data <= uploads /\ session.data # s.data
                  THEN again \cup {s.data} ELSE again
  BY <1>1, CsvWent DEF C!Saved, C!Idle
<1>3. CsvTypes'
  BY <1>1, <1>2 DEF CsvTypes
<1>4. uploads \in Nat /\ uploads <= uploads' /\ uploads' \in Nat
  BY <1>1 DEF CsvTypes
<1>5. \A q \in Handler : importer'[q].at \in {"page", "importing", "saved"} => importer'[q] = importer[q] /\ q # r
  BY <1>2
<1>6. CsvNumbers'
  <2>1. Numbered(session)'
    BY <1>2, <1>4 DEF Numbered
  <2>2. \A q \in Handler : importer'[q].at \in {"page", "importing", "saved"} => Numbered(importer[q].session)'
    <3>1. \A q \in Handler : importer[q].at \in {"page", "importing", "saved"} => importer[q].session.data \in File
      BY <1>1, CsvJobs DEF Paging, Importing, SavedRow, Session
    <3> QED BY <1>1, <1>4, <1>5, <3>1 DEF CsvNumbers, Numbered, File
  <2>3. \A j \in 1 .. Len(imported') : imported'[j].file <= uploads'
    <3>0. \A j \in 1 .. Len(imported) : imported[j] \in ImportRow
      BY <1>1 DEF CsvTypes
    <3>1. \A j \in 1 .. Len(imported) : imported[j].file \in Nat
      BY <3>0 DEF ImportRow
    <3> QED BY <1>1, <1>4, <3>1 DEF CsvNumbers
  <2> QED BY <1>1, <1>5, <2>1, <2>2, <2>3 DEF CsvNumbers, Numbered
<1>7. ASSUME NEW f \in Nat \ again' PROVE Once(f)'
  <2>1. f \notin again /\ Once(f)
    BY <1>2 DEF CsvInv
  <2>2. Of(f)' = Of(f) /\ imported' = imported
    BY DEF Of
  <2>3. \A q \in Handler : Imports(q, f)' => Imports(q, f) /\ importer'[q] = importer[q]
    BY <1>5 DEF Imports
  <2>4. Of(f) # {} /\ s.data = f => \E q \in Handler : Imports(q, f)'
    <3> SUFFICES ASSUME Of(f) # {}, s.data = f PROVE \E q \in Handler : Imports(q, f)'
      OBVIOUS
    <3>1. f <= uploads /\ f # None
      BY <1>1 DEF CsvNumbers, Of, CsvKinds
    <3>2. session.data = f /\ importer[r].at = "page"
      BY <1>2, <1>4, <3>1
    <3>3. PICK q \in Handler : Imports(q, f)
      BY <2>1, <3>2 DEF Once
    <3>4. q # r
      BY <3>2, <3>3 DEF Imports
    <3> QED BY <1>2, <3>3, <3>4 DEF Imports
  <2> QED BY <1>2, <2>1, <2>2, <2>3, <2>4 DEF Once, Past
<1> QED BY <1>3, <1>6, <1>7 DEF CsvInv

(* The requests that leave a session: pages, uploads, previews, and the    *)
(* end of an import, which forgets the file.                               *)
LEMMA CsvEnds ==
  ASSUME CsvKinds, CsvInv, NEW r \in Handler, C!Page(r) \/ C!Upload(r) \/ C!Preview(r) \/ C!EndImport(r)
  PROVE  CsvInv'
<1>1. CsvTypes /\ CsvNumbers /\ uploads \in Nat
  BY DEF CsvInv, CsvTypes
<1> DEFINE s == importer[r].session
<1>2. CASE C!Page(r)
  <2>1. s \in Session /\ Numbered(s) /\ C!Saved(r, s) /\ importer[r].at = "page"
    BY <1>1, <1>2, CsvJobs DEF C!Page, CsvNumbers, Paging
  <2> QED BY <1>2, <2>1, CsvSaves DEF C!Page
<1>3. CASE C!Upload(r)
  <2> DEFINE t == [s EXCEPT !.data = uploads + 1]
  <2>1. s \in Session /\ C!Saved(r, t) /\ importer[r].at = "page" /\ uploads' = uploads + 1
    BY <1>1, <1>3, CsvJobs DEF C!Upload, Paging
  <2>2. t \in Session /\ t.data = uploads + 1
    BY <1>1, <2>1 DEF Session, File
  <2> HIDE DEF t
  <2> QED BY <1>3, <2>1, <2>2, CsvSaves DEF C!Upload
<1>4. CASE C!Preview(r)
  <2> DEFINE t == [s EXCEPT !.mapping = s.data]
  <2>1. s \in Session /\ C!Saved(r, t) /\ importer[r].at = "page" /\ Numbered(s)
    BY <1>1, <1>4, CsvJobs DEF C!Preview, Paging, CsvNumbers
  <2>2. t \in Session /\ t.data = s.data
    BY <2>1 DEF Session
  <2>3. Numbered(t)
    BY <2>1, <2>2 DEF Numbered
  <2> HIDE DEF t
  <2> QED BY <1>4, <2>1, <2>2, <2>3, CsvSaves DEF C!Preview
<1>5. CASE C!EndImport(r)
  <2> DEFINE t == [s EXCEPT !.data = None, !.mapping = None]
  <2>1. s \in Session /\ C!Saved(r, t)
    BY <1>1, <1>5, CsvJobs DEF C!EndImport, C!Popped, Importing
  <2>2. t \in Session /\ t.data = None
    BY <2>1 DEF Session, File
  <2> HIDE DEF t
  <2> QED BY <1>5, <2>1, <2>2, CsvSaves DEF C!EndImport
<1> QED BY <1>2, <1>3, <1>4, <1>5

(* A request that begins: a page, or the import of a file that has no post *)
(* yet, or is one that may be imported again.                              *)
LEMMA CsvBegins ==
  ASSUME CsvKinds, CsvInv, NEW r \in Handler, C!Begin(r)
  PROVE  CsvInv'
<1>1. CsvTypes /\ CsvNumbers /\ importer[r].at = "idle" /\ session \in Session
  BY CsvJobs DEF CsvInv, CsvTypes, C!Begin
<1>2. PICK q : /\ C!Goes(r, q)
               /\ \/ q \in Paging /\ again' = again
                  \/ /\ q \in Importing /\ session.data # None
                     /\ again' = IF \E p \in Handler : Imports(p, session.data)
                                 THEN again \cup {session.data} ELSE again
               /\ q.session = session
  <2> DEFINE i == [at |-> "page", session |-> session]
             j == [at |-> "importing", session |-> session, row |-> 1]
  <2>1. i \in Paging /\ i.session = session /\ j \in Importing /\ j.session = session
    BY <1>1 DEF Paging, Importing
  <2>2. \/ C!Goes(r, i) /\ again' = again
        \/ /\ C!Goes(r, j) /\ session.data # None
           /\ again' = IF \E p \in Handler : Imports(p, session.data)
                       THEN again \cup {session.data} ELSE again
    BY DEF C!Begin, C!Ready, C!Importing, Imports
  <2> HIDE DEF i, j
  <2> QED BY <2>1, <2>2
<1>3. /\ importer'[r] = q /\ \A p \in Handler \ {r} : importer'[p] = importer[p]
      /\ importer' \in [Handler -> {C!Idle} \cup Paging \cup Importing \cup SavedRow]
  BY <1>1, <1>2, CsvWent
<1>4. UNCHANGED << session, imported, connected, uploads >>
  BY DEF C!Begin
<1>5. CsvTypes'
  BY <1>1, <1>3, <1>4 DEF CsvTypes
<1>6. CsvNumbers'
  BY <1>1, <1>2, <1>3, <1>4 DEF CsvNumbers, Numbered, Paging
<1>7. ASSUME NEW f \in Nat \ again' PROVE Once(f)'
  <2>1. f \notin again /\ Once(f) /\ Of(f)' = Of(f)
    BY <1>2, <1>4 DEF CsvInv, Of
  <2>2. \A p \in Handler \ {r} : (Imports(p, f)' <=> Imports(p, f)) /\ \A j \in Of(f) : Past(p, j)' <=> Past(p, j)
    BY <1>3, <1>4 DEF Imports, Past
  <2>3. ~ Imports(r, f)
    BY <1>1 DEF Imports
  <2>4. CASE q \in Paging \/ session.data # f
    <3>1. ~ Imports(r, f)'
      BY <1>2, <1>3, <2>4 DEF Imports, Paging
    <3> QED BY <1>4, <2>1, <2>2, <2>3, <3>1 DEF Once
  <2>5. CASE q \in Importing /\ session.data = f
    <3>1. \A p \in Handler : ~ Imports(p, f)
      BY <1>2, <1>7, <2>5 DEF Paging, Importing
    <3>2. Of(f) = {}
      BY <2>1, <2>5, <3>1 DEF Once
    <3> QED BY <1>4, <2>1, <2>2, <3>1, <3>2 DEF Once
  <2> QED BY <1>2, <2>4, <2>5
<1> QED BY <1>5, <1>6, <1>7 DEF CsvInv

(* A step of an import from one row to the same or the next, which leaves  *)
(* the posts' files and rows as they are.                                  *)
LEMMA CsvMoves ==
  ASSUME CsvKinds, CsvInv, NEW r \in Handler, NEW q, C!Goes(r, q),
         importer[r].at \in {"importing", "saved"}, q \in Importing \cup SavedRow,
         q.session = importer[r].session,
         \/ q.at = importer[r].at /\ q.row = importer[r].row
         \/ q.at = "importing" /\ q.row = importer[r].row + 1,
         UNCHANGED << session, uploads, again >>, connected' \subseteq connected,
         imported' \in Seq(ImportRow), Len(imported') = Len(imported),
         \A j \in 1 .. Len(imported) : imported'[j].file = imported[j].file /\ imported'[j].row = imported[j].row
  PROVE  CsvInv'
<1>1. CsvTypes /\ CsvNumbers
  BY DEF CsvInv
<1>2. /\ importer'[r] = q /\ \A p \in Handler \ {r} : importer'[p] = importer[p]
      /\ importer' \in [Handler -> {C!Idle} \cup Paging \cup Importing \cup SavedRow]
      /\ q.at \in {"importing", "saved"}
  BY <1>1, CsvWent DEF Importing, SavedRow
<1>3. CsvTypes'
  BY <1>1, <1>2 DEF CsvTypes
<1>4. CsvNumbers'
  BY <1>1, <1>2 DEF CsvNumbers, Numbered
<1>5. ASSUME NEW f \in Nat \ again PROVE Once(f)'
  <2>1. Once(f) /\ Of(f)' = Of(f) /\ Of(f) \subseteq 1 .. Len(imported)
    BY DEF CsvInv, Of
  <2>2. \A p \in Handler : Imports(p, f)' <=> Imports(p, f)
    BY <1>2 DEF Imports
  <2>3. importer[r].row \in Nat /\ q.row \in Nat
    BY <1>1, <1>2, CsvJobs DEF Importing, SavedRow
  <2>4. \A j \in Of(f) : imported[j].row \in Nat
    <3>1. \A j \in Of(f) : imported[j] \in ImportRow
      BY <1>1, <2>1 DEF CsvTypes
    <3> QED BY <3>1 DEF ImportRow
  <2>5. \A j \in Of(f) : Past(r, j) => Past(r, j)'
    BY <1>2, <2>1, <2>3, <2>4 DEF Past
  <2>6. \A p \in Handler \ {r}, j \in Of(f) : Past(p, j) => Past(p, j)'
    BY <1>2, <2>1 DEF Past
  <2> QED BY <2>1, <2>2, <2>5, <2>6 DEF Once
<1> QED BY <1>3, <1>4, <1>5 DEF CsvInv

(* A row that is skipped, or done with, gives way to the next; one of its  *)
(* accounts is added.                                                      *)
LEMMA CsvRows ==
  ASSUME CsvKinds, CsvInv, NEW r \in Handler,
         C!SkipRow(r) \/ C!EndRow(r) \/ C!FailRow(r) \/ C!AddChild(r)
  PROVE  CsvInv'
<1>1. CsvTypes /\ CsvNumbers /\ imported \in Seq(ImportRow) /\ Len(imported) \in Nat
  BY DEF CsvInv, CsvTypes
<1>2. CASE C!SkipRow(r) \/ C!EndRow(r) \/ C!FailRow(r)
  <2> DEFINE q == C!NextRow(importer[r])
  <2>1. /\ C!Goes(r, q) /\ importer[r].at \in {"importing", "saved"}
        /\ imported' = imported /\ connected' \subseteq connected
        /\ UNCHANGED << session, uploads, again >>
    BY <1>2 DEF C!SkipRow, C!EndRow, C!FailRow, C!Kept
  <2>2. importer[r] \in Importing \cup SavedRow
    BY <1>1, <2>1, CsvJobs
  <2>3. /\ q \in Importing /\ q.session = importer[r].session
        /\ q.at = "importing" /\ q.row = importer[r].row + 1
    BY <2>2 DEF C!NextRow, Importing, SavedRow
  <2> HIDE DEF q
  <2> QED BY <1>1, <2>1, <2>3, CsvMoves
<1>3. CASE C!AddChild(r)
  <2> DEFINE i == importer[r].post
  <2>1. PICK a \in connected :
          /\ imported' = [imported EXCEPT ![i].accounts = @ \cup {a}]
          /\ C!Goes(r, [importer[r] EXCEPT !.left = @ \ {a}])
    BY <1>3 DEF C!AddChild
  <2> DEFINE q == [importer[r] EXCEPT !.left = @ \ {a}]
             x == [imported[i] EXCEPT !.accounts = @ \cup {a}]
  <2>2. importer[r].at = "saved" /\ UNCHANGED << session, uploads, again, connected >>
    BY <1>3 DEF C!AddChild, C!Kept
  <2>3. importer[r] \in SavedRow
    BY <1>1, <2>2, CsvJobs
  <2>4. /\ q \in SavedRow /\ q.session = importer[r].session
        /\ q.at = importer[r].at /\ q.row = importer[r].row
    BY <2>3 DEF SavedRow
  <2>5. C!Goes(r, q) /\ imported' = [imported EXCEPT ![i] = x]
    BY <2>1
  <2>6. /\ imported' \in Seq(ImportRow) /\ Len(imported') = Len(imported)
        /\ \A j \in 1 .. Len(imported) : imported'[j].file = imported[j].file /\ imported'[j].row = imported[j].row
    <3>1. CASE i \in 1 .. Len(imported)
      <4>1. imported[i] \in ImportRow /\ a \in Account
        BY <1>1, <3>1 DEF CsvTypes
      <4>2. x \in ImportRow /\ x.file = imported[i].file /\ x.row = imported[i].row
        BY <4>1 DEF ImportRow
      <4> HIDE DEF x, i
      <4>3. /\ [imported EXCEPT ![i] = x] \in Seq(ImportRow)
            /\ Len([imported EXCEPT ![i] = x]) = Len(imported)
            /\ \A j \in 1 .. Len(imported) : [imported EXCEPT ![i] = x][j] = IF j = i THEN x ELSE imported[j]
        BY <1>1, <3>1, <4>2, ExceptSeq
      <4> QED BY <2>5, <4>2, <4>3
    <3>2. CASE i \notin 1 .. Len(imported)
      <4> HIDE DEF x, i
      <4>1. imported' = imported
        BY <1>1, <2>5, <3>2
      <4> QED BY <1>1, <4>1
    <3> QED BY <3>1, <3>2
  <2> HIDE DEF q, x, i
  <2> QED BY <2>2, <2>4, <2>5, <2>6, CsvMoves
<1> QED BY <1>2, <1>3

(* A row in order is saved as a post, and the import is past it.           *)
LEMMA CsvSavesRow ==
  ASSUME CsvKinds, CsvInv, NEW r \in Handler, C!SavePost(r)
  PROVE  CsvInv'
<1>1. /\ CsvTypes /\ CsvNumbers /\ imported \in Seq(ImportRow) /\ importer[r].at = "importing"
      /\ importer[r] \in Importing
      /\ UNCHANGED << session, uploads, again, connected >>
  BY CsvJobs DEF CsvInv, CsvTypes, C!SavePost, C!Kept
<1>2. PICK cells \in C!Reads(importer[r]) :
        /\ imported' = Append(imported,
             [file |-> importer[r].session.data, row |-> importer[r].row, accounts |-> {},
              status |-> IF cells.date = "none" THEN "draft" ELSE "scheduled"])
        /\ C!Goes(r, [at |-> "saved", session |-> importer[r].session, row |-> importer[r].row,
                      post |-> Len(imported) + 1, left |-> cells.accounts])
  BY DEF C!SavePost
<1> DEFINE x == [file |-> importer[r].session.data, row |-> importer[r].row, accounts |-> {},
                 status |-> IF cells.date = "none" THEN "draft" ELSE "scheduled"]
           q == [at |-> "saved", session |-> importer[r].session, row |-> importer[r].row,
                 post |-> Len(imported) + 1, left |-> cells.accounts]
           n == Len(imported) + 1
<1>3. cells.accounts \in SUBSET Account
  <2>1. importer[r].row \in 1 .. Len(FileRows)
    BY <1>1 DEF C!SavePost, Importing, CsvKinds
  <2>2. cells \in Cell
    BY <2>1 DEF C!Reads, CsvKinds
  <2> QED BY <2>2 DEF Cell
<1>4. importer[r].session.data \in Nat /\ importer[r].session.data <= uploads /\ importer[r].row \in Nat \ {0}
  BY <1>1 DEF CsvNumbers, Numbered, Importing, Session, File
<1>5. x \in ImportRow /\ x.file = importer[r].session.data /\ x.row = importer[r].row
  BY <1>4 DEF ImportRow
<1>6. q \in SavedRow /\ q.at = "saved" /\ q.session = importer[r].session /\ q.row = importer[r].row
  BY <1>1, <1>3 DEF SavedRow, Importing
<1>7. imported' = Append(imported, x) /\ C!Goes(r, q)
  BY <1>2
<1> HIDE DEF x, q
<1>8. /\ importer'[r] = q /\ \A p \in Handler \ {r} : importer'[p] = importer[p]
      /\ importer' \in [Handler -> {C!Idle} \cup Paging \cup Importing \cup SavedRow]
  BY <1>1, <1>6, <1>7, CsvWent
<1>9. /\ imported' \in Seq(ImportRow) /\ Len(imported') = n /\ n \in Nat /\ imported'[n] = x
      /\ \A j \in 1 .. Len(imported) : imported'[j] = imported[j]
      /\ \A j \in 1 .. n : j \in 1 .. Len(imported) \/ j = n
      /\ n \notin 1 .. Len(imported)
  BY <1>1, <1>5, <1>7
<1> HIDE DEF n
<1>10. CsvTypes'
  BY <1>1, <1>8, <1>9 DEF CsvTypes
<1>11. CsvNumbers'
  <2>1. \A j \in 1 .. n : imported'[j].file <= uploads
    BY <1>1, <1>4, <1>5, <1>9 DEF CsvNumbers
  <2> QED BY <1>1, <1>6, <1>8, <1>9, <2>1 DEF CsvNumbers, Numbered
<1>12. ASSUME NEW f \in Nat \ again PROVE Once(f)'
  <2>1. Once(f)
    BY DEF CsvInv
  <2>2. \A p \in Handler : Imports(p, f)' <=> Imports(p, f)
    BY <1>1, <1>6, <1>8 DEF Imports
  <2>3. Of(f)' = IF importer[r].session.data = f THEN Of(f) \cup {n} ELSE Of(f)
    <3>1. n \in 1 .. n /\ \A j \in 1 .. Len(imported) : j \in 1 .. n
      BY <1>1, <1>9 DEF n
    <3>2. \A j \in 1 .. n : imported'[j].file = f <=> \/ (j \in 1 .. Len(imported) /\ imported[j].file = f)
                                                      \/ (j = n /\ importer[r].session.data = f)
      BY <1>5, <1>9
    <3>3. Of(f)' = {j \in 1 .. n : imported'[j].file = f}
      BY <1>9 DEF Of
    <3> QED BY <3>1, <3>2, <3>3 DEF Of
  <2>4. CASE importer[r].session.data # f
    <3>1. \A p \in Handler, j \in Of(f) : Imports(p, f) => p # r /\ (Past(p, j) <=> Past(p, j)')
      BY <1>8, <1>9, <2>4 DEF Imports, Past, Of
    <3> QED BY <1>1, <1>9, <2>1, <2>2, <2>3, <2>4, <3>1 DEF Once, Of
  <2>5. CASE importer[r].session.data = f
    <3>1. Imports(r, f) /\ \A p \in Handler : Imports(p, f) => p = r
      BY <1>1, <2>1, <2>5 DEF Once, Imports
    <3>2. \A j \in Of(f) : imported[j].row < importer[r].row /\ imported'[j] = imported[j]
      BY <1>1, <1>9, <2>1, <3>1 DEF Once, Past, Of
    <3>3. \A j \in Of(f) : imported[j].row \in Nat
      <4>1. \A j \in Of(f) : imported[j] \in ImportRow
        BY <1>1 DEF Of
      <4> QED BY <4>1 DEF ImportRow
    <3>4. \A j \in Of(f)' : imported'[j].row <= importer[r].row
      BY <1>4, <1>5, <1>9, <2>3, <3>2, <3>3
    <3>5. \A j \in Of(f)' : Past(r, j)'
      BY <1>6, <1>8, <3>4 DEF Past
    <3>6. \A j, k \in Of(f)' : imported'[j].row = imported'[k].row => j = k
      BY <1>4, <1>5, <1>9, <2>1, <2>3, <3>2, <3>3 DEF Once
    <3> QED BY <2>2, <3>1, <3>5, <3>6 DEF Once
  <2> QED BY <2>4, <2>5
<1> QED BY <1>1, <1>10, <1>11, <1>12 DEF CsvInv

(* A file whose import dies may be imported again.                         *)
LEMMA CsvDies ==
  ASSUME CsvKinds, CsvInv, NEW r \in Handler, C!Die(r)
  PROVE  CsvInv'
<1>1. CsvTypes /\ CsvNumbers
  BY DEF CsvInv
<1>2. /\ importer'[r] = C!Idle /\ \A p \in Handler \ {r} : importer'[p] = importer[p]
      /\ importer' \in [Handler -> {C!Idle} \cup Paging \cup Importing \cup SavedRow]
      /\ C!Idle.at = "idle"
      /\ again' = IF importer[r].at \in {"importing", "saved"} THEN again \cup {importer[r].session.data} ELSE again
      /\ UNCHANGED << session, imported, connected, uploads >>
  BY <1>1, CsvWent DEF C!Die, C!Idle, C!Importing
<1>3. CsvTypes'
  BY <1>1, <1>2 DEF CsvTypes
<1>4. CsvNumbers'
  BY <1>1, <1>2 DEF CsvNumbers, Numbered
<1>5. ASSUME NEW f \in Nat \ again' PROVE Once(f)'
  <2>1. Once(f) /\ Of(f)' = Of(f) /\ ~ Imports(r, f)
    BY <1>2 DEF CsvInv, Of, Imports
  <2>2. \A p \in Handler : (Imports(p, f)' <=> Imports(p, f)) /\ (p # r => \A j \in Of(f) : Past(p, j)' <=> Past(p, j))
    BY <1>2, <2>1 DEF Imports, Past
  <2> QED BY <1>2, <2>1, <2>2 DEF Once
<1> QED BY <1>3, <1>4, <1>5 DEF CsvInv

(* Every step keeps every file imported once.                              *)
LEMMA CsvStep ==
  ASSUME CsvKinds, CsvInv, [C!Next]_(C!vars)
  PROVE  CsvInv'
<1>1. ASSUME UNCHANGED << session, importer, imported, uploads, again >>, connected' \subseteq connected PROVE CsvInv'
  <2>1. CsvTypes' /\ CsvNumbers'
    BY <1>1 DEF CsvInv, CsvTypes, CsvNumbers, Numbered
  <2>2. \A f \in Nat \ again : Once(f)'
    BY <1>1 DEF CsvInv, Once, Of, Imports, Past
  <2> QED BY <1>1, <2>1, <2>2 DEF CsvInv
<1>2. CASE UNCHANGED C!vars
  BY <1>1, <1>2 DEF C!vars
<1>3. ASSUME NEW a \in Account, C!Disconnect(a) PROVE CsvInv'
  BY <1>1, <1>3 DEF C!Disconnect
<1> QED BY <1>2, <1>3, CsvEnds, CsvBegins, CsvRows, CsvSavesRow, CsvDies DEF C!Next

(***************************************************************************)
(* A row of a file is imported once, unless two imports of the file        *)
(* overlap, one dies, or a request that read the session before the import *)
(* wrote it back after.                                                    *)
(***************************************************************************)
THEOREM RowsImportedOnce == C!Spec => []ImportedOnce
<1> USE StudioAssumption
<1>1. C!Init => CsvInv
  <2> SUFFICES ASSUME C!Init PROVE CsvInv
    OBVIOUS
  <2>1. /\ session = [data |-> None, mapping |-> None] /\ imported = << >> /\ uploads = 0 /\ connected = Account
        /\ \A r \in Handler : importer[r] = C!Idle
        /\ importer \in [Handler -> {C!Idle}]
    BY DEF C!Init
  <2>2. C!Idle.at = "idle"
    BY DEF C!Idle
  <2>3. CsvTypes
    BY <2>1 DEF CsvTypes, Session, File
  <2>4. CsvNumbers
    BY <2>1, <2>2 DEF CsvNumbers, Numbered
  <2>5. \A f \in Nat : Of(f) = {} /\ \A r \in Handler : ~ Imports(r, f)
    BY <2>1, <2>2 DEF Of, Imports
  <2> QED BY <2>3, <2>4, <2>5 DEF CsvInv, Once
<1>2. CsvInv => C!ImportedOnce
  <2> SUFFICES ASSUME CsvInv, NEW j \in 1 .. Len(imported), NEW k \in 1 .. Len(imported), j # k,
                      imported[j].file = imported[k].file, imported[j].row = imported[k].row,
                      imported[j].file \notin again
               PROVE  FALSE
    BY DEF C!ImportedOnce
  <2>1. imported[j] \in ImportRow
    BY DEF CsvInv, CsvTypes
  <2>2. Once(imported[j].file)
    BY <2>1 DEF CsvInv, ImportRow
  <2> QED BY <2>2 DEF Once, Of
<1> QED BY <1>1, <1>2, CsvStep, PTL DEF ImportedOnce, C!Spec

-----------------------------------------------------------------------------
(***************************************************************************)
(* Ideas                                                                   *)
(***************************************************************************)
ColumnName == {"Ideas", "Review", "Approved", "Rejected", "Later", Deleted}
Submission == [text : Int, media : SUBSET Asset]
IdeaJob    == [idea : Idea, row : IdeaRow, at : {"row", "media", "Review", "Approved", "Rejected", "Ideas"}]
IdeaHeld   == {I!Free} \cup IdeaJob
IdeaPosts  == {Unmade, Deleted} \cup [idea : Idea, content : Submission, approved : BOOLEAN]

IdeaTypes ==
  /\ idea \in [Idea -> IdeaRow \cup {Unmade, Deleted}]
  /\ column \in Seq(ColumnName)
  /\ ideaAsset \in SUBSET Asset
  /\ ideaHeld \in [Handler -> IdeaHeld]
  /\ ideaPost \in [NewPost -> IdeaPosts]
  /\ reviewed \in [Idea -> SUBSET Submission]

(* The cover is one of the media; what a post is made of a row has been    *)
(* submitted.                                                              *)
CoverIn(row)    == row.cover \in row.media \cup {None}
Covered(i, row) == \E c \in reviewed[i] : row.text = c.text /\ I!Content(row).media \subseteq c.media
FineRow(i, row) == CoverIn(row) /\ (I!Pending(row) => Covered(i, row))

(* What a request has read, until and after it has read the media.         *)
FineHeld(h) ==
  /\ h.at = "row" => CoverIn(h.row)
  /\ I!Pending(h.row) => Covered(h.idea, h.row)

FinePost(q) ==
  \E c \in reviewed[q.idea] : q.content.text = c.text /\ q.content.media \subseteq c.media

(* ApprovedAsReviewed speaks of posts; the text and the media come from a  *)
(* row a request has read, and that was once the row of the idea.          *)
IdeaInv ==
  /\ IdeaTypes
  /\ \A i \in Idea \ straddled : I!Exists(i) => FineRow(i, idea[i])
  /\ \A r \in Handler : ideaHeld[r] # I!Free /\ ideaHeld[r].idea \notin straddled => FineHeld(ideaHeld[r])
  /\ \A p \in NewPost : ideaPost[p] \notin {Unmade, Deleted} =>
       (ideaPost[p].approved /\ ideaPost[p].idea \notin straddled => FinePost(ideaPost[p]))

(* Submissions are added, and ideas that changed under a request.          *)
Recorded == straddled \subseteq straddled' /\ \A i \in Idea : reviewed[i] \subseteq reviewed'[i]

LEMMA IdeasKept ==
  ASSUME IdeaInv, IdeaTypes', Recorded,
         \A i \in Idea \ straddled' : idea'[i] = idea[i] \/ (I!Exists(i)' => FineRow(i, idea[i])'),
         \A r \in Handler :
           \/ ideaHeld'[r] \in {ideaHeld[r], I!Free}
           \/ ideaHeld'[r].idea \notin straddled' => FineHeld(ideaHeld[r])',
         \A p \in NewPost :
           \/ ideaPost'[p] \in {ideaPost[p], Unmade, Deleted}
           \/ ideaPost'[p].approved /\ ideaPost'[p].idea \notin straddled' => FinePost(ideaPost[p])'
  PROVE  IdeaInv'
<1>1. ASSUME NEW i \in Idea, NEW row, Covered(i, row) PROVE Covered(i, row)'
  BY <1>1 DEF Covered, Recorded, I!Content
<1>2. ASSUME NEW i \in Idea \ straddled', I!Exists(i)' PROVE FineRow(i, idea[i])'
  <2>1. CASE idea'[i] = idea[i]
    <3>1. FineRow(i, idea[i])
      BY <1>2, <2>1 DEF IdeaInv, Recorded, I!Exists
    <3> QED BY <1>1, <2>1, <3>1 DEF FineRow, CoverIn, I!Pending
  <2>2. CASE FineRow(i, idea[i])'
    BY <2>2
  <2> QED BY <1>2, <2>1, <2>2
<1>3. ASSUME NEW r \in Handler, ideaHeld'[r] # I!Free, ideaHeld'[r].idea \notin straddled'
      PROVE FineHeld(ideaHeld[r])'
  <2>1. CASE ideaHeld'[r] = ideaHeld[r]
    <3>1. FineHeld(ideaHeld[r]) /\ ideaHeld[r].idea \in Idea
      BY <1>3, <2>1 DEF IdeaInv, Recorded, IdeaTypes, IdeaHeld, IdeaJob
    <3> QED BY <1>1, <2>1, <3>1 DEF FineHeld, CoverIn, I!Pending
  <2> QED BY <1>3, <2>1
<1>4. ASSUME NEW p \in NewPost, ideaPost'[p] \notin {Unmade, Deleted}, ideaPost'[p].approved,
             ideaPost'[p].idea \notin straddled'
      PROVE FinePost(ideaPost[p])'
  <2>1. CASE ideaPost'[p] = ideaPost[p]
    <3>1. FinePost(ideaPost[p]) /\ ideaPost[p].idea \in Idea
      BY <1>4, <2>1 DEF IdeaInv, Recorded, IdeaTypes, IdeaPosts
    <3> QED BY <2>1, <3>1 DEF FinePost, Recorded
  <2> QED BY <1>4, <2>1
<1> QED BY <1>2, <1>3, <1>4 DEF IdeaInv

(* The rows that are written are of their type.                            *)
LEMMA IdeaRows ==
  ASSUME NEW row \in IdeaRow
  PROVE  /\ \A c \in Nat \cup {None} : [row EXCEPT !.column = c] \in IdeaRow
         /\ \A m \in SUBSET Asset, c \in Asset \cup {None} : [row EXCEPT !.media = m, !.cover = c] \in IdeaRow
         /\ \A m \in SUBSET Asset : [row EXCEPT !.media = m] \in IdeaRow
         /\ \A p \in NewPost \cup {None} : [row EXCEPT !.post = p] \in IdeaRow
         /\ \A s \in Approvals : [row EXCEPT !.approval = s] \in IdeaRow
         /\ \A t \in Int, c \in Nat \cup {None} : [row EXCEPT !.text = t, !.column = c] \in IdeaRow
         /\ I!Content(row) \in Submission
BY DEF IdeaRow, I!Content, Submission

LEMMA SyncedIs ==
  ASSUME NEW row \in IdeaRow, NEW memory, NEW m \in SUBSET Asset, NEW saved \in I!Synced(row, memory, m)
  PROVE  /\ saved \in IdeaRow /\ saved.approval = row.approval
         /\ memory.cover = row.cover => CoverIn(saved)
<1>1. PICK f \in I!Covers(m \cap ideaAsset) :
        saved = [row EXCEPT !.media = m \cap ideaAsset, !.cover = IF memory.cover # f THEN f ELSE @]
  BY DEF I!Synced
<1>2. f \in Asset \cup {None} /\ (f \in (m \cap ideaAsset) \cup {None})
  BY DEF I!Covers
<1>3. saved \in IdeaRow /\ saved.approval = row.approval /\ saved.media = m \cap ideaAsset
      /\ saved.cover = IF memory.cover # f THEN f ELSE row.cover
  BY <1>1, <1>2 DEF IdeaRow
<1> QED BY <1>2, <1>3 DEF CoverIn
-----------------------------------------------------------------------------
LEMMA IdeaInit == I!Init => IdeaInv
<1> SUFFICES ASSUME I!Init PROVE IdeaInv
  OBVIOUS
<1>2. << >> \in Seq(ColumnName) /\ I!Defaults \in Seq(ColumnName)
  BY DEF I!Defaults, ColumnName
<1>3. IdeaTypes
  BY <1>2 DEF I!Init, IdeaTypes, IdeaHeld, IdeaPosts
<1> QED BY <1>3 DEF I!Init, IdeaInv, I!Exists

(* What is done on the board.                                              *)
LEMMA BoardSteps ==
  ASSUME IdeaKinds, IdeaInv,
         \/ \E i \in Idea : I!View(i) \/ \E m \in SUBSET Asset : I!Create(i, m)
         \/ I!AddColumn
         \/ \E c \in I!Columns \cap Offered : I!CheckEmpty(c)
         \/ \E c \in closing : I!DeleteColumn(c)
         \/ \E a \in ideaAsset : I!DeleteAsset(a)
         \/ \E p \in NewPost : I!DeletePost(p)
  PROVE  IdeaInv'
<1>0. IdeaTypes /\ \A c \in I!Columns : c \in Nat
  BY DEF IdeaInv, I!Columns
<1>1. CASE I!AddColumn \/ \E c \in I!Columns \cap Offered : I!CheckEmpty(c)
  <2>1. column' \in Seq(ColumnName)
    BY <1>0, <1>1 DEF I!AddColumn, I!CheckEmpty, IdeaTypes, ColumnName
  <2>2. IdeaTypes' /\ Recorded /\ UNCHANGED << idea, ideaHeld, ideaPost >>
    BY <1>0, <1>1, <2>1 DEF I!AddColumn, I!CheckEmpty, IdeaTypes, I!ghosts, Recorded
  <2> QED BY <2>2, IdeasKept
<1>2. ASSUME NEW i \in Idea, I!View(i) PROVE IdeaInv'
  <2>1. /\ column' = column \o I!Defaults /\ idea' = [idea EXCEPT ![i] = I!Draft(Len(column) + 1, 1)]
        /\ UNCHANGED << ideaAsset, ideaPost, ideaHeld, reviewed, straddled >>
    BY <1>2 DEF I!View, I!ghosts
  <2>2. I!Draft(Len(column) + 1, 1) \in IdeaRow
    BY <1>0 DEF I!Draft, IdeaRow, IdeaTypes, Approvals
  <2>3. column' \in Seq(ColumnName)
    <3>1. I!Defaults \in Seq(ColumnName)
      BY DEF I!Defaults, ColumnName
    <3> QED BY <1>0, <2>1, <3>1 DEF IdeaTypes
  <2>4. IdeaTypes' /\ Recorded
    BY <1>0, <2>1, <2>2, <2>3 DEF IdeaTypes, Recorded
  <2>5. ASSUME NEW j \in Idea PROVE idea'[j] = idea[j] \/ FineRow(j, idea[j])'
    BY <1>0, <2>1, <2>5 DEF IdeaTypes, FineRow, CoverIn, I!Draft, I!Pending
  <2> QED BY <2>1, <2>4, <2>5, IdeasKept
<1>3. ASSUME NEW i \in Idea, NEW m \in SUBSET Asset, I!Create(i, m) PROVE IdeaInv'
  <2>1. UNCHANGED << column, ideaAsset, ideaPost, ideaHeld, reviewed, straddled >>
    BY <1>3 DEF I!Create, I!ghosts
  <2>2. PICK c \in (I!Columns \cap Offered) \cup {None} :
          \E row \in I!Synced(I!Draft(c, 1), I!Draft(c, 1), m) : idea' = [idea EXCEPT ![i] = row]
    BY <1>3 DEF I!Create
  <2>3. PICK row \in I!Synced(I!Draft(c, 1), I!Draft(c, 1), m) : idea' = [idea EXCEPT ![i] = row]
    BY <2>2
  <2>4. I!Draft(c, 1) \in IdeaRow /\ I!Draft(c, 1).approval = "draft"
    BY <1>0 DEF I!Draft, IdeaRow, Approvals
  <2>5. row \in IdeaRow /\ row.approval = "draft" /\ CoverIn(row)
    BY <2>4, SyncedIs
  <2>6. IdeaTypes' /\ Recorded
    BY <1>0, <2>1, <2>3, <2>5 DEF IdeaTypes, Recorded
  <2>7. ASSUME NEW j \in Idea PROVE idea'[j] = idea[j] \/ FineRow(j, idea[j])'
    BY <1>0, <2>3, <2>5, <2>7 DEF IdeaTypes, FineRow, CoverIn, I!Pending
  <2> QED BY <2>1, <2>6, <2>7, IdeasKept
<1>4. ASSUME NEW c \in closing, I!DeleteColumn(c) PROVE IdeaInv'
  <2>1. /\ column' = [column EXCEPT ![c] = Deleted]
        /\ idea' = [i \in Idea |-> IF I!Exists(i) /\ idea[i].column = c
                             THEN [idea[i] EXCEPT !.column = None] ELSE idea[i]]
        /\ UNCHANGED << ideaAsset, ideaPost, ideaHeld, reviewed, straddled >>
    BY <1>4 DEF I!DeleteColumn, I!ghosts
  <2>2. column' \in Seq(ColumnName)
    <3>1. Len(column) \in Nat /\ column \in [1 .. Len(column) -> ColumnName]
      BY <1>0, LenProperties DEF IdeaTypes
    <3>2. column' \in [1 .. Len(column) -> ColumnName]
      BY <2>1, <3>1 DEF ColumnName
    <3> QED BY <3>1, <3>2
  <2>3. ASSUME NEW i \in Idea
        PROVE  /\ idea'[i] \in IdeaRow \cup {Unmade, Deleted}
               /\ idea'[i] = idea[i]
                  \/ (idea[i] \in IdeaRow /\ I!Exists(i) /\ idea'[i] = [idea[i] EXCEPT !.column = None])
    BY <1>0, <2>1, IdeaRows DEF IdeaTypes, I!Exists
  <2>4. IdeaTypes' /\ Recorded
    BY <1>0, <2>1, <2>2, <2>3 DEF IdeaTypes, Recorded
  <2>5. ASSUME NEW j \in Idea \ straddled' PROVE idea'[j] = idea[j] \/ FineRow(j, idea[j])'
    <3>1. CASE idea[j] \in IdeaRow /\ I!Exists(j) /\ idea'[j] = [idea[j] EXCEPT !.column = None]
      <4>1. FineRow(j, idea[j])
        BY <2>1, <3>1 DEF IdeaInv
      <4>2. /\ idea'[j].cover = idea[j].cover /\ idea'[j].media = idea[j].media
            /\ idea'[j].approval = idea[j].approval /\ idea'[j].text = idea[j].text
        BY <3>1 DEF IdeaRow
      <4> QED BY <2>1, <4>1, <4>2 DEF FineRow, CoverIn, Covered, I!Pending, I!Content
    <3> QED BY <2>3, <3>1
  <2> QED BY <2>1, <2>4, <2>5, IdeasKept
<1>5. ASSUME NEW a \in ideaAsset, I!DeleteAsset(a) PROVE IdeaInv'
  <2>1. /\ ideaAsset' = ideaAsset \ {a}
        /\ idea' = [i \in Idea |-> IF I!Exists(i)
              THEN [idea[i] EXCEPT !.media = @ \ {a}, !.cover = IF @ = a THEN None ELSE @] ELSE idea[i]]
        /\ UNCHANGED << column, ideaPost, ideaHeld, reviewed, straddled >>
    BY <1>5 DEF I!DeleteAsset, I!ghosts
  <2>2. ASSUME NEW i \in Idea
        PROVE  /\ idea'[i] \in IdeaRow \cup {Unmade, Deleted}
               /\ \/ idea'[i] = idea[i]
                  \/ /\ idea[i] \in IdeaRow /\ I!Exists(i)
                     /\ idea'[i] = [idea[i] EXCEPT !.media = idea[i].media \ {a},
                                     !.cover = IF idea[i].cover = a THEN None ELSE idea[i].cover]
    <3>1. CASE I!Exists(i)
      <4>1. idea[i] \in IdeaRow
        BY <1>0, <3>1 DEF IdeaTypes, I!Exists
      <4>2. idea'[i] = [idea[i] EXCEPT !.media = idea[i].media \ {a},
                                     !.cover = IF idea[i].cover = a THEN None ELSE idea[i].cover]
        BY <2>1, <3>1
      <4>3. idea[i].media \ {a} \in SUBSET Asset
            /\ (IF idea[i].cover = a THEN None ELSE idea[i].cover) \in Asset \cup {None}
        BY <4>1 DEF IdeaRow
      <4>4. \A m \in SUBSET Asset, c \in Asset \cup {None} : [idea[i] EXCEPT !.media = m, !.cover = c] \in IdeaRow
        BY <4>1, IdeaRows
      <4>5. idea'[i] \in IdeaRow
        BY <4>2, <4>3, <4>4
      <4> QED BY <3>1, <4>1, <4>2, <4>5
    <3>2. CASE ~I!Exists(i)
      BY <1>0, <2>1, <3>2 DEF IdeaTypes, I!Exists
    <3> QED BY <3>1, <3>2
  <2>3. IdeaTypes' /\ Recorded
    <3>1. idea' \in [Idea -> IdeaRow \cup {Unmade, Deleted}]
      BY <2>1, <2>2
    <3> QED BY <1>0, <2>1, <3>1 DEF IdeaTypes, Recorded
  <2>4. ASSUME NEW j \in Idea \ straddled', idea'[j] # idea[j] PROVE FineRow(j, idea[j])'
    <3>1. FineRow(j, idea[j]) /\ idea[j] \in IdeaRow
      BY <2>1, <2>2, <2>4 DEF IdeaInv
    <3>2. /\ idea'[j].cover = (IF idea[j].cover = a THEN None ELSE idea[j].cover)
          /\ idea'[j].media = idea[j].media \ {a}
          /\ idea'[j].approval = idea[j].approval /\ idea'[j].text = idea[j].text
      BY <2>2, <2>4 DEF IdeaRow
    <3>3. CoverIn(idea[j])' /\ I!Content(idea[j])'.media \subseteq I!Content(idea[j]).media
      BY <3>1, <3>2 DEF FineRow, CoverIn, I!Content
    <3> QED BY <2>1, <3>1, <3>2, <3>3 DEF FineRow, Covered, I!Pending
  <2> QED BY <2>1, <2>3, <2>4, IdeasKept
<1>6. ASSUME NEW p \in NewPost, I!DeletePost(p) PROVE IdeaInv'
  <2>1. /\ ideaPost' = [ideaPost EXCEPT ![p] = Deleted]
        /\ idea' = [i \in Idea |-> IF I!Exists(i) /\ idea[i].post = p
                             THEN [idea[i] EXCEPT !.post = None] ELSE idea[i]]
        /\ UNCHANGED << column, ideaAsset, ideaHeld, reviewed, straddled >>
    BY <1>6 DEF I!DeletePost, I!ghosts
  <2>2. ASSUME NEW i \in Idea
        PROVE  /\ idea'[i] \in IdeaRow \cup {Unmade, Deleted}
               /\ idea'[i] = idea[i]
                  \/ (idea[i] \in IdeaRow /\ I!Exists(i) /\ idea'[i] = [idea[i] EXCEPT !.post = None])
    BY <1>0, <2>1, IdeaRows DEF IdeaTypes, I!Exists
  <2>3. IdeaTypes' /\ Recorded
    BY <1>0, <2>1, <2>2 DEF IdeaTypes, Recorded, IdeaPosts
  <2>4. ASSUME NEW j \in Idea \ straddled' PROVE idea'[j] = idea[j] \/ FineRow(j, idea[j])'
    <3>1. CASE idea[j] \in IdeaRow /\ I!Exists(j) /\ idea'[j] = [idea[j] EXCEPT !.post = None]
      <4>1. FineRow(j, idea[j])
        BY <2>1, <3>1 DEF IdeaInv
      <4>2. /\ idea'[j].cover = idea[j].cover /\ idea'[j].media = idea[j].media
            /\ idea'[j].approval = idea[j].approval /\ idea'[j].text = idea[j].text
        BY <3>1 DEF IdeaRow
      <4> QED BY <2>1, <4>1, <4>2 DEF FineRow, CoverIn, Covered, I!Pending, I!Content
    <3> QED BY <2>2, <3>1
  <2>5. \A q \in NewPost : ideaPost'[q] \in {ideaPost[q], Deleted}
    BY <1>0, <2>1 DEF IdeaTypes
  <2> QED BY <2>1, <2>3, <2>4, <2>5, IdeasKept
<1> QED BY <1>1, <1>2, <1>3, <1>4, <1>5, <1>6

(* What a request writes on its idea, when the row it saves is fine.       *)
LEMMA IdeaSaved ==
  ASSUME IdeaKinds, IdeaInv, NEW r \in Handler, NEW i \in Idea, NEW row \in IdeaRow, I!Saves(i, row),
         IdeaTypes', Recorded,
         \A q \in Handler \ {r} : ideaHeld'[q] = ideaHeld[q],
         ideaHeld'[r] = I!Free \/ (ideaHeld'[r].idea \notin straddled' => FineHeld(ideaHeld[r])'),
         i \notin straddled' => FineRow(i, row)',
         \A p \in NewPost :
           \/ ideaPost'[p] \in {ideaPost[p], Unmade, Deleted}
           \/ ideaPost'[p].approved /\ ideaPost'[p].idea \notin straddled' => FinePost(ideaPost[p])'
  PROVE  IdeaInv'
<1>1. ASSUME NEW j \in Idea \ straddled' PROVE idea'[j] = idea[j] \/ FineRow(j, idea[j])'
  <2>1. idea' = [idea EXCEPT ![i] = row] /\ idea \in [Idea -> IdeaRow \cup {Unmade, Deleted}]
    BY DEF I!Saves, IdeaInv, IdeaTypes
  <2>2. CASE j = i
    <3>1. idea'[j] = row /\ FineRow(i, row)'
      BY <2>1, <2>2
    <3> QED BY <2>2, <3>1 DEF FineRow, CoverIn, Covered
  <2> QED BY <2>1, <2>2
<1> QED BY <1>1, IdeasKept

(* What is true of a request that is under way, and of its idea's row.     *)
LEMMA HeldIs ==
  ASSUME IdeaTypes, NEW r \in Handler, NEW s, I!At(r, s)
  PROVE  /\ ideaHeld[r] \in IdeaJob
         /\ ideaHeld[r] # I!Free /\ ideaHeld[r].at = s
         /\ ideaHeld[r].idea \in Idea /\ ideaHeld[r].row \in IdeaRow
         /\ I!Exists(ideaHeld[r].idea) => idea[ideaHeld[r].idea] \in IdeaRow
         /\ ~I!Exists(ideaHeld[r].idea) => idea[ideaHeld[r].idea] \in {Unmade, Deleted}
BY DEF IdeaTypes, IdeaHeld, IdeaJob, I!At, I!Exists

(* Whether the row has changed.                                            *)
LEMMA Straddles ==
  ASSUME NEW i, NEW row, I!Straddle(i, row)
  PROVE  straddled \subseteq straddled' /\ (i \notin straddled' => idea[i] = row /\ i \notin straddled)
BY DEF I!Straddle

(* Requests begin, read, and end without a save.                           *)
LEMMA RequestSteps ==
  ASSUME IdeaKinds, IdeaInv, NEW r \in Handler,
         (\E i \in Idea : I!Begin(r, i)) \/ I!GiveUp(r) \/ I!ReadMedia(r) \/ I!Delete(r)
  PROVE  IdeaInv'
<1>0. IdeaTypes
  BY DEF IdeaInv
<1>1. ASSUME NEW i \in Idea, I!Begin(r, i) PROVE IdeaInv'
  <2> DEFINE h == [idea |-> i, row |-> idea[i], at |-> "row"]
  <2>1. /\ ideaHeld' = [ideaHeld EXCEPT ![r] = h] /\ I!Exists(i)
        /\ UNCHANGED << idea, column, ideaAsset, ideaPost, reviewed, straddled >>
    BY <1>1 DEF I!Begin, I!ghosts
  <2>2. idea[i] \in IdeaRow
    BY <1>0, <2>1 DEF IdeaTypes, I!Exists
  <2>3. IdeaTypes' /\ Recorded /\ ideaHeld'[r] = h /\ \A q \in Handler \ {r} : ideaHeld'[q] = ideaHeld[q]
    BY <1>0, <2>1, <2>2 DEF IdeaTypes, IdeaHeld, IdeaJob, Recorded
  <2>4. ASSUME i \notin straddled PROVE FineHeld(ideaHeld[r])'
    <3>1. FineRow(i, idea[i])
      BY <2>1, <2>4 DEF IdeaInv
    <3> QED BY <2>1, <2>3, <3>1 DEF FineHeld, FineRow, CoverIn, Covered
  <2>5. ASSUME NEW q \in Handler
        PROVE ideaHeld'[q] = ideaHeld[q] \/ (ideaHeld'[q].idea \notin straddled' => FineHeld(ideaHeld[q])')
    BY <2>1, <2>3, <2>4
  <2> QED BY <2>1, <2>3, <2>5, IdeasKept
<1>2. CASE I!GiveUp(r)
  <2>1. /\ ideaHeld' = [ideaHeld EXCEPT ![r] = I!Free]
        /\ UNCHANGED << idea, column, ideaAsset, ideaPost, reviewed, straddled >>
    BY <1>2 DEF I!GiveUp, I!End, I!Others, I!ghosts
  <2>2. IdeaTypes' /\ Recorded /\ \A q \in Handler : ideaHeld'[q] \in {ideaHeld[q], I!Free}
    BY <1>0, <2>1 DEF IdeaTypes, IdeaHeld, Recorded
  <2> QED BY <2>1, <2>2, IdeasKept
<1>3. CASE I!Delete(r)
  <2>1. /\ ideaHeld' = [ideaHeld EXCEPT ![r] = I!Free] /\ idea' = [idea EXCEPT ![ideaHeld[r].idea] = Deleted]
        /\ UNCHANGED << column, ideaAsset, ideaPost, reviewed, straddled >>
    BY <1>3 DEF I!Delete, I!End, I!Others, I!ghosts
  <2>2. IdeaTypes' /\ Recorded /\ \A q \in Handler : ideaHeld'[q] \in {ideaHeld[q], I!Free}
    BY <1>0, <2>1 DEF IdeaTypes, IdeaHeld, Recorded
  <2>3. \A j \in Idea : idea'[j] = idea[j] \/ ~I!Exists(j)'
    BY <1>0, <2>1 DEF IdeaTypes, I!Exists
  <2> QED BY <2>1, <2>2, <2>3, IdeasKept
<1>4. CASE I!ReadMedia(r)
  <2>0. I!At(r, "row")
    BY <1>4 DEF I!ReadMedia
  <2>1. PICK old \in IdeaJob : old = ideaHeld[r]
    BY <1>0, <2>0, HeldIs
  <2>2. PICK cur : cur = idea[old.idea]
    OBVIOUS
  <2> DEFINE i == old.idea
             row == old.row
             media == IF cur \notin {Unmade, Deleted} THEN cur.media ELSE {}
             h == [idea |-> i, at |-> "media", row |-> [row EXCEPT !.media = media]]
  <2>3. /\ ideaHeld' = [ideaHeld EXCEPT ![r] = h]
        /\ straddled' = IF /\ I!Pending(row) /\ cur \notin {Unmade, Deleted}
                           /\ cur.text # row.text \/ cur.approval # row.approval
                        THEN straddled \cup {i} ELSE straddled
        /\ UNCHANGED << idea, column, ideaAsset, ideaPost, reviewed >>
    <3>1. ideaHeld' = [ideaHeld EXCEPT ![r] = [idea |-> ideaHeld[r].idea, at |-> "media",
                         row |-> [ideaHeld[r].row EXCEPT !.media =
                           IF I!Exists(ideaHeld[r].idea) THEN idea[ideaHeld[r].idea].media ELSE {}]]]
      BY <1>4 DEF I!ReadMedia
    <3>2. I!Exists(ideaHeld[r].idea) <=> cur \notin {Unmade, Deleted}
      BY <2>1, <2>2 DEF I!Exists
    <3>3. ideaHeld' = [ideaHeld EXCEPT ![r] = h]
      BY <2>1, <2>2, <3>1, <3>2
    <3>4. straddled' = IF /\ I!Pending(row) /\ cur \notin {Unmade, Deleted}
                          /\ cur.text # row.text \/ cur.approval # row.approval
                       THEN straddled \cup {i} ELSE straddled
      BY <1>4, <2>1, <2>2, <3>2 DEF I!ReadMedia
    <3> QED BY <1>4, <3>3, <3>4 DEF I!ReadMedia, I!Others
  <2>4. /\ ideaHeld[r] # I!Free /\ i \in Idea /\ row \in IdeaRow /\ old.at = "row"
        /\ cur \in IdeaRow \/ cur \in {Unmade, Deleted}
    BY <1>0, <2>0, <2>1, <2>2, HeldIs
  <2>5. media \in SUBSET Asset
    BY <2>4 DEF IdeaRow
  <2> HIDE DEF media
  <2>6. [row EXCEPT !.media = media] \in IdeaRow
    BY <2>4, <2>5, IdeaRows
  <2>7. h \in IdeaJob
    BY <2>4, <2>6 DEF IdeaJob
  <2>8. h.idea = i /\ h.row = [row EXCEPT !.media = media] /\ h.at = "media"
    BY <2>4 DEF IdeaJob
  <2> HIDE DEF h
  <2>9. IdeaTypes' /\ Recorded /\ ideaHeld'[r] = h /\ \A q \in Handler \ {r} : ideaHeld'[q] = ideaHeld[q]
    BY <1>0, <2>3, <2>7 DEF IdeaTypes, IdeaHeld, Recorded
  <2>10. /\ h.row.text = row.text /\ h.row.approval = row.approval /\ h.row.cover = row.cover
        /\ h.row.media = media
    BY <2>4, <2>5, <2>8 DEF IdeaRow
  <2>11. ASSUME i \notin straddled', I!Pending(h.row) PROVE Covered(i, h.row)'
    <3>1. i \notin straddled /\ I!Pending(row)
      BY <2>3, <2>10, <2>11 DEF I!Pending
    <3>2. CoverIn(row) /\ Covered(i, row)
      BY <2>1, <2>4, <3>1 DEF IdeaInv, FineHeld
    <3>3. CASE media = {}
      <4>1. I!Content(h.row).media \subseteq I!Content(row).media
        BY <2>10, <3>2, <3>3 DEF I!Content, CoverIn
      <4> QED BY <2>3, <2>10, <3>2, <4>1 DEF Covered
    <3>4. CASE media # {}
      <4>1. cur \notin {Unmade, Deleted} /\ media = cur.media
        BY <3>4 DEF media
      <4>2. cur.text = row.text /\ I!Pending(cur)
        BY <2>3, <2>11, <3>1, <4>1 DEF I!Pending
      <4>3. Covered(i, cur)
        BY <2>2, <2>4, <3>1, <4>1, <4>2 DEF IdeaInv, FineRow, I!Exists
      <4>4. I!Content(h.row).media = I!Content(cur).media
        BY <2>10, <3>4, <4>1 DEF I!Content
      <4> QED BY <2>3, <2>10, <4>2, <4>3, <4>4 DEF Covered
    <3> QED BY <3>3, <3>4
  <2>12. ASSUME NEW q \in Handler
         PROVE ideaHeld'[q] = ideaHeld[q] \/ (ideaHeld'[q].idea \notin straddled' => FineHeld(ideaHeld[q])')
    <3>1. CASE q = r
      <4>1. i \notin straddled' => FineHeld(h)'
        BY <2>8, <2>11 DEF FineHeld, Covered
      <4> QED BY <2>8, <2>9, <3>1, <4>1 DEF FineHeld, CoverIn, Covered
    <3> QED BY <2>9, <3>1
  <2> QED BY <2>3, <2>9, <2>12, IdeasKept
<1> QED BY <1>1, <1>2, <1>3, <1>4

(* Requests that save.                                                     *)
LEMMA EditStep ==
  ASSUME IdeaKinds, IdeaInv, NEW r \in Handler, NEW text \in 1 .. MaxText, I!Edit(r, text)
  PROVE  IdeaInv'
<1>0. IdeaTypes /\ I!At(r, "row") /\ \A c \in I!Columns : c \in Nat
  BY DEF IdeaInv, I!Edit, I!Columns
<1>1. PICK old \in IdeaJob : old = ideaHeld[r] /\ old.idea \in Idea /\ old.row \in IdeaRow
  BY <1>0, HeldIs
<1>2. /\ I!Exists(old.idea) /\ I!IsEditable(old.row)
      /\ \E c \in (I!Columns \cap Offered) \cup {old.row.column} :
           \E saved \in {[idea[old.idea] EXCEPT !.text = text, !.column = c]}
                          \cup UNION {I!Synced([idea[old.idea] EXCEPT !.text = text, !.column = c], old.row, m) :
                                        m \in SUBSET Asset} :
             I!Saves(old.idea, saved)
      /\ I!Straddle(old.idea, old.row) /\ ideaHeld' = [ideaHeld EXCEPT ![r] = I!Free]
      /\ UNCHANGED << column, ideaAsset, ideaPost, reviewed >>
  BY <1>1 DEF I!Edit, I!End, I!Others
<1>3. PICK cur \in IdeaRow : cur = idea[old.idea]
  BY <1>0, <1>1, <1>2, HeldIs
<1>4. PICK c \in (I!Columns \cap Offered) \cup {old.row.column} :
        \E saved \in {[cur EXCEPT !.text = text, !.column = c]}
                       \cup UNION {I!Synced([cur EXCEPT !.text = text, !.column = c], old.row, m) :
                                     m \in SUBSET Asset} :
          I!Saves(old.idea, saved)
  BY <1>2, <1>3
<1> DEFINE row == [cur EXCEPT !.text = text, !.column = c]
<1>5. row \in IdeaRow /\ row.approval = cur.approval /\ row.cover = cur.cover /\ row.media = cur.media
  <2>1. c \in Nat \cup {None} /\ text \in Int
    BY <1>0, <1>1 DEF IdeaRow
  <2>2. row \in IdeaRow
    BY <2>1, IdeaRows
  <2> QED BY <2>2 DEF IdeaRow
<1> HIDE DEF row
<1>6. PICK saved \in {row} \cup UNION {I!Synced(row, old.row, m) : m \in SUBSET Asset} :
        I!Saves(old.idea, saved)
  BY <1>4 DEF row
<1>7. straddled \subseteq straddled' /\ (old.idea \notin straddled' => cur = old.row /\ old.idea \notin straddled)
  BY <1>2, <1>3, Straddles
<1>8. saved \in IdeaRow /\ saved.approval = cur.approval
      /\ (old.idea \notin straddled' => CoverIn(saved))
  <2>1. CASE saved = row
    <3>1. old.idea \notin straddled' => CoverIn(cur)
      BY <1>1, <1>2, <1>3, <1>7 DEF IdeaInv, FineRow
    <3> QED BY <1>5, <2>1, <3>1 DEF CoverIn
  <2>2. CASE saved # row
    <3>1. PICK m \in SUBSET Asset : saved \in I!Synced(row, old.row, m)
      BY <1>6, <2>2
    <3>2. saved \in IdeaRow /\ saved.approval = row.approval /\ (old.row.cover = row.cover => CoverIn(saved))
      BY <1>5, <3>1, SyncedIs
    <3> QED BY <1>5, <1>7, <3>2
  <2> QED BY <2>1, <2>2
<1>9. old.idea \notin straddled' => FineRow(old.idea, saved)'
  BY <1>2, <1>7, <1>8 DEF FineRow, CoverIn, I!Pending, I!IsEditable
<1>10. IdeaTypes' /\ Recorded
  <2>1. idea' = [idea EXCEPT ![old.idea] = saved]
    BY <1>6 DEF I!Saves
  <2> QED BY <1>0, <1>1, <1>2, <1>7, <1>8, <2>1 DEF IdeaTypes, IdeaHeld, Recorded
<1>11. ideaHeld'[r] = I!Free /\ \A q \in Handler \ {r} : ideaHeld'[q] = ideaHeld[q]
  BY <1>0, <1>2 DEF IdeaTypes
<1>12. \A p \in NewPost : ideaPost'[p] \in {ideaPost[p], Unmade, Deleted}
  BY <1>2
<1> QED BY <1>1, <1>6, <1>8, <1>9, <1>10, <1>11, <1>12, IdeaSaved

LEMMA DragStep ==
  ASSUME IdeaKinds, IdeaInv, NEW r \in Handler, I!Drag(r)
  PROVE  IdeaInv'
<1>0. IdeaTypes /\ I!At(r, "row") /\ \A c \in I!Columns : c \in Nat
  BY DEF IdeaInv, I!Drag, I!Columns
<1>1. PICK old \in IdeaJob : old = ideaHeld[r] /\ old.idea \in Idea /\ old.row \in IdeaRow
  BY <1>0, HeldIs
<1>2. PICK cur \in IdeaRow \cup {Unmade, Deleted} : cur = idea[old.idea]
  BY <1>0, <1>1 DEF IdeaTypes
<1>3. PICK media \in SUBSET Asset : media = IF I!Exists(old.idea) THEN cur.media ELSE {}
  BY <1>0, <1>1, <1>2, HeldIs DEF IdeaRow
<1>4. /\ \E c \in (I!Columns \cap Offered) \cup {old.row.column} :
           idea' = [idea EXCEPT ![old.idea] = [old.row EXCEPT !.column = c, !.media = media]]
      /\ I!Straddle(old.idea, old.row) /\ ideaHeld' = [ideaHeld EXCEPT ![r] = I!Free]
      /\ UNCHANGED << column, ideaAsset, ideaPost, reviewed >>
  BY <1>1, <1>2, <1>3 DEF I!Drag, I!End, I!Others
<1>5. PICK c \in (I!Columns \cap Offered) \cup {old.row.column} :
        idea' = [idea EXCEPT ![old.idea] = [old.row EXCEPT !.column = c, !.media = media]]
  BY <1>4
<1> DEFINE row == [old.row EXCEPT !.column = c, !.media = media]
<1>6. /\ row \in IdeaRow /\ row.approval = old.row.approval /\ row.cover = old.row.cover
      /\ row.media = media /\ row.text = old.row.text
  BY <1>0, <1>1 DEF IdeaRow
<1> HIDE DEF row
<1>7. straddled \subseteq straddled' /\ (old.idea \notin straddled' => cur = old.row /\ old.idea \notin straddled)
  BY <1>2, <1>4, Straddles
<1>8. ASSUME old.idea \notin straddled' PROVE FineRow(old.idea, row)'
  <2>1. cur = old.row /\ cur \in IdeaRow /\ I!Exists(old.idea) /\ media = cur.media
    BY <1>1, <1>2, <1>3, <1>7, <1>8 DEF IdeaKinds, I!Exists
  <2>2. FineRow(old.idea, cur)
    BY <1>1, <1>2, <1>7, <1>8, <2>1 DEF IdeaInv
  <2> QED BY <1>4, <1>6, <2>1, <2>2 DEF FineRow, CoverIn, Covered, I!Pending, I!Content
<1>9. IdeaTypes' /\ Recorded
  BY <1>0, <1>1, <1>4, <1>5, <1>6, <1>7 DEF IdeaTypes, IdeaHeld, Recorded, row
<1>10. \A q \in Handler : ideaHeld'[q] \in {ideaHeld[q], I!Free}
  BY <1>0, <1>4 DEF IdeaTypes
<1>11. ASSUME NEW j \in Idea \ straddled' PROVE idea'[j] = idea[j] \/ FineRow(j, idea[j])'
  <2>1. CASE j = old.idea
    <3>1. idea'[j] = row
      BY <1>0, <1>1, <1>5, <2>1 DEF IdeaTypes, row
    <3> QED BY <1>8, <1>11, <2>1, <3>1 DEF FineRow, CoverIn, Covered
  <2> QED BY <1>0, <1>5, <2>1 DEF IdeaTypes
<1> QED BY <1>4, <1>9, <1>10, <1>11, IdeasKept

LEMMA DecisionSteps ==
  ASSUME IdeaKinds, IdeaInv, NEW r \in Handler, I!Submit(r) \/ I!Refuse(r) \/ I!MoveToColumn(r)
  PROVE  IdeaInv'
<1>0. IdeaTypes /\ ideaHeld[r] # I!Free /\ \A c \in I!Columns : c \in Nat
  BY DEF IdeaInv, I!Submit, I!Refuse, I!MoveToColumn, I!At, I!Columns
<1>1. PICK old \in IdeaJob : old = ideaHeld[r] /\ old.idea \in Idea /\ old.row \in IdeaRow
  BY <1>0 DEF IdeaTypes, IdeaHeld, IdeaJob
<1>2. \A p \in NewPost : ideaPost'[p] \in {ideaPost[p], Unmade, Deleted}
  BY DEF I!Submit, I!Refuse, I!MoveToColumn
<1>3. ASSUME NEW s \in Approvals, NEW name \in {"Review", "Rejected", "Ideas"}, I!Exists(old.idea),
             I!Decided(r, [idea[old.idea] EXCEPT !.approval = s], name),
             UNCHANGED ideaPost, IF s = "pending_review"
               THEN reviewed' = [reviewed EXCEPT ![old.idea] = @ \cup {I!Content(idea[old.idea])}]
               ELSE UNCHANGED reviewed
      PROVE  IdeaInv'
  <2>1. PICK cur \in IdeaRow : cur = idea[old.idea]
    BY <1>0, <1>1, <1>3 DEF IdeaTypes, I!Exists
  <2> DEFINE row == [cur EXCEPT !.approval = s]
             h == [old EXCEPT !.at = name]
  <2>2. /\ row \in IdeaRow /\ row.approval = s /\ row.text = cur.text /\ row.cover = cur.cover
        /\ row.media = cur.media
    BY DEF IdeaRow
  <2>3. h \in IdeaJob /\ h.idea = old.idea /\ h.row = old.row /\ h.at = name
    BY DEF IdeaJob
  <2>4. /\ I!Saves(old.idea, row) /\ ideaHeld' = [ideaHeld EXCEPT ![r] = h]
        /\ idea' = [idea EXCEPT ![old.idea] = row]
        /\ UNCHANGED << column, ideaAsset, straddled >>
    BY <1>1, <1>3, <2>1 DEF I!Decided, I!Others, I!Saves
  <2> HIDE DEF row, h
  <2>5. I!Content(cur) \in Submission
    BY IdeaRows
  <2>6. IdeaTypes' /\ Recorded /\ ideaHeld'[r] = h /\ \A q \in Handler \ {r} : ideaHeld'[q] = ideaHeld[q]
    BY <1>0, <1>1, <1>3, <2>1, <2>2, <2>3, <2>4, <2>5 DEF IdeaTypes, IdeaHeld, Recorded
  <2>7. ASSUME old.idea \notin straddled' PROVE FineRow(old.idea, row)'
    <3>1. CoverIn(cur)
      BY <1>1, <1>3, <2>1, <2>4, <2>7 DEF IdeaInv, FineRow
    <3>2. s = "pending_review" => I!Content(cur) \in reviewed'[old.idea]
      BY <1>0, <1>1, <1>3, <2>1 DEF IdeaTypes
    <3>3. I!Content(row) = I!Content(cur) /\ I!Content(cur).text = row.text
      BY <2>2 DEF I!Content
    <3> QED BY <2>2, <3>1, <3>2, <3>3 DEF FineRow, CoverIn, Covered, I!Pending
  <2>8. ASSUME old.idea \notin straddled' PROVE FineHeld(h)'
    <3>1. FineHeld(old)
      BY <1>0, <1>1, <2>4, <2>8 DEF IdeaInv
    <3>2. I!Pending(h.row) => Covered(old.idea, h.row)'
      BY <1>1, <2>3, <2>6, <3>1 DEF FineHeld, Covered, Recorded
    <3> QED BY <2>3, <3>2 DEF FineHeld, Covered
  <2>9. ideaHeld'[r].idea \notin straddled' => FineHeld(ideaHeld[r])'
    BY <2>3, <2>6, <2>8 DEF FineHeld, CoverIn, Covered
  <2> QED BY <1>1, <1>2, <2>2, <2>4, <2>6, <2>7, <2>9, IdeaSaved
<1>4. CASE I!Submit(r)
  <2>1. /\ I!Exists(old.idea) /\ I!Decided(r, [idea[old.idea] EXCEPT !.approval = "pending_review"], "Review")
        /\ reviewed' = [reviewed EXCEPT ![old.idea] = @ \cup {I!Content(idea[old.idea])}] /\ UNCHANGED ideaPost
    BY <1>1, <1>4 DEF I!Submit
  <2> QED BY <1>3, <2>1 DEF Approvals
<1>5. CASE I!Refuse(r)
  <2>1. /\ I!Exists(old.idea) /\ UNCHANGED << ideaPost, reviewed >>
        /\ \/ I!Decided(r, [idea[old.idea] EXCEPT !.approval = "rejected"], "Rejected")
           \/ I!Decided(r, [idea[old.idea] EXCEPT !.approval = "changes_requested"], "Ideas")
    BY <1>1, <1>5 DEF I!Refuse
  <2> QED BY <1>3, <2>1 DEF Approvals
<1>6. CASE I!MoveToColumn(r)
  <2>1. /\ ideaHeld' = [ideaHeld EXCEPT ![r] = I!Free]
        /\ UNCHANGED << column, ideaAsset, ideaPost, reviewed, straddled >>
        /\ idea' = idea \/ \E c \in I!Columns : I!Saves(old.idea, [idea[old.idea] EXCEPT !.column = c])
    BY <1>1, <1>6 DEF I!MoveToColumn, I!End, I!Others, I!ghosts, I!Titled
  <2>2. CASE idea' = idea
    <3>1. IdeaTypes' /\ Recorded /\ \A q \in Handler : ideaHeld'[q] \in {ideaHeld[q], I!Free}
      BY <1>0, <2>1, <2>2 DEF IdeaTypes, IdeaHeld, Recorded
    <3> QED BY <1>2, <2>2, <3>1, IdeasKept
  <2>3. CASE \E c \in I!Columns : I!Saves(old.idea, [idea[old.idea] EXCEPT !.column = c])
    <3>1. PICK c \in I!Columns : I!Saves(old.idea, [idea[old.idea] EXCEPT !.column = c])
      BY <2>3
    <3>2. PICK cur \in IdeaRow : cur = idea[old.idea]
      BY <1>0, <1>1, <3>1 DEF IdeaTypes, I!Exists, I!Saves
    <3> DEFINE row == [cur EXCEPT !.column = c]
    <3>3. /\ row \in IdeaRow /\ row.approval = cur.approval /\ row.text = cur.text /\ row.cover = cur.cover
          /\ row.media = cur.media
      BY <1>0 DEF IdeaRow
    <3>4. I!Saves(old.idea, row) /\ I!Exists(old.idea) /\ idea' = [idea EXCEPT ![old.idea] = row]
      BY <3>1, <3>2 DEF I!Saves
    <3> HIDE DEF row
    <3>5. /\ IdeaTypes' /\ Recorded /\ ideaHeld'[r] = I!Free
          /\ \A q \in Handler \ {r} : ideaHeld'[q] = ideaHeld[q]
      BY <1>0, <1>1, <2>1, <3>3, <3>4 DEF IdeaTypes, IdeaHeld, Recorded
    <3>6. ASSUME old.idea \notin straddled' PROVE FineRow(old.idea, row)'
      <4>1. FineRow(old.idea, cur)
        BY <1>1, <2>1, <3>2, <3>4, <3>6 DEF IdeaInv
      <4> QED BY <2>1, <3>3, <4>1 DEF FineRow, CoverIn, Covered, I!Pending, I!Content
    <3> QED BY <1>1, <1>2, <3>3, <3>4, <3>5, <3>6, IdeaSaved
  <2> QED BY <2>1, <2>2, <2>3
<1> QED BY <1>4, <1>5, <1>6

(* A post that is made by an approval is made of what the request holds.   *)
LEMMA PostSteps ==
  ASSUME IdeaKinds, IdeaInv, NEW r \in Handler, NEW p \in NewPost, I!Approve(r, p) \/ I!CreatePost(r, p)
  PROVE  IdeaInv'
<1>0. IdeaTypes /\ I!At(r, "media")
  BY DEF IdeaInv, I!Approve, I!CreatePost
<1>1. PICK old \in IdeaJob : old = ideaHeld[r] /\ old.idea \in Idea /\ old.row \in IdeaRow /\ ideaHeld[r] # I!Free
  BY <1>0, HeldIs
<1>2. ASSUME NEW how \in {"approved", "as it is"}, I!Makes(r, p, how), how = "approved" => I!Pending(old.row)
      PROVE  /\ I!Exists(old.idea) /\ ideaPost' \in [NewPost -> IdeaPosts]
             /\ \A q \in NewPost :
                  ideaPost'[q] = ideaPost[q]
                  \/ (ideaPost'[q].approved /\ ideaPost'[q].idea \notin straddled =>
                        FineHeld(old) /\ ideaPost'[q].idea = old.idea /\ ideaPost'[q].content = I!Content(old.row)
                          /\ I!Pending(old.row))
  <2> DEFINE made == [idea |-> old.idea, content |-> I!Content(old.row), approved |-> how = "approved"]
  <2>1. I!Exists(old.idea) /\ ideaPost' = [ideaPost EXCEPT ![p] = made]
    BY <1>1, <1>2 DEF I!Makes
  <2>2. made \in IdeaPosts
    BY <1>1, IdeaRows DEF IdeaPosts
  <2>3. made.idea = old.idea /\ made.content = I!Content(old.row) /\ (made.approved <=> how = "approved")
    OBVIOUS
  <2> HIDE DEF made
  <2>4. old.idea \notin straddled => FineHeld(old)
    BY <1>1 DEF IdeaInv
  <2> QED BY <1>0, <1>2, <2>1, <2>2, <2>3, <2>4 DEF IdeaTypes
<1>3. ASSUME NEW how \in {"approved", "as it is"}, I!Makes(r, p, how), how = "approved" => I!Pending(old.row),
             NEW cur \in IdeaRow, cur = idea[old.idea],
             NEW row \in IdeaRow, I!Saves(old.idea, row), row.text = cur.text, row.media = cur.media,
             row.cover = cur.cover, row.approval \in {cur.approval, "approved"},
             NEW h \in IdeaHeld, ideaHeld' = [ideaHeld EXCEPT ![r] = h],
             h = I!Free \/ (h \in IdeaJob /\ h.idea = old.idea /\ h.row = old.row /\ h.at = "Approved"),
             UNCHANGED << column, ideaAsset, reviewed, straddled >>
      PROVE  IdeaInv'
  <2>1. /\ I!Exists(old.idea) /\ ideaPost' \in [NewPost -> IdeaPosts]
        /\ \A q \in NewPost :
             ideaPost'[q] = ideaPost[q]
             \/ (ideaPost'[q].approved /\ ideaPost'[q].idea \notin straddled =>
                   FineHeld(old) /\ ideaPost'[q].idea = old.idea /\ ideaPost'[q].content = I!Content(old.row)
                     /\ I!Pending(old.row))
    BY <1>2, <1>3
  <2>2. \A q \in NewPost :
          \/ ideaPost'[q] \in {ideaPost[q], Unmade, Deleted}
          \/ ideaPost'[q].approved /\ ideaPost'[q].idea \notin straddled' => FinePost(ideaPost[q])'
    <3>1. FineHeld(old) /\ I!Pending(old.row) =>
            \E c \in reviewed[old.idea] : I!Content(old.row).text = c.text /\ I!Content(old.row).media \subseteq c.media
      BY DEF FineHeld, Covered, I!Content
    <3> QED BY <1>3, <2>1, <3>1 DEF FinePost
  <2>3. IdeaTypes' /\ Recorded /\ ideaHeld'[r] = h /\ \A q \in Handler \ {r} : ideaHeld'[q] = ideaHeld[q]
    BY <1>0, <1>1, <1>3, <2>1 DEF IdeaTypes, Recorded, I!Saves
  <2>4. ASSUME old.idea \notin straddled' PROVE FineRow(old.idea, row)'
    <3>1. FineRow(old.idea, cur)
      BY <1>1, <1>3, <2>1, <2>4 DEF IdeaInv
    <3> QED BY <1>3, <3>1 DEF FineRow, CoverIn, Covered, I!Pending, I!Content
  <2>5. ideaHeld'[r] = I!Free \/ (ideaHeld'[r].idea \notin straddled' => FineHeld(ideaHeld[r])')
    <3>1. old.idea \notin straddled => FineHeld(old)
      BY <1>1 DEF IdeaInv
    <3>2. h # I!Free /\ old.idea \notin straddled => FineHeld(h)'
      BY <1>3, <3>1 DEF FineHeld, Covered
    <3>3. h # I!Free => h.idea = old.idea
      BY <1>3
    <3>4. ideaHeld'[r] = h /\ straddled' = straddled
      BY <1>3, <2>3
    <3> QED BY <3>2, <3>3, <3>4 DEF FineHeld, CoverIn, Covered
  <2> QED BY <1>1, <1>3, <2>2, <2>3, <2>4, <2>5, IdeaSaved
<1>4. CASE I!CreatePost(r, p)
  <2>1. /\ I!Makes(r, p, "as it is") /\ I!Saves(old.idea, [idea[old.idea] EXCEPT !.post = p])
        /\ ideaHeld' = [ideaHeld EXCEPT ![r] = I!Free]
        /\ UNCHANGED << column, ideaAsset, reviewed, straddled >>
    BY <1>1, <1>4 DEF I!CreatePost, I!End, I!Others, I!ghosts
  <2>2. PICK cur \in IdeaRow : cur = idea[old.idea]
    BY <1>0, <1>1, <2>1 DEF IdeaTypes, I!Exists, I!Saves
  <2> DEFINE row == [cur EXCEPT !.post = p]
  <2>3. row \in IdeaRow /\ row.text = cur.text /\ row.media = cur.media /\ row.cover = cur.cover
        /\ row.approval = cur.approval
    BY DEF IdeaRow
  <2>4. I!Saves(old.idea, row)
    BY <2>1, <2>2
  <2> HIDE DEF row
  <2>5. I!Free \in IdeaHeld
    BY DEF IdeaHeld
  <2> QED BY <1>3, <2>1, <2>2, <2>3, <2>4, <2>5
<1>5. CASE I!Approve(r, p)
  <2> DEFINE h == [old EXCEPT !.at = "Approved"]
  <2>1. /\ I!Makes(r, p, "approved") /\ I!Pending(old.row)
        /\ I!Saves(old.idea, [idea[old.idea] EXCEPT !.approval = "approved", !.post = p])
        /\ ideaHeld' = [ideaHeld EXCEPT ![r] = h]
        /\ UNCHANGED << column, ideaAsset, reviewed, straddled >>
    BY <1>1, <1>5 DEF I!Approve, I!Decided, I!Others
  <2>2. PICK cur \in IdeaRow : cur = idea[old.idea]
    BY <1>0, <1>1, <2>1 DEF IdeaTypes, I!Exists, I!Saves
  <2> DEFINE row == [cur EXCEPT !.approval = "approved", !.post = p]
  <2>3. row \in IdeaRow /\ row.text = cur.text /\ row.media = cur.media /\ row.cover = cur.cover
        /\ row.approval = "approved"
    BY DEF IdeaRow, Approvals
  <2>4. I!Saves(old.idea, row)
    BY <2>1, <2>2
  <2>5. h \in IdeaJob /\ h.idea = old.idea /\ h.row = old.row /\ h.at = "Approved"
    BY DEF IdeaJob
  <2>6. h \in IdeaHeld
    BY <2>5 DEF IdeaHeld
  <2> HIDE DEF row, h
  <2> QED BY <1>3, <2>1, <2>2, <2>3, <2>4, <2>5, <2>6
<1> QED BY <1>4, <1>5

LEMMA IdeaStep ==
  ASSUME IdeaKinds, IdeaInv, [I!Next]_(I!vars)
  PROVE  IdeaInv'
<1>1. CASE UNCHANGED I!vars
  BY <1>1, IdeasKept DEF I!vars, I!ghosts, IdeaInv, IdeaTypes, Recorded
<1> QED BY <1>1, BoardSteps, RequestSteps, EditStep, DragStep, DecisionSteps, PostSteps DEF I!Next

(* ApprovedAsReviewed: whatever decisions overlap, and whatever is         *)
(* deleted meanwhile, a post made by an approval of an idea that did not   *)
(* change under it holds what was submitted for review.                    *)
THEOREM ApprovedWasReviewed == I!Spec => []ApprovedAsReviewed
<1> USE StudioAssumption
<1>1. I!Init => IdeaInv
  BY IdeaInit
<1>2. IdeaInv /\ [I!Next]_(I!vars) => IdeaInv'
  BY IdeaStep
<1>3. IdeaInv => ApprovedAsReviewed
  BY DEF IdeaInv, FinePost, ApprovedAsReviewed, I!ApprovedAsReviewed
<1> QED BY <1>1, <1>2, <1>3, PTL DEF I!Spec

-----------------------------------------------------------------------------
(***************************************************************************)
(* Feeds                                                                   *)
(***************************************************************************)

LEMMA SameCardinality == \A S : F!Cardinality(S) = Cardinality(S)
BY DEF F!Cardinality, Cardinality, F!IsFiniteSet, IsFiniteSet

(* t has what s has at places of K, in the order of R.                     *)
Follows(t, s, K, R, N, f) ==
  /\ t = [n \in 1 .. N |-> s[f[n]]]
  /\ \A i, j \in 1 .. N : i < j => << f[i], f[j] >> \in R
InOrder(t, s, K, R) == \E N \in Nat : \E f \in [1 .. N -> K] : Follows(t, s, K, R, N, f)

(* What is arranged is all that was at the places, each once, in order:    *)
(* the number of places before a place says where it comes.                *)
LEMMA ArrangedIs ==
  ASSUME NEW s, NEW m \in Nat, NEW K \in SUBSET (1 .. m), NEW R,
         \A k \in K : << k, k >> \notin R,
         \A i, j, k \in K : << i, j >> \in R /\ << j, k >> \in R => << i, k >> \in R,
         \A j, k \in K : j = k \/ << j, k >> \in R \/ << k, j >> \in R
  PROVE  InOrder(F!Arranged(s, K, R), s, K, R)
<1> DEFINE below(k) == {j \in K : << j, k >> \in R}
           N        == F!Cardinality(K)
           rank(k)  == F!Cardinality(below(k))
           f        == [n \in 1 .. N |-> CHOOSE k \in K : rank(k) = n - 1]
           g        == [k \in K |-> rank(k) + 1]
<1>1. IsFiniteSet(K) /\ N \in Nat
  <2>1. IsFiniteSet(1 .. m)
    BY FS_Interval
  <2> QED BY <2>1, FS_Subset, FS_CardinalityType, SameCardinality
<1>2. ASSUME NEW A \in SUBSET K, NEW B \in SUBSET A, A # B
      PROVE  Cardinality(B) \in Nat /\ Cardinality(A) \in Nat /\ Cardinality(B) < Cardinality(A)
  <2>1. IsFiniteSet(A) /\ IsFiniteSet(B)
    BY <1>1, FS_Subset
  <2>2. Cardinality(A) \in Nat /\ Cardinality(B) \in Nat
    BY <2>1, FS_CardinalityType
  <2>3. Cardinality(B) <= Cardinality(A) /\ Cardinality(A) # Cardinality(B)
    BY <1>2, <2>1, FS_Subset
  <2> QED BY <2>2, <2>3
<1>3. ASSUME NEW k \in K PROVE rank(k) \in Nat /\ rank(k) < N
  <2>1. below(k) \in SUBSET K /\ K \in SUBSET K /\ K # below(k)
    OBVIOUS
  <2> HIDE DEF below
  <2> QED BY <1>2, <2>1, SameCardinality
<1>4. ASSUME NEW j \in K, NEW k \in K, << j, k >> \in R PROVE rank(j) < rank(k)
  <2>1. below(k) \in SUBSET K /\ below(j) \in SUBSET below(k) /\ below(k) # below(j)
    BY <1>4
  <2> HIDE DEF below
  <2> QED BY <1>2, <2>1, SameCardinality
<1>5. ASSUME NEW j \in K, NEW k \in K, rank(j) = rank(k) PROVE j = k
  <2> HIDE DEF rank, N
  <2>1. rank(j) \in Nat /\ rank(k) \in Nat
    BY <1>3
  <2>2. << j, k >> \notin R
    <3> SUFFICES ASSUME << j, k >> \in R PROVE FALSE
      OBVIOUS
    <3>1. rank(j) < rank(k)
      BY <1>4
    <3> QED BY <1>5, <2>1, <3>1
  <2>3. << k, j >> \notin R
    <3> SUFFICES ASSUME << k, j >> \in R PROVE FALSE
      OBVIOUS
    <3>1. rank(k) < rank(j)
      BY <1>4
    <3> QED BY <1>5, <2>1, <3>1
  <2> QED BY <2>2, <2>3
<1>6. \A n \in 1 .. N : \E k \in K : rank(k) = n - 1
  <2> HIDE DEF rank
  <2>1. g \in Injection(K, 1 .. N)
    BY <1>1, <1>3, <1>5 DEF Injection, IsInjective
  <2>2. IsFiniteSet(1 .. N) /\ Cardinality(1 .. N) = Cardinality(K)
    BY <1>1, FS_Interval, SameCardinality
  <2> HIDE DEF g
  <2>3. g \in Surjection(K, 1 .. N)
    BY <2>1, <2>2, FS_Injection
  <2>4. \A n \in 1 .. N : \E k \in K : g[k] = n
    BY <2>3 DEF Surjection
  <2> USE DEF g
  <2> QED BY <1>1, <1>3, <2>4
<1>7. \A n \in 1 .. N : f[n] \in K /\ rank(f[n]) = n - 1
  <2> HIDE DEF rank
  <2> QED BY <1>6
<1>8. f \in [1 .. N -> K]
  BY <1>7
<1>9. F!Arranged(s, K, R) = [n \in 1 .. N |-> s[f[n]]]
  BY DEF F!Arranged
<1>10. ASSUME NEW i \in 1 .. N, NEW j \in 1 .. N, i < j PROVE << f[i], f[j] >> \in R
  <2> HIDE DEF f, rank, N
  <2>1. f[i] \in K /\ f[j] \in K /\ rank(f[i]) = i - 1 /\ rank(f[j]) = j - 1
    BY <1>7
  <2>2. N \in Nat /\ i \in Int /\ j \in Int
    BY <1>1
  <2>3. f[i] # f[j]
    BY <1>10, <2>1, <2>2
  <2>4. << f[j], f[i] >> \notin R
    <3> SUFFICES ASSUME << f[j], f[i] >> \in R PROVE FALSE
      OBVIOUS
    <3>1. rank(f[j]) < rank(f[i])
      BY <1>4, <2>1
    <3> QED BY <1>10, <2>1, <2>2, <3>1
  <2> QED BY <2>1, <2>3, <2>4
<1> HIDE DEF f, N
<1>11. Follows(F!Arranged(s, K, R), s, K, R, N, f)
  BY <1>9, <1>10 DEF Follows
<1> QED BY <1>1, <1>8, <1>11 DEF InOrder

(* As they came, that is in the order of their places.                     *)
LEMMA AsTheyCameIs ==
  ASSUME NEW s, NEW m \in Nat, NEW K \in SUBSET (1 .. m), NEW S, \A k \in K : s[k] \in S
  PROVE  /\ InOrder(F!Arranged(s, K, F!AsTheyCame(K)), s, K, F!AsTheyCame(K))
         /\ F!Arranged(s, K, F!AsTheyCame(K)) \in Seq(S)
         /\ \A j, k \in K : << j, k >> \in F!AsTheyCame(K) <=> j < k
<1> DEFINE R == F!AsTheyCame(K)
<1>1. \A j, k \in K : << j, k >> \in R <=> j < k
  BY DEF F!AsTheyCame
<1>2. \A k \in K : k \in Int
  OBVIOUS
<1> HIDE DEF R
<1>3. /\ \A k \in K : << k, k >> \notin R
      /\ \A i, j, k \in K : << i, j >> \in R /\ << j, k >> \in R => << i, k >> \in R
      /\ \A j, k \in K : j = k \/ << j, k >> \in R \/ << k, j >> \in R
  BY <1>1, <1>2
<1>4. InOrder(F!Arranged(s, K, R), s, K, R)
  BY <1>3, ArrangedIs
<1>5. PICK N \in Nat : \E f \in [1 .. N -> K] : Follows(F!Arranged(s, K, R), s, K, R, N, f)
  BY <1>4 DEF InOrder
<1>6. PICK f \in [1 .. N -> K] : F!Arranged(s, K, R) = [n \in 1 .. N |-> s[f[n]]]
  BY <1>5 DEF Follows
<1>7. F!Arranged(s, K, R) \in Seq(S)
  <2>1. \A n \in 1 .. N : f[n] \in K
    OBVIOUS
  <2>2. \A n \in 1 .. N : s[f[n]] \in S
    BY <2>1
  <2> QED BY <1>6, <2>2
<1> QED BY <1>1, <1>4, <1>7 DEF R

LEMMA ListedIs == Len(feed) \in Nat => F!Listed \in Seq(Nat)
<1> SUFFICES ASSUME Len(feed) \in Nat PROVE F!Listed \in Seq(Nat)
  OBVIOUS
<1> DEFINE there == {n \in 1 .. Len(feed) : feed[n] # None}
           all   == [n \in 1 .. Len(feed) |-> n]
<1>1. there \in SUBSET (1 .. Len(feed)) /\ \A k \in there : all[k] \in Nat
  OBVIOUS
<1>2. F!Arranged(all, there, F!AsTheyCame(there)) \in Seq(Nat)
  <2> HIDE DEF there, all
  <2> QED BY <1>1, AsTheyCameIs
<1> QED BY <1>2 DEF F!Listed

(* Events of some feeds; in order and none twice.                          *)
Members(s)   == {s[k] : k \in 1 .. Len(s)}
NewsEvent(M) == [feed : M, day : Nat \cup {None}, id : STRING \cup {None} \cup (M \X (Nat \cup {None}))]
Precedes(e, d) == F!DayOf(d) <= F!DayOf(e) /\ << e.feed, e.id >> # << d.feed, d.id >>
Sorted(s)    == \A j, k \in 1 .. Len(s) : j < k => Precedes(s[j], s[k])

LEMMA NewsEventDay == \A M : \A e \in NewsEvent(M) : e.feed \in M /\ F!DayOf(e) \in Nat
BY DEF NewsEvent, F!DayOf

LEMMA EventsOfIs ==
  ASSUME FeedKinds, NEW M, NEW n \in M, NEW answer \in Answers
  PROVE  F!EventsOf(n, answer) \in Seq(NewsEvent(M))
<1>1. CASE answer = NoAnswer
  BY <1>1 DEF F!EventsOf
<1>2. CASE answer # NoAnswer
  <2>1. answer.site \in STRING \cup {None} /\ answer.entries \in Seq(Entry)
    BY <1>2 DEF FeedKinds
  <2>2. ASSUME NEW entry \in Entry PROVE F!Event(n, answer, entry) \in NewsEvent(M)
    <3>1. entry.link \in STRING \cup {None} /\ entry.day \in Nat \cup {None}
      BY DEF Entry
    <3> QED BY <2>1, <3>1 DEF F!Event, NewsEvent
  <2>3. \A k \in 1 .. Len(answer.entries) : F!Event(n, answer, answer.entries[k]) \in NewsEvent(M)
    BY <2>1, <2>2
  <2>4. Len(answer.entries) \in Nat
    BY <2>1
  <2> QED BY <1>2, <2>3, <2>4 DEF F!EventsOf
<1> QED BY <1>1, <1>2

LEMMA NewestIs ==
  ASSUME NEW M, NEW events \in Seq(NewsEvent(M))
  PROVE  F!Newest(events) \in Seq(NewsEvent(M)) /\ Sorted(F!Newest(events))
<1> DEFINE K      == F!Distinct(events)
           R      == {p \in K \X K : F!Before(events, p[1], p[2])}
           day(k) == F!DayOf(events[k])
<1>1. Len(events) \in Nat /\ K \in SUBSET (1 .. Len(events))
  BY DEF F!Distinct
<1>2. ASSUME NEW k \in K PROVE k \in Int /\ events[k] \in NewsEvent(M) /\ day(k) \in Nat
  BY <1>1, NewsEventDay
<1>3. \A j, k \in K : << j, k >> \in R <=> (day(k) < day(j) \/ (day(k) = day(j) /\ j < k))
  BY DEF F!Before
<1>4. ASSUME NEW j \in K, NEW k \in K, j < k
      PROVE  << events[j].feed, events[j].id >> # << events[k].feed, events[k].id >>
  <2>1. j \in 1 .. k - 1
    BY <1>1, <1>4
  <2> QED BY <2>1 DEF F!Distinct
<1>5. ASSUME NEW j \in K, NEW k \in K, << j, k >> \in R PROVE Precedes(events[j], events[k])
  <2> HIDE DEF R, K
  <2>1. day(k) <= day(j) /\ j # k
    BY <1>2, <1>3, <1>5
  <2>2. << events[j].feed, events[j].id >> # << events[k].feed, events[k].id >>
    <3>1. j < k \/ k < j
      BY <1>2, <2>1
    <3> QED BY <1>4, <3>1
  <2> QED BY <2>1, <2>2 DEF Precedes
<1> HIDE DEF R, K, day
<1>6. /\ \A k \in K : << k, k >> \notin R
      /\ \A i, j, k \in K : << i, j >> \in R /\ << j, k >> \in R => << i, k >> \in R
      /\ \A j, k \in K : j = k \/ << j, k >> \in R \/ << k, j >> \in R
  BY <1>2, <1>3
<1>7. InOrder(F!Arranged(events, K, R), events, K, R)
  BY <1>1, <1>6, ArrangedIs
<1>8. PICK N \in Nat : \E f \in [1 .. N -> K] : Follows(F!Arranged(events, K, R), events, K, R, N, f)
  BY <1>7 DEF InOrder
<1>9. PICK f \in [1 .. N -> K] :
         /\ F!Arranged(events, K, R) = [n \in 1 .. N |-> events[f[n]]]
         /\ \A i, j \in 1 .. N : i < j => << f[i], f[j] >> \in R
  BY <1>8 DEF Follows
<1>10. F!Newest(events) = [n \in 1 .. N |-> events[f[n]]]
  BY <1>9 DEF F!Newest, R, K
<1>11. F!Newest(events) \in Seq(NewsEvent(M)) /\ Len(F!Newest(events)) = N
  BY <1>2, <1>9, <1>10
<1>12. \A i, j \in 1 .. N : i < j => Precedes(events[f[i]], events[f[j]])
  BY <1>5, <1>9
<1> QED BY <1>10, <1>11, <1>12 DEF Sorted

LEMMA BatchIs ==
  ASSUME FeedKinds, NEW M, NEW events \in Seq(NewsEvent(M)), Sorted(events), NEW selected, NEW offset \in Nat
  PROVE  F!Batch(events, selected, offset) \in Seq(NewsEvent(M)) /\ Sorted(F!Batch(events, selected, offset))
<1> DEFINE K  == {k \in 1 .. Len(events) : selected \in {None, events[k].feed}}
           of == F!Arranged(events, K, F!AsTheyCame(K))
           to == IF offset + PageSize < Len(of) THEN offset + PageSize ELSE Len(of)
           b  == SubSeq(of, offset + 1, to)
<1>1. Len(events) \in Nat /\ K \in SUBSET (1 .. Len(events)) /\ \A k \in K : events[k] \in NewsEvent(M)
  OBVIOUS
<1>2. F!Batch(events, selected, offset) = b
  BY DEF F!Batch
<1> HIDE DEF K
<1>3. /\ InOrder(of, events, K, F!AsTheyCame(K)) /\ of \in Seq(NewsEvent(M))
      /\ \A j, k \in K : << j, k >> \in F!AsTheyCame(K) <=> j < k
  BY <1>1, AsTheyCameIs
<1> HIDE DEF of
<1>4. PICK N \in Nat : \E f \in [1 .. N -> K] : Follows(of, events, K, F!AsTheyCame(K), N, f)
  BY <1>3 DEF InOrder
<1>5. PICK f \in [1 .. N -> K] :
        /\ of = [n \in 1 .. N |-> events[f[n]]]
        /\ \A i, j \in 1 .. N : i < j => f[i] < f[j]
  BY <1>3, <1>4 DEF Follows
<1>6. Len(of) = N
  BY <1>5
<1>7. \A i, j \in 1 .. N : i < j => Precedes(of[i], of[j])
  <2>1. ASSUME NEW i \in 1 .. N, NEW j \in 1 .. N, i < j PROVE Precedes(of[i], of[j])
    <3>1. f[i] \in 1 .. Len(events) /\ f[j] \in 1 .. Len(events) /\ f[i] < f[j]
      BY <1>1, <1>5, <2>1
    <3>2. of[i] = events[f[i]] /\ of[j] = events[f[j]]
      BY <1>5
    <3> QED BY <3>1, <3>2 DEF Sorted
  <2> QED BY <2>1
<1> HIDE DEF of
<1>8. to \in Int /\ to <= N /\ offset + 1 \in Int
  BY <1>6 DEF FeedKinds
<1> HIDE DEF to
<1>9. \A i \in offset + 1 .. to : i \in 1 .. N /\ of[i] \in NewsEvent(M)
  BY <1>3, <1>6, <1>8
<1>10. /\ b \in Seq(NewsEvent(M))
       /\ Len(b) = IF offset + 1 <= to THEN to - (offset + 1) + 1 ELSE 0
       /\ \A i \in 1 .. to - (offset + 1) + 1 : b[i] = of[(offset + 1) + i - 1]
  BY <1>8, <1>9, SubSeqProperties
<1> HIDE DEF b
<1>11. \A i \in 1 .. Len(b) : offset + i \in 1 .. N /\ b[i] = of[offset + i]
  BY <1>8, <1>10
<1>12. \A i, j \in 1 .. Len(b) : i < j => Precedes(b[i], b[j])
  BY <1>7, <1>11
<1> QED BY <1>2, <1>10, <1>12 DEF Sorted

(* What a page or the cache has of the feeds f: the events are of them.    *)
Kept(f, s) == f \in Seq(Nat) /\ s \in Seq(NewsEvent(Members(f))) /\ Sorted(s)

Fetching(f) ==
  [at : {"fetching"}, feeds : {f}, left : Seq(Members(f)), events : Seq(NewsEvent(Members(f)))]

PageState(q) ==
  /\ q.at = "listed" => q.feeds \in Seq(Nat)
  /\ q.at = "fetching" => \E f \in Seq(Nat) : q \in Fetching(f)
  /\ q.at = "shown" =>
       /\ q.age < TTL
       /\ q.feeds \in Seq(Nat) /\ Len(q.events) \in Nat /\ Sorted(q.events)
       /\ \A k \in 1 .. Len(q.events) : q.events[k].feed \in Members(q.feeds)

CacheState ==
  cache # None =>
    \E f \in Seq(Nat), t \in Nat : \E s \in Seq(NewsEvent(Members(f))) :
      /\ cache = [feeds |-> f, events |-> s, fetched |-> t]
      /\ Sorted(s) /\ t <= now /\ now < t + TTL

(* ShownAreSubscribed speaks of what is shown; it is what was fetched for  *)
(* the feeds the page listed, or what the cache holds of just these.       *)
FeedsInv ==
  /\ feed \in Seq(Url \cup {None}) /\ now \in Nat
  /\ adding \in {F!Idle} \cup [at : {"checked"}, url : Url] \cup [at : {"clearing"}]
  /\ CacheState
  /\ page = [p \in Tab |-> page[p]]
  /\ \A p \in Tab : PageState(page[p])

LEMMA FeedsInit == F!Init => FeedsInv
BY DEF F!Init, F!Idle, FeedsInv, CacheState, PageState

(* A page goes on, whatever becomes of the cache.                          *)
LEMMA PageGoes ==
  ASSUME FeedsInv, NEW p \in Tab, NEW q, F!Goes(p, q), PageState(q),
         UNCHANGED << feed, adding, now >>, CacheState'
  PROVE  FeedsInv'
<1>1. page' = [page EXCEPT ![p] = q]
  BY DEF F!Goes
<1>2. page' = [t \in Tab |-> page'[t]] /\ \A t \in Tab : page'[t] = IF t = p THEN q ELSE page[t]
  BY <1>1 DEF FeedsInv
<1>3. \A t \in Tab : PageState(page'[t])
  BY <1>2 DEF FeedsInv
<1> QED BY <1>2, <1>3 DEF FeedsInv

LEMMA ShowsIs ==
  ASSUME FeedKinds, FeedsInv, NEW p \in Tab, NEW f \in Seq(Nat), NEW s \in Seq(NewsEvent(Members(f))),
         Sorted(s), NEW t \in Nat, t <= now, now < t + TTL, F!Shows(p, f, s, t),
         UNCHANGED << feed, adding, now >>, CacheState'
  PROVE  FeedsInv'
<1>1. PICK selected \in {None} \cup {f[k] : k \in 1 .. Len(f)}, offset \in {0, PageSize} :
        F!Goes(p, [at |-> "shown", feeds |-> f, events |-> F!Batch(s, selected, offset), age |-> now - t])
  BY DEF F!Shows
<1> DEFINE b == F!Batch(s, selected, offset)
           q == [at |-> "shown", feeds |-> f, events |-> b, age |-> now - t]
<1>2. b \in Seq(NewsEvent(Members(f))) /\ Sorted(b)
  BY <1>1, BatchIs DEF FeedKinds
<1> HIDE DEF b
<1>3. Len(b) \in Nat /\ \A k \in 1 .. Len(b) : b[k].feed \in Members(f)
  <2>1. \A k \in 1 .. Len(b) : b[k] \in NewsEvent(Members(f))
    BY <1>2
  <2> QED BY <1>2, <2>1, NewsEventDay
<1>4. now - t < TTL
  BY DEF FeedKinds, FeedsInv
<1>5. PageState(q)
  BY <1>2, <1>3, <1>4 DEF PageState
<1> HIDE DEF q
<1> QED BY <1>1, <1>5, PageGoes DEF q, b

LEMMA PageSteps ==
  ASSUME FeedKinds, FeedsInv, NEW p \in Tab,
         F!Open(p) \/ F!Hit(p) \/ F!Miss(p) \/ F!Fetch(p) \/ F!Fill(p)
  PROVE  FeedsInv'
<1>1. CASE F!Open(p)
  <2>1. PageState([at |-> "listed", feeds |-> F!Listed])
    BY ListedIs DEF PageState, FeedsInv
  <2>2. CacheState'
    BY <1>1 DEF F!Open, FeedsInv, CacheState
  <2> QED BY <1>1, <2>1, <2>2, PageGoes DEF F!Open
<1>2. CASE F!Hit(p)
  <2>1. page[p].feeds \in Seq(Nat) /\ cache # None /\ cache.feeds = page[p].feeds
    BY <1>2 DEF F!Hit, F!Hits, FeedsInv, PageState
  <2>2. PICK f \in Seq(Nat), t \in Nat : \E s \in Seq(NewsEvent(Members(f))) :
          /\ cache = [feeds |-> f, events |-> s, fetched |-> t]
          /\ Sorted(s) /\ t <= now /\ now < t + TTL
    BY <2>1 DEF FeedsInv, CacheState
  <2>3. PICK s \in Seq(NewsEvent(Members(f))) :
          /\ cache = [feeds |-> f, events |-> s, fetched |-> t]
          /\ Sorted(s) /\ t <= now /\ now < t + TTL
    BY <2>2
  <2>4. F!Shows(p, f, s, t)
    BY <1>2, <2>1, <2>3 DEF F!Hit
  <2>5. CacheState' /\ UNCHANGED << feed, adding, now >>
    BY <1>2 DEF F!Hit, F!Rest, FeedsInv, CacheState
  <2> QED BY <2>3, <2>4, <2>5, ShowsIs
<1>3. CASE F!Miss(p)
  <2> DEFINE f == page[p].feeds
             q == [at |-> "fetching", feeds |-> f, left |-> f, events |-> << >>]
  <2>1. f \in Seq(Nat)
    BY <1>3 DEF F!Miss, FeedsInv, PageState
  <2>2. F!Goes(p, q) /\ UNCHANGED << feed, adding, now >>
    BY <1>3 DEF F!Miss, F!Rest
  <2> HIDE DEF f
  <2>3. f \in Seq(Members(f)) /\ << >> \in Seq(NewsEvent(Members(f)))
    <3>1. Len(f) \in Nat /\ f = [k \in 1 .. Len(f) |-> f[k]] /\ \A k \in 1 .. Len(f) : f[k] \in Members(f)
      BY <2>1 DEF Members
    <3> QED BY <3>1
  <2>4. PageState(q)
    BY <2>1, <2>3 DEF PageState, Fetching
  <2>5. CacheState'
    BY <1>3 DEF F!Miss, F!Rest, FeedsInv, CacheState
  <2> HIDE DEF q
  <2> QED BY <2>2, <2>4, <2>5, PageGoes
<1>4. CASE F!Fetch(p) \/ F!Fill(p)
  <2>1. page[p].at = "fetching"
    BY <1>4 DEF F!Fetch, F!Fill
  <2>2. PICK f \in Seq(Nat) : page[p] \in Fetching(f)
    BY <2>1 DEF FeedsInv, PageState
  <2> DEFINE l == page[p].left
             s == page[p].events
  <2>3. l \in Seq(Members(f)) /\ s \in Seq(NewsEvent(Members(f))) /\ page[p].feeds = f
    BY <2>2 DEF Fetching
  <2>4. CASE F!Fetch(p)
    <3>1. PICK answer \in Answers :
            F!Goes(p, [page[p] EXCEPT !.left = Tail(@), !.events = @ \o F!EventsOf(Head(page[p].left), answer)])
      BY <2>4 DEF F!Fetch
    <3> DEFINE e == F!EventsOf(Head(l), answer)
               q == [page[p] EXCEPT !.left = Tail(l), !.events = s \o e]
    <3>2. F!Goes(p, q) /\ l # << >>
      BY <2>4, <3>1 DEF F!Fetch
    <3> HIDE DEF l, s
    <3>3. Head(l) \in Members(f) /\ Tail(l) \in Seq(Members(f))
      BY <2>3, <3>2, HeadTailProperties
    <3>4. e \in Seq(NewsEvent(Members(f)))
      BY <3>3, EventsOfIs
    <3> HIDE DEF e
    <3>5. s \o e \in Seq(NewsEvent(Members(f)))
      BY <2>3, <3>4, ConcatProperties
    <3>6. q \in Fetching(f)
      BY <2>2, <3>3, <3>5 DEF Fetching
    <3>7. PageState(q)
      <4> HIDE DEF q
      <4> QED BY <3>6 DEF PageState, Fetching
    <3>8. CacheState' /\ UNCHANGED << feed, adding, now >>
      BY <2>4 DEF F!Fetch, F!Rest, FeedsInv, CacheState
    <3> HIDE DEF q
    <3> QED BY <3>2, <3>7, <3>8, PageGoes
  <2>5. CASE F!Fill(p)
    <3> DEFINE e == F!Newest(s)
    <3>1. /\ cache' = [feeds |-> f, events |-> e, fetched |-> now]
          /\ F!Shows(p, f, e, now) /\ UNCHANGED << feed, adding, now >>
      BY <2>3, <2>5 DEF F!Fill, F!Rest
    <3>2. e \in Seq(NewsEvent(Members(f))) /\ Sorted(e)
      BY <2>3, NewestIs
    <3> HIDE DEF e
    <3>3. now \in Nat /\ now <= now /\ now < now + TTL
      BY DEF FeedsInv, FeedKinds
    <3>4. CacheState'
      BY <3>1, <3>2, <3>3 DEF CacheState
    <3> QED BY <3>1, <3>2, <3>3, <3>4, ShowsIs
  <2> QED BY <1>4, <2>4, <2>5
<1> QED BY <1>1, <1>2, <1>3, <1>4

LEMMA FeedsStep ==
  ASSUME FeedKinds, FeedsInv, [F!Next]_F!vars
  PROVE  FeedsInv'
<1>1. CASE \E p \in Tab : F!Open(p) \/ F!Hit(p) \/ F!Miss(p) \/ F!Fetch(p) \/ F!Fill(p)
  BY <1>1, PageSteps
<1>2. CASE (\E u \in Url : F!Check(u)) \/ F!Subscribe \/ F!Clear \/ \E n \in 1 .. Len(feed) : F!Unsubscribe(n)
  <2>1. UNCHANGED << page, now >> /\ cache' \in {cache, None}
    BY <1>2 DEF F!Check, F!Subscribe, F!Clear, F!Unsubscribe, F!Unsaved
  <2>2. CacheState'
    BY <2>1 DEF FeedsInv, CacheState
  <2>3. /\ feed' \in Seq(Url \cup {None})
        /\ adding' \in {F!Idle} \cup [at : {"checked"}, url : Url] \cup [at : {"clearing"}]
    <3>1. CASE \E u \in Url : F!Check(u)
      BY <3>1 DEF F!Check, F!Idle, FeedsInv
    <3>2. CASE F!Subscribe
      <4>1. adding.url \in Url
        BY <3>2 DEF F!Subscribe, F!Idle, FeedsInv
      <4> QED BY <3>2, <4>1 DEF F!Subscribe, F!Idle, FeedsInv
    <3>3. CASE F!Clear
      BY <3>3 DEF F!Clear, F!Idle, FeedsInv
    <3>4. CASE \E n \in 1 .. Len(feed) : F!Unsubscribe(n)
      BY <3>4 DEF F!Unsubscribe, F!Idle, FeedsInv
    <3> QED BY <1>2, <3>1, <3>2, <3>3, <3>4
  <2> QED BY <2>1, <2>2, <2>3 DEF FeedsInv
<1>3. CASE F!Die
  <2>1. UNCHANGED << feed, cache, now >> /\ adding' \in {adding, F!Idle}
        /\ (UNCHANGED page \/ \E p \in Tab : F!Goes(p, F!Idle) /\ UNCHANGED adding)
    BY <1>3 DEF F!Die
  <2>2. CacheState'
    BY <2>1 DEF FeedsInv, CacheState
  <2>3. PageState(F!Idle)
    BY DEF PageState, F!Idle
  <2>4. CASE UNCHANGED page
    BY <2>1, <2>2, <2>4 DEF FeedsInv
  <2>5. CASE \E p \in Tab : F!Goes(p, F!Idle) /\ UNCHANGED adding
    BY <2>1, <2>2, <2>3, <2>5, PageGoes
  <2> QED BY <2>1, <2>4, <2>5
<1>4. CASE F!Tick
  <2>1. /\ UNCHANGED << feed, page, adding >> /\ now' = now + 1
        /\ cache' = IF cache # None /\ cache.fetched + TTL <= now' THEN None ELSE cache
    BY <1>4 DEF F!Tick
  <2>2. CacheState'
    <3> SUFFICES ASSUME cache' # None PROVE CacheState'
      BY DEF CacheState
    <3>1. cache' = cache /\ cache # None /\ ~ (cache.fetched + TTL <= now')
      BY <2>1
    <3>2. PICK f \in Seq(Nat), t \in Nat : \E s \in Seq(NewsEvent(Members(f))) :
            /\ cache = [feeds |-> f, events |-> s, fetched |-> t]
            /\ Sorted(s) /\ t <= now /\ now < t + TTL
      BY <3>1 DEF FeedsInv, CacheState
    <3>3. cache.fetched = t
      BY <3>2
    <3>4. t <= now' /\ now' < t + TTL
      BY <2>1, <3>1, <3>2, <3>3 DEF FeedsInv, FeedKinds
    <3> QED BY <3>1, <3>2, <3>4 DEF CacheState
  <2> QED BY <2>1, <2>2 DEF FeedsInv
<1>5. CASE UNCHANGED F!vars
  BY <1>5 DEF F!vars, FeedsInv, CacheState
<1> QED BY <1>1, <1>2, <1>3, <1>4, <1>5 DEF F!Next

(* Whatever pages and changes of the subscriptions overlap, a page shows   *)
(* events of the feeds it lists only, none twice and newest first, and     *)
(* they were complete no longer ago than the cache may keep them.          *)
THEOREM ShownWereListed == F!Spec => []ShownAreSubscribed
<1>1. FeedKinds
  BY StudioAssumption
<1>2. FeedsInv => ShownAreSubscribed
  <2> SUFFICES ASSUME FeedsInv, NEW p \in Tab, page[p].at = "shown"
               PROVE  LET s == page[p].events IN
                        /\ page[p].age < TTL
                        /\ \A k \in 1 .. Len(s) : \E j \in 1 .. Len(page[p].feeds) : page[p].feeds[j] = s[k].feed
                        /\ \A j, k \in 1 .. Len(s) : j < k =>
                             F!DayOf(s[k]) <= F!DayOf(s[j]) /\ << s[j].feed, s[j].id >> # << s[k].feed, s[k].id >>
    BY DEF ShownAreSubscribed, F!ShownAreSubscribed
  <2> DEFINE s == page[p].events
  <2>1. page[p].age < TTL /\ Sorted(s) /\ \A k \in 1 .. Len(s) : s[k].feed \in Members(page[p].feeds)
    BY DEF FeedsInv, PageState
  <2> HIDE DEF s
  <2>2. \A k \in 1 .. Len(s) : \E j \in 1 .. Len(page[p].feeds) : page[p].feeds[j] = s[k].feed
    BY <2>1 DEF Members
  <2>3. \A j, k \in 1 .. Len(s) : j < k =>
          F!DayOf(s[k]) <= F!DayOf(s[j]) /\ << s[j].feed, s[j].id >> # << s[k].feed, s[k].id >>
    BY <2>1 DEF Sorted, Precedes
  <2> QED BY <2>1, <2>2, <2>3 DEF s
<1> QED BY <1>1, <1>2, FeedsInit, FeedsStep, PTL DEF F!Spec
=============================================================================
