------------------------------- MODULE Studio --------------------------------
(***************************************************************************)
(* What surrounds the writing of a post: MediaLibrary, Ideas, Feeds,       *)
(* CsvImport, Drafting and Comments.  They share nothing here: a behaviour *)
(* is one of the six, as part says, and the others stay as they began.     *)
(***************************************************************************)
EXTENDS MediaLibrary

CONSTANTS Handler,                \* requests that may be under way in a part
          None, Unmade, Deleted,  \* NULL, a row not yet made, a deleted one
          NewPost,                \* the posts that ideas and drafts become
          Idea, Offered, MaxColumns, MaxDeleted, MaxIdeaRequests,
          Url, Answers, NoAnswer, TTL, PageSize, MaxFeeds, MaxPages, MaxTime,
          FileRows, Account, Cells, MaxUploads, MaxImportRequests,
          Tab, Medium, Library, Shared, MaxDraftRequests,
          Comment, User, MaxChanges,
          MaxText                 \* bound: texts of an idea, of a comment

(* An idea, a comment, a draft, a row of an imported file and an entry of  *)
(* a news feed.  NULL is none of them, nor a number, and what stands for a *)
(* row not made or a deleted one is no row.                                *)
Approvals  == {"draft", "pending_review", "changes_requested", "approved", "rejected"}
IdeaRow    == [approval : Approvals, column : Nat \cup {None}, text : Int, media : SUBSET Asset,
               cover : Asset \cup {None}, post : NewPost \cup {None}]
CommentRow == [author : User, parent : Comment \cup {None}, text : Int,
               shown : {"internal", "external"}, deleted : BOOLEAN]
DraftRow   == [media : SUBSET Medium, page : Tab]
Cell       == [caption : BOOLEAN, date : {"ok", "bad", "none"}, accounts : SUBSET Account]
Entry      == [link : STRING \cup {None}, day : Nat \cup {None}]

IdeaKinds    == {Unmade, Deleted} \cap IdeaRow = {}
CommentKinds == None \notin Comment /\ Unmade # Deleted /\ {Unmade, Deleted} \cap CommentRow = {}
DraftKinds   == None \notin NewPost /\ Unmade # Deleted /\ {Unmade, Deleted} \cap (DraftRow \cup {"own", "shared"}) = {}
FeedKinds    ==
  /\ TTL \in Nat \ {0} /\ PageSize \in Nat
  /\ Answers \ {NoAnswer} \subseteq [site : STRING \cup {None}, entries : Seq(Entry)]
CsvKinds     == None \notin Nat /\ FileRows \in Seq(Cell) /\ Cells \subseteq Cell

ASSUME StudioAssumption == IdeaKinds /\ FeedKinds /\ CommentKinds /\ DraftKinds /\ CsvKinds

VARIABLES part,
          idea, column, ideaAsset, ideaPost, ideaHeld, closing, deleted, ideaUsed,
          reviewed, straddled,
          feed, cache, page, adding, now, opened,
          session, importer, imported, connected, uploads, csvUsed, csvFaults, again,
          pending, draftAsset, draft, known, request, draftUsed, draftFaults,
          chosen, dropped, lost, twice,
          comment, role, work, changes

I == INSTANCE Ideas WITH
  Post <- NewPost, Request <- Handler, New <- Unmade, Gone <- Deleted,
  MaxRequests <- MaxIdeaRequests,
  asset <- ideaAsset, post <- ideaPost, held <- ideaHeld, used <- ideaUsed

F == INSTANCE Feeds WITH Page <- Tab

C == INSTANCE CsvImport WITH
  Request <- Handler, Rows <- FileRows, MaxRequests <- MaxImportRequests,
  request <- importer, post <- imported, used <- csvUsed, faults <- csvFaults

D == INSTANCE Drafting WITH
  Page <- Tab, Request <- Handler, Post <- NewPost, Asset <- Medium, New <- Unmade, Gone <- Deleted,
  MaxRequests <- MaxDraftRequests,
  asset <- draftAsset, post <- draft, used <- draftUsed, faults <- draftFaults

T == INSTANCE Comments WITH Request <- Handler, New <- Unmade, Gone <- Deleted

ideas    == << idea, column, ideaAsset, ideaPost, ideaHeld, closing, deleted, ideaUsed,
               reviewed, straddled >>
feeds    == << feed, cache, page, adding, now, opened >>
imports  == << session, importer, imported, connected, uploads, csvUsed, csvFaults, again >>
drafts   == << pending, draftAsset, draft, known, request, draftUsed, draftFaults,
               chosen, dropped, lost, twice >>
comments == << comment, role, work, changes >>
Studio   == << part, vars, ideas, feeds, imports, drafts, comments >>

StudioInit ==
  /\ part \in {"library", "ideas", "feeds", "import", "draft", "comments"}
  /\ Init /\ I!Init /\ F!Init /\ C!Init /\ D!Init /\ T!Init
  /\ part # "library" => \A a \in Asset : asset[a] = New
  /\ part # "ideas" => column = << >>
  /\ part # "comments" => \A u \in User : role[u] = "viewer"

StudioNext ==
  \/ part = "library" /\ Next /\ UNCHANGED << part, ideas, feeds, imports, drafts, comments >>
  \/ part = "ideas" /\ I!Next /\ UNCHANGED << part, vars, feeds, imports, drafts, comments >>
  \/ part = "feeds" /\ F!Next /\ UNCHANGED << part, vars, ideas, imports, drafts, comments >>
  \/ part = "import" /\ C!Next /\ UNCHANGED << part, vars, ideas, feeds, drafts, comments >>
  \/ part = "draft" /\ D!Next /\ UNCHANGED << part, vars, ideas, feeds, imports, comments >>
  \/ part = "comments" /\ T!Next /\ UNCHANGED << part, vars, ideas, feeds, imports, drafts >>

StudioSpec == StudioInit /\ [][StudioNext]_Studio
-----------------------------------------------------------------------------
(* A post made by an approval holds what was submitted for review.         *)
ApprovedAsReviewed == I!ApprovedAsReviewed
(* A page of news shows events of the feeds it lists, in order.            *)
ShownAreSubscribed == F!ShownAreSubscribed
(* A row of a file is imported once.                                       *)
ImportedOnce == C!ImportedOnce
(* Media chosen for a new post are not lost on the way into it.            *)
ChosenIsKept == D!ChosenIsKept
(* A page of the composer makes one post.                                  *)
OneDraftPerPage == D!OneDraftPerPage
(* A deleted comment and the replies to it stay away.                      *)
DeletedStaysAway == T!DeletedStaysAway
=============================================================================
