---------------------------- MODULE MediaLibrary -----------------------------
(***************************************************************************)
(* The media library of one workspace (apps/media_library) and the media   *)
(* of its posts (apps/composer): assets with their files and versions, the *)
(* background tasks that process and edit them, the folders they are in,   *)
(* and the two ways an asset goes, a request and the cleanup of orphans.   *)
(* The library the organization shares has the same handlers.              *)
(*                                                                         *)
(* A file is a number: 0 is the upload, n the one made for version n.      *)
(* Dimensions, thumbnails and captions are left out, but for whether the   *)
(* dimensions of a version are known: a restore cannot do without them.    *)
(***************************************************************************)
EXTENDS Integers, Sequences, FiniteSets

CONSTANTS Asset, Post, Folder, Name,
          Trees,       \* folders a workspace may have to begin with
          Web,         \* request threads
          MaxVersions, \* bound: versions of an asset
          MaxRequests, \* bound: requests on the library
          MaxFaults    \* bound: crashes, files that cannot be worked on

ASSUME MediaAssumption ==
  /\ MaxVersions \in Nat /\ MaxRequests \in Nat /\ MaxFaults \in Nat
  /\ {"worker", "cleanup"} \cap Web = {} /\ "root" \notin Folder

Process  == Web \cup {"worker", "cleanup"}
Idle     == [pc |-> "idle"]
New      == [is |-> "new"]
Gone     == [is |-> "gone"]

ASSUME TreesAssumption ==
  Trees \subseteq [Folder -> {New} \cup [parent : Folder \cup {"root"}, name : Name]]

VARIABLES asset,    \* MediaAsset: its file, version, folder and processing
          version,  \* MediaAssetVersion: the versions of each asset
          stored,   \* the files of each asset in storage
          folder,   \* MediaFolder: parent and name
          post,     \* its state, its PostMedia, its cover image by id
          tasks,    \* queued background tasks
          job,      \* what each process is doing
          used, faults,
          doomed,   \* assets a deletion has begun on
          crossed,  \* the ones of them that were put in use since
          held      \* references there ever since the cleanup began

library == << asset, version, stored >>
bounds  == << used, faults >>
ghosts  == << doomed, crossed, held >>
vars == << library, folder, post, tasks, job, bounds, ghosts >>

Assets  == {a \in Asset : asset[a] \notin {New, Gone}}
Folders == {d \in Folder : folder[d] \notin {New, Gone}}
Request == used < MaxRequests /\ used' = used + 1
Fault   == faults < MaxFaults /\ faults' = faults + 1
Goes(p, j)   == job' = [job EXCEPT ![p] = j]
Begins(p, j) == job[p] = Idle /\ Goes(p, j)

(* What the posts refer to, by foreign key and by an id in a JSON field.   *)
FK(ps)    == UNION { {"media"} \X {p} \X ps[p].media : p \in Post }
JSON(ps)  == UNION { {"cover"} \X {p} \X ps[p].cover : p \in Post }
Named(R)  == { r[3] : r \in R }
InFlight  == {"scheduled", "publishing"}
InUse(ps) == UNION { ps[p].media : p \in {q \in Post : ps[q].state \in InFlight} }

Uploaded(d, status) == [file |-> 0, current |-> 0, folder |-> d, status |-> status]

(* Assets that were uploaded and processed, in some of the folders.        *)
Init ==
  /\ folder \in Trees
  /\ asset \in [Asset -> {New} \cup { Uploaded(d, "completed") : d \in Folders \cup {"root"} }]
  /\ version = [a \in Asset |-> <<>>]
  /\ stored = [a \in Asset |-> IF a \in Assets THEN {0} ELSE {}]
  /\ post = [p \in Post |-> [state |-> "draft", media |-> {}, cover |-> {}]]
  /\ tasks = {}
  /\ job = [p \in Process |-> Idle]
  /\ used = 0 /\ faults = 0
  /\ doomed = {} /\ crossed = {} /\ held = {}
-----------------------------------------------------------------------------
(* Posts.                                                                  *)

(* What the posts refer to changes.  An asset a deletion has begun on and  *)
(* that is in use now has crossed it.                                      *)
Rewrite(ps) ==
  /\ post' = ps
  /\ held' = held \cap (FK(ps) \cup JSON(ps))
  /\ crossed' = crossed \cup (doomed \cap InUse(ps))
Composes(ps) ==
  /\ Rewrite(ps)
  /\ UNCHANGED << library, folder, tasks, job, bounds, doomed >>

(* attach_media; a picked or uploaded asset is attached when the post is   *)
(* saved.                                                                  *)
Attach(p, a) == a \in Assets \ post[p].media /\ Composes([post EXCEPT ![p].media = @ \cup {a}])
Detach(p, a) == a \in post[p].media /\ Composes([post EXCEPT ![p].media = @ \ {a}])
(* The cover of a child post is the id of an asset, or none.               *)
Cover(p, S) ==
  /\ S \subseteq Assets /\ Cardinality(S) <= 1 /\ S # post[p].cover
  /\ Composes([post EXCEPT ![p].cover = S])
(* A post is scheduled or taken back, claimed and settled.                 *)
Turn(p, s) ==
  /\ << post[p].state, s >> \in { << "draft", "scheduled" >>, << "scheduled", "draft" >>,
                                  << "scheduled", "publishing" >>, << "publishing", "draft" >> }
  /\ Composes([post EXCEPT ![p].state = s])
-----------------------------------------------------------------------------
(* Uploads, and what the background tasks do with them.                    *)

Upload(w, a, d) ==
  /\ asset[a] = New
  /\ d \in Folders \cup {"root"}
  /\ Request
  /\ asset' = [asset EXCEPT ![a] = Uploaded(d, "pending")]
  /\ stored' = [stored EXCEPT ![a] = {0}]
  /\ Begins(w, [pc |-> "queue", task |-> << "process", a, 0 >>])
  /\ UNCHANGED << version, folder, post, tasks, faults, ghosts >>

(* A task is queued after its row is saved, in a transaction of its own.   *)
Queue(w) ==
  /\ job[w].pc = "queue"
  /\ tasks' = tasks \cup {job[w].task}
  /\ Goes(w, Idle)
  /\ UNCHANGED << library, folder, post, bounds, ghosts >>

(* A task is gone when it returns; one that was cut off is run again.      *)
Ends(t) == tasks' = tasks \ {t} /\ Goes("worker", Idle)

(* process_media_asset: the row is marked and the file read.               *)
Take(a) ==
  /\ job["worker"] = Idle
  /\ << "process", a, 0 >> \in tasks
  /\ IF a \in Assets
     THEN /\ asset' = [asset EXCEPT ![a].status = "processing"]
          /\ Goes("worker", [pc |-> "process", asset |-> a])
          /\ UNCHANGED tasks
     ELSE Ends(<< "process", a, 0 >>) /\ UNCHANGED asset
  /\ UNCHANGED << version, stored, folder, post, bounds, ghosts >>

(* The status the task ends with.                                          *)
Outcome(ok, status) == IF ok THEN "completed" ELSE "failed"

(* The save raises when the row is gone: the task stays, and finds nothing *)
(* the next time.                                                          *)
Processed ==
  /\ job["worker"].pc = "process"
  /\ LET a == job["worker"].asset
         Done(ok) == /\ asset' = [asset EXCEPT ![a].status = Outcome(ok, @)]
                     /\ Ends(<< "process", a, 0 >>)
     IN  CASE a \notin Assets -> Goes("worker", Idle) /\ UNCHANGED << asset, tasks, faults >>
           [] a \in Assets /\ asset[a].file \notin stored[a] -> Done(FALSE) /\ UNCHANGED faults
           [] OTHER -> \/ Done(TRUE) /\ UNCHANGED faults
                       \/ Done(FALSE) /\ Fault
  /\ UNCHANGED << version, stored, folder, post, used, ghosts >>

(* Mutant of Edited: the file the version had before is removed.           *)
EditedMoved(S, before, n) == (S \ {before}) \cup {n}
(* The file made of the asset's own becomes the version's; the one it had  *)
(* is the asset's too, and stays.                                          *)
Edited(S, before, n) == S \cup {n}

(* process_image_edit, process_video_trim                                  *)
TakeEdit(a, n) ==
  /\ job["worker"] = Idle
  /\ << "edit", a, n >> \in tasks
  /\ IF a \in Assets /\ asset[a].file \in stored[a]
     THEN Goes("worker", [pc |-> "edit", asset |-> a, n |-> n]) /\ UNCHANGED << tasks, faults >>
     ELSE Ends(<< "edit", a, n >>) /\ UNCHANGED faults
  /\ UNCHANGED << library, folder, post, used, ghosts >>
EditDone ==
  /\ job["worker"].pc = "edit"
  /\ LET a == job["worker"].asset  n == job["worker"].n
     IN  /\ Ends(<< "edit", a, n >>)
         /\ \/ /\ a \in Assets
               /\ stored' = [stored EXCEPT ![a] = Edited(@, version[a][n].file, n)]
               /\ version' = [version EXCEPT ![a][n] = [file |-> n, sized |-> TRUE]]
               /\ UNCHANGED faults
            \/ /\ IF a \in Assets THEN Fault ELSE UNCHANGED faults
               /\ UNCHANGED << stored, version >>
  /\ UNCHANGED << asset, folder, post, used, ghosts >>
-----------------------------------------------------------------------------
(* Versions.                                                               *)

(* asset_edit begins a version with the asset's own file and has it        *)
(* edited; version_restore one with the file of version k.                 *)
Edit(w, a) ==
  /\ a \in Assets /\ Len(version[a]) < MaxVersions
  /\ Request
  /\ Begins(w, [pc |-> "number", asset |-> a, last |-> Len(version[a]), file |-> asset[a].file,
                restore |-> FALSE, sized |-> FALSE])
  /\ UNCHANGED << library, folder, post, tasks, faults, ghosts >>
Restore(w, a, k) ==
  /\ a \in Assets /\ Len(version[a]) < MaxVersions /\ k \in DOMAIN version[a]
  /\ Request
  /\ Begins(w, [pc |-> "number", asset |-> a, last |-> Len(version[a]), file |-> version[a][k].file,
                restore |-> TRUE, sized |-> version[a][k].sized])
  /\ UNCHANGED << library, folder, post, tasks, faults, ghosts >>

(* create_version: a number that was taken since breaks unique_together.   *)
Number(w) ==
  /\ job[w].pc = "number"
  /\ LET a == job[w].asset
     IN  IF a \in Assets /\ Len(version[a]) = job[w].last
         THEN /\ version' = [version EXCEPT ![a] = Append(@, [file |-> job[w].file, sized |-> FALSE])]
              /\ Goes(w, [job[w] EXCEPT !.pc = "point"])
         ELSE Goes(w, Idle) /\ UNCHANGED version
  /\ UNCHANGED << asset, stored, folder, post, tasks, bounds, ghosts >>
Point(w) ==
  /\ job[w].pc = "point"
  /\ LET a == job[w].asset  n == job[w].last + 1
     IN  IF a \in Assets
         THEN /\ asset' = [asset EXCEPT ![a].current = n]
              /\ Goes(w, IF job[w].restore THEN [job[w] EXCEPT !.pc = "show"]
                         ELSE [pc |-> "queue", task |-> << "edit", a, n >>])
         ELSE Goes(w, Idle) /\ UNCHANGED asset
  /\ UNCHANGED << version, stored, folder, post, tasks, bounds, ghosts >>
(* restore_version: unknown dimensions break the asset's NOT NULL.         *)
Show(w) ==
  /\ job[w].pc = "show"
  /\ LET a == job[w].asset
     IN  asset' = IF a \in Assets /\ job[w].sized
                  THEN [asset EXCEPT ![a].file = job[w].file] ELSE asset
  /\ Goes(w, Idle)
  /\ UNCHANGED << version, stored, folder, post, tasks, bounds, ghosts >>
-----------------------------------------------------------------------------
(* Deletion.                                                               *)

(* Mutant of Referencing: only scheduled posts count.                      *)
ReferencingScheduled(a) == {p \in Post : a \in post[p].media /\ post[p].state = "scheduled"}
(* _check_post_references                                                  *)
Referencing(a) == {p \in Post : a \in post[p].media /\ post[p].state \in {"scheduled", "publishing"}}

(* delete_asset of process p, which goes on with rest: the check, the      *)
(* files, the row.                                                         *)
Doom(p, a, rest) ==
  IF Referencing(a) = {}
  THEN Goes(p, [pc |-> "files", asset |-> a, rest |-> rest]) /\ doomed' = doomed \cup {a}
  ELSE Goes(p, rest) /\ UNCHANGED doomed

(* asset_delete, remove_pending_media                                      *)
Delete(w, a) ==
  /\ a \in Assets
  /\ Request
  /\ job[w] = Idle /\ Doom(w, a, Idle)
  /\ UNCHANGED << library, folder, post, tasks, faults, crossed, held >>

RemoveFiles(p) ==
  /\ job[p].pc = "files"
  /\ LET a == job[p].asset
         Of == {version[a][n].file : n \in DOMAIN version[a]}
     IN  /\ stored' = IF a \in Assets THEN [stored EXCEPT ![a] = @ \ (Of \cup {asset[a].file})]
                      ELSE stored
         /\ Goes(p, [job[p] EXCEPT !.pc = "row"])
  /\ UNCHANGED << asset, version, folder, post, tasks, bounds, ghosts >>

(* asset.delete() takes the versions and the PostMedia rows along.         *)
RemoveRow(p) ==
  /\ job[p].pc = "row"
  /\ LET a == job[p].asset
     IN  /\ asset' = [asset EXCEPT ![a] = Gone]
         /\ version' = [version EXCEPT ![a] = <<>>]
         /\ Rewrite([q \in Post |-> [post[q] EXCEPT !.media = @ \ {a}]])
  /\ Goes(p, job[p].rest)
  /\ UNCHANGED << stored, folder, tasks, bounds, doomed >>

(* The cleanup collects the references by foreign key, then the others,    *)
(* then the old assets that are in neither; any asset may be old.          *)
Collect ==
  /\ Request
  /\ Begins("cleanup", [pc |-> "json", spared |-> Named(FK(post))])
  /\ held' = FK(post) \cup JSON(post)
  /\ UNCHANGED << library, folder, post, tasks, faults, doomed, crossed >>

(* Mutant of Orphans: ids in JSON fields are not looked at.                *)
OrphansFK(spared) == Assets \ spared
Orphans(spared) == Assets \ (spared \cup Named(JSON(post)))

Scan ==
  /\ job["cleanup"].pc = "json"
  /\ \E S \in SUBSET Orphans(job["cleanup"].spared) :
       Goes("cleanup", [pc |-> "next", left |-> S])
  /\ UNCHANGED << library, folder, post, tasks, bounds, ghosts >>
Sweep ==
  /\ job["cleanup"].pc = "next"
  /\ LET left == job["cleanup"].left  a == CHOOSE x \in left : TRUE
     IN  IF left = {} THEN Goes("cleanup", Idle) /\ held' = {} /\ UNCHANGED doomed
         ELSE Doom("cleanup", a, [pc |-> "next", left |-> left \ {a}]) /\ UNCHANGED held
  /\ UNCHANGED << library, folder, post, tasks, bounds, crossed >>
-----------------------------------------------------------------------------
(* Folders.                                                                *)

(* check_folder_depth: d is on the third level.                            *)
Deep(d) == d # "root" /\ folder[d].parent # "root" /\ folder[folder[d].parent].parent # "root"

(* unique_folder_name_per_parent; SQL has no two NULL parents alike.       *)
Taken(fs, d, n) == d # "root" /\ \E e \in Folder : fs[e] = [parent |-> d, name |-> n]
Held(d) == d \in Folders \cup {"root"}

CreateFolder(w, d, parent, n) ==
  /\ folder[d] = New /\ \A x \in Web : job[x].pc = "mkdir" => job[x].new # d
  /\ Held(parent) /\ ~Deep(parent)
  /\ Request
  /\ Begins(w, [pc |-> "mkdir", new |-> d, parent |-> parent, name |-> n])
  /\ UNCHANGED << library, folder, post, tasks, faults, ghosts >>
(* It is refused when the name is taken or the parent is gone by now.      *)
MakeFolder(w) ==
  /\ job[w].pc = "mkdir"
  /\ LET d == job[w].new  parent == job[w].parent
     IN  IF Held(parent) /\ ~Taken(folder, parent, job[w].name)
         THEN folder' = [folder EXCEPT ![d] = [parent |-> parent, name |-> job[w].name]]
         ELSE UNCHANGED folder
  /\ Goes(w, Idle)
  /\ UNCHANGED << library, post, tasks, bounds, ghosts >>
RenameFolder(d, n) ==
  /\ d \in Folders /\ ~Taken(folder, folder[d].parent, n)
  /\ Request
  /\ folder' = [folder EXCEPT ![d].name = n]
  /\ UNCHANGED << library, post, tasks, job, faults, ghosts >>
(* asset_move                                                              *)
Move(a, d) ==
  /\ a \in Assets /\ Held(d)
  /\ Request
  /\ asset' = [asset EXCEPT ![a].folder = d]
  /\ UNCHANGED << version, stored, folder, post, tasks, job, faults, ghosts >>

(* folder_delete: the assets, then the subfolders go to the parent the     *)
(* folder had when it was read; neither does once that is gone, nor any    *)
(* subfolder when a name is taken there.                                   *)
DeleteFolder(w, d) ==
  /\ d \in Folders
  /\ Request
  /\ Begins(w, [pc |-> "assets", folder |-> d, parent |-> folder[d].parent])
  /\ UNCHANGED << library, folder, post, tasks, faults, ghosts >>
MoveAssets(w) ==
  /\ job[w].pc = "assets"
  /\ LET d == job[w].folder  up == job[w].parent
         In == {a \in Assets : asset[a].folder = d}
     IN  IF In = {} \/ Held(up)
         THEN /\ asset' = [a \in Asset |-> IF a \in In THEN [asset[a] EXCEPT !.folder = up]
                                           ELSE asset[a]]
              /\ Goes(w, [job[w] EXCEPT !.pc = "subs"])
         ELSE Goes(w, Idle) /\ UNCHANGED asset
  /\ UNCHANGED << version, stored, folder, post, tasks, bounds, ghosts >>

(* The folders once the subfolders of d are moved up.                      *)
Lifted(d, up) == [e \in Folder |-> IF e \in Folders /\ folder[e].parent = d
                                   THEN [folder[e] EXCEPT !.parent = up] ELSE folder[e]]
MoveFolders(w) ==
  /\ job[w].pc = "subs"
  /\ LET d == job[w].folder  up == job[w].parent
         In == {e \in Folders : folder[e].parent = d}
     IN  IF In = {} \/ (Held(up) /\ \A e \in In : ~Taken(folder, up, folder[e].name))
         THEN /\ folder' = Lifted(d, up)
              /\ Goes(w, [job[w] EXCEPT !.pc = "rmdir"])
         ELSE Goes(w, Idle) /\ UNCHANGED folder
  /\ UNCHANGED << library, post, tasks, bounds, ghosts >>
(* folder.delete() takes what is below along; assets stay, in no folder.   *)
RemoveFolder(w) ==
  /\ job[w].pc = "rmdir"
  /\ LET Up(e)  == IF e \in Folders THEN folder[e].parent ELSE "root"
         Down == {e \in Folders : job[w].folder \in {e, Up(e), Up(Up(e))}}
     IN  /\ folder' = [e \in Folder |-> IF e \in Down THEN Gone ELSE folder[e]]
         /\ asset' = [a \in Asset |-> IF a \in Assets /\ asset[a].folder \in Down
                                      THEN [asset[a] EXCEPT !.folder = "root"] ELSE asset[a]]
  /\ Goes(w, Idle)
  /\ UNCHANGED << version, stored, post, tasks, bounds, ghosts >>
-----------------------------------------------------------------------------
(* The process dies; a background task that was cut off is still queued.   *)
Crash(p) ==
  /\ job[p] # Idle
  /\ Fault
  /\ Goes(p, Idle)
  /\ held' = IF p = "cleanup" THEN {} ELSE held
  /\ UNCHANGED << library, folder, post, tasks, used, doomed, crossed >>

WorkerStep ==
  \/ Processed \/ EditDone
  \/ \E a \in Asset : Take(a) \/ \E n \in 1 .. MaxVersions : TakeEdit(a, n)

Next ==
  \/ WorkerStep
  \/ \E p \in Post :
       \/ \E a \in Asset : Attach(p, a) \/ Detach(p, a)
       \/ \E S \in SUBSET Asset : Cover(p, S)
       \/ \E s \in {"draft", "scheduled", "publishing"} : Turn(p, s)
  \/ \E w \in Web :
       \/ Queue(w) \/ Number(w) \/ Point(w) \/ Show(w)
       \/ MakeFolder(w) \/ MoveAssets(w) \/ MoveFolders(w) \/ RemoveFolder(w)
       \/ \E a \in Asset :
            \/ Edit(w, a) \/ Delete(w, a)
            \/ \E k \in 1 .. MaxVersions : Restore(w, a, k)
            \/ \E d \in Folder \cup {"root"} : Upload(w, a, d)
       \/ \E d \in Folder :
            \/ DeleteFolder(w, d)
            \/ \E u \in Folder \cup {"root"}, n \in Name : CreateFolder(w, d, u, n)
  \/ \E d \in Folder, n \in Name : RenameFolder(d, n)
  \/ \E a \in Asset, d \in Folder \cup {"root"} : Move(a, d)
  \/ Collect \/ Scan \/ Sweep
  \/ \E p \in Process : RemoveFiles(p) \/ RemoveRow(p) \/ Crash(p)

Spec == Init /\ [][Next]_vars
-----------------------------------------------------------------------------
TypeOK ==
  /\ \A a \in Asset : asset[a] \in {New, Gone} \/
       asset[a] \in [file : 0 .. MaxVersions, current : 0 .. MaxVersions,
                     folder : Folders \cup {"root"},
                     status : {"pending", "processing", "completed", "failed"}]
  /\ \A a \in Asset : version[a] \in Seq([file : 0 .. MaxVersions, sized : BOOLEAN])
  /\ stored \in [Asset -> SUBSET (0 .. MaxVersions)]
  /\ \A d \in Folder : folder[d] \in {New, Gone} \/
       folder[d] \in [parent : Folders \cup {"root"}, name : Name]
  /\ post \in [Post -> [state : {"draft", "scheduled", "publishing"},
                        media : SUBSET Assets, cover : SUBSET Asset]]

(* A post that is scheduled or being published has the files of its media: *)
(* neither a request nor the cleanup takes them, unless the post came to   *)
(* need the asset when its deletion had begun.                             *)
InFlightKeepsFiles ==
  \A a \in InUse(post) \ crossed : asset[a].file \in stored[a]

(* The cleanup takes no asset that a post has referred to, in the same     *)
(* way, ever since the cleanup began to look.                              *)
CleanupSparesReferenced ==
  [][\A a \in Named(held) :
       job["cleanup"].pc = "files" /\ job'["cleanup"].pc = "row" => stored'[a] = stored[a]]_vars

(* Versions share files with each other and with the asset; whatever order *)
(* edits, restores and failures come in, each of them has its file until   *)
(* the asset is deleted.                                                   *)
VersionsKeepFiles ==
  \A a \in Assets \ doomed :
    {asset[a].file} \cup {version[a][n].file : n \in DOMAIN version[a]} \subseteq stored[a]
=============================================================================
