# Formal models of the social media scheduler

TLA+ modules, TLC configurations and TLAPS proofs about the Django application
under `src/apps` and the platform clients under `src/providers`: composing a
post for several social accounts, sending it through review, scheduling it,
publishing it and telling people about it, and what surrounds that - ideas,
media, imports, accounts and their tokens, the inbox, members and organizations.
Every module is translated from the source; `PROJECT.json` ("map") names the
lines each definition stands for.

## The system

| component | state | operations | interacts with |
|---|---|---|---|
| Publishing engine (`publisher/engine.py`, `tasks.py`, `run_publisher`) | `PlatformPost.status/retry_count/next_retry_at/published_at`, `PublishLog`, `Post.published_at` | a cycle every 15 s: poll, claim under row lock, call the platform in threads, store the outcome, schedule first comments, work off the retry list | rows edited by web requests; `notify`; background task for the first comment |
| Lifecycle (`composer/models.py`, `composer/status.py`) | `PlatformPost.status`, one per account | `can_transition_to`, `transition_to`, `derive_post_status` | used by all below |
| Composer (`composer/views.py`) | `Post`, `PlatformPost`, `PostVersion`, ideas, media | save draft, schedule, publish now, queue, submit, resubmit, chip menu, autosave, delete | approval services, queue services |
| Approval workflow (`approvals/services.py`, `views.py`) | statuses, `PostApprovalStage`, `ApprovalAction` | submit, approve (through custom stages), request changes, reject, resubmit, schedule | composer, reminders, `notify` |
| Reminders (`approvals/tasks.py`) | `ApprovalReminder` | hourly check: remind twice, then escalate | reset by submit and resubmit |
| Notification delivery (`notifications/engine.py`) | `NotificationDelivery` | notify, dispatch, retry run each minute | everybody |
| Queues and calendar (`calendar/services.py`, `views.py`, `tasks.py`) | `Queue`, `QueueEntry`, `PostingSlot`, `RecurrenceRule`, `scheduled_at` of children and post | add, prioritise, reorder, delete; reschedule by drag-and-drop; recurrence | composer, engine (reads the effective time) |
| Recurrence (`calendar/tasks.py`) | `RecurrenceRule`, cloned posts | a daily task clones the occurrences of the coming days | makes scheduled posts for the engine |
| Ideas, feeds, import, new posts (`composer/views.py`) | `Idea`, `IdeaGroup`, `IdeaMedia`; `Feed` and a cache; the session | write, submit, approve, drag; subscribe, show; upload, map, import; pending media, autosave, save | media library, posts |
| Comments (`approvals/comments.py`) | `PostComment` | add, reply, edit, soft delete | members' roles |
| Social accounts (`social_accounts/`), onboarding links (`onboarding/`) | connection status, tokens, session of an OAuth round trip, `ConnectionLink` | health check, refresh, connect, reconnect, disconnect | the engine refreshes tokens too; a disconnect deletes posts |
| Inbox (`inbox/`) | `InboxMessage`, `InboxReply`, `InboxSLAConfig` | poll, backfill, webhook, read, reply, file, alert | `notify` |
| Members, organizations, accounts, workspaces | memberships, roles, invitations, deletion date, archived workspaces | sign up, invite, accept, resend, revoke, change roles, remove; request, cancel and execute a deletion; archive, delete | background task |
| Media library (`media_library/`) | assets, files, versions, folders | upload, process, edit, restore, delete, move; cleanup of orphans | posts refer to assets |
| Providers (`src/providers`) | none | the requests of `publish_post`, `publish_comment`, `get_messages`, `exchange_code`, `refresh_token` | engine, inbox, accounts |
| Client portal, settings, credentials, intelligence, common code | rows of their own | reads and single writes | not modelled, see the end |

What is hard in it:

* **Interleaving.** Workers, the threads of a worker, web requests, webhooks,
  background tasks and cron commands work on the same rows. Only the engine's
  claim takes a lock. All others read objects, decide, and save named columns -
  or the whole row, or the whole session.
* **Stale objects.** The engine's save after a provider call writes back every
  column it read before the call; the retry list and the review decisions act on
  what was read earlier.
* **Failure.** Platforms refuse, accept and lose the answer; a write fails
  after the publication; a worker dies.
* **Retries.** Counters and times decide who may try again, in three places
  (publisher, delivery, reminders), each with its own boundary.
* **Order.** Custom stages, resubmissions, queues that deal slots again.

What makes the parts correct: a post reaches the platform once, failed means
tried to the end, a due post reaches an outcome, a comment goes under its post,
nothing unfinished is published (engine, providers); only reviewed posts are
approved, stages clear in order and before the approval, statuses follow the
lifecycle, a deleted comment stays away (approval); an escalation at the end,
and not before (reminders); each delivery ends and none is repeated or forgotten
(notifications); queue order and one post per slot, each day of a rule once
(calendar); an idea is approved as it was reviewed, a file imported once, chosen
media kept (composer); files stay while something needs them (media); the token
kept is the one that works, and a dead one is noticed (accounts); a message is
announced once, none passed over (inbox); an organization keeps an owner and an
active workspace, and is deleted when asked to and not before (members).

## Modules

| module | models | about |
|---|---|---|
| `PostStatus` | `composer/models.py`, `status.py` | the statuses, `VALID_TRANSITIONS`, the aggregate status |
| `StatusMachine` | the promise of the lifecycle | abstract: children move along the transitions only |
| `Publisher` | `publisher/engine.py` with the edits of `composer` and `calendar` | workers, jobs, rows, faults |
| `Dispatch` | `_dispatch_to_provider`, the first-comment task | one call of a platform, request by request |
| `PublishCall` | what the engine takes a call for | abstract: at most one post per call, reported or lost, and it returns |
| `Providers` | `src/providers` | pure operators: the program of requests of each platform, its tokens, its list of messages |
| `Editorial` | composer saves, approvals, stages, chips | one Post with its children; review requests that straddle others |
| `Comments` | `approvals/comments.py` | the discussion of a post |
| `Reminders` | `approvals/tasks.py` | the hourly check, its row, the requests that reset it |
| `Delivery` | `notifications/engine.py` | deliveries over one channel, the request and the retry runs |
| `Outgoing` | what goes out of the system | `Delivery`, `Reminders` and `Dispatch` side by side |
| `PostingQueue` | `calendar/services.py` and the queue actions of the composer | positions, slots, times |
| `Recurrence` | `calendar/tasks.py` | the dates of a rule, the clones, what is recognised as generated |
| `Calendar` | what the calendar schedules | `PostingQueue` and `Recurrence` side by side |
| `Drafting` | new posts in `composer/views.py` | pages, the session's pending media, autosave and save |
| `Ideas` | the ideas board of `composer/views.py` | ideas, columns, media, approval |
| `Feeds` | the news feeds of `composer/views.py` | subscriptions, cache, pages |
| `CsvImport` | the import of `composer/views.py` | session, mapping, rows |
| `Studio` | what surrounds the writing of a post | `Comments`, `Drafting`, `Ideas`, `Feeds`, `CsvImport` and `MediaLibrary` side by side |
| `MediaLibrary` | `media_library/` | assets, versions, files, folders, the two ways to delete |
| `Connections` | `social_accounts/`, `onboarding/`, the engine's refresh | tokens, round trips, disconnects |
| `Inbox` | `inbox/` | pollers, webhooks, the team |
| `Intake` | what the inbox promises | abstract: a message is stored once and announced once, at last |
| `Tenancy` | `accounts/`, `members/`, `organizations/`, `workspaces/` | accounts, organizations, invitations, deletions |
| `Publisher_proofs`, `Editorial_proofs`, `Outgoing_proofs`, `Calendar_proofs`, `Inbox_proofs`, `Tenancy_proofs`, `Connections_proofs`, `Studio_proofs` | | theorems |
| `MCPublisher`, `MCEditorial`, `MCDelivery`, `MCCalendar`, `MCTenancy`, `MCInbox`, `MCConnections`, `MCStudio`, `MCDrafting` | | instances for TLC |

`Inbox` and `Connections` use `Providers` by `INSTANCE`, `Dispatch` extends it.
Three modules are checked to implement an abstract one: `Editorial` implements
`StatusMachine`, `Inbox` implements `Intake` and `Dispatch` implements
`PublishCall`, each under a refinement mapping written above the property.
`Outgoing` (notifications and platform calls), `Calendar` (queues and
recurrence) and `Studio` (six parts) hold several modules that
share no state: a behaviour is one of them, chosen by the variable `part`, and
the others do not move. They are put together for one run each and do not say
anything about a composition.

### How state and actions correspond to the code

*Publisher.* `row[p]` is the `PlatformPost` row; `at` in it is
`Coalesce(scheduled_at, post.scheduled_at)`. `job[w][p]` is where worker `w`
stands with `p` and the Python object it holds (`mem`). One action per step
between two database or network calls: `Poll` and `StartRetries` are the two
queries, `ClaimGroup` the transaction with `select_for_update`, `ClaimRetry`
the unlocked `save(update_fields=["status"])`, `CallProvider` the platform call
with three outcomes, `SavePublished`, `LogPublished`, `ScheduleRetry`,
`FailToLog` the stores of its outcome. The threads of a group interleave; the
retry list is worked off one row at a time; the engine starts it when all groups
have ended. `Edit` is a web request in one step; with the fault `straddle`
`BeginEdit` reads and `EndEdit` writes. The token refresh and the media
download are inside the provider call. The rate-limit branch is left out:
nothing writes a `RateLimitState` that limits.

*Editorial.* `status` is the status per account (`new`: no row yet; `deleted`:
row removed), `stages` the `PostApprovalStage` rows in order, `review[u]` what
the request of reviewer `u` has read. `Begin` evaluates the children and the
current stage, `ClearStage` is the stage transaction with the look at the next,
`Decide` writes. Both leave `ApprovalAction` rows: `decisions` counts those for
the children, `cleared` holds those for the stages of the current submission (a
bound: it is emptied with them). A stage row that a resubmission has deleted
meanwhile is saved again whole and so comes back as approved; `revived` holds
these. `gone` says that the Post is deleted, which makes the transaction of a
stage fail. `submits` and `submitted` are history variables of the properties. `mode` chooses whole requests or
straddling ones. `FollowsLifecycle` is `StatusMachine!Machine` under the identity
mapping for whole requests; straddling ones do leave the lifecycle (below), and
the mapping then shows no row.

*Reminders.* Times are ages in hours, cut at the threshold. The check is split
where a crash or a request can fall: query and tests, notify, save. `sent`,
`gap`, `stalled`, `overtaken` and `crashes` are history variables.

*Delivery.* `wait` is the time left until `next_retry_at`. `job[w][d]` is the
object in the hands of the request (`web`) or of a retry run. `tries`, `sent`,
`lost` and `taken` are history variables.

*PostingQueue.* Times are hours; a day and a week have `Day` and `Week` of
them. `slot` holds the `PostingSlot`s, which recur each week, are switched on and
off, added and deleted; `Upcoming` is `_next_slot_datetimes`, cut at `Horizon`
days. Adding, dealing slots, the floor day and the transition of the children
are one request and one action, as in `save_post`.

*Recurrence.* A run lists what exists (`Existing`), then makes one clone after
the other - post, accounts, media - one action per row, so that it may die or
overlap another run anywhere. Days are numbers and months have lengths, so that
a rule of the 31st meets a short month.

*Dispatch.* `call[r].todo` is the program that `Providers` gives for the site
and the content of the row: a sequence of steps (ask, wait, make a container,
load a file, post, try what may fail, raise). `Request` takes the first, and it
is refused (`Refused`) or its answer lost (`Lost`); `Poll` waits for the
platform's processing at most `MaxPolls` times. Retries of a failed call and the
comment task are the same with another program.

*Drafting, CsvImport.* A request reads the session whole when it begins and
writes it whole when it ends, as `SESSION_SAVE_EVERY_REQUEST` makes it do. So a
request is a record with the session it read, and the end of any other may fall
between. `Page` of `CsvImport` is a request that touches nothing else. In
`Drafting` a page that loads is a request of its own (`Load`), and the two ways
to a row are `Save` with `by`: after an autosave or a plain save `AttachPending`
attaches what is pending, after a submission, a resubmission or a queue action
`Return` does not; only the answer to an autosave tells the page the id.

*Ideas, Comments, Feeds.* A request looks its row up and saves some columns:
two actions, or three where a post is made of an idea, whose media are read after
the row (`ReadMedia`). `Feeds` shows a page in as many steps as it asks sites.

*MediaLibrary.* Files are numbers, `stored[a]` those in storage. A request or a
task is a program of steps (`job[p].pc`), one per row or file it writes.
Foreign keys (`media`) and references by id in JSON (`cover`) are kept apart,
because the code looks for them separately.

*Connections.* A token is the number of its issue. `key` is the refresh token
the platform accepts, `soon` the tokens within 7 days of their end. A process
that has read the account has a copy in `job[p].mem`; `Saved` and `Renewed` are
what its save writes back. `session` holds the nonces of open round trips. A call that
raises may have reached the platform: a refresh whose answer is lost has rotated
the token, and the tokens of a callback whose `get_profile` raises are issued and
stored nowhere.

*Inbox.* Times are ticks, `row[m].at` is `received_at`, `marked` the
`sla_notified` in `extra`. A poll carries the list of messages it was given and
stores them one by one; `Tell` is the notification after each.

*Tenancy.* Requests that write more than once are jobs with one step per write.
`due` and `tasks` are the time left until `deletion_scheduled_for` and until each
background task runs. An organization goes by the name of its founder, and nobody
founds another while it is there. A founding is its four writes (`Founded`): at a
signup one step, or one that dies after some of them, since nobody reaches what
it makes before they are logged in; where the user may be logged in, after a purge
or a save that brings an account back, a job (`Begins`, `Found`) that others fall
between and that a foreign key may break. What counts the owners and then
takes a role is two steps as well (`UpdateRole` and `Regrade`, `RemoveMember` and
`Leave`, `DeleteAccount` and `Quit`). `half` holds the organizations whose founding
or removal has begun and not ended, `raced` those of which two that count owners
overlapped or that a purge's last steps took an owner from.

## Runs

| run | instance | shows |
|---|---|---|
| `pub_solo` | 1 worker, 2 accounts of a post (one virtual), batch of 1, 3 retries, 3 edits, refusals, fairness | `CommentsFollowDelivery`, `DueIsSettled`: with the one worker that `src/README.md` deploys and platforms that answer, no edit between two steps of a cycle loses a post or comments on one that is not there |
| `pub_cluster` | 2 workers that may die, 2 children of a post, drag-and-drop | `AtMostOnce`: the row lock alone keeps delivery single |
| `pub_chaos` | 2 workers, every fault, a stale save or removal | `FailedIsExhausted` |
| `ed_review` | 1 reviewer, 2 accounts, 2 stages, 2 submissions, chips; or 2 reviewers of 1 account, whose requests straddle each other's and the author's; or 3 accounts and no reviewer | `FollowsLifecycle` (the refinement), `StagesHold`, `StageDecidedOnce`, `OneDecisionPerSubmission` |
| `status_docstring` | the same | violates `FailedIsInFlight` |
| `delivery` | 2 notification deliveries, the request and a retry run, 3 attempts; or the reminder check with a threshold of 3 hours, 2 reminders, 2 crashes of the check, requests inside its runs; or one call of each of 11 platforms for each shape of media, 4 faults | `SentOnce`, `PendingIsKept`, `Settles`; `EscalatedAfterReminders`, `StalledEscalates`; `FinishedFirst`, `CommentOnPost`, `Promised` (the refinement of `PublishCall`) |
| `calendar` | 2 queues on 2 accounts, a post in both, a floor day, reorders, slots that change and run out; a rule of each frequency over three months of 3, 1 and 3 days, two runs that overlap, one that dies | `QueueOrder`, `PostFollowsChildren`; `OncePerDate` |
| `tenancy` | 3 people, 2 workspaces each, 1 invitation, 2 requests in flight, 1 that dies | `OwnerKept`, `InvitationSpentOnce`, `WorkspaceKept`, `DeletionWillRun`, `PurgeAfterGrace` |
| `inbox` | 2 messages (one perhaps a reply), Instagram, LinkedIn or YouTube, worker, backfill, webhook | `AnnouncesOnce` (the refinement of `Intake`), `ClosedStaysClosed`, `NoneSkipped`, `OverdueIsAlerted` |
| `connections` | a Pinterest or Bluesky account and a Mastodon one, 2 request threads, 1 engine thread, the health check | `TokensKept`, `ShutOutIsNoticed`, `PostsKeepTargets` |
| `studio` | media library, ideas, feeds, import, new posts, comments, 2 requests each | `InFlightKeepsFiles`, `VersionsKeepFiles`, `CleanupSparesReferenced`, `ApprovedAsReviewed`, `ShownAreSubscribed`, `ImportedOnce`, `ChosenIsKept`, `OneDraftPerPage`, `DeletedStaysAway` |
| `shared_media` | a new post, an asset of the organization's library | violates `ChosenIsKept` |

What the code does not absorb is counted or marked by a history variable, and
the property says exactly how much it may cost: `SentOnce` of `Delivery` allows
one more message per lost answer or crash, `ImportedOnce` exempts a file that two
overlapping imports worked on, `TokensKept` an account that two processes had in
hand at a time or whose new tokens were lost with an answer, `OwnerKept` an
organization of which two requests had counted the owners. These variables
(`spoiled`, `crossed`, `raced`, `straddled`, `again`, ...) are set by the overlap or the crash itself, never by its damage, so
that a property still speaks about every other behaviour.

Two runs end in a violation. `status_docstring`: a failed child beside one that is
not terminal shows the lowest status of the children, where the docstring of
`derive_post_status` (`composer/status.py:37`) promises "publishing"; with three
accounts, one failed, one published and one that waits to be posted by hand, the
post shows as published, because `ready_to_post` is not in `_WORKFLOW_ORDER`.
`shared_media`: an asset of the organization's shared library
that is picked for a new post is dropped when the post is first saved, because
the pick looks in the shared library (`composer/views.py:1212-1215`) and the save
does not (`composer/views.py:892`, `:714`). `studio` checks the same property
without shared assets. `PROJECT.json` ("findings") quotes the docstring and the
comment that promise otherwise.

### Other disagreements met while modelling

The models contain the following behaviour unless it is said to be left out; the
properties above are stated so that they hold beside it (the fault or the case
is named in the property or left out of the instance). Most can be seen by
stating the sentence as a property.

Publishing, review, reminders, notifications:

* `_schedule_retry` puts a row back to scheduled and the poll
  (`publisher/engine.py:129-140`) does not look at `next_retry_at`: the retries
  are spent within a minute, against the comment at `publisher/engine.py:530-531`.
  (`Delivery`, which backs off by the same scheme, keeps to it: `BackoffKept`.)
* Save, log and notification of a success are inside the `try`
  (`publisher/engine.py:273`): when one raises, a published row is scheduled
  again, where `composer/models.py:410` has "terminal".
* A decision overwrites the status that another request has just given a child
  (`approvals/services.py:60`), against the docstring at `:37-39`.
* The retry query ignores the schedule (`publisher/engine.py:546`): a failed
  post moved to a later day is published before it. The poll's rule is
  "scheduled_at <= now()" (`publisher/engine.py:4`).
* The retry list is claimed without a lock or a second read
  (`publisher/engine.py:553-557`): with two workers a post may be published
  twice, and a post pulled back to draft in the meantime is published.
* The retry path schedules no first comment (`publisher/engine.py:557`); the
  loop's description has "Post first comment after 2-minute delay."
* A drag-and-drop that read the row before the publication writes scheduled over
  published (`calendar/views.py:766`, `:787`).
* A resubmission with new stages during an approval is approved with all of them
  pending (`approvals/services.py:176`).
* A resubmission keeps the stages cleared in the round before
  (`approvals/services.py:293`).
* A stage that a resubmission replaces while a reviewer clears it is inserted
  again as approved, beside the new stages (`approvals/services.py:173`), and its
  approval stays in the trail.
* A check that dies after notifying repeats the reminder (`approvals/tasks.py:78`);
  a post that enters review by chip long after its last save is reminded of at
  once (`:46`); a resubmission inside a check loses its reset (`:65`), so that
  its managers may never hear of it.
* Overlapping retry runs of notifications count one attempt for two calls
  (`notifications/engine.py:198`).
* Threads publishes its containers without waiting for them
  (`src/providers/threads.py:220-348`); `FinishedFirst` exempts it.
* A crash during a call leaves the row in publishing, and a failed attempt its
  containers and uploads. A first comment that is refused is never tried again;
  TikTok, Pinterest, Google and Bluesky have no first comment and only log it.
* TikTok, Facebook and LinkedIn publish the first medium of several, and
  Instagram sends a single video as `image_url`.
* Comments: a reply to a reply is stored and never shown; a reply under way to a
  comment that is deleted becomes a top-level comment.

Calendar:

* The day a post was added to a queue from is forgotten by the next add
  (`calendar/services.py:107`), and children of accounts without a chosen queue
  are scheduled too, without a time of their own (`composer/views.py:625`).
* Two queues of one account, which `calendar/views.py:1012` makes when asked to,
  deal its slots as if each were alone (`calendar/services.py:96`) and give one
  slot to two posts, where `Queue` (`calendar/models.py:57-58`) has "the next
  available PostingSlot datetime". `QueueOrder` is about the only queue of an account.
* Published entries keep taking slots (`calendar/services.py:91`), where the
  feature spec (L955) has "the next available time slot for that queue".
* A change of the slots deals nothing again before the next change of the queue,
  and saving a slot that exists and is inactive leaves it inactive.
* Nothing in the repository schedules `generate_recurring_posts`. An interval of
  0 makes all occurrences on one day (left out: the instance has none). A rule
  without an end stops after a bounded number of occurrences past its source's
  date, where `help_text` says "Null = indefinite"; monthly dates drift after a
  short month; a clone that is deleted is made again; a run that dies leaves a
  post without accounts that blocks its day; when accounts have offsets and the
  earliest is unchecked, clones land on another day and are made again every run.

Composer:

* Two overlapping approvals of an idea make two posts (`composer/views.py:2122`);
  an approval reads the media after it has tested the row (`:2135`), so a change in
  between gives a post the text of one version and the media of another;
  a drag saves the whole row back, a stale approval status with it; deleting a
  column over an idea that is being moved into it leaves the idea in none.
* A failed fetch of a feed is cached for ten minutes; entries without links of
  one site collapse into one. The age of what is shown counts from the stamp set
  when all sites have answered (`composer/views.py:3197`), not from each answer.
  Without Redis the cache is one per process, and clearing reaches only its own;
  the model has the one cache, and each cache by itself is such a one.
* A mapping made for an earlier file is applied to a new one; a session written
  back by an overlapping request imports twice; a row that fails leaves its post;
  the docstring at `composer/views.py:2805` has "as a background job" but the
  import runs in the request.
* All new-post pages of a workspace share one list of pending media, and every
  load of the composer, of any post, empties it (`composer/views.py:325-334`);
  parallel uploads lose one of them. A new post that is submitted, resubmitted or
  queued returns before they are attached (`:606-699`); they stay in the session
  for the next post that is saved. `ChosenIsKept` lets off a load (`dropped`) and a
  session written over (`lost`): it says that nothing else loses them.
* A save that overlaps an autosave makes two posts. So does a save before the
  first autosave: nothing in `compose.html` hears its `postSaved`, the page keeps no
  id, and the next autosave makes another post, against the comment at
  `compose.html:1067` ("to prevent duplicate drafts"). `OneDraftPerPage` lets off
  both (`twice`).
* Removing a pending medium deletes an asset that was merely picked.

Media:

* The edited file never becomes the asset's file until a restore, and each edit
  starts from the asset's file; restoring a version without dimensions fails
  after the version has become current (`media_library/services.py`).
* A deletion does not look at cover images by id; a crash between file and row
  leaves a row without a file, one between upload and enqueueing an asset that
  stays pending; deleting a folder whose subfolder's name is taken moves the
  assets and not the subfolders.

Accounts and inbox:

* Facebook, Instagram, Threads and LinkedIn (OIDC) return no refresh token when
  a code is exchanged, so the health check never refreshes them, and the engine
  calls `refresh_token("")` in vain, where `src/providers/threads.py:147-153`
  says the argument is the current long-lived token.
* `get_messages` does not follow pages: Facebook, Instagram and Mastodon read the
  first one (`src/providers/facebook.py:377-407`, `instagram.py:397-407`,
  `instagram_login.py:432-438`, `mastodon.py:341-350`), LinkedIn the comments under
  the latest 20 posts (`linkedin.py:446`), YouTube the replies that come with a
  comment. What is beyond that is passed over for good once something later is
  stored, which `NoneSkipped` lets off.
* A profile call that succeeds clears the error of a refresh that failed just
  before (`social_accounts/tasks.py:105`); an account in error is not checked
  again (`:134`); a save of the health check overwrites the tokens of a reconnect
  made meanwhile; a reconnect whose answer has no refresh token wipes the old one
  (`social_accounts/views.py:768`); a crash between refresh and save loses a
  rotated token, and so does an answer that never arrives (`:84-87`,
  `publisher/engine.py:322-323`) or, on reconnecting, a profile call that fails after
  the exchange (`social_accounts/views.py:363-364`, `:410-415`).
* A callback pops the whole pool of nonces, so that only the first of several
  tabs connects, where the comment at `social_accounts/views.py:250` keeps a pool.
* Two overlapping disconnects leave a post without accounts.
* Facebook, Instagram and Mastodon return the newest message again, so that each
  poll rewrites its `extra` (`inbox/tasks.py:80`) and with it the mark of the alert: the alert
  repeats. A webhook stamps the time of its arrival, so that polls pass over
  what came before; so does a crash in a list stored newest first. A reply is
  recorded even if the platform refused it; a page or a reply that read a message
  as unread reopens what a colleague resolved meanwhile.

Members, organizations, workspaces:

* `members/middleware.py:17-20` has one organization per user, but a user who is
  logged in gets a second by accepting an invitation; removing a member
  deactivates an account that owns another organization.
* Forms that save a whole row (`user.save()`, workspace settings) bring a removed
  user or a deleted workspace back; two overlapping archivings leave no active
  workspace, because `count()` drops the `FOR UPDATE` (`workspaces/views.py:75-79`).
* An invitation that names a deleted workspace raises after the membership is
  made and stays open (`members/services.py:115`); a purge that dies leaves
  members without an organization.
* Provisioning commits each of its writes by itself (`accounts/signals.py:21-44`):
  a process that dies between them leaves an organization without an owner or a
  workspace, and nothing provisions that user again once there is a membership. A
  signup by invitation that dies in its clean-up (`:110-115`) leaves the other half.
* `create_member` takes `org_role` as it is posted (`members/views.py:119`), "owner"
  too, which `members/services.py:204` refuses to a role change. With several
  owners two removals, demotions or account deletions that each counted the other's
  owner leave none (`members/services.py:177`, `:207`, `accounts/views.py:196`).
* A purge deletes the account that asked for it without counting what else it owns
  (`organizations/models.py:62`), where `accounts/views.py:184` has a "sole-owner
  safety check".

### Bounds

* Publisher: `MaxTime` 3 lets the backoff of each retry pass, or not, at every
  step; `MaxRetries` is the code's 3 where one worker runs and 1 where two
  multiply the states - the boundary `>= MAX_RETRIES` is met at every value.
  Two children and a batch of one make the limit bite. `MaxEdits` of 1 to 3 is
  one edit per gap between two engine steps that matter.
* Editorial: two stages give an order, two submissions a resubmission, two
  accounts a mixed post; two reviewers are enough for each pairwise race.
  `MaxStages` and `MaxSubmits` are the bounds.
* Reminders: ages are cut at the threshold, which is exact for the tests the
  code makes; a run of the check ends within the hour (the clock moves between
  runs); `MaxCrashes` bounds the runs that die.
* Delivery: nothing but `MaxAttempts` bounds it; the ticks only run towards a
  retry time. Two deliveries share a retry run, which works them off one by one,
  so that a crash takes both.
* Dispatch: one row is enough, since calls share nothing. Every platform with no
  medium, an image, a video and both, and the hints that make it branch; three
  polls stand for the client's limit, `MaxRetries` is the code's 3, and four
  faults let each of the four calls fail once, anywhere.
* PostingQueue: `MaxTime` 1 and `MaxPosition` 2 with days of two hours and a
  horizon of two days: the slots in reach are fewer than the entries, so that they
  run out. `MaxChanges` 1 is one change of a slot between any two requests.
* Recurrence: a calendar of months of 3, 1 and 3 days puts the source on a day
  that a month lacks; `Lookahead` 2 lets each run see new days, `MaxDay` 4 lets
  it run again on later ones. One edit of the source, one death.
* Tenancy: three people, each of whom may found an organization, and an
  invitation between them give owner, admin and member side by side;
  `MaxRequests` 3 counts from the signups on, two in flight overlap, `Grace` 2 lets
  an old task become due before a new one. Users are symmetric. As bounds, a person
  signs up again only when no request is by or about them, one purge by the
  background task runs at a time, and a workspace's number is used again only when
  nothing refers to it.
* Inbox: two messages make "newer" and "reply to" happen, and `MaxTime` 1 an
  order between their times; the target of 1 tick is passed or not. Instagram,
  LinkedIn and YouTube are three of the kinds of `get_messages` (`Providers!Since`):
  whole conversations, messages, replies under recent comments only. How much
  fits on a page is not counted: `Shift` moves any messages out of reach or back,
  within `MaxFaults`, except those YouTube reads page by page.
* Connections: two accounts to tell one disconnect's posts from another's; two
  tokens, two requests and one fault are one token replaced while somebody holds
  it. Pinterest
  may or may not send refresh tokens, Bluesky always does and only its session
  refreshes, Mastodon never does (`Providers!Tokens`).
* Studio: one asset with two versions, folders three deep (deleting the middle
  one lifts the others); two texts of an idea and four requests about it, an edit,
  a submission and an approval in the middle of which another edit falls; a cache
  that expires after one tick; two pages of the composer. Two requests overlap in
  each.
* The deadlock check is off in `delivery`, `calendar`, `tenancy`, `inbox`,
  `connections`, `studio` and `shared_media`: their requests and clocks are
  bounded, or their work ends, and the system rests.

### Fairness

* `Publisher!FairSpec`: weak fairness of each worker's cycle. The task repeats
  every 15 seconds, provider calls time out. No fairness for edits, faults or
  the clock.
* `Reminders`: weak fairness of the check and of time; the command's
  documentation recommends an hourly schedule.
* `Delivery`: strong fairness of the steps of each process (it is not
  killed every time before it has done anything), weak fairness of starting the
  retry run (its docstring: "Should be scheduled to run every minute") and of
  time. Nothing in the repository registers that schedule: liveness holds where it is set up.
* `Dispatch`: weak fairness of a call that is under way: every request has a
  timeout of httpx, every wait a limit.
* `Inbox`: weak fairness of the worker's loop (`run_inbox_sync` polls and checks
  targets for as long as it runs), of a backfill that has begun and of each
  request that has begun. None for messages, people, the clock or the accounts.
* `Connections`: weak fairness of the health check (a task that repeats), of an
  engine thread and of a request that have begun. The platform's calls end.
* `Tenancy`, `MediaLibrary`, `Ideas`, `Feeds`, `CsvImport`, `Drafting`,
  `Recurrence`, `Comments`, `PostingQueue`: none; their properties are safety.

## Proofs

TLAPS checks what follows for every value of the constants that meets the
assumption of the module (`PublisherAssumption`, `EditorialAssumption` and so on).
They say of what kind the constants are, and that the sets that are counted are
finite: the reviewers of a workspace, the posts of a queue. `TenancyAssumption`
says that "none" is nobody's name, `ConnectionsAssumption` that it is no account's
and that there is a request thread.

`Publisher_proofs`:

* `TypeCorrect`: `Spec => []TypeOK`. Inductive as it stands; the work is in
  lemmas on the update of one job (`JobUpdate`, `PcUpdate`), on what the pure
  operators return (`RetriedIsRow`, `EditedIsRow`, `LatestIsWhen`, `BackoffIsNat`), and
  one case per action (`TypeCycle`, `TypeStep`).
* `FailedExhausted`: `Spec => []FailedIsExhausted`, for any number of workers
  and every fault, if no edit request asks for "failed" or "publishing"
  (`NoForcedFailure`; the composer offers neither from a status that permits
  it without the engine). The property alone is not inductive: a stale object may write an
  old `retry_count` back. The strengthening counts logs against every copy
  of the counter - in the row, in each worker's object and in a straddling
  request: none exceeds the logs written (`Counted`, `LogsCoverRetries`).
* `SentOnce`: `Spec => []AtMostOnce`, for one worker and faults limited to
  refusals (`Solo`), whatever users edit meanwhile. The invariant ties
  `delivered[p] = 1` to a row that is published, removed or held by the worker
  after acceptance. One worker is needed (the retry list is claimed without a
  lock), and lost answers and failing writes make the engine send again by design.
* `CommentsFollow`: `Spec => []CommentsFollowDelivery`, for one worker and every
  fault but a straddling edit, if nobody marks a post that has a first comment as
  published by hand while its group is being published (`NoForcedPublish`). The
  invariant `CommentInv` says of a row that is about to have its comment
  scheduled that a delivery stands behind it, and that none was scheduled yet.

`Editorial_proofs`:

* `TypeCorrect`, and with it (`Staged`) that the stages of every state are in
  order: `StagesAreHeld`: `Spec => StagesHold`. The second part needs that the
  request of a reviewer remembers stages of its own round, the third that a whole
  request meets the stages as it read them.
* `StageClearedOnce`: `Spec => StageDecidedOnce`. What the trail says is cleared
  is approved, so no request that begins later takes it; and nobody has cleared
  what they are about to clear.
* `LifecycleImplemented`: `Spec => FollowsLifecycle`, the refinement of
  `StatusMachine`. Saves, chips and the engine test the transition they make. A
  decision does not look again, so the invariant (`WholeInv`) says that whole
  requests are alone and that the rows are as the request has read them;
  then its test still holds. Straddling requests are mapped to no row.
* `DecidedOnce`: `Spec => []OneDecisionPerSubmission`. The property counts
  decisions against submissions and is not inductive. For whole requests a
  submission that is still in review has a decision left
  (`decisions + 1 <= submits`). For straddling ones each reviewer has one per
  submission, and `DecisionsInv` counts those who hold a decision they have not
  written (`Holding`) and those who cannot have read the submission (`Missing`).

`Calendar_proofs`: about `PostingQueue`, `TypeCorrect`; `SlotsKeepOrder`:
`Spec => []QueueOrder`; `PostTimeFollows`: `Spec => []PostFollowsChildren`. The
first half of the module is about ranks: a finite set of integers has a largest
member, and its members have the ranks from 1 to their number. So the n-th
slot exists when there are n (`NthSlotIs`), slots come in order and run out at
the end (`SlotsInOrder`), whichever of the orders a queue with equal positions
is read in (`OrderIs`, `DealtIs`). `OrderInv` is about all entries whose author
named no day, published or not, because dealing does not ask; `QueueOrder` alone
is not inductive, since a draft that starts to wait brings its slot along.
About `Recurrence`, `DaysMadeOnce`: `R!Spec => []OncePerDate`, for posts whose
accounts are all at the time of the post (`Level`; with offsets it is false, see
the other disagreements above). The occurrences are a recursive function, each computed from the one
before; `OccurrencesAre` shows by the smallest number for which it would not be so
that no two are on one day of the calendar, which takes the months to be in order
and the interval not to be 0 (`CalendarAssumption`). `RecurrenceInv` then says that
while nobody interferes each clone is on the day it is of (`Found`), and that the
run under way has no day left that has been made (`Ahead`).

`Inbox_proofs`: `TypeCorrect`; `AnnouncedOnce`, the safety half of the refinement
of `Intake` (its fairness half is left to TLC); `ClosedStays`:
`Spec => ClosedStaysClosed`. The invariant ties each message being told of to
one process: between the insert of a row and its notification nobody else holds
that message as new (`TellInv`), and what jobs hold has appeared (`JobInv`).

`Tenancy_proofs`:

* `TypeCorrect`: every state is of its types, and its rows refer to rows there
  are (`Linked`): what a request in flight holds may outlive the organization it
  is about, so the invariant says what each kind of request holds.
* `DeletionRuns`, `GraceHolds`: an organization with a date has a task that runs
  when it comes, and a purge begins only when the days since the last request are
  over (`GraceCounted` ties the date left to the days passed).
* `InvitationAdmitsOne`: an invitation nobody is accepting is spent, accepted by
  one, or open and used by none (`InvitationsSpent`, which counts the acceptances
  under way).
* `WorkspaceStays`: a request that has found a second workspace active is the
  only one on that organization, or they have crossed; an organization that is half
  made or half removed has that one, or none at all (`WorkspacesLeft`).
* `OwnerStays`: a request that has counted the owners and is about to take one is
  the only one, and another owner is left (`OwnersStay`). An acceptance that makes a
  newcomer leave an organization of their own is the danger, and so is a founding
  that gives the organization its owner late. So the invariant also says that until
  a signup is complete, or a founding has made its owner, nobody else has a foot
  in the organization and no request is about it (`SignupsPrivate`,
  `FoundingsBare`), and that somebody signing up owns no other. `QuietStep` says
  what a step does to an organization that is deserted like that.

`Outgoing_proofs`, about `Delivery`: `TypeCorrect`, and with one retry run at a time (`OneRunner`)
all the safety properties of `Delivery`. The assumption is needed: overlapping
runs count one attempt for two calls, and one may save a stale row over a
delivery. The invariant `DeliveryInv` says, delivery by delivery (`Local`), that
only one process has the row in hand (`Sole`), that what it holds is the row as
stored and still pending (`InHand`), and that the history of calls and messages
agrees with `attempts` up to the step the process is at (`CallsCounted`,
`SendsCounted`, `GivenUp`, `Kept`). None of the properties is inductive without
`InHand`: each reads the row, and the row is overwritten from the copy.

About `Dispatch`, for every platform and every post (any number of attachments,
hint and settings; `OutgoingAssumption` only says what a post is made of):

* `ProgramIsSound`, `CommentIsSound`: each of the eleven `publish_post` either
  raises or publishes, what comes after the request that publishes can only be
  tried, and but for Threads a container is waited for as soon as it is asked
  for. What is made for each attachment is a recursive function (`Joined`);
  `JoinedIsIn` says that it is of any kind that is closed under concatenation,
  by the smallest number of parts for which it would not be.
* `CallsKeepTheirPromise`: the safety half of `Promised`. `CallInv` says that a
  call for a post either has not published and has a sound program left, or has
  published and has nothing left that can fail (`PostCall`); each action of a row
  keeps that and moves the row as `PublishCall` allows (`RowKept`, `Moved`).
* `ContainersAreReady`, `CommentsGoUnderTheirPost`: `P!Spec => []FinishedFirst` and
  `[]CommentOnPost`, from the same invariant: a call waits for the container it
  has made (`WaitsFor`), a comment task belongs to a post that is out
  (`TaskFollows`), and the replies are at most the one said and one per death
  (`RepliesCounted`).

About `Reminders`: type correctness (`RemindersTyped`) and all its safety properties
(`RemindersLimited`, `ManagersToldOnce`, `ManagersToldLast`, `RemindersApart`). The difficulty is that a submission
may reset the row while a run holds the old one, and the run's save restores the
old count. `RemindersInv` therefore bounds `sent` twice, against the row and
against the object in hand (`OnRecord`), does the same for escalations
(`Marked`), says that without such a submission object and row agree
(`Faithful`), and for the spacing that `last_reminder_at` is the latest reminder
unless a submission has made the post younger than that reminder (`Spaced`).

`Connections_proofs`, for any accounts, platforms, requests and engine threads:

* `TypeCorrect`: what a job holds is of the account it is for, and the tokens of
  rows, copies and the platform are ones it has issued.
* `AccountsKeepTokens`: `Spec => []TokensKept`. The property is about accounts at
  rest and says nothing while one is in hand. `Kept` says what the one process
  that has it knows: until the platform has answered with a new token the row is
  the latest, a refresh holds a copy that equals the row, and after the answer
  the job is what has the latest token and the row is behind (`Knows`). Two
  processes on one account, a death with one, or an answer lost after the platform
  has issued tokens (`RenewIsTyped`, `GrantIsTyped`) put it into `raced`.
* `DisconnectSparesPosts`: `Spec => PostsKeepTargets`. A disconnect counts first
  and deletes after, so the invariant (`PostsKept`) is about what it has counted:
  it is the only one, the posts on its list are those for its account alone, and
  when the account goes no post is left that has nothing else.

`Studio_proofs`, about the six parts of `Studio`, each proved for itself:

* `VersionsHaveFiles`, `InFlightHaveFiles`: a process only adds files to an asset
  until it deletes the asset, and marks it as doomed before it takes the first
  file away. So `FilesInv` says, program step by program step, which files the
  version, edit or restore under way stands on (`Fits`); `UseInv` says that a post
  in flight uses a doomed asset only where the two have crossed.
* `CleanupSpares`: what the cleanup has put on its list and not yet taken never
  meets what has been referred to in the same way since it began (`SpareInv`).
* `DeletedAreGone`: a deleted comment stays deleted though requests save rows they
  read earlier, because what they save names columns (`CommentMoves`).
* `OnePostPerPage`: while no two requests of a page overlap, the one that is alone
  on it knows the post the page knows, and the page knows the post that was made
  for it (`PagesInOrder`); a page saved before its first autosave is in `twice`.
  `ChosenMediaKept` (`KeptInv`) is about organizations
  without a shared library: with one, `shared_media` is the counterexample.
* `RowsImportedOnce`: the posts of a file are those of the rows an import has
  passed, and when the import ends the session lets go of the file (`Once`).

* `ApprovedWasReviewed`: the post is made of a row a request has read, so the
  invariant (`IdeaInv`) is about rows, read ones and posts at once: a row or a copy
  that is pending review has the text and no media but those of one submission,
  and the cover is one of the media - a post without media takes the cover. What
  crosses a change of the idea is put into `straddled`.
* `ShownWereListed`: the cache and a page hold events of the feeds they were asked
  for, in order, whoever fills or clears the cache in between (`CacheState`,
  `PageState`). It rests on `ArrangedIs`: what is arranged by an order on the places
  is a sequence in that order, by counting the places before each.

`StudioAssumption` says what these parts take for granted: that NULL, a row not
made and a deleted one are no rows, what the rows of a file and the entries of a
feed look like, and that the cache keeps events for some time.

The properties of `Delivery` and `Reminders` that no run lists
(`CallsBounded`, `FailedIsExhausted`, `DeliveredIsFinal` and `BackoffRespected`;
`RemindersBounded`, `EscalatedOnce` and `RemindersSpaced`) and the type
invariants of the modules with a `TypeCorrect` are covered by their theorems. `TypeOK` of the
other modules documents their state; it holds on the instances of the runs (add
it to the INVARIANTS of a cfg to see it).

Only model-checked: liveness and anything under fairness, so the fairness halves
of `AnnouncesOnce` and `Promised` (beyond TLAPS here), `DueIsSettled`,
`StalledEscalates`, `Settles`, `NoneSkipped`, `OverdueIsAlerted` and
`ShutOutIsNoticed`. Every invariant and every action property of a run that is
expected to pass is stated by a theorem.

## Not modelled

* Versions of a post, templates, hashtag sets, tags and categories, static
  pages, analytics: rows without a protocol, or reads.
* The client portal: neither installed nor routed; it asks for the status
  `pending_client` and the role `CLIENT`, which do not exist.
* Settings, credentials, intelligence and common code: each request reads or
  writes one row.
* Of the inbox assignment, sentiment, notes and saved replies; of accounts the
  choice among the pages of a Facebook or Instagram login, the registration of
  Mastodon applications and rate limits; of members the roles within a workspace
  and the choice of a current one; of media dimensions, thumbnails and captions.
* Permissions and request validation (inputs are the requests that pass them),
  notification preferences and quiet hours (they choose whether a delivery is
  created), payloads, and the text of messages.
* The rate-limit branch of the engine: nothing writes a `RateLimitState` that
  limits.

## Plan

1. Done: the lifecycle, `Publisher`, `Editorial`, `Reminders`, `Delivery`, with
   proofs on three of them.
2. Done: `Dispatch` and `Providers`, `PostingQueue` with weekly slots,
   `Recurrence`, `Tenancy`, `Inbox`, `Connections`, `MediaLibrary`, `Ideas`,
   `Feeds`, `CsvImport`, `Drafting`, `Comments`, and the abstract `Intake` and
   `PublishCall`.
3. Done: theorems about `Publisher`, `Editorial`, `Reminders`, `Delivery`,
   `Dispatch`, `PostingQueue`, `Inbox`, `Tenancy`, `Connections`, `MediaLibrary`,
   `Comments`, `Drafting`, `CsvImport`, `Ideas`, `Feeds` and `Recurrence`.
4. Compositions: `Publisher` with `Editorial`, both against `StatusMachine`;
   `Connections` with `Publisher` over a disconnect during a publication.
