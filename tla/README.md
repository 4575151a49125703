# KuroSoden in TLA+

KuroSoden moves anime requests from a Telegram user to a published channel post. Four bots share one
process and one PostgreSQL database: **Lelouch** (intake and owner's boards), **Levi** (download),
**Senku** (distribution), **Gojo** (publishing). This directory holds TLA+ models of the code that decides
who does what next and what becomes of a channel, the TLC configurations that check them, and TLAPS proofs.

Paths below are relative to the repository. `PROJECT.json` lists, for every definition, the source lines it
stands for.

## 1. Inventory

| Component | State | Operations | How it meets the others | Modelled in |
|---|---|---|---|---|
| Assignment engine, `shared/admin_assignment.py`, `management_service.py` | table `admin_assignments`, `total_tasks_completed`, row locks | `assign` (preferred admin, ladder), `accept_offer`, `reject_offer`, `expire_offers`, `complete_task`, `reassign` | called by every bot, the handoffs and the 60 s recovery job | `AdminAssignment`, `AssignmentSlots` |
| Stage relay, `shared/handoff.py`, `assignment_recovery.py`, Lelouch `requests.py`/`batch.py`, `publishing_service.py` | `Request.status`, job status, open and completed rows per stage | submit, bridge, enqueue, finalize, handoffs, relink, publish, recovery tick | coroutines between transactions; only the tables survive a restart | `StageRelay` |
| Requests, `request_service.py` | table `requests` | submit, retry, reject, abandon, reset source, delete, reassign fresh | takes requests on and off the relay | `StageRelay`, `Intake` |
| Intake and duplicate check, Lelouch's handlers, `shared/dedup.py`, `redo_service.py` | FSM state per chat, `requests` | search, confirm, submit, batch, redo | inserts what the relay moves | `Intake` |
| Work items, `work_service.py`, `work_bridge.py` | table `work_items` | add, claim, bridge, link, cancel, reconcile, sync | `complete_task` advances the linked item | `Intake`, `AdminAssignment` |
| Download queue and worker, `queue_service.py`, `download_service.py` | table `download_queue`, tasks and semaphore in memory, cancel flags in Redis | enqueue, cancel, cancel all, claim, checkpoints, gates, failure, startup recovery | writes the request's status, calls the first handoff | `DownloadQueue` |
| Mapping confirmation, `naming_confirm.py` | `_ddlmap_confirmed`, PAUSED jobs | park, resume | enqueues a new job | `DownloadQueue` |
| Coverage gate, `coverage.py`, `download_service.py`, `review.py` | `files` rows, a flag and a card in Redis | file an episode, diff, pause, supply, publish anyway | pauses a job, enqueues the next round | `CoverageGate` |
| Scheduled posts, `schedule_service.py`, Gojo's `schedule.py` | table `scheduled_posts` | schedule, cancel, send now/silent, sweep | calls publish; publish cancels | `ScheduledPosts` |
| Senku publisher, `shared/senku_publisher.py` | Telegram messages, `ChannelLayout`, `BotContentPost` | publish, update, relink, reconcile | ends with a backup capture | `DistributionChannel` |
| Backup and recovery, `backup_service.py`, `bot_orchestrator.py`, `bot_management_service.py` | `DistributionBot` rows, backup, journal | capture, clear, restore, register, roll back | captures run beside it | `ChannelRecovery` |
| Reviewer shifts, `shift_service.py` | a JSON value and a key in Redis | take over, approve, relief, AFK release | guards the review buttons | `ShiftDuty` |
| Pipeline manager, scheduler | running clients and jobs | 60 s jobs | runs all of the above | fairness only |
| Sources, ffmpeg pipeline, index/thumbnail/log channels, BotFather, web form, migrations | files, layout | I/O | | not modelled |

What is hard here: READ COMMITTED transactions that read, decide and write with other handlers in between;
handlers that are many transactions and Telegram calls long and die with the process; status columns that
three actors write and one reads; offers, flags and records that time out or are overwritten without a lock;
layouts read before minutes of I/O and replaced after it; recoveries that stop half way. The list with lines
is under `hazards` in `PROJECT.json`.

What makes each part correct:

* engine - one open row per stage, history never rewritten, offers end, a cancelled work item stays so;
* relay - every request has somebody or something responsible, and what can take that from it is a short list;
  a redo never reaches Senku; neither publishing nor deleting leaves a task; what nobody has is restored;
* intake - a duplicate has a known reason; a work item follows its request;
* queue - no row is running without a task; a cancel holds as long as its flag is seen; a claimed job ends;
* coverage - two episodes share a locator only by a numbering nobody could tell apart; no hole passes the gate
  unwaived; a pause is owed and has a way out;
* schedules - a row is swept once, one time per request; what was called off stays off; no post goes out twice;
* channel - buttons lead somewhere; layout and backup are the channel; no card is removed;
* recovery - the backup and one complete channel survive every attempt that no other attempt undoes; no card
  twice; it lands in the end;
* shifts - whatever is overwritten, the record is one the screens can act on; only an idle worker is released.

## 2. Modules

`AssignmentSlots` is what the engine promises its callers: a stage of a request is a slot that is free, on
offer to one admin, or held by one admin.

`AdminAssignment` is the engine. A transaction is split where another can commit in between: `AssignStart`
(look for an open row), `AssignForced`/`AssignLadder` (lock and choose), `AssignInsert` (savepoint and
INSERT against the partial unique index), `AssignReread` (the loser of the race); `CompleteSelect` and
`CompleteUpdate` (an unlocked read, then an UPDATE by primary key). `AcceptOffer`, `RejectOffer`, `Reassign`
work on rows they hold FOR UPDATE and are one step. `ExpireOffers`/`ReplaceExpired` are one transaction, and
nothing else moves in its middle. Duty slot, quiet hours, last-seen, breaks and working hours are inputs: any
mixture of presences. The tie-breakers of the load ordering are left open, a choice among equals. The module
ends with the refinement mapping `Slots`, `ImplementsSlots`.

`StageRelay` is the life of requests. `hand[r]` is the next step of the coroutine that is moving request `r`,
`slot` is the engine as `AssignmentSlots` describes it, `tick` the requests the running recovery tick has
selected with the status it saw. `Removal` is what takes a request off the line: `Reject`, `Abandon`, `Delete`
and `Refetch` (a fresh ticket), the last two over `TornDown`, the shared purge. The queue's own writes of
`Request.status` are actions here as well: `Enqueue`, `PauseForLinks`, `Cancel`, the cancelled worker that ends later
(`WindUp`, of the requests in `winding`), `SourceAborted`. `Glitch` is an exception the code
catches and logs, `Crash` a restart. `redo` is a variable because "Change source" turns a redo into a normal
request. `hurt` is a history variable: the requests that met an event from which the code does not bring a request
back. Each such event is named where it happens by `Hurt`, and for a restart by `Cut`; a deletion that nothing
overlaps takes a request out of the set again.

`Intake` is what happens before and beside the relay: chats with their FSM state, handlers between two
transactions (`tasks`), requests that are live, over or deleted, and work items. `Search` says whether the typed
query is contained in the title that the request will carry; where it is not, a synonym say, the check finds
nothing (`NoCheck`). A request remembers how much its duplicate check has seen (`seen`), and whether it has come
back to life (`back`).

`DownloadQueue` is the queue: rows, asyncio tasks (`task`, `line` for the semaphore), Redis flags, and what bot
handlers have committed and still have to do (`handlers`: the flag after the row in `cancel`, the new job
after the confirmation in `resume_parked_ddl_mapping`, the flags after the rows in `cancel_all_active`). Calls to
Redis and to the database fail where the code swallows that: a flag is not set, or not read, and the task goes
on; the end of a task is not written (`EndUnwritten`). A gate that lacks Redis parks without asking for the flag.
`worker` is the poll loop, which an exception ends (`PollEnds`). Three history variables: `stopped`, jobs whose cancel
came before their last checkpoint; `missed`, those whose task has passed over the flag since, or whose flag was
not set or ran out; `strays`, jobs whose task ended unwritten.

`CoverageGate` joins three pieces of code that number episodes differently: the locator under which a file is
recorded (`Where`), the diff (`Missing`, `Empty`) and the gate of the worker. A row remembers which episode it
really holds, which the database does not. A franchise is what the builders of `franchise_flow.py` make of one
(`CoverageAssumption`): an unknown count is None from the aggregated totals and 0 from the walk, and the gate tells the
two apart. A release numbers its files through the season or from 1 in each part, and the part is named with them or
not: the four `Styles`. `Blind` is the one of them nobody could file. Publishing what there is takes two
steps, the flag (`WaiveGaps`) and the round it lets through (`PublishAnyway`, or `PublishFails`).

`ScheduledPosts` has one action per SELECT and one per COMMIT of each transaction of the service, of the
buttons and of the sweep, and the publish they lead to. Transactions overlap freely and may fail (`RollsBack`; for the
sweep's record `RecordFails`, which is outside its try and ends the sweep). What two of them do to one row is
remembered: `off` (cancelled rows), `crossed` (written as pending by both), `anyhow` (sent by a button that does not look
at cancel's answer), `raced` (requests that two schedules were at together).

`DistributionChannel` is one title's channel and the coroutines that change it. Telegram (`msgs`), the saved
layout, the stored posts and the backup are four memories of one thing, no two of them written together. A title
may be published again; the cards of the earlier publish then stay in the channel and in no layout, and `orphans`
names them.
`ChannelRecovery` is what replaces a channel that Telegram has taken down; there the publisher appears only as
the captures that its runs end with. Every admin has an attempt of their own (`task[r]`), since a claim is of an admin and
not of a title; `RegisterBoth` is two of them registering one chat between each other's look and insert. History:
`crossed`, one attempt has switched off, rolled back or registered over what another is at; `again`, an attempt began
with no original row on; `unlogged`, messages whose journal entry was lost; `cut`, an attempt ended without its
rollback or its switch. `Undisturbed` is neither of the first two.

`ShiftDuty` is a record in Redis that every call reads, changes and writes back without a lock, and beside it, under
a key of its own that is written after the record and expires by itself, the time of the worker's last action. History:
`resting` (nobody came on duty or acted for 45 minutes), `met` and `cut`, calls the AFK check overlapped and a call a
restart cut in two.

`MC*` modules instantiate these for TLC, `*Proofs` modules hold the theorems. The relay composes the engine
through its abstract specification and the queue through `job`. The other modules stand alone where what they
share with the relay (`Request.status`, publish) decides nothing in them: `Intake` sees of a request's stages only
that it is live or over, `CoverageGate` of the queue only that a job runs, pauses or ends.

## 3. Runs

| Run | Instance | What it shows |
|---|---|---|
| `race` | 1 task, 2 admins, 2 transactions, 3 rows, symmetric staff and callers (366,040 states) | types, current updates, frozen history, refinement of the slots |
| `sweep` | 1 request with a claimed work item, 2 stages, 1 admin, 1 caller, 3 rows (465,708 states) | a lapsed offer is always answered or swept; a cancelled or finished work item reopens only by a completion that read it as claimed |
| `relay` | a normal request, a redo, an update entry, any two of them together; page of 3; staff work only on tasks they hold; 1 restart, 1 caught error (1,255,454 states) | nothing is stranded, and a published or deleted request leaves no task, but for the events of `Hurt` |
| `storm` | one request, normal or redo; careless staff, late resets and deletions, 2 restarts, 3 caught errors (78,334 states) | no Senku task for a redo; a stage nobody has is restored |
| `posts` | 1 request, 2 button handlers, 2 schedules, transactions that overlap or fail, 1 restart (5,032,178 states, symmetric handlers) | a row is swept once, one pending time per request, what was called off stays off, no post goes out twice |
| `queue` | 2 requests (one the owner's), 2 jobs, 1 slot, 1 restart, cancels of one and of all, failing calls (983,297 states) | no phantom rows, cancels hold, jobs end |
| `channel` | an entry confirmed and one announced later, 2 runs at once, 3 starts, 2 generations of packs, 3 stores, 1 failure or restart, symmetric runs (8,631,912 states) | buttons, layout, backup, cards |
| `duty` | the owner, 2 reviewers, 2 calls at once and the AFK check, 1 restart (153,040 states) | the record stays well formed; the AFK check frees only the idle |
| `recovery` | 2 admins, 3 chats, 2 cards, 1 ban, 4 attempts, 1 failed call, 1 failed transaction or restart (352,381 states) | backup and complete channel kept, no duplicates, recovery lands |
| `coverage` | 4 franchises (two seasons and a movie; two seasons without counts; a second season counted as 0; a season in two parts), 2 jobs, 1 switch, 1 fault, cours of 2 (295,692 states) | locators, exact gate, a way out of the pause |
| `intake` | a user and a member of staff, 1 title, 2 requests, 1 work item, 2 handlers, 1 end and return (1,602,323 states) | duplicates explained, work items converge |
| `second_ban` | 1 careful admin, 3 cards, 2 bans, 2 attempts, 1 failed call | **violated**: `BackupIntact`; see section 5 |

Bounds. `MaxRows`, `MaxPosts`, `MaxJobs`, `MaxReqs`, `MaxWorks` count inserted rows; `MaxStarts`, `MaxTries` count runs;
`MaxStores`, `MaxPacks` count what the storage channel adds; `MaxTasks` counts handlers at work, `MaxTurns` ends and
returns of requests; `MaxCrashes`, `MaxRestarts`, `MaxGlitches`, `MaxTroubles`, `MaxFaults`, `MaxBreaks`, `MaxBans`, `MaxToggles`, `MaxFires`
count events.
Three assignment rows are enough for an offer, its skip, a re-offer, and a competing insert; `Reserved`
keeps the bound from stopping the sweep. Two jobs suffice for one in the slot and one in the line, and for
a job and its successor. Two schedules of one request are an old one and the one that supersedes it. Several requests
matter in the relay only through the page of a tick and through a fresh ticket: `relay` has one of each
kind and takes any two of them together (`AnyTwo`). Its `LateReset` is off: with it, and with both kinds of failure, the
search was stopped past 12 million states; the theorems of section 4 include it. Two channel runs are every pair that
can overlap, and the third start is the one that meets what they
left. Two cards let a restore fail before, between and after them, and four attempts let two admins try both chats
each; `recovery` does not go on from states that are no longer `Undisturbed`, where all its properties are
excused. A cour of two episodes has a first, a last and an off-by-one.
Where bounds are not enough for comfort, section 4 has the property without them.
Deadlock is not checked: requests may all be published, bounds used up, everyone idle.

Every property of a passing run has a mutant, a plausible slip in one mapped definition that makes TLC refute
it (`mutants` in `PROJECT.json`, marked `(mutant)` in the modules).

### Fairness

* `AdminAssignment`: the 60-second sweep runs, and once begun it ends (APScheduler interval job in
  `pipeline_manager.py`, one instance at a time). Nobody is assumed to answer an offer.
* `StageRelay`: the tick is weakly fair. `SF(GivesStage(r))` says that a ladder climbed again and again for a
  request sometimes gives the stage to somebody: admins come on duty. Without any staff nothing can be
  restored, by design.
* `DownloadQueue`: startup recovery, the 2-second poll, the FIFO semaphore, and a download that ends or fails. The poll
  loop may also end for good; `JobsEnd` then has nothing to say.
* `ChannelRecovery`: each attempt goes on (weak); `SF(\E r : Begin(r, c))` says that some admin tries again, with every chat
  there is. `RecoveryLands` speaks of admins who do not give up; faults are bounded.
* `CoverageGate`: jobs go on; staff answer a card that is there or, when none is, choose to publish anyway, and that
  handler goes on.
* `Intake`: reconciliation runs and commits (it is called whenever a board is opened and by the idle reminder).

`ScheduledPosts` and `ShiftDuty` have safety properties only: the sweep of posts and the AFK check are jobs of
`nekofetch/bots/manager.py` (636-643, 699-703), and `main.py` starts `PipelineManager`, which registers neither. No
fairness of them is a fact about the deployed process; section 5 says what follows.

### Assumptions, as constants

`Diligent` (TRUE in `relay`): staff press buttons only for tasks they hold; the handlers check that the user is staff, not
that the row is theirs. `SlowDatabase` (FALSE in both relay runs): a few queries in a row outlast several Telegram calls.
`LateReset` (TRUE in `storm`): "Change source", a cancel or a deletion meets a running coroutine. `Careful` (FALSE in `recovery`, TRUE
in `second_ban`): admins cancel a recovery that is offered although the title has a channel that is up. No theorem
but `SenkuIsSkipped` assumes any of them.

## 4. Proofs

Eight modules, for every value of the constants; the bounds play no part. Each starts from the one
named assumption of a component about its constants, which TLC evaluates in every run of it. In each, the stated property
is not inductive, and the work is in the invariant.

* `AdminAssignmentProofs`: `TypeCorrect`, `OneOpenAssignment`, `UpdatesStayCurrent`, `ClosedRowsAreHistory`. An `UPDATE` by a
  stale primary key could revive a closed row; the invariant `TypeOK /\ OneOpenPerStage /\ UpdatesAreCurrent` says
  that a completion that still runs points at a row that is assigned, or was completed by somebody else, so that
  its blind write opens nothing. `EngineImplementsSlots`: the engine implements `AssignmentSlots`. With one open
  row at most, a slot is characterised by it; every transaction that commits a row is one legal move of
  one slot, the sweep withdraws several offers at once, and the inside of a transaction is a stutter.
  `TerminalWorkIsClosed`: the synchronisation writes `open` only over a status `claimed` it has read, so a closed item is
  reopened by nothing but a completion that read it while it was claimed and writes late (`StaleClaim`), which does
  happen (section 5). `UnclaimedWorkStaysClosed`: never, where nobody claims the item (`NobodyClaims`).
* `DownloadQueueProofs`: `QueueTypeCorrect` needs `LineInv`, a task belongs to a claimed job, so that claiming cannot put
  a task into the line twice. `NoPhantoms`. `CancelsHold`: `CancelInv` says of a stopped job whose flag nothing has
  missed that its row is cancelled, failed or deleted and that a task of it, if there is one, is before its last checkpoint with
  the flag in front of it (`Held`).
* `IntakeProofs`: `IntakeTypeCorrect`, `DuplicatesAreExplained`. The promise "no request of this title up to id n was live, and
  one that is live again is marked" is made by a check and carried by a card in a chat, a handler that will
  bridge a work item, and the row they become.
* `SweptServicesProofs`, of two services that a sweep of the scheduler may call. Schedules: `PostsTypeCorrect`,
  `SweepFiresRowsOnce` (what the sweep has ahead of it is not yet swept, and a claimed row is never pending again),
  `OneTimePerRequest` (while one schedule of a request is under way alone, what it has read is still all there is:
  `Alone`, `HasSeen`, `OneWaits`), `CancelledPostsStayOff` and `PostsFireOnce` (`FInv`: a row that may still be fired is in one
  hand, `HeldOnce`, and a row that was called off is in none, `LetGo`, the named crossings apart). Shifts: `DutyTypeCorrect`,
  `OnlyTheIdleAreFreed` (`FairInv`: an old note of a worker who has acted means that a call is about to renew it or was cut, and a check
  that met nobody is alone until it saves),
  `DutyWellFormed`. Every record on its way to Redis is well formed by itself, so whichever of two saves comes last,
  the result is.
* `StageRelayProofs`: `RelayTypeCorrect`. `SenkuIsSkipped` under `Prompt == ~SlowDatabase /\ (LateReset => Updates = {})`: once
  Levi's task of a redo is completed, the request is not READY, not to a tick under way either.
  `NothingIsStranded` and `ClosedIsOffTheLists` for all values of the constants: restarts, errors, careless staff, slow
  queries and late resets are all in. `PhaseInv` gives each request that is not in `hurt` one of nine
  phases (`Unborn`, `AtLevi`, `Finalizing`, `Downloaded`, `AtSenku`, `AtGojo`, `Updating`, `Out`, `Over`) that tie status, slots,
  coroutine, job, finished stages and the tick's stale copy of the status to each other; a step leads from phase to
  phase, or names its event, and each phase names what will move the request on. The set of events is therefore
  the whole answer to what can strand a request or leave a task behind.
* `DistributionChannelProofs`: `CardsAreKept`, `TypesAreRight`, `LinksAreLive`, `LayoutKnowsTheChannel`,
  `BackupKnowsTheCards`, none of them under a condition on the constants. Five invariants, each resting on those before it.
  `IInv`: cards come first in every layout and in every list a run is building, then at most one guide, then a footer
  (`Shape`), so nothing behind the cut is a card, however old the layout. `TInv`: types, by the place a run is at.
  `LInv`: the list in a run's hands is linked as a layout has to be, the run knows the cards of its list, and what it has
  still to send is of other entries; a message never changes its kind, entry or links, so this survives whatever
  other runs do (`ExtendsKeeps`). `GInv`: no button is newer than the packs. `AInv`: where no run met another and
  no write was lost, the layout speaks for the cards that are not `orphans` of a later publish (`Charted`); `Busy` says for each place of the one run how far layout, rows and backup are behind the channel,
  `Rest` that they are not once it is over. The last two theorems and `NoDeadButtons` are read off `Rest`.
* `ChannelRecoveryProofs`: `RecoveryTypeCorrect`, `BackupIsIntact`, `CompleteChannelIsKept`, `NoCardIsDoubled`, for any number of
  admins, bans, attempts, errors and restarts. While nothing has crossed and no attempt began without the original
  (`Undisturbed`), either the original's row is on, and as the only row that is no replacement it is
  what every capture reads (`Standing`), however many attempts run, each on a chat of its own (`Apart`); or a replacement
  has taken over whole and no attempt holds a chat (`Landed`). `Attempt` carries what the switch relies on: the cards still
  to post and those posted are all of them, or the attempt has failed. `Tracked`: what a chat shows is in its
  posts, in its journal, in the hands of the attempt that sends it, or in `unlogged`.
* `CoverageGateProofs`: `GateTypeCorrect`, `RowsAreDistinct`, `GateExact`, for every franchise that either builder of the mapping
  makes. The sums over the parts of a season are written as the number of pairs (`SumOver`), so that what one part more
  adds (`SumWithOne`), that fewer parts add less (`SumMono`) and that an earlier part ends before the next begins
  (`PriorGrows`) follow from the library's facts about cardinality. `Placed` says what a row tells of the
  episode it holds: an unsplit season keeps its numbers; a season whose parts are `Legible` gives, unless the file came blind, the part and the
  number in it (`UnnamedHits`: no earlier part reaches a number of this one); where the counts are known, no number is past
  its part's length. `OwedIsMissed`: an owed episode leaves a unit missing, in an unsplit season its own number, in a
  split one the last, which no part is long enough to have. `MissedIsOwed` is the converse without split seasons.
  `GateExact` promises nothing where a part's count is unknown beside one that is known (`PartlyKnown`: the rows of the one
  hide holes of the other), nor of a pause over a split season or one without a count (section 5).

Each stronger invariant was model-checked as an invariant of the run before it was proved. The models name no
library operator that the provers cannot unfold where a proof looks into it: `DistributionChannel` orders entries
and picks rows with `Nth` and `Those`, whose meaning the lemmas `NthIs` and `ThoseAre` state, instead of a sort and a
filter that are defined by recursion.

Only model-checked: all liveness (`SilentOffersAreSwept`, `MissingStageRestored`, `JobsEnd`, `RecoveryLands`,
`PausedGetsThrough`, `WorksConverge`; fairness and ENABLED are out of the prover's reach). Every other
property of a passing run is a theorem.

## 5. What the models say about the code

The run `second_ban`: `record_distribution_channel` prefers the enabled row that is not `human_recovery`
(`backup_service.py:482-490`), so that "a partially restored replacement must never overwrite the durable backup".
After one recovery the title's only row is a replacement itself. In a second recovery both are, the
newest is the one being filled, and a capture while its restore has failed and its rollback has not yet
switched it off (or, after a restart in that place, the capture the next attempt starts with) reduces the backup
to the cards that were re-posted.

The remarks below are counterexamples TLC gives when a constant is changed or an unchecked definition is added
to a configuration, or differences met while reading.

**Engine.** `ReassignSucceeds` as an invariant of `race`: `reassign` of a stage on offer inserts a second open row and
ends in an IntegrityError (the docstring, `management_service.py:359-362`, speaks of any open stage). `TerminalWorkStaysClosed` without its exception
`StaleClaim`: `_sync_work_item` read the item before a cancel committed and then writes `open`, because the `claimed`
it saw differs (`admin_assignment.py:979-990`). Two completions that read the same row both count. Attempts count
offered, skipped and rejected rows alike, so a first silence can count as the second. No property tells the
weighted ladder from another order.

**Relay.** The events of `Hurt` and `Cut` are what the code does not recover from: where any one of them is not recorded,
TLC has a counterexample to `NothingStranded` or to `ClosedLeavesNoTask`. A restart between submit and assign leaves the request PENDING, where recovery
does not look ("deferred work recover[s] without operator clicks", `README.md:92`); a submit whose
assignment fails stays PENDING as well (one except clause over `requests.py:641-681`); a redo whose relink and
fallback both fail strands in PROCESSING. A reset during the finalizer is undone half way, the request strands in PENDING
or is published without a job (`publishing_service.py:529`); a deletion between the insert of a request and its
assignment, or during the finalizer, leaves a task for a request that is gone. A cancelled worker that ends after the
request has been reset and downloaded again sets it to FAILED. A restart or an error between publication and
cleanup leaves Levi's or Gojo's task open, as a force-publish may leave Senku's. `reject` leaves
the assignment rows open, and a tier that ends later revives the request.
`SlowDatabase = TRUE`: recovery can give a redo a Senku task. `Updates = {1}`, `Redos = {}` in
`storm`: an update entry that changes its source during its finalizer is READY with Levi's task done after the
second download, and recovery gives it a Senku task. `Page` smaller
than the number of requests that wait for staff: later ones are never looked at (`assignment_recovery.py:86`).
`delete_request` and `reassign_fresh` set the
worker's cancel flag and remove it again moments later (`_clear_job_flags`), so that a busy worker never sees it.
`abandon` sets none, and keeps `redo_relink` where `reset_source` drops it.

**Intake.** `DedupService.check` has one caller (`requests.py:216`), which passes no `anime_doc_id`: the checks
against the main channel and the distribution bots never run (`dedup.py:1-6` and `68` promise them). The typed query is
compared with `%query%`, while the title comes from AniList or the version picker: a short query blocks other titles and
a synonym finds nothing, which is one of the gaps `DuplicatesExplained` lists. Only the five newest hits are looked at. One request at a time is
checked when typing, not when confirming; a second tap submits again, or after `fsm.clear` a request called
"Anime". QUEUED is written without looking and can revive a rejected request. A batch is not checked at all. A
stale reconciliation can overwrite a cancel; work that was done is not reopened when its request is retried; a
deleted request leaves its work item linked to a code that is gone. `_stage_from_assignments` looks for
`"in_progress"`, which no assignment row ever has, and keeps the last of several rows of a stage in no stated order.

**Queue.** `NoGhostRun` as an invariant of `queue`: `recover_on_startup` queues PAUSED jobs again whose successor
has long finished (`download_service.py:1553-1562`). `CancelHolds` without `missed`: a cancel of a job that waits for its
slot longer than ten minutes is forgotten (`queue_service.py:146`); so is one whose flag Redis did not take, or did not
give when asked (`download_service.py:1351-1352`), and `confirm_mapping` parks without asking when Redis, Levi or the chat
is missing (`naming_confirm.py:495-500`), so that startup queues the job again. A swallowed error in `_park_job`
(`naming_confirm.py:590-605`) leaves a row RUNNING without a task until the next restart (`strays`); `run_forever` has no
try around its poll, and an exception there ends the worker. All queued jobs are claimed at once and wait for
a first-come semaphore, so the owner's priority (`queue_service.py:52-55`) decides only among jobs queued within one
poll. Two taps on "Proceed" enqueue two jobs, since the row stays PAUSED. A cancel after the last checkpoint is
overwritten. `cancel_all_active` deletes the rows and leaves the requests at a status that recovery does not pick up;
a waiting task of a deleted row fails on its first line and `_handle_failure` finds nothing to mark.

**Coverage.** Each of the following comes with one job, without faults, when the definition named is added to the configuration
of `coverage` and `Franchises` is replaced. `CompleteIsNotPaused` with `OnlyTwoParts`: rows number the episodes of each part
from 1 (`download_service.py:1924-1925`), `compute_coverage` looks for the season's numbers whichever part they are of
(`coverage.py:123-134`), so a complete season in two parts is always paused, although "a complete franchise all return
False" (`download_service.py:903`). `UnknownNeverBlocks` with `OnlyNoCountYet`: the walk gives 0 for a count it does not have
(`franchise_flow.py:426`), `_expected_units` tests for None, and a season of 0 episodes without files is "empty", which
blocks although "unknown-count seasons never block" (`coverage.py:54`). `FiledInPlace` with `OnlyLongerPart`: with the part
named, a number is taken for the season's only if it is more than the part has episodes (`download_service.py:2470`), so
the first episodes of a part that is longer than those before it keep the season's numbers and can collide with later
ones. In the theorems these are the conditions `Split`, `Uncounted` and `Legible`; the three counterexamples show that
each is needed.
A part without a count can hide the holes of a part with one. Two extras that come from two releases are filed by
their place in the release and may share a number (`LocatorsAreDistinct` speaks of seasons). `LocatorsAreDistinct` without `blind`: a release that numbers the second part from 1, with no
part named, is filed over the first part (`_map_episode_locator`, `download_service.py:2476-2503`). The "publish anyway" flag
is set before the round it is for (`review.py:2461-2467`), lives 300 seconds and can expire before the job reaches the gate; one left by a round that failed waives a later one.

**Schedules.** `FiredOnce` without `anyhow`: two taps on "Send now" publish twice (`schedule_service.py:8-9`,
`schedule.py:198`). `OnePendingPerRequest` without `raced`: two schedules of one request can both stay pending.
`CalledOffStaysOff` without `crossed`: a cancel that commits between the sweep's look and its claim is overwritten. A restart
between the claim and the outcome leaves `publishing` for good, and so does an error when the outcome is recorded, which is
outside the try (`schedule_service.py:201-209`) and ends the sweep for the rows behind it. That a due row gets an outcome
is therefore not claimed; besides, `main.py` starts `PipelineManager`, which does not use the manager that registers the sweep
(`nekofetch/bots/manager.py:636-643`): in the deployed process scheduled posts are never swept.

**Channel.** The properties excuse what they name: of two updates that overlap, the last layout wins and the
other's card is in the channel but in no memory, or twice. A restart between the sends and the layout makes the
retry repeat them; one between the layout and the stored rows keeps the card out of the backup for good. A
card whose send failed is not tried again. An entry confirmed without packs gets a card without buttons, which
updates skip as known. Publish does not ask whether the title is published (`senku_publisher.py:71-94`), and the wizard
offers it again after a handoff that failed: the new layout replaces the old one, whose cards stay where readers
see them and in no memory (`orphans`; a restore brings none of them back). Update and relink take the newest row, enabled or not (`senku_publisher.py:166-174`, `297-305`).

**Recovery.** A claim is of an admin, lasts 15 minutes (`tasks.py:173`) and is not looked at by the wizard
(`_run_human_recovery`), so two admins can recover one title at once. Without `crossed` in `Undisturbed`, `CompleteChannelKept`
fails: each switch turns off the other's row, whole or not (`bot_orchestrator.py:368-372`), and the row of an attempt that
has stopped half way may be the only one left on; the next capture then takes its part of the cards for the backup. A
rollback switches the old rows on again, those of another attempt as well, so that the public surfaces may lead to a
channel that is off.
`again` is the same with one admin: the ban check looks at every row, switched off or not
(`maintenance_service.py:88-92`), and so keeps offering to replace a channel that has been replaced; accepting, as
staff that is not `Careful` does, costs the backup cards as in `second_ban`.
The switch turns all rows off but its own ("fully restored, linked, published", `bot_orchestrator.py:366-367`), while the
public surfaces lead to the newest row that is on, which may be the empty chat of an attempt that a failed transaction
stopped; why `RecoveryLands` asks for a public channel only where nothing was `cut`.
A restart in an attempt, or a failed rollback, leaves the replacement's row on, so that the
retry on the same chat is refused, although its journal is kept for it (`backup_service.py:880-884`); when every chat
has met that, none is left. `register_channel` judges the reuse of a row by the scope of the new call, and
forgets the stale invite without revoking it. A message whose tracking fails, followed by a failing settle or a
restart, is in no memory and is repeated: `NoDuplicateCards` names these `unlogged`. The watchdog paths
(`manager.py:200-217`, `344-360`) switch the row off before `recreate_bot`, whose own capture then finds none.

**Shifts.** Saves cross: a stale one brings an old worker back or loses a takeover. The activity key lives five minutes longer than the
limit it is read for: a check that comes later finds none, takes that for no idleness, and the worker is never released, so
that no release is claimed; besides, the deployed `PipelineManager` does not register the check. The note of the
activity is written after the record, and only by some calls: `AfkFreesTheIdle` without `met` or `cut` frees a worker who has
just come. The AFK message goes to chat 0
(`manager.py:422-431`, the worker is already cleared), as does that of a takeover, whose buttons carry no requester.
Approving does not look whether the requester is the one that was shown; the key that should end a takeover
request is written and never read; the release of one worker can delete the activity key of the next.

## 6. Not modelled, and simplifications

The models cover the code that decides, which is a small part of the lines: most of the repository is screens
and captions of four bots, scrapers, ffmpeg stages, Telegram layout, BotFather automation and migrations. Those
are I/O and wording without shared state that two actors disagree about; modelling them would restate them. This
is why the mapped share of all lines stays low although the control of each component of section 1 is here.

* One recovery tick writes all its assignments in one session; the relay makes each visible at once.
* The claim of a job is one step. In the code a cancel can commit between its SELECT and its UPDATE and have its
  status overwritten; the flag then still stops the task, unless the process restarts first.
* The sweep of scheduled posts also completes Gojo's task of the request; that is `PublishCleanup` in the relay.
* Errors in `_ddl_franchise_map` let a job proceed unconfirmed; that is not in the model.
* `recover_on_startup` is modelled with `resume_interrupted` on, `require_approval_before_publish` is true, both as
  in `config.yaml`.
* Captions, images, dividers, pins and the info card are left out of the channel; a pack is its generation.
* In a recovery the main post, the recovery reply and the index are one surface. `recreate_bot` (a new channel through
  BotFather) and the offers themselves, one per admin, are not modelled.
* Reading titles and file names (`torrent_mapping`) is the input of `CoverageGate`: a release numbers its files in one
  of the styles `Styles` lists. A job that completes in part and asks staff to go on (`progress_monitor.py:224-247`) is not
  in the relay.
* `purge_all_for_anime` and the redo's metadata refresh, claim-next and renaming of work items, availability
  setters of admins, thumbnails, index and log channels, the web form, owner seeding and the database reset are
  not modelled: single transactions, or output only.

## 7. Order of work, and what is left

`AssignmentSlots`, `AdminAssignment`, `StageRelay`, `ScheduledPosts` and `DownloadQueue` came first, with the proofs of the
engine and the queue; then `ShiftDuty`, `DistributionChannel`, `ChannelRecovery`, `CoverageGate`, `Intake`, removal of requests
in `StageRelay`, and the proofs of sections 4's other modules, the engine's refinement among them.

Then every safety property that a run checks became a theorem, and at last the conditions went: what the proofs had
assumed of staff, timing and failures is now possible in the models, and where the code does not cope the property
names the event (`hurt`, `missed`, `crossed`, `raced`, `unlogged`, `orphans`, `Blind`).

Left, in this order: the relay run with `LateReset` under a bound that a search can finish; the card of a job that ends
in part; the refinement of one title's channel by an abstract list of cards; `recreate_bot` beside
`recover_human_channel`.
