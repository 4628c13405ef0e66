# Hofvarpnir in TLA+

Formal models of the parts of Hofvarpnir that decide *what is indexed, downloaded and removed, when,
by whom, and what happens when something fails*: TLA+ modules, TLC runs over small instances, and
TLAPS proofs for every instance. Paths below are relative to the repository; `hof-core/` stands for
`crates/hof-core/src/`.

    tlc -workers 4 -config Steady.cfg MCDownloadSupervisor     # one run
    tlapm ResourceProofs.tla                                   # the proofs of one module

## 1. The system

Hofvarpnir is a self-hosted video archiver: kameo actors (one bounded mailbox each, one message at
a time) over a Postgres database. An operator registers *sources* (channels, playlists). The
scheduler spawns an indexer for each due source; the indexer inserts new *videos*; the download
supervisor downloads them, each in a detached Tokio task that drives a worker actor.

| Component | State it keeps | Operations | Talks to |
|---|---|---|---|
| DownloadSupervisor (`actors/download_supervisor.rs`) | `active_downloads`, `dispatching`, a semaphore and its intended size, a database backoff, pacing | EnqueueDownload, ProcessPendingDownloads, RegisterWorker, DownloadCompleted, ReportOutcome, CancelDownload, ApplySemaphoreTarget, GetSupervisorStatus | detached tasks, workers, rows of `videos`, RuntimeConfig |
| Detached task and DownloadWorker (`actors/download_worker.rs`) | video, permit, attempt | acquire permit, register, claim, download, verify, mark completed, release, report | supervisor mailbox, rows |
| Scheduler (`actors/scheduler.rs`) | `active_indexers`, `last_indexed`, running flag | StartScheduler (ticker loop), CheckSources, IndexSource, IndexingCompleted | indexers through detached waiters, `sources` rows, supervisor |
| SourceIndexerActor (`actors/source_indexer.rs`) | a copy of the source and profile rows | one index run: fetch playlist, detect order, scan entries, record result | yt-dlp, `videos`/`sources` rows, supervisor |
| Cleanup (`actors/cleanup.rs`) | a timer | retention, quotas, delete files and mark rows | `videos`, `sources`, `profiles` rows, the library |
| Root supervisor (`actors/root_supervisor.rs`) | child refs, restart counters, health records | link-death restarts, operator's RestartActor, health report | every actor |
| Watchdog (`watchdog.rs`, `liveness.rs`) | the liveness flag; self exits in the activity log | poll the health report, end the process | root supervisor, DrainToken, activity log |
| RuntimeConfig, DrainToken (`runtime_config.rs`) | current settings, pauses, drain state | NOTIFY listener, reload, begin drain | `runtime_settings`; every actor and the control panel read it |
| Startup and drain watcher (`startup.rs`) | none of its own | crash recovery, first sweep, quiescence polling, shutdown | supervisor, rows |
| HTTP API (`crates/hof-api`) | none | retry, download now, cancel, delete, bulk forms of them, source edits | rows, supervisor, scheduler |
| Web UI, TUI, telemetry, auth, yt-dlp client, Jellyfin files | – | presentation, I/O | – |

What is hard here, and what makes each part correct:

* **Download pipeline.** Three kinds of senders ask for the same video; the supervisor forgets and
  learns about its tasks only through its own mailbox; permits change hands while the cap changes;
  the claim and the outcome of a download are written by different actors. Correct means: no video
  is downloaded twice at once, no reservation, registration or permit leaks, "quiescent" means
  quiescent, retries stop, a row is `downloading` only while somebody downloads it, and every
  pending video gets its turn.
* **Scheduler.** A tick decides on a list read before several awaits, while indexers end and
  operators act. Correct means: one indexer per source, never within the floor, errors counted and
  bounded, no registration left behind, no due source starved, downloads swept whatever happens to
  the indexing half.
* **Source indexer.** A verdict about the playlist's order, reached from two entries and kept for
  weeks, decides where scans stop. Correct means: no wanted video is hidden, and what a failure hid
  is found later.
* **Supervision.** A child dies while an operator's restart task kills and polls it; the watchdog
  ends the process on what the root supervisor recorded, and the crash-loop guard must count exits
  of processes that are gone. Correct means: the health report is true, self exits are bounded per
  hour, a child beyond in-process recovery comes back, and a drain ends the process.
* **Runtime configuration.** A copy in memory follows a row through notifications that may be lost,
  a listener that reads in one step and publishes in the next, and pauses that lapse with nobody
  writing. Correct means: the copy is a committed version, never goes back, and catches up; a lapse
  is published; the control panel shows the last change; a request reads its own write.
* **Cleanup.** A run works through lists read before the deletes, over retention at three layers,
  vetoes and quotas, while everybody changes rows and files. Correct means: what goes had a cause,
  a quota takes no more than it needs, what was announced is what goes, and both are enforced in the
  end, whatever fails in between.

PROJECT.json lists every component with its status and every hazard at its line.

## 2. Modules

| Module | Models | Corresponds to |
|---|---|---|
| `VideoRow` | one row of `videos` and each statement of the download life cycle as an operator on it | `hof-core/db/video.rs` |
| `DownloadSupervisor` | the pipeline: one action per message handler, one per step of the detached task and worker, one per step of a client flow, and the environment | `download_supervisor.rs`, `download_worker.rs`, `routes/downloads.rs`, parts of `startup.rs`, `runtime_config.rs` |
| `PermitPools` | abstract specification of what the semaphores promise | `resize_semaphore` |
| `Scheduler` | the scheduler, its ticker loops, indexers, waiters, and the `sources` columns it reads | `scheduler.rs`, `source_indexer.rs`, `db/source.rs` |
| `SourceIndexer` | one source and its index runs entry by entry | `source_indexer.rs` |
| `Supervision` | root supervisor, restart tasks, watchdog, drain watcher, shutdown, the container | `root_supervisor.rs`, `watchdog.rs`, `liveness.rs`, parts of `startup.rs`, `runtime_config.rs`, `routes/system.rs`, `hof-web/src/main.rs` |
| `SettingsView` | abstract specification of what readers of the settings in memory may rely on | `runtime_config.rs`, `docs/adr/0001` |
| `RuntimeSettings` | the settings row, its writers, the listener, the copy and the control panel | `runtime_config.rs`, `db/runtime_settings.rs`, `routes/settings.rs`, `hof-web/src/runtime/mod.rs` |
| `Cleanup` | the cleanup actor and everybody who changes what it works on | `cleanup.rs`, `db/video.rs`, `db/source.rs`, `routes/downloads.rs` |
| `MCDownloadSupervisor`, `MCScheduler`, `MCSourceIndexer`, `MCSupervision`, `MCRuntimeSettings`, `MCCleanup` | values for TLC | – |
| `DownloadSupervisorProofs`, `ResourceProofs`, `DispatchProofs`, `SchedulerProofs`, `SourceIndexerProofs`, `SupervisionProofs`, `RuntimeSettingsProofs`, `CleanupProofs` | theorems | – |

### DownloadSupervisor

`row` is the table; `mailbox` the supervisor's FIFO; `active`, `dispatching`, `free`,
`permits_total`, `db_retry_after` its fields (`free[k]`, `permits_total[k]` for the semaphore of
incarnation `k`, because tasks of a dead incarnation keep permits of the old semaphore); `sweep` the
part of a ProcessPendingDownloads loop still to be visited; `verdict` what a ReportOutcome has decided
and not yet written; `task` the detached tasks with the workers they drive; `client` the flows of
indexer, HTTP handlers and cleanup.

A handler is one atomic action, with two exceptions that await the database between a read and what
they do with it. The sweep lists the backlog and then dispatches video by video. The report of a
failure is JudgeFailure, which decides on the `attempts` that `handle_failure` reads, and
RecordFailure, which writes that decision over whatever the row holds by then; tasks and clients act
in between. Its message stays the head of `mailbox` meanwhile and takes up no room (`Full`). The other
reports are one statement or none (ReportOutcome). The task's life is
`parked -> spawned -> registered -> queued -> downloading -> finished -> released -> reporting`,
one action per await of `dispatch_download`: Acquire, TellRegisterWorker, AskStartDownload,
ClaimVideo, EndDownload, ReleasePermit, TellDownloadCompleted, TellReportOutcome. A client flow
reads, acts on the table and sends, with everything else interleaved between.

Abstractions: pacing (the sleep of a dispatched task, the rate-limit multiplier, DownloadStarting
and NotifyRateLimited) is the freedom of a parked task to stay parked; times are relative
(`none`, `future`, `due`); the order in which the sweep visits its list is left open; videos are
static in whether they have a source; the drain deadline is left out.

### Scheduler

`due`, `enabled`, `older`, `index_error_count` are what the due-query sees; `older` is the order by
last_indexed_at as a relation: `<<r, s>>` if r comes before s. `active_indexers`, `last_indexed`,
`running` are the actor's fields; `tick`, `listed`, `listed_order`, `spawned_this_tick` the
CheckSources handler that is running, whose list keeps the order it was read in; `up` that the actor
runs, which it does not after an `on_start` that failed; `tickers` the number of ticker loops;
`sweeps` the messages the supervisor has yet to take; `indexer` the spawned indexers with their
waiters. `streak` and `rested` are history: errors in a row, and that the floor has passed since a
run's end. A tick is a listing step, one step per source, and the final tell. A restart keeps the
mailbox (kameo hands it to the next incarnation), ticker loops, indexers and waiters. Its `on_start`
tells itself StartScheduler with `try_send` (TellStart): in a full mailbox that fails the start. Since
nobody takes a message from the mailbox of an actor that is down, every further attempt of the restart
budget finds it as full, and the actor stays down until the process starts again (Boot), which module
Supervision brings about: the root supervisor records the child as unrecoverable, the watchdog exits.

AddSource, RemoveSource, StopScheduler and IndexNow have handlers and no sender in the program;
they are left out.

### SourceIndexer

The columns `cutoff_date`, `entry_order`, `entry_order_detected_at`; the run with its copy of the
row, the entries it fetched and its queue. StartRun, FetchPlaylist, DetectEntryOrder, then
ProcessEntry, EntryFails or EntryRateLimited per entry. The platform publishes (at the end it uses
for new videos), the operator moves the cutoff, and the verdict ages. Left out: profile filters
(shorts, livestreams), entries without a date, channel metadata, Jellyfin files. A run is alone on
its source here: that is OneIndexerPerSource of the module Scheduler.

### Supervision

`child` is what became of each actor (`dying` until the root supervisor has handled its link death,
`gone` once kameo declined to restart it, `stopped` by the shutdown); `spent` the restarts of the
current RESTART_WINDOW; `unrecoverable` the health records; `mailbox` the signals the root has not
handled; `restart` the detached tasks of RestartActor (`killing -> polling -> [kicking ->]
recording`); `watchdog`, `seen_dead`, `alive` the watchdog's task and the LivenessFlag; `drain` the
DrainToken with its clock; `self_exits` the activity log of the trailing hour, which alone survives
a process. Every handler of the root supervisor is one step, because it never awaits. The container
starts the process again with everything fresh. It composes with the restarts that
DownloadSupervisor and Scheduler take as events of their environment: those are HandleLinkDied here.

Abstractions: the window of ten restarts in 30 s is a counter that may be reset at any time; the
drain deadline is a clock that may be overdue, so the watchdog's shorter cap is not told apart from
an operator's timeout; work in flight is the freedom of a probe to answer "not yet", and a probe of
a dying child waits; Ctrl-C is the shutdown without a drain and left out. The order in which the
shutdown stops the children is left open.

### RuntimeSettings

`row` is the row, a version with the expiries of the pauses; `link`, `notices`, `lost` the
PgListener's connection; `listener`, `fetched`, `armed` its task between two awaits; `cache` the
watch channel; `unanswered`, `reply` the requests between their UPDATE and their response; `panel`
one open event stream. `missed` and `refreshed` are history. The requests PatchSettings, Pause and
Resume differ in the expiries they write. sqlx's `recv` on a lost connection reconnects and listens
again by itself, or gives up: NoticeBrokenLink models both, as the code relies on either.

### Cleanup

`status`, `since`, `files` are rows and library; `runs` the RunCleanup messages; `phase`, `todo`,
`unlinked`, `profiles`, `profile`, `owed` the locals of a run between its awaits. The queries are
operators: PastRetention and ScheduledDeletion for retention, Usage and Evictable for quotas. A
removal is two steps, the file and the row, with everything else interleaved; an operator's bulk
delete is the same two steps. Downloads are claim, move and mark. `grounds` and `shrunk` are
history: which videos there was a reason, and no veto, to remove since the run began, and whether
somebody else lowered a usage since it was calculated. Left out: the sweeps of temporary files, the interval's
retuning (a tick may come at any moment), and the single-video delete, which removes the row too.
The lists of several sources that one profile's query reads one by one are read in one step. A usage
is the number of elements of a set of bytes, which makes a sum of sizes something to prove about.

## 3. Runs

Bounds are in the `.cfg` and in the `Budget`s of the MC modules, which say how often each
environment event (requests, faults, configuration changes, pauses and drains, restarts, crashes)
may happen. Everything else is unbounded but for the slots of tasks and indexers.

| Run | Instance | Shows |
|---|---|---|
| Steady | 2 videos, 3 tasks, cap 1 or 2 and one change of it, one fault, one pause or drain | TypeOK, UniqueDispatch, QuiescenceSound, AttemptsBounded, CompletedStaysCompleted; PermitAccounting while the cap changes |
| Recovery | 2 videos (one without a source), 3 tasks, one of the six operations of a client, cancel included, one restart of the supervisor, one crash and boot | DownloadingIsOwned, NoLeakedReservation, NoLeakedRegistration, ReleasedIsNotDeferred; SemaphoresArePools across incarnations |
| Progress | 1 video, 2 tasks, one discovery, one fault, one pause or drain, fair | PendingIsDispatched, DrainCompletes, ReservationsReleased |
| Indexing | 2 sources, 2 indexer slots, 2 retries, one trigger, one edit, one pause | OneIndexerPerSource, ErrorStreakBounded, ErrorsAreCounted, IndexFloor |
| IndexRestart | 1 source, 3 slots, two restarts, one fault, one trigger; runs that succeed, fail, are rate limited or panic; a mailbox of two that a restart may find full | TypeOK, NoOrphanedRegistration, LoopIsDriven |
| IndexProgress | 2 sources, one indexer per tick, mailbox of one, one pause, fair | DueIsIndexed, RegistrationsEnd, SweepsContinue |
| Indexer | 5 videos (two on one day, one refused), three cutoffs, ascending, descending, tied, single and empty playlists, two faults, two edits, one redetection, fair | TypeOK, NothingMissed, VerdictIsTrue, WantedIsFound |
| Supervision | 2 children, 1 restart task, restart limit 1, one self exit per hour, 3 panics, one request, one fault of the database, fair | HealthIsTrue, ExitBudget, SelfHeals, DrainEndsProcess |
| Settings | 1 pausable module, time 0 to 2, two writes, one failed read, one lost connection, fair | ReadYourWrites, CacheIsView (refinement of `SettingsView`, with its fairness), LapseIsPublished, PanelCatchesUp |
| Cleanup | 2 videos, one shared by sources of 2 profiles, retention at three layers, time 0 to 2, one request, one failure or crash, fair | DeletionIsAnnounced, QuotaStopsInTime, RetentionIsEnforced, QuotaIsEnforced |
| CancelRedispatch | 1 video, cancel and retry | **violated**: UniqueDispatch |
| QuotaVeto | the instance of Cleanup | **violated**: RemovedForCause |

Why the bounds suffice for what they are for: a double dispatch needs one video and two tasks, and a
third task gives a late message of the first something to confuse; two videos are what it takes for
a permit to pass from one download to another while the cap shrinks. One fault lets a claim fail
without counting an attempt, which is what makes a report come late. Recovery has one operation of a
client, because with a restart and a crash two exceed what can be explored; NoLeakedReservation and
NoLeakedRegistration are proved for any number of them. Two sources with one indexer per tick are
the smallest case of starvation, three indexer slots hold one indexer per incarnation. Playlists of
four and five entries with MAX_CONSECUTIVE_BEFORE_CUTOFF = 2 (3 in the code) let a scan stop in the
middle, be reset by another outcome and stop at the end; the constant only scales the playlists.
`attempts` stops two past the limit that is compared with, one more than AttemptsBounded allows, and
`streak` one. Three panics with a restart limit of one let both children be given up, or one of them
twice over two processes; with one self exit per hour the second process meets the guard. Two writes
are what it takes for a notification to arrive between the read and the publication of an earlier
version. Two videos, two sources and two profiles are the smallest library in which a video is
shared across profiles and a quota has a choice; with `since` 0 or 1 and a clock to 2 a video
expires for one source and not for another. Symmetry is used for interchangeable tasks, videos,
sources and indexers, in safety runs only. Deadlock is checked in every run but Settings: once the
last write is answered and shown, the settings rest.

Restarts are not part of Steady and Indexing, and neither they nor cancels of the theorems on
UniqueDispatch, because the code does not keep those properties under them (section 6).

## 4. Fairness

DownloadSupervisor: weak fairness of the supervisor's handlers, of the resize watcher and of the
end of a database backoff and of a retry delay; strong fairness of the scheduler's tick, the
quiescence probe, and each task's steps. Tokio runs every runnable task; the semaphore and the
mailbox wake their waiters in FIFO order, so that one who waits while room comes and goes is served:
that is strong fairness of Acquire and of the steps that send. A download ends because the worker
runs it under a timeout. Clients are not assumed to act.

Scheduler: weak fairness of its handlers, of the supervisor taking a sweep (its mailbox drains) and
of elapsing times, strong fairness of the ticker and of indexer steps (they wait for mailbox room).
That an index run ends is an assumption on yt-dlp: its indexing calls have no timeout in the code.

SourceIndexer: weak fairness of the run's steps; that runs follow each other is DueIsIndexed of the
module Scheduler.

Supervision: weak fairness of the root supervisor, the watchdog, the restart tasks and `main`, of the
clocks (uptime, the drain deadline, the trailing hour), of a probe once the deadline has passed, and
of the container's restart (`restart: unless-stopped`). Neither the end of the work in flight nor the
end of a RESTART_WINDOW is assumed.

RuntimeSettings: weak fairness of the listener, the panel and the clock; a connection attempt that
fails is repeated after LISTENER_RETRY_DELAY and succeeds some day. Cleanup: weak fairness of its
loop and of the actor; operators, downloads and the clock need not act.

## 5. Proofs

Each theorem is about `Spec` (no fairness) for every value of the constants that satisfies the
module's named assumption; further assumptions are in the table.

| Theorem | Says |
|---|---|
| `TypeCorrect` | `Spec => []TypeOK` of DownloadSupervisor; in particular the permit subtractions of `resize_semaphore` never go below zero |
| `PermitsAccounted` | `Spec => []PermitAccounting` |
| `SemaphoresImplementPools` | `Spec => SemaphoresArePools`, i.e. the supervisor refines `PermitPools` |
| `ConcurrencyIsCapped` | `Spec => []CappedAt(most)` for any `most` that no value of `max_concurrent_downloads` exceeds: a semaphore, i.e. an instance of the supervisor, never runs more downloads than that |
| `WaitersAreServed` | `Spec => []NobodyWaitsInVain`, if no limit is 0 (`0 \notin Targets`) |
| `ReservationsDoNotLeak`, `RegistrationsDoNotLeak` | `Spec => []NoLeakedReservation`, `Spec => []NoLeakedRegistration`, with every client operation, restarts and crashes |
| `DispatchIsUnique`, `QuiescenceIsSound` | `Undisturbed => (Spec => []UniqueDispatch)` and the same for QuiescenceSound, where `Undisturbed` says that nobody cancels and the supervisor is not restarted |
| `DownloadsAreOwned` | `Faultless => (Spec => []DownloadingIsOwned)`, where `Faultless` says that no statement fails; every client operation, cancels and crashes included |
| `CompletedStaysDownloaded` | `Unattended => (Spec => CompletedStaysCompleted)`, where `Unattended` says that nobody asks for a download (deletions and the cleanup may act) and the supervisor is not restarted; with crashes, and up to the first statement that fails |
| `AttemptsStayBounded` | `Unattended /\ Counted => (Spec => []AttemptsBounded)`, where `Counted` adds that nothing crashes (a crash returns a claimed row with its attempt) and that `max_attempts` is not 0; the bound is `max_attempts`, and one more once a statement has failed |
| `ReleasedStaysReleased` | `OnlyReleased => (Spec => ReleasedIsNotDeferred)`, where `OnlyReleased` says that nobody cancels, no statement fails, the supervisor is not restarted, and "Download now" is the only way to ask for a download; with deletions, the cleanup and crashes |
| `SchedulerTyped` | `Spec => []TypeOK` of Scheduler |
| `NoOrphan` | `Spec => []NoOrphanedRegistration`, with restarts, panics and faults |
| `OneIndexer`, `FloorKept` | `Spec => []OneIndexerPerSource`, `Spec => IndexFloor`, if the scheduler is not restarted |
| `SchedulerIsDriven` | `Spec => []LoopIsDriven`, with faults and with restarts that succeed or fail |
| `ErrorColumnIsStreak`, `RetryLimitKept` | `Spec => []ErrorsAreCounted`, `Spec => []ErrorStreakBounded`, if there are no restarts, no faults of the database and no rate-limited runs |
| `SourceIndexerTyped` | `Spec => []TypeOK` of SourceIndexer; in particular a scan ends before its counter passes `MAX_CONSECUTIVE_BEFORE_CUTOFF` |
| `VerdictHolds`, `NothingIsMissed` | `Spec => []VerdictIsTrue`, `Spec => []NothingMissed`, if every playlist is `Directed`: listed by date in one direction or the other, ties allowed |
| `HealthReportIsTrue` | `Spec => []HealthIsTrue` of Supervision |
| `CrashLoopGuardHolds` | `Spec => []ExitBudget` |
| `RecoveryNeverStalls` | `Spec => []NothingStalls` |
| `WritesAreRead` | `Spec => []ReadYourWrites` of RuntimeSettings |
| `CacheNeverGoesBack` | the safety half of CacheIsView: RuntimeSettings refines `SettingsView` but for its fairness |
| `SettingsAreTyped` | `Spec => []TypeOK` of RuntimeSettings |
| `NewsReachesTheCopy`, `ListenerNeverOversleeps`, `PanelKnowsItIsBehind` | `Spec => []NoNewsIsLost`, `Spec => []LapseIsDue`, `Spec => []PanelIsNotStale` |
| `GoneForCause` | `Spec => RemovedForCause` of Cleanup, if `ProfilesApart`: no video is linked to sources of two profiles (run QuotaVeto is what happens otherwise) |
| `QuotaTakesNoMore` | `Spec => QuotaStopsInTime` |
| `DeletionsAreAnnounced` | `Spec => []DeletionIsAnnounced` |
| `NothingIsDropped` | `Spec => ListIsWorkedOff` |

The limits of the assumptions are those of the code. A retry, or the enqueue of a discovery, acts on
a row it read earlier: handled late, it dispatches a row that is not released, or already completed,
while an answer to the earlier dispatch is outstanding (section 6), and so does a "Download now" for
CompletedStaysCompleted and AttemptsBounded. A statement that fails makes a task report a failure
that its row never counted, possibly after the next dispatch. That no limit is 0 is what
`validate_patch` (`hof-api/src/routes/settings.rs:336`) and the CHECK of the table see to; only the
environment variable MAX_CONCURRENT_DOWNLOADS is not validated.

The inductive invariants of DownloadSupervisor, and why the properties alone are not enough:

* `TypeInv` adds to TypeOK that a task in use has a video and an existing semaphore, that a client
  flow has the operands of its next step, that the incarnation and the remaining restart budget
  add up, so that a restart always has a semaphore of its own, and that a report that is half done is
  still the head of the mailbox, with no sweep under way (`HalfDone`).
* `PermitInv` adds that no task belongs to a later incarnation (`SpawnedBefore`): the fresh
  semaphore of a restart has no holders yet. `StepIsPermitStep` reduces every action to one of four
  things that can happen to permits, and the refinement proof reuses it.
* `OwedInv` orders messages: a reservation is dropped only by a DownloadCompleted that is queued
  *after* whatever created it, so a RegisterWorker in the mailbox must be followed by a live task or
  a later DownloadCompleted (`RegistrationsOwed`). Without the positions the property is not
  inductive: handling RegisterWorker after the last DownloadCompleted would register a worker for
  ever.
* `DedupInv` says that a live task has its reservation (`LiveIsReserved`) and that a
  DownloadCompleted in the mailbox is the last trace of its dispatch (`CompletionIsLast`), so that
  handling it never drops the reservation of a later task. A cancel or a restart breaks exactly
  these two.
* `OwnedInv` narrows DownloadingIsOwned to who really answers for the row: a task that has claimed it
  and not ended, one that ended without success and has not reported, or a report that will write
  (`Owns`, `Reported`). A task that only has the video may find it claimed by another.
* `AttemptInv` is GateInv with what the claim relies on: a row that a sweep may list has an attempt
  left (`RowsCount`), and so has the video of every task before its claim (`DispatchesCount`) and of
  every entry of the running sweep that is not reserved meanwhile (`ListedCount`). Without faults
  GateInv keeps the two halves of a report together: as long as a report is outstanding its video is
  not dispatched again. After a fault the row may be claimed between them. The decision to retry was
  then taken on one attempt less, and the supervisor, which is busy with the report, dispatches
  nothing meanwhile, so that no second claim can follow before the write (`VerdictHolds`): hence one
  attempt more and no further. `Settled` says of a completed video, while no statement has failed,
  that no answer is outstanding that could be written over it.
* `GateInv` is about the time between the claim, when the gate answers, and the write of its answer,
  when "Download now" may release the row. As long as a row is not released and an answer is
  outstanding, nothing else is, the row does not wait, and nothing dispatches it again (`Orderly`);
  "Download now" releases rows that wait, so that once released nothing outstanding puts the row
  back (`HeldBack`). All of it holds until a statement fails (`Ordered`). A row whose counter is at
  its 32-bit limit is an exception, because its claims all fail (`Stuck`).
* `WaitersSized`: the semaphore a task waits at has a size above 0, and so, by PermitInv, either a
  free permit or a holder, however many free permits a shrink took under the eyes of those that
  wait.

Of Scheduler: `RegistrationStep` says that to the registrations and indexers every step does one of
six things: nothing that matters, spawn an indexer (which registers it), end one (which owes an
IndexingCompleted), forget one (which takes that message), forget all (a restart), or start afresh
with the process. Each invariant is then preserved by six cases instead of one per action.

* `OrphanInv` is NoOrphanedRegistration with the types: the classification makes it inductive.
* `ExclusiveInv` says that an indexer that is in use has the registration of its source, that there
  is at most one IndexingCompleted of a source in the mailbox and none while an indexer of it is in
  use, and that the source is registered until then; this is what a restart destroys.
* `FloorInv` says that a source whose last run is not long ago is still registered or is `recent` in
  `last_indexed`; the tick looks at both before it spawns.
* `CountInv` says what the column is worth: it is the streak unless the run is about to clear it,
  the streak is below the limit while a run is under way, and the column is below it for a source
  that the tick has listed and that is not registered. The list may be old when the tick comes to the
  source, but what raised its count since is a run that ended, and IndexingCompleted waits in the
  mailbox behind the tick, so that the source is registered.
* `DriveInv` is LoopIsDriven with the types. The StartScheduler of a restart is in the mailbox as long
  as `running` is false, since only its handler takes it, and a start that could not send it leaves
  the actor down with a full mailbox that nobody empties.

Of SourceIndexer, where `Directed` is what the code trusts the platform for (section 6 has a playlist
in no order, on which early termination does hide videos):

* `VerdictInv`: a verdict, stored or in a run's copy, is the only direction in which the playlist can
  be read, and so are the two ends of the list a run fetched. It is inductive because a publication
  is put at the end where new videos go, and so leaves a direction that was the only one the only one.
* `ScanInv`: what left the queue is known or was not wanted (`NothingSkipped`), and a scan that may
  stop early goes from new to old (`NewestFirst`). A stop then drops only entries as old as the one it
  stopped at. The number of entries the code waits for before it stops does not matter to this; it is
  a margin for playlists that are not `Directed`.

Of Supervision, `HealthInv`: an abnormal link death that waits in the root's mailbox is of a child
that is dying (`DeathsAreReal`) and is told once (`DeathsToldOnce`), so it finds the child as it
left it; and what removes a child from the report goes back to an operator's request
(`RequestsAsked`, `TasksAsked`). `ExitInv` counts the self exits of the hour by whether their event
was written: the lost ones each cost a fault (`LostWithin`), the written ones are what the guard has
counted, and strictly less than the limit while one more is being logged (`WrittenWithin`).
`StallInv` adds NothingStalls to HealthInv: a dying child has its death before the root supervisor,
the watchdog that asks has exactly one question there, a process that is to end has a drain under
way. Of RuntimeSettings, `VersionInv`: copy, last read and row are in order of version, and no
response is owed a version that is not committed. `NewsInv`: what the listener has read is behind
the row only while a notification or the loss of the connection is before it; it subscribes before
it reads, so that no write falls in between. `LapseInv`: a listener that waits sleeps no longer than
to the first expiry of the copy. `PanelInv`: a panel that is not rendering and has seen every change
shows the copy.

Of Cleanup, `CauseInv`: what a run has on its list is in the history of grounds, which grows until
the run ends. `QuotaInv`: the run never believes a profile to be further over its quota than it is
(`OwedIsDue`), because it subtracts what it marked and nobody else lowered the usage, or `shrunk`
says so; and a file it has handled belongs to the list at hand (`UnlinkedByList`).
DeletionIsAnnounced compares two queries, one that asks all sources and one that takes the maximum
over them; `LargestExists` proves that a finite set of numbers has its largest element. `ListInv`
adds to QuotaInv that a run has a list only in its two loops (`ListByRun`), so that no list replaces
another.

Only model-checked: everything temporal, because fairness and leads-to are beyond the prover. What
can be proved of it is the safety its argument rests on, that nobody waits for something that cannot
come: WaitersAreServed for PendingIsDispatched and ReservationsReleased, SchedulerIsDriven for
SweepsContinue, NewsReachesTheCopy for CacheIsView, ListenerNeverOversleeps for LapseIsPublished,
PanelKnowsItIsBehind for PanelCatchesUp, RecoveryNeverStalls for SelfHeals and DrainEndsProcess,
NothingIsDropped for RetentionIsEnforced and QuotaIsEnforced. What is left to TLC is that what can
happen does.

## 6. What the model shows of the code

Two runs end in a violation; PROJECT.json quotes what the repository says.

* **CancelRedispatch.** CancelDownload drops the video from `dispatching` and `active_downloads` at
  once, although its task may be parked and its worker is only asked to stop after the message it is
  handling. A retry then dispatches a second task for the same video.
* **QuotaVeto.** The quota of profile A evicts a video that an excluded source of profile B holds too,
  because `get_profile_videos_by_age` collects the exclusions of its own profile only. The comment
  above it says "so quota enforcement can never evict them", `domain/source.rs:43-44` that "neither
  retention expiry nor profile quota enforcement will remove videos belonging to this source", and
  retention does keep them (`db/video.rs:542-545`). GoneForCause proves the promise for libraries in
  which no video is shared by two profiles.

Behaviours met on the way, which no run keeps. All follow from the modules as they stand, by
checking the named property with the named budget:

* DownloadingIsOwned with one fault (`faults |-> 1` in Recovery): the outcome write may fail; it is
  logged and the row stays `downloading` until the process restarts. No sweep lists it and no enqueue
  accepts it, although `download_supervisor.rs:1133-1135` takes such a row for "actively handled by a
  worker or stuck from a crash".
* DownloadingIsOwned after a restart of the supervisor: the message it was handling is lost with it,
  and so may be the outcome at hand. The property is stated for the first instance of a process.
* ErrorStreakBounded with rate-limited runs (`"rate_limited"` among the Results of Indexing): such a
  run records its error, leaves the loop and goes on to `update_source_last_indexed`, which clears
  the error it has just recorded, so that MAX_INDEX_RETRIES is never reached.
* QuiescenceSound with a cancel: the sets the drain watcher polls are empty while the cancelled task
  lives.
* CompletedStaysCompleted with a discovery: an EnqueueDownload whose snapshot says `pending` is
  handled after a sweep has downloaded the video.
* ReleasedIsNotDeferred with a retry (`{"retry", "download_now"}`, two requests): the retry acts on a
  status it read earlier and resets a row that is being downloaded; the task that a sweep then
  dispatches defers the video again after "Download now" released the first deferral.
* CompletedStaysCompleted without its exception for faults: a claim that fails by a fault leaves the
  row eligible, the next sweep dispatches it, and the first task's ReportOutcome is handled only after
  the second task has completed the row: it writes `failed` over `completed`, and the video is
  downloaded again, or `permanently_failed` if the attempts it read are spent (one video, one fault,
  a mailbox of one).
* AttemptsBounded without its one attempt after a fault (Steady): the claim of a task fails by a
  fault, and its DownloadCompleted lets a sweep dispatch a second task. The first task's report
  reads `attempts` 0; the second task claims; the report writes `failed` with a retry, which falls
  due while the second task downloads. That one fails, and before its own report is handled a sweep
  lists the row: a third task claims it, with max_attempts 1. `handle_failure` writes without asking
  whether the row is still what it read (`download_supervisor.rs:1344`, `:1433`).
* OneIndexerPerSource and IndexFloor with a restart: `active_indexers` and `last_indexed` start
  empty while an indexer of the old instance runs. The old ticker loop lives on too, because it ends
  only with the ActorRef, which a restart keeps: `tickers` becomes 2.
* NothingMissed on a playlist in no order: its two ends decide its direction, and the scan stops
  early. `<<1, 5, 2, 4, 3>>` with cutoff day 4 is enough.
* A cancelled download that runs to its end overwrites `failed` with `completed`; a restarted
  supervisor has a full semaphore while tasks of the old one hold permits; a shrink that could not
  reclaim permits does not converge while tasks wait for them, because the freed permit goes to the
  first waiter before DownloadCompleted is handled.
* HealthIsTrue without its exception for `asked`: `RecordRestartOutcome` with `Ok` clears
  `unrecoverable` (`root_supervisor.rs:345-348`) also when the child died for good between the task's
  poll and the record. The watchdog then never sees it, against `watchdog.rs:6-9`; the process
  keeps running without that actor until somebody asks again.
* `list_videos_pending_deletion` announces videos that a veto keeps, and never the videos without a
  source that retention removes at once; `domain/video.rs:235` says it previews "which videos the
  CleanupActor will remove and when". DeletionIsAnnounced states what holds.
* A run may remove the file of a video that was retried and downloaded again since its list was
  read; the row then says `cleaned`.
* A listener that sqlx reconnected on its own does not read the row again, so a notification lost
  meanwhile is made up for only by the next one; `docs/adr/0001` promises a "full re-read on every
  reconnect". CacheIsView takes this as a `missed` word.
* Not modelled but seen: the runtime settings form posts all fields and is compared with the row as
  it is by then (`settings_table.rs:256`), so it reverts what another operator saved in between.
* Not modelled but seen: `enabled` (`hof-core/domain/source.rs:39`, "enabled for indexing and
  downloading") is not consulted by the download sweep.

## 7. Not modelled, and why

Pacing needs real time and only delays a parked task. The quality gate's decision, verification,
yt-dlp and HTTP parsing are outcomes chosen nondeterministically. The liveness counter that treats
an unreachable supervisor as quiescent (`live_quiescence_counts`) is not part of DownloadSupervisor.
The bulk HTTP routes repeat the single statements and messages in a loop. The sweeps of temporary
files look at modification times, which only real time tells apart. The terminal UI's activity feed,
which polls pages and merges them, and the web UI's other event streams only present what the
modules above decide. Auth, telemetry, Jellyfin files and the vendored yt-dlp crate have no part in
the protocols above; they and the UIs are more than half of the repository's lines.

## 8. Plan

Done, in this order: `VideoRow`, `DownloadSupervisor` with `PermitPools`, their runs and proofs;
`Scheduler`; `SourceIndexer`; `Supervision`; `RuntimeSettings` with `SettingsView`; `Cleanup`;
`RuntimeSettingsProofs`, `SchedulerProofs`, `SupervisionProofs`, `SourceIndexerProofs`,
`CleanupProofs`; in `DispatchProofs` the ownership of downloads, the bound on
attempts, what is completed and what is released; in every module with progress properties the safety
they rest on, but for SourceIndexer and for DueIsIndexed.

1. Algorithms: the quality gate's decision and the backoffs (saturation at their caps).
2. In DownloadSupervisor: a history of cancels (a cancelled video is not retried automatically by a
   left-over `next_retry`), sources that are deleted under a sweep, pacing over a bounded clock, and
   under which downloads a semaphore reaches its target.
3. Proofs: the safety under DrainCompletes (what the drain watcher polls is what is left to do) and
   under WantedIsFound.
