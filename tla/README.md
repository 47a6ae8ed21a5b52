# A TLA+ model of MediaMasterr's cleanup backend

MediaMasterr scans a media library with user rules, turns what matches into
cleanup candidates, and deletes or moves candidates: by hand, on approved
requests, or automatically. It is one asyncio process over one SQLite database:
API handlers, an APScheduler, and two worker loops that take turns at every
`await`. This directory models the parts of it where the order of those turns,
an answer that fails, or a source that is away decides whether files are lost,
jobs are repeated, tasks stop running, or rules are evaluated on data that is
not there. Paths below are relative to `src/backend/` unless they start with
`src/`.

Contents: [inventory](#inventory), [modules](#modules),
[runs](#runs-and-what-they-show), [bounds and fairness](#bounds-symmetry-and-fairness),
[proofs](#proofs), [findings](#findings),
[seen, and stated by no property](#seen-and-stated-by-no-property),
[what is left out](#not-modelled-and-why), [plan](#plan).

To check: `tlc -config <run>.cfg <module>.tla` and `tlapm <module>Proofs.tla`;
`PROJECT.json` lists every run, theorem, hazard and the source lines each
definition stands for.

## Inventory

| Component | State | Operations | Hard behaviour | What makes it correct |
|---|---|---|---|---|
| Job queue (`jobs/queue.py`) and worker loops (`core/worker.py`) | table `background_jobs`; the job each loop runs | enqueue (with `skip_if_active` or `replace_pending`), cancel by key, claim, complete, fail, `reset_stale_jobs`, trim | reads and conditional writes in separate transactions, crash while RUNNING, a loop that dies of a database error, a trim that ignores statuses | a job is started at most once, RUNNING rows are owned, the newest service toggle is the pending one, queued jobs leave the queue |
| Lifespan (`api/main.py`) | start-up phase | load services, start scheduler, reset stale jobs, start workers, stop | the scheduler runs before the reset | nothing is claimed before the reset |
| Cleanup scan and automatic deletion (`tasks/cleanup.py`) | `reclaim_candidates`, `protected_media`, `movie_versions`, `removed_at` | scan, select eligible, delete versions, delete movies | candidates read under no transaction, files deleted before rows, partial deletion | removed means gone; a candidate in use stays; one candidate per version |
| Delete engine (`tasks/cleanup.py`, Radarr, Sonarr and media server routes) | rows of the movie or series, the files in each instance, the entries of Radarr and Sonarr | group by route, delete or unmonitor per instance, fall back to the media server, commit, tally | each outside call fails on its own or after it did its work; a folder or a file is shared by several candidates | nothing outside the selection is deleted; counts and errors tell the truth |
| Moves (`tasks/cleanup.py`, `core/utils/filesystem.py`) | files, rows, candidates | move files, unmonitor, delete on the server, remove rows | any step fails between the move and the commit | a row goes only with its file moved, a candidate stays with its file |
| Leaving Soon collections (`tasks/cleanup.py`, `api/routes/settings/general.py`) | the settings row with the title last synced per server; collections on the servers | sync after a scan, prune before a deletion, rename and disable | an edit does not take the lock; a server is away | no link to media that is being deleted; only the last synced title is left over |
| File operation jobs (`jobs/candidate_file_ops.py`) | the job's tally, the request's outcome | run per candidate, finalize | waits for `candidate_workflow_lock`, its candidates may be gone | excludes scans, accounts for each candidate, settles the request |
| Protections and requests (`api/routes/protected.py`, `requests.py`, `delete_requests.py`) | `protected_media`, `protection_requests`, `delete_requests` | create, approve, deny, cancel, remove | status read, awaits, then written without a condition; rows they name are deleted by the sync | an approved request gets an outcome; protected media is not deleted; a scope never widens |
| Library sync (`tasks/sync.py`) | `movies`, `movie_versions`, `series`, `seasons`, `episodes` | gather, upsert, restore, remove, recover rows that refer to lost media | does not take the lock; listing taken long before the writes; partial commits; foreign keys | removes only what is gone; leaves no row that names nothing |
| Scheduler and task runtime (`scheduler.py`, `core/task_runtime.py`) | `task_schedules`, APScheduler jobs | edit, trigger, request, execute, refresh | rows and live triggers changed in two steps by concurrent coroutines; checks long before the act | mandatory tasks keep their trigger; disabled tasks and tasks without opt-in do not start |
| Service settings and manager (`core/service_manager.py`, `service_runtime.py`, `api/routes/settings/`) | `service_configs`, the clients, the main media server | save, delete, toggle, restart | saved settings reach the runtime through the queue, deletions do not | the clients end with the newest settings; a main server has a client |
| Rule engine (`core/rule_engine.py`) and the rules of a scan | none; `rule_protected_media`, candidates | evaluate a condition tree in two ways, reconcile protections, make candidates | values that are unknown because a source is away | a candidate is certain; a protection outlives the outage of its source |
| Seerr, watch and favorites snapshots (`services/*_cache.py`) | a snapshot, its expiry, a refresh task, a cursor | get, refresh, fall back, merge, rebuild | overlapping refreshes, late plays, pages that fail, servers and watchlists that fail one by one | a fresh snapshot is fresh; the rows hold the latest play; what fails loses no favorite |
| Playback history (`services/playback_history.py`) | events, counts, the state of each provider | refresh, import, map, rebuild | two transactions, a cursor, items that join or leave the library | a scan counts every play it can know of |
| MIE operations (`services/mie/`) | sessions in memory, `operation_history`, audit rows | start, run item by item | stop in the middle, recommendations that change between steps | records say what was done |
| Authentication, notifications, metadata, clients, desktop wrapper, user interface | - | - | I/O | see [Not modelled](#not-modelled-and-why) |

How they interact: handlers and triggers insert into `background_jobs`; the
*default* worker takes service toggles and task runs (scan, sync, automatic
deletion ...), one at a time; the *file-ops* worker takes deletions and moves. The
scan, the automatic deletion and the file operations share
`candidate_workflow_lock`; the sync and the handlers do not take it. A scan reads
the snapshots and the playback history, evaluates the rules, and syncs the
Leaving Soon collections; a deletion prunes those first, then goes through
Radarr, Sonarr or the media server. Toggles decide whether there is a main media
server, on which most tasks and their triggers depend. Everything but the
database is lost when the process stops.

## Modules

A step of every model is what happens between two `await`s, or one SQL statement
or transaction. `Stop` and `Restarted` are a crash or a shutdown at any such point.

| Module | What it is |
|---|---|
| `OneShotJobs` | Abstract: what the job table promises. A job is started at most once, one job RUNNING per lane, outcomes are final. |
| `JobQueue` | The queue protocol, the two loops, lifespan and the weekly trim. Refines `OneShotJobs`. |
| `CandidateWorkflow` | A candidate's life: scan, automatic deletion, file operation jobs, sync, protections and delete requests. The deletion of one candidate is abstract. |
| `TaskScheduler` | Schedules and live triggers, the opt-in, run requests, execution checks, media server toggles. |
| `DeletionCall` | Abstract: what one call of the delete engine promises its caller, whatever its route. |
| `ArrActions` | How matched rules decide what Radarr and Sonarr are asked to do. Operators only. |
| `MovieDeletion` | One call for the candidates of a movie: several Radarr instances, the media server, the disk. Refines `DeletionCall`. |
| `SeriesDeletion` | One call for the candidates of a series, its seasons and episodes: several Sonarr instances, files that hold two episodes. Refines `DeletionCall`. |
| `SeriesStructure` | A series, its seasons and episodes, and the scopes of rows that name them. |
| `SeriesCatalogue` | The rows of a series and the candidates, protections and requests that name them, over sync, scan, deletion and review, with what the foreign keys do. |
| `LeavingSoon` | The collections on the media servers and the settings that remember them. |
| `CandidateMove` | One call of the move engine, for a movie and a series. |
| `ServiceSettings` | Saves, deletions and toggles of services, and the clients in memory. |
| `RuleEvaluation` | The rule engine's two evaluations of a condition tree. Operators only. |
| `RuleScan` | What a scan makes of the rules when sources are away. Extends `RuleEvaluation`. |
| `SeerrSnapshot` | The snapshot of the Seerr requests: expiry, background refresh, lock, fallback. |
| `FavoritesSnapshot` | The favorites and watchlists of users, refreshed server by server and user by user. |
| `WatchSnapshot` | The incremental snapshot of who watched what in Plex. |
| `PlaybackHistory` | The durable import of plays, and the counts made from it. |
| `OperationSessions` | Bulk execution of recommendations. |
| `DeletionRoutes` | `MovieDeletion`, `SeriesDeletion` and `LeavingSoon`; the initial state chooses which of them a behaviour is about (`route`), the others stay as they start. |
| `Services` | The nine modules from `SeriesCatalogue` to `OperationSessions`, chosen likewise (`part`). |
| `MCJobQueue`, `MCCandidateWorkflow`, `MCTaskScheduler`, `MCDeletionRoutes`, `MCServices` | Instances for TLC (sets, defaults, symmetry). |
| `*Proofs` | Theorems and their proofs. |

`CandidateWorkflow` takes a deletion apart by file and commit, so that scans,
syncs and reviewers can come between; `MovieDeletion`, `SeriesDeletion` and
`CandidateMove` take apart what it treats as one free outcome, for a caller that
holds the lock. `DeletionCall` is the seam between them: what
`CandidateWorkflow` presumes of the engine is what the two modules are shown to
implement.

**JobQueue.** `status`, `key`, `runAt` and `attempts` are the columns of
`background_jobs` (`ABSENT` and `TRIMMED` stand for rows that are not there).
`EnqueueBegin` reads the clock, `SkipIfActive` is the read of active rows,
`Insert` the transaction that cancels pending rows of the key and inserts.
`ClaimSelect`/`ClaimWon`/`ClaimLost` are the `SELECT` and the conditional `UPDATE`
of `claim_next_background_job`. `EndRun`, `CompleteRun` and `FailRun` are the end
of a pass of `worker_loop`, `WorkerDies` its `raise` when there is no job to
blame, `TrimBackgroundJobs` the house keeping. The job type follows from the key.

**CandidateWorkflow.** The deployment modelled deletes movies through the main
media server. `files` is what that server holds; the other variables are tables,
the pending file operation jobs and the locals of coroutines. A version is
identified with its file. Handlers that read and later write are two actions
(`ReviewRead`, then `ApproveCommit`, `DenyCommit`, `CancelCommit` or
`ReviewFails`). A deletion is `BeginDelete` (select rows), per version
`DeleteFiles` then `CommitDelete`, then `StageMovies` for candidates of whole
movies; `DeleteFiles` may delete some files, all, or raise after either.
`JobClaim`, `JobLock`, `JobNext`, `JobItemDone`, `JobEnd`, `JobRaises` and
`JobAborts` are the job around it, `AutoStart`, `AutoSelect` and `AutoEnd` the
automatic deletion around the same engine. The scan reads (`ScanRead`) and writes
(`ScanCommit`, one transaction). The sync gathers, loads, upserts per movie and
removes (`SyncGather` ... `SyncRemove`). `NextId` reuses the id of a deleted last
row, as SQLite does without `AUTOINCREMENT`; rows inserted together get their ids in
any order. `Orphaned` is `ON DELETE SET NULL`,
in effect on the pooled connections that have `foreign_keys` on. What rules match,
which delays have passed and which provider calls fail are free choices. The ghost
field `selected` remembers which files a candidate stood for when it was made.

**TaskScheduler.** `schedule` is `task_schedules`, `trigger` the APScheduler jobs
(`Manual`: none), `runs` the pending TASK_RUN jobs per task (`JobQueue` has their
protocol), `client` the locals of handlers and fired triggers, `toggle` the holder
of `_service_toggle_lock`, `worker` the default worker. `update_task_schedule` is
read, opt-in check, commit, cancel, reflect, in five steps; `Written` is the
session's way to write only the columns that differ from what was read.
`update_general_settings` commits the opt-out and then runs such an edit. A run
request checks `enabled`, reads active jobs, inserts. `ExecuteTask` checks again,
and the automatic deletion waits for `candidate_workflow_lock` (held elsewhere for
any time) before `LockDeletion`. Toggles clear and initialize a client, which may
take or give the main server, then refresh the triggers task by task in any order.
Intervals and cron expressions are members of `Timings`.

**MovieDeletion.** `movieCall` is what the call selects and reads: the candidates,
where each version lies (`Layouts`: a Radarr folder or outside, a media server
item, whether the main server lists it), which Radarr instances answered, and the
settings. `MovieRoute` is the grouping by `_match_version_to_arr` and
`_candidate_covers_full_radarr_entry`; `MovieVersionFails` and
`MovieVersionDeleted` the versions that go one by one through the server or the
disk; `MovieRadarrDeletes`, `MovieRadarrAccepts` and `MovieRadarrRaises` the call
per Radarr instance (it deletes the entry and its folder, only unmonitors it, or raises,
having done its work or not); `MovieUnmonitorFiles` the files of an entry that is only unmonitored;
`MovieCommit` the transaction; `MovieServerDeletes` the fallback;
`MovieReturn` the count.

**SeriesDeletion.** The same for a series in three passes: the whole series
(`WholeSeriesTakenUp` ... `SeriesCommit`), then seasons, then episodes
(`ScopeTakenUp` ... `ScopeCommit`). `TakeUp` reads the Sonarr references a pass
works on, `InstanceDeletes`, `InstanceSkipped` and `OtherSeriesDeletes` are what
one Sonarr instance does for a scope (the last: the series id the call holds names
another series there), `ServerDeletesScope` the fallback, `NoFilesLeft` the read
back before an entry is removed when it is empty.

**SeriesCatalogue.** One action is one transaction. `RowsChange(gone, new)` is the
deletion of `seasons` and `episodes` rows together with what the code does for the
rows that name them and what the foreign keys do besides (`OnDelete`). `SyncSeries`
and `SyncRemovesSeries` are the sync, `ScanCandidates` the scan's candidates for
the three scopes, `CreateProtection` ... `ApproveDeletion` the handlers,
`SeriesDeleted` and `ScopeRowsDeleted` what `SeriesDeletion` commits.

**LeavingSoon.** `soonSaved` is the settings row, `soonShown` the collections per
server. The holder of the lock deletes (`ActOnCandidates`, `PruneServer`,
`PruneFails`, `ActionStarts`, `ActionEnds`) or scans (`SoonScan`, `LoadSettings`,
`SyncServer`, `CleanUpServer`, `SyncEnds`); `EditStarts`, `EditServer` and
`EditEnds` are `update_general_settings`, which does not take the lock.

**CandidateMove.** `TakeCandidate` takes the next one up, `FilesMove` (or
`FlatSeasonMoves`, when the seasons of a series share one folder) moves files,
`ServerTakes` and `ServerRemoves` are the deletion on the main server, `MoveCommit`
or `MoveCommitFails` the transaction, `MoveFails` an error that ends the candidate.

**ServiceSettings.** `SaveTested`, `SaveWritten`, `SaveQueued` and `SaveUnqueued` are a
save that tests the connection, commits, enqueues and may fail to; `ToggleClaimed`,
`ToggleChecked`, `ToggleCleared` and `ToggleStarted` are `handle_service_toggle`, with
`JobStale` its comparison with the saved row; `DeleteWritten` and `DeleteCleared` the
deletion, which waits for the toggle lock between the two. `svcBehind` marks a
service whose save was committed and never queued.

**RuleEvaluation, RuleScan.** `Matches` is `evaluate_advanced_rule`, `RuleState`
`evaluate_advanced_rule_state`, with `Unavailable` for `RULE_VALUE_UNAVAILABLE`.
`Completions` is the reference: what a context may be when its missing values are
filled in. `Scan` is the part of `_scan_with_db` that decides: rules left out when
Seerr is away (`Loaded`), protections kept for items without data
(`PreservedProtection`), the reconciliation, and the candidates.

**SeerrSnapshot, FavoritesSnapshot, WatchSnapshot, PlaybackHistory.** The requests in Seerr are one
version number; `Ask`, `RefreshBegins`, `RefreshReads`, `RefreshStores` and `RefreshFails` are
`get_seerr_request_snapshot` with `_request_lock`, the second look after the lock is
taken included (`Served`). In `FavoritesSnapshot` a refresh, of `ensure_fresh_snapshot`
or of a library sync with servers it loaded before, asks one server after the other
(`AskServer`) and its accounts one by one (`AccountAnswers`, `WatchlistFails`,
`FavServerFails`), and rewrites the rows of the server in one transaction
(`ServerWritten`), while users change favorites, sign in and out, and servers are
switched. In `WatchSnapshot` a refresh reads the state and the
history from a cutoff (`HistoryRead`: all of it, a page or a library missing) and
merges (`RefreshCommits`); `SyncReads` and `ServerSaved` are the library sync and
the settings handler that write the same `extra_settings`. In `PlaybackHistory`,
`EventsRead`, `EventsStored` and `CountsRebuilt` are the read and the two
transactions; `LibraryChanges` moves items in and out between them.

**OperationSessions.** A session steps through its items: `Preview`, `Validated` or
`Blocked`, `Revalidated`, then `Executed` or `NotExecuted`, `StepRaises` anywhere,
and `Finish`, whose write of the history may fail. `RecChanges` alters a recommendation at
any time; `OpsRestart` loses the memory and keeps the tables.

## Runs and what they show

Passing runs check every reachable state of the instance.

| Run | Instance | Shows |
|---|---|---|
| `job_queue` | 3 rows, 2 callers, 2 restarts, 1 database error; 0.4 M states | `WorkersOwnRunning`, `AtMostOneAttempt`, `NewestTogglePending`, the refinement of `OneShotJobs`, and `QueuedJobLeavesQueue` (liveness) |
| `candidate_workflow` | a movie with two versions, 2 scans, a sync, an automatic deletion, a manual deletion, a request, a protection, a vanished file; 3.1 M states up to symmetry | `OneWorkflowAtATime`, `OneCandidatePerVersion`, `RemovedMeansGone`, `JobTally`, `HeldCandidatesStay` |
| `candidate_outcome` | two reviewers of one request, a failed jobs write, a stop; 0.6 M states | `ApprovedIsSettled` (liveness), and `RemovedMeansGone` across the stop |
| `library_sync` | two movies, two syncs, two vanished files, both deleters; 5.8 M states | a sync removes only what is gone, also during a deletion |
| `task_scheduler` | 3 tasks, 2 coroutines, 3 saves, a request, a toggle, a restart; 4.7 M states up to symmetry | `MandatoryTasksScheduled`, `NoDeletionWithoutOptIn` |
| `deletion_routes` | 3 versions in 2 Radarr instances and outside; 2 seasons and 3 episodes in 2 Sonarr instances; 2 candidates a call; 2 servers and 2 titles; 2.6 M states | `UnselectedKept`, `UncoveredKept`, `CandidatesHaveRows`, `MovieCallPromise` and `SeriesCallPromise` (refinements of `DeletionCall`), `LinksPruned`, `SyncForgetsGone` |
| `services` | one of nine modules per behaviour, sizes below; 2.1 M states | `RowsNamed`, `ScopeNeverWidens`, `MovedExactly`, `ClientsFollowSettings`, `MainHasClient`, `CandidatesAreCertain`, `ProtectionOutlivesOutage`, `FreshIsFresh`, `SnapshotNeverOlder`, `WatchComplete`, `ScanCountsPlays`, `SessionRecordTrue`, `FavoritesOutliveFailures` |
| `executed_without_deletion`, `protected_deletion`, `version_scope`, `task_disabled`, `main_switch` | as small as the behaviour allows | one disagreement each, see [Findings](#findings) |

Each property of a passing run has a mutant of the code (a definition named
`<definition>_<change>` next to the one it changes) that violates it.

- `WorkersOwnRunning`: in phase `up` each RUNNING row is held by its lane's loop,
  which is what `reset_stale_jobs` presumes.
- `NewestTogglePending`: relies on cancel and insert being one transaction.
- `OneWorkflowAtATime`: what `core/workflow_locks.py` says the lock is for.
- `HeldCandidatesStay`: while a deletion holds a candidate, only that deletion, a
  protection by a user, or a sync that finds the movie gone deletes its row. A row is
  known by its id and its movie, since the id of a deleted row may be given again.
- `RemovedMeansGone`: `removed_at` is never set while the server holds a file,
  whatever fails or is half done. A movie the server lists is taken to be found by its
  TMDB id; see [below](#seen-and-stated-by-no-property) for the other case.
- `JobTally`: successes, failures and what is left to do add up.
- `ApprovedIsSettled`: an approved request ends executed or with an error, unless
  the process stops, the jobs table fails or another review changes it. The
  exceptions are real: nothing re-queues such a request.
- `MandatoryTasksScheduled`: a task that users may not disable (sync, scan) keeps
  a trigger when it has a timing and its main server, once no edit of it is half
  done and no toggle is in progress.
- `NoDeletionWithoutOptIn`: from whatever was queued, claimed or waiting.
- `UnselectedKept`: a movie call deletes no file of a version it was not asked to
  delete, although Radarr deletes folders and media servers delete items.
- `UncoveredKept`: the same for a series, up to files that also hold an episode
  that was asked for.
- `CandidatesHaveRows`: after a series call every open candidate still has the season or
  episode it names.
- `MovieCallPromise`, `SeriesCallPromise`: rows only go, the count never exceeds what
  went, and a call that returns leaves an error on each candidate it leaves behind,
  the cases in which the code writes none being part of `DeletionCall`.
- `LinksPruned`: while candidates are deleted, no server shows them under the current
  title or the one it was last synced with. Servers whose client takes a failed listing
  for an empty collection (`SilentServers`) are left out.
- `SyncForgetsGone`: a sync forgets a title only on a server that no longer shows it.
- `RowsNamed`: no candidate, protection or open request names a season or episode
  whose row is gone. `ScopeNeverWidens`: and none turns into one for a larger scope
  on the way, which is what `ON DELETE SET NULL` would do to an episode's candidate.
- `MovedExactly`: a row goes only after its files were moved, and no file is moved for
  a candidate that did not cover it (seasons that share one folder are told apart
  neither by the code nor here).
- `ClientsFollowSettings`: once nothing is queued, running or half deleted, a service
  has the client its row asks for, or none if it does not answer; a save that could not be
  queued is the exception.
  `MainHasClient`: what is recorded as main server has a client.
- `CandidatesAreCertain`: an item becomes a candidate only by a rule that matches
  however its missing values are filled in. `ProtectionOutlivesOutage`: a scan drops
  the protection of a rule only if the data it has says that the rule does not hold.
- `FreshIsFresh`: a caller that requires fresh data gets none read before it asked, or an
  error. `SnapshotNeverOlder`: a slow refresh never replaces newer data.
- `WatchComplete`: the rows hold the latest play of each key of all plays that were
  reported within the overlap before the last refresh, unless a page was missed.
- `FavoritesOutliveFailures`: a favorite held all through a refresh stays in the snapshot,
  whatever else fails, unless the refresh missed it: a page of a watchlist that shifts
  while it is read, or a title whose TMDB id cannot be looked up, leaves no trace.
- `ScanCountsPlays`: after a refresh that succeeded, the counts include every play the
  provider had and the library could name.
- `SessionRecordTrue`: history and audit rows say of each item what happened to it.

## Bounds, symmetry and fairness

Every counter is bounded by a constant named `Max...` (or `Last...`), declared as a
bound in its module and spent in the guard of the action it limits. The counts are
the least that bring the actors together: two callers or reviewers to race, two scans so
that ids are reused, three rows so that the trim (`KeepRecent = 2`) deletes an
active one, two restarts so that one happens during recovery, three saves so that
the opt-in and two edits overlap.

- `deletion_routes`: three versions, two in one Radarr instance or one in each, so
  that a folder is covered in part or in full; the main server lists two as one item
  and one not. Two candidates a call, so that one can fail and the other not, or a
  version and the whole movie meet. A call therefore never removes the last row
  of the movie version by version. Three episodes in two seasons, one file for two
  episodes, one episode in two instances.
- `services`, catalogue: two seasons, two episodes of one; one match a scan, one
  protection, one request at a time. Moves: two versions, three candidates. Settings:
  two media servers and an Arr instance, two addresses, three saves or deletions of which
  two overlap. Rules: two items, three protecting rules (over Sonarr or Seerr; over
  playback; over both Sonarr and playback) and a rule for candidates, data in which each
  source is up or down. Seerr: two callers, two changes. Watch: two keys, two plays, an overlap of one day, a
  rebuild after two, plays reported up to two days late, so within the overlap and beyond
  it. Playback: two items of one title, half days, an overlap of two of them, four
  points in time. Operations: a session of two items of three stages and one. Favorites: an Emby or Jellyfin server
  with one account and a Plex server with two, a title, three changes.

`CHECK_DEADLOCK FALSE` is set in all runs but `job_queue`, whose idle polls are
steps: when the bounds are spent and the last coroutine has returned nothing is
enabled, while the program waits for users or the clock. The clients of
`TaskScheduler` differ only in their locals, and nothing tells the two versions of
the movie in `candidate_workflow` apart; no liveness is checked in those two runs,
so both are symmetry sets. `deletion_routes` and `services` use none.

Fairness of `JobQueue`: start-up goes on (containers are restarted), each loop
keeps polling and finishes its claim, each job ends. Nothing is assumed of
callers, of the trim or of crashes. Fairness of `CandidateWorkflow`: a handler
that has committed an approval goes on to enqueue, tasks and jobs go on (weak
fairness), and a job that waits for `candidate_workflow_lock` gets it if the lock
is free again and again (strong fairness: `asyncio.Lock` is FIFO). Handlers that
have only read may be abandoned. The other modules check safety only: a call to a
service may hang, and the code sets no bound on most of them.

## Proofs

The theorems hold for every value of the constants that satisfies the assumptions
of the modules, each named in the module that declares the constants
(`QueueAssumption`, `WorkflowAssumption`, `SchedulerAssumption`, `MovieAssumption`,
`StructureAssumption`, `SeriesAssumption`, `SoonAssumption`, `MoveAssumption`,
`ServiceAssumption`, `RuleScanAssumption`, `SeerrAssumption`, `FavAssumption`,
`WatchAssumption`, `PlaybackAssumption`, `OpsAssumption`). Most say that sets are disjoint where
the code tells their members apart, that bounds are naturals, that the named tasks and keys
are where the code has them, and that what is counted (the library, a movie's versions, a
series' seasons and episodes) is finite. Four say something of the world:

- the database and a Seerr whose rules are loaded always have values;
- every file of Sonarr holds an episode: the code knows a file by the `episodeFileId` of
  its episodes only;
- there is a title for the Leaving Soon collections: an empty one is normalized to the default;
- `PlayLength + 1 <= PlayOverlap`: the longest play, and the half day between reading the
  provider and stamping the success, fit together in the day that a refresh goes back
  (`timedelta(days=1)`, two half days). Nothing in the code enforces it. Without it the
  property is false: the success is stamped when events are stored, so a play that begins
  before and is reported after is never asked for again.

**JobQueueProofs.** `Inv` is inductive. It adds to `TypeOK` and the checked
invariants that rows are numbered without gaps (so that the newest row of a key is
the one inserted last), that a loop holds only jobs of its own lane and none
unless the process is up, that nothing is RUNNING after the reset, and that
an unclaimed row counts no attempt. From it: `TypeCorrect`, `RunningIsOwned`,
`NeverRunTwice`, `TogglesInOrder`, and `Refinement` (initial states map to initial
states, each step to a step of `OneShotJobs` or a stutter; the claim is the step
where the invariant is needed, to know the lane is free).

**CandidateWorkflowProofs.** Four invariants, each for what the one before cannot say.
`LockHolder` (who runs its critical section holds the lock) gives
`WorkflowsExclude`. `GoneInv` gives `RemovedIsGone`:
`RemovedMeansGone` alone is not inductive, since whether a commit may mark a movie
as removed depends on what was deleted steps before. `GoneInv` adds that the
database knows all files of a movie or none (`VersionsCover`), that a deletion
works on files of its candidate's movie and, for a whole movie, on all of them
(`WorkIsOfMovie`, `StagedCover`), that files are gone between deletion and commit
(`CurrentGone`), and that a sync's listing is at most too large (`SyncCovers`).
`WInv` is the type invariant with what keeps ids apart (a new id is above every id in
use, found as the largest of a finite set), the uniqueness of a version's
candidate in the table and in what a scan has read, and the sum of a job's tally with the
cardinality of what it has left; from it `WorkflowTyped`, `OnePerVersion` and
`TallyAddsUp`. `HeldInv` says that what a deletion holds are distinct rows and that
it holds them only between its start and its end; with `LockHolder` (no scan writes meanwhile)
and `SyncCovers` (a movie the sync removes has no file) it gives `HeldStays`.

**TaskSchedulerProofs.** `IInv` adds to `TypeOK` what each coroutine, the toggle and
the worker know of the rows they have read (`Knows`: for a mandatory task the
`enabled` they hold is the current one, as no edit changes it), the invariant task
by task while a toggle is in progress (`Scheduled`, with `Settled` for the tasks
the toggle has dealt with), and the case of a row that was read when it had no
timing and has one now (`ActScheduled`: the edit that gave it one adds the
trigger). From it: `TypeCorrect`, `MandatoryScheduled`, `DeletionNeedsOptIn`.

**DeletionProofs.** Both deletions have an invariant of three parts. The shape
(`MovieShape`, `SeriesShape`): types; the candidate at hand is an open one of the
call; nothing is left of the call before; before a commit, what it will count is still
open (`MovieStillOpen`); and a call about to return has explained every candidate that
is left or has counted all of them (`MovieTold`, `SeriesTold`). Second, what must not be lost
(`UnselectedKept`, `UncoveredKept`), which is inductive with the shape: a file goes only in
a route whose guard looked at what the candidates cover, routes and candidates depend on
what the call read at its start only (`MovieRoutesStay`), and no candidate is in two of them
(`RoutesAreApart`). Third, a count:
what was counted and what is open is together no more than what was chosen
(`MovieCountOK`, `SeriesCountOK`). It is there because the code marks candidates as
failed only when the count is short of the number chosen: with it, a call that counted
everything has nothing left. From these: `UnselectedStays`, `UncoveredStays`,
`CandidatesKeepRows`, and step by step the refinement of `DeletionCall`
(`MovieKeepsPromise`, `SeriesKeepsPromise`), where the count is the cardinality that the
abstract call bounds. Of the Leaving Soon collections `SoonInv` says what the holder of the
lock has dealt with so far: a server it has called shows none of what it will act on under either
title (`PrunedSoFar`), and a title that a sync is about to forget is shown no more
(`ReplacedGone`). Hence `LinksPrunedHolds`, although settings are saved meanwhile
without the lock, and `ForgottenAreGone`. `RoutesTyped` puts the three together.

**SeriesRowsProofs.** Of the catalogue, `CatInv` is `RowsNamed` with the types. It is
inductive because each deletion of rows takes, in its own transaction, the rows that name
them (`RowsChangeNames`), so that nothing is left for the foreign keys to widen
(`NothingLeftToWiden`); it gives `RowsNamedHolds` and, step by step, `ScopesNeverWiden`.
Of a move, `MoveDone` says what the candidate at hand is known to have moved, by its place
in the sequence of steps; it gives `MovedExactlyHolds`.

**RuleScanProofs.** The two evaluations agree (`EvaluationsAgree`: a rule matches exactly
when it is true), and true and false stand whatever the missing values are
(`StateIsSound`). With `ManagedByProtecting` (what rules manage is managed by rules that
protect) they give `CandidatesCertain` and `ProtectionsOutlive`.

**SnapshotProofs.** Four caches.

- Of the Seerr requests, `LockOfReader` (who reads holds the lock) and `Ordered` (what a
  reader read is not older than the snapshot, and not older than what it asked for).
- Of the favorites, `AccountsAsked`: an account of the server at hand with rows that the
  refresh may not drop is still to be asked, has failed, or has answered with those rows;
  so `FavoritesStay`, since the rows of those that failed are written again.
- Of the watch rows, `WatchComplete` speaks of the rows, but whether the next refresh keeps
  it depends on its cursor, which may be the saved one, the one a refresh holds, or an old
  one that a library sync writes back with its settings. `CursorsBehind` says that none of
  these is ahead of the plays the rows were made from. `CacheIsFresh` and `ReadIsComplete`
  say that a cached or read history holds everything reported before any of those cursors,
  and that a read from a cursor leaves out only plays older than the cutoff. A play left out that was
  reported in time is then covered by the rows already. Gives `NoPlayMissed`.
- Of the playback events, `PlaysSeen`: a play older than the last success by more than the overlap
  is an event. It is kept because a success is stamped at most a half day after the read, and
  what the read lacked ended no earlier than the read (`PlaysGathered`). `EventsAreUnique`
  makes the number of events of a title equal to the number of its plays (a bijection
  between two finite sets), which is what `PlaysCount` says of the counts.

**ServicesProofs.** `Follows` generalizes `ClientsFollowSettings` to states in the middle of
saves, toggles and deletions: for each service, either its client is the one its row asks
for, or something is under way that will make it so (a queued toggle with the newest
settings, the running one, a deletion that has yet to clear). Of the operation sessions,
`SessionRecordTrue` speaks of rows whose session is over. `OpsInv` says what holds while it
runs (`RunningOK`): the items before the one at hand agree with their audit rows
(`SettledTrue`), the one at hand has its stages before the current one completed, that one
running and the others pending (`InStage`), those after it are new, and neither has an audit row. The stage follows from
the step, with one, two or more stages (`StagesInOrder`), so that `_fail_first_open_step`
fails the stage at hand (`FailedOpenIsFailed`). Gives `SessionsTellTheTruth`.
`ServicesTyped` puts all nine parts together: a behaviour of `Services` is one of each.

Every safety property that a passing run checks is stated by a theorem. Only model-checked:

- the two liveness properties, `QueuedJobLeavesQueue` and `ApprovedIsSettled`, as fairness
  and `ENABLED` are beyond the prover;
- the refutations (the five runs that expect a violation), which are single behaviours;
- that the small worlds of `MCServices` and the layouts of `MCDeletionRoutes` meet the
  assumptions, which TLC evaluates in each run.

## Findings

Each is a run that violates one property taken from a line of the repository.

- `executed_without_deletion`: a scan between the approval of a delete request and
  its job deletes the approved candidate; the job reports a completed deletion of
  nothing (`jobs/candidate_file_ops.py:240`).
- `protected_deletion`: approval and deletion do not look at protections made
  after the request (`api/routes/delete_requests.py:856`).
- `version_scope`: a version that vanishes from the server turns its candidate
  into one for the whole movie (`tasks/sync.py:1029`).
- `task_disabled`: a run that waits for the lock deletes after its task was
  disabled (`tasks/cleanup.py:4846`).
- `main_switch`: the resync after a switch of the main server is refused, since
  its task is disabled and cannot be enabled (`core/service_runtime.py:65`).

## Seen, and stated by no property

What the models contain because the code does it, and no property excludes:

- A page of the Plex history that fails is swallowed and the cursor advances: the
  gap lasts until the weekly rebuild. `WatchComplete` leaves such times out.
- A movie the server lists under a new TMDB id is matched to its row by imdb_id
  (`tasks/sync.py:1341`), the row keeps its old id, and the same sync removes it as one
  that is not listed (`tasks/sync.py:1571`), with its candidates and protections, and so
  does every later one. `sync_series` does the same. `CandidateWorkflow` identifies a
  listed movie with its row.
- A session that runs when the process stops leaves its history row "running".
- A rule over Sonarr and playback loses its protection of an item when playback
  misses the item while Sonarr is down (`ProtectionOutlivesOutage` leaves such
  rules out, `Mixed`).
- One Radarr instance fails and another succeeds: the movie is still marked as
  removed.
- Season and episode candidates whose Sonarr client is missing fall back to the main
  Sonarr instance, and a series id may name another series there.
- A season becomes a candidate although a single episode of it is protected.
- Approving a delete request may add a second candidate beside the one a rule made.
- A save whose toggle could not be queued leaves the client as it was until the next
  save or restart (`svcBehind`).

## Not modelled, and why

- In modelled components: tags, removal and expiry of protections of movies, movies that are
  new to the library, `resync_media` (it cannot run, see `main_switch`), the
  `task_runs` history, toggles of services other than media servers in
  `TaskScheduler` (they change nothing the triggers depend on). In the delete
  engine: Seerr, webhooks, history rows, sizes. In the rule engine: the catalogue of
  fields and operators and the building of contexts; a field is a Boolean that may be missing,
  which is what the two evaluations tell apart.
- The list of users that the settings page makes from servers and favorites; `RuleScan` and
  the routes take favorites as given.
- Linked servers (`sync_linked_data`): view counts and dates of rows that exist.
  `sync_tautulli_playback_data` and `sync_emby_playback_reporting_data` are never called.
- Watch rows of episodes, and servers other than Plex in `WatchSnapshot`: the same
  cursor, respectively a whole listing at every refresh.
- Automatic deletion delays (`core/auto_delete.py`): a pure function of one row;
  `CandidateWorkflow` leaves eligibility free.
- HTTP clients, metadata downloads, notifications, webhooks: pure I/O; their
  failures are free choices where the workflow meets them.
- Authentication and sessions: not part of the cleanup workflow.
- MIE indexing, correlation and analysis, protection intelligence: functions and
  views over large records with no protocol of their own; of operations the
  execution manager is modelled, the planning is a free choice of recommendations.
- Migration center: a one-off import. Database migrations: generated. Desktop
  wrapper: starts and stops the process. The web interface is a client of the API.

## Plan

Done: `JobQueue` over `OneShotJobs`, `CandidateWorkflow` with the sync,
`TaskScheduler`, the delete engine over `DeletionCall`, moves, Leaving Soon, the
catalogue of a series, service settings, the rules of a scan, the snapshots and the
playback history, operation sessions.

What would come next, in order:

1. Composition: `MovieDeletion` and `SeriesDeletion` in place of the abstract deletion of
   `CandidateWorkflow`; `TaskScheduler` with `JobQueue` in place of its counter `runs`.
2. The identity of movies and series over changing TMDB, TVDB and IMDb ids in the sync.
3. Expiry of protections, and the indexing of MIE.
