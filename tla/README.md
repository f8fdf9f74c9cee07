# Formal model of facebook_monitor

`facebook_monitor` watches Facebook groups and post comments for keywords. A Web
UI process keeps *targets* in SQLite; a resident worker in the same process
scans due targets with browser pages from a pool, records matches, and queues
notifications that a dispatcher thread sends. An updater process replaces the
program's files. Several threads, one asyncio event loop, and restarts of the
browser runtime, of the program and of its version work on the same rows and
files. This directory holds TLA+ models of that, the TLC runs that check them,
and TLAPS proofs of the main safety properties. Paths below are relative to
`src/src/facebook_monitor/`.

## 1. Inventory

| component | state | operations | interacts through |
|---|---|---|---|
| target runtime row (`persistence/repositories/target_runtime_state.py`, `application/target_runtime_*.py`) | one row per target: desired state, runtime status, scan request, owner (worker, started_at), heartbeat | conditional UPDATEs, full-row saves | every other component writes it |
| target queue (`worker/resident_main_queue.py`) | queued ids, asyncio queue, running owners | reserve, publish, get, bind, complete, release, cancel | scheduler tick, worker slots, recovery |
| executor and attempts (`worker/resident_main_executor*.py`) | active scan tasks and attempts, worker tasks | pop, claim, prepare page, scan with heartbeat, commit, fail, clean up, stop | row, queue, page pool, automation runtime |
| planner (`scheduler/planner.py`) | next-due cache | plan, prune, mark dispatched | row, queue |
| failure policy and page guard (`core/scan_failure_policy.py`, `facebook/page_guard*.py`) | streaks in the row | classify, decide retry, skip or error | attempts, recovery, session failures |
| stale recovery (`scheduler/runtime_recovery.py`, `worker/resident_recovery.py`) | none | rewrite stale rows; cancel attempt, discard page, release entry | row, executor, pool, queue |
| Web commands (`application/target_actions.py`, `application/target_monitoring_commands.py`) | `targets.paused`, row | start, stop, scan once, stop all at program start | row, from other threads |
| scan pipeline (`worker/posts_pipeline.py`, `worker/comments_pipeline.py`, `facebook/*`, `core/keyword_rules.py`, `core/dedupe.py`) | the page and what was collected | sort, collect, stop early, match, commit | row guard, outbox |
| scan finalize (`worker/scan_finalize.py`) | seen items, logical items, scope state, matches, snapshot | one commit transaction per scan | row guard, outbox |
| notification outbox (`notifications/`, `persistence/repositories/notification_*.py`) | dedupe ledger with reset epoch, outbox rows with processing token, wake event | reserve, enqueue, claim, send, record, recover, clear, reset, prune | scan commit, dispatcher thread, Web commands |
| temporary block (`worker/facebook_automation_runtime.py`, `worker/facebook_access_incident.py`) | trip signal, incident writer, warning generation | trip, write incident, confirm at Start | executor tasks, Web commands |
| scheduler session, login window (`webapp/scheduler_session.py`, `webapp/profile_session.py`) | lifecycle state, start generation, thread, stop event; window record | start, preflight, stop; open, close, pause and resume around profile use | Web lifespan, worker, profile lease |
| cover and metadata refresh (`persistence/repositories/target_cover_image_refresh.py`, `worker/resident_*`) | pending token per target, target row | request, list, attempt, save | worker tick, Web UI |
| updater (`updates/`) | handoff, marker, packages, backups, two locks | download, hand off, launch, apply, roll back, clean up | app lock, several processes |
| dashboard revision notifier, sidebar layout, config form (`webapp/`) | last revision, subscribers, layout rows | poll, publish, save | SSE clients, Web routes |
| presenters, diagnostics, packaging, schema | none that outlives a call | pure functions and I/O | - |

What makes the code hard:

* **Threads against the event loop.** Claims, commits and recovery run in
  threads (`run_sqlite_operation_with_retry_async`); Web commands have their own
  connections. Cancelling a coroutine does not stop the thread it waits for.
* **Read, then write.** Some operations compute a whole row from a copy and save
  it later; others repeat their conditions in the WHERE clause.
* **Two owners of one truth.** "The target is running" is stored in the row and,
  separately, in the in-memory queue. Recovery repairs them one after the other.
* **Locks that are let go in the middle.** `start()` of the session manager checks
  in one lock section and acts in another; callbacks of the login window arrive
  between them.
* **Shutdown, restart, crash** at any point of an attempt, of a drain or of a file
  replacement, and a stale heartbeat of an attempt that is slow rather than dead.
* **Memory across scans.** Streaks, due times, known posts and reservations decide
  what a later scan does, with resets, restarts and retention between.

`PROJECT.json` lists these as hazards at the line where each bites.

## 2. Plan

Modules were written in the order of the damage a mistake would do: the row and its
owners, the notifications, the temporary block, the updater, the session manager,
the refresh of the target row, the cadence, the pipeline. Each was checked first and
then, where its invariants allow it, proved. Abstract specifications are stated
where a component makes a promise that needs none of its mechanism: `ScanLease`
(one admission at a time) and `AppInstall` (versions only go up, and only while the
app is down).

Left: the dashboard components, whose state is display only; the page pool's ids;
an abstract `Delivery` for the outbox (owed, under way, told or given up).

## 3. What is modelled

Conventions. One action is one SQLite transaction, or one stretch of event-loop code
between two awaits, or one file operation. A definition named in `PROJECT.json`
"map" is translated from the lines given there; history variables and the operators
marked `Mutant:` (a plausible bug, used to show that a property can fail) are not
mapped. Timestamps are naturals of which the code only uses the order.

**`TargetRuntimeState`** is the row and its SQL: each operator is the row after
one UPDATE, or its WHERE clause. `aged` abstracts "older than the stale threshold".

**`ResidentScan`** is one target and everything that touches its row.

* Web commands: `StopTarget`, `StartTarget`, `CheckScanOnce`/`RequestScanOnce`
  (two transactions in the code), `CrashAndRestart`.
* Scheduler coroutine, by the variable `tick`: `RecoverRunning`,
  `RecoverQueued`, `ApplyRecovery`, `ReleaseRecovered`, `PlanDue`,
  `PlanNothing`, `ReserveSlot`, `AdmitQueued`, `PublishReserved`; the end of a
  session: `EndSession`, `PatchCancelledQueued`, `ReadForForcedRetry`,
  `WriteForcedRetry`, `CancelAttempts`, `NewSession`.
* Worker slots, by `attempt[w].phase`: `Pop`, `CheckActive`, `ReadForIdle`,
  `WriteIdle`, `Claim`, `BindOwner`, `PreparePage`, `Heartbeat`, `CommitScan`,
  `CommitFailure`, `RejectCommit`, `LockRetry`, `Abandon`, `CancelBeforeGuard`,
  `CancelUnderGuard`, `LateClaim`, `Cleanup`.

`LoopFree` and `TickYields` say which of these cannot run while the event loop
is inside a stretch without an await. `fate` is a history variable: what became
of each admission. An admission is named by its `started_at`, which the code
uses as owner token; the clock therefore advances at every write that stores
one (the code stores microseconds). **`ScanLease`** is the promise of the row: a
target grants one admission at a time, and each has one fate.

Abstractions: one target with several slots (targets share nothing but slots, and
slots busy with other targets are slots the model does not use); page preparation
and the scan's result are free choices; display columns are left out. Not modelled
here: a second cancellation inside an exception handler, and deleting a target.

**`NotificationOutbox`** is the path from a matching item to a sender.

* `CommitScan` is what `finalize_scan_items` writes for the items of a page:
  logical rows (`MarkSeen`), the older mirror `seen`, the reservations in the
  ledger (`Reserve`), the outbox rows (`Enqueue`) and the snapshot `latest`. Which
  items the page has, which match and which channels are on is free.
  `RunAfterCommitHook` follows, or never does if the program dies first.
* Users and maintenance: `ResetTargetNotificationState`, `DeleteTarget`,
  `ClearFailed`, `PruneBoundedRetention` (four DELETEs, each seeing the ones
  before it).
* A drain, by `drain[d].phase`: `RecoverStaleProcessing`, `SelectPending`,
  `ClaimPending`, then per entry `EnsureClaim`, `RefreshEndpoint`, `CallSender`,
  `RecordResult`; `FinishDrain`. `EntryRaises` is an exception inside an entry,
  which is recorded as its failure; `AbortDrain` one that ends the drain.
* Two drains can run at once: the dispatcher thread (`ThreadWakes`) and a
  scheduler tick (`TickDispatches`), which drains by itself while no thread is
  registered. That is so after `ShutdownDispatcher`, when the join of the
  scheduler may have timed out; the thread then finishes the batch it is in.
* `Restart` ends the process anywhere and starts it again.

Three history variables: `witnessed` (when a commit last contained the item),
`allowance` (sender calls a reservation may still cause) and `awaitsTick` (a
mishap left rows to the next tick). Abstractions: time is days, because only
retention compares stored times, and a claim untouched for 300 s is marked `aged`;
an item stands for its set of aliases (their merging is in `ScanPipeline`); the
configuration of a channel at sending time is a free choice. Left out: message text
and `notification_events`; the retry of failed rows
(`retry_failed_notification_outbox` has no caller in the product); runtime-failure
rows, whose subject is a new scan run so that nothing collides with them; baseline
mode, since nothing in this version leaves a scope uninitialized.

**`TemporaryBlock`** is one browser session after another with its scanning workers
and the maintenance tasks of its ticks. `EnterScan`, `Claim`, `SeeBlock`,
`RecordBlock` (`Trip`, then `CancelPeers`, in one stretch without await),
`WriterCommits`/`WriterFails` in the writer's thread, `LeaveScanIncident` and
`LeaveMaintenanceIncident` after the wait that no cancellation ends, `Cancelled`,
`BeginStop`, `Close`, `Open`. The Web UI's `Start` carries a confirmation and the
generation it was shown (`StartAllowed`); `FallbackBlocked` is an incident found by a
one-shot scan while no session has the profile. A target is `active` when enabled,
not paused and wanted: every command here writes the three together. The follower
branch of `RecordBlock` is kept as written, though a task that is registered at the
trip carries a cancellation delivered at its next await. Two consequences of the code
that the model shows without a property: a maintenance task whose writer fails ends
the whole loop with an error, and after that error the next session is free to scan.

**`TargetMaintenance`** is the `targets` row of one target with its cover refresh job.
Every service reads the whole row with one SELECT and saves all of it later, so each
read and save are two actions (`FetchRow`/`SaveCover`,
`FetchForMetadata`/`SaveMetadata`, `Command`/`SaveCommand`), except `Start`, which has
both in one immediate transaction. `Token` is the WHERE clause that recognises the
request. Maintenance has its turn only in a tick that finds no target due: `QuietTick`
is such a tick, and then `AskMetadata`, `ListPending` or `PassOver` ends it. QUEUED,
RUNNING and ERROR targets are passed over; `ScanEnds` may leave ERROR, and only a stop
or a Start of the user clears it. `ResolveFails` is an image that could not be read,
`RuntimeFails` a failure of the browser runtime, which leaves the request pending, and
`RefreshRaises` any other exception, which ends it as failed by its token alone; an
attempt whose transaction raised is not stored. Page opening and DOM reading are a free
choice of the image found.

**`SchedulerSession`** is the manager, the login windows and the threads.
`StartCheck` and `StartBegin` are the two lock sections of `start()`, then the
preflight, `Launch` or `Block`; `StopMark`, `StopJoin`, `StopEnd` are `stop()`.
Requests run on the event loop and are not divided except where they await a thread;
the `on_close` callback of a window runs in the window's own thread, so it may come
between the two lock sections of another `start()`, which holds no lock there. The
second section asks only whether a stop goes on; a thread that was launched meanwhile
is lost. The history variable `crossed` names the threads launched in such a gap, and
the properties say that nothing else loses one; what they exclude is refuted as a claim
of its own in section 6.
Left out: the wake event, the list of metadata requests the manager carries, failure
notifications and cycle counters; all callers pass the same options.

**`UpdaterApply`** is the self-update: the settings page downloads, publishes and hands
off (`BeginDownload`, `Publish`, `WriteHandoff`, `Launch`); an updater loads the
handoff, takes the operation lock, reads the handoff again (`CheckHandoff`), waits for
the app lock, backs up, empties the tree, copies part by part (two steps each, so an
error or a crash finds a half-written part), rolls back or marks, cleans up, prunes
the backups and restarts the app. `Fails` is an error of a file step, `Crash` the
death of an updater at any step (`AppExits` that of the app), `GiveUp` the deadline of a
wait. **`AppInstall`** is its
promise. Assumed: an app whose tree is torn does not start; a process start and its
lock are one step; updaters are the temporary copies the settings page launches.
Signatures and zip checks are one condition, the package is there and intact.

**`FailurePolicy`** has the page guard (two looks at the page before it believes a
block), the taxonomy of exceptions and the decision; **`TargetCadence`** uses it for
two targets on one worker: `PlanDue`, `Enqueue`, `Claim`, the outcomes `Succeed`,
`SkipScan`, `FailScan`, `GiveUp`, `RecoverRunning`, `RebuildSession`, `NewScheduler`,
`SessionFailure`, and the user's `Start`, `Stop`, `ScanOnce`. Time is relative: a due
time is a distance from now, so that cadence goes on for ever in finitely many
states. A tick is shorter than the shortest refresh interval (`ticked`). Left out:
recovery of queued rows and the page pool; one `FailureLimit` stands for the limits
of all reasons.

**`KeywordRules`**, **`SortAdjust`** and **`PageReading`** are pure: whether a text is
wanted, what order a page ends in, and what the scripts make of an element and by
which keys it is known. **`ScanPipeline`** composes them into a target's scans:
`OpenPage`, `AdjustSort`, `StartCollection`, `Round` (one window read, merged, and the
scroll), `Commit` or `CommitSkip`, with `Arrive`, `Pin`, `SetConfig`, `ResetSeen`,
`PageFails`, `Refused` around them. What the model keeps of the code that a reader may
not expect: an absent or hidden sort control counts as a trusted order for posts; a
collection that ended early and a later early stop can leave a hole that is never
filled; a commit uses the configuration its attempt began with; items beyond the
target count are cut after collection. Assumed: the sort label tells the truth;
an item is read with its own link or none (`FormsAreOwn`) and two forms in which it may
be read share a key (`FormsOverlap`); a scroll does not jump past what was shown
(`StepsShort`), or a post between two windows would never be read. Texts and phrases are
sequences of words, and a masked place is not a word (`PhrasesAreWords`): the matcher
works on characters and masks with blanks, which the model does not tell apart.

## 4. Runs

| run | shows | distinct states |
|---|---|---|
| `resident_safety` | two worker slots against Web commands, recovery, crash, session end and restart: `OpenIffRunning`, `SingleFlight`, `QueueEntryHasOwner`, `ImplementsLease`, `RequestsKept` | 375 000 |
| `resident_liveness` | `ScansEnd`: no row stays running or queued, no queue entry stays, no session end hangs | 32 000 |
| `started_is_active` | violated (finding): a Start is overwritten by a full-row write | |
| `stopped_never_queued` | violated (finding): a stopped target is queued by an old tick | |
| `outbox_faults` | exceptions, silent claims, shutdown and restart anywhere, both drains: ledger and rows agree, nothing is sent twice without a claim taken back, no lost wakeup, every row ends | 149 000 |
| `outbox_retention` | four days of retention, reset, deletion and clearing: no repeat within the horizon, no fresh match blocked | 198 000 |
| `block` | two targets, one worker and two maintenance tasks meet the block, writers fail, Starts race it | 91 000 |
| `maintenance` | a request ends only by a worker that took it up, and ends if quiet ticks keep finding the target idle | 356 000 |
| `cadence` | no scan is early, an error is earned, every wanted target is served | 484 000 |
| `pipeline` | two scans with pins, arrivals, two forms of a post, resets and changed configurations | 236 000 |
| `session` | two requests and a window: only a launch in the gap of another `start()` loses a thread, puts it out of the reach of `stop()` or keeps STARTING | 473 000 |
| `update` | two updaters, two handoffs, two file errors, one crash | 155 000 |

Properties that need a word.

`SingleFlight` speaks of the scanning phase on purpose: between the moment recovery
cancels (nothing registered yet) and the moment it drops the queue entry, an attempt
can bind its owner key; two uncancelled attempts then coexist until the guard rejects
the first. The code allows this and the row guard makes it harmless.

`LedgerMatchesRow` and `QueuedHasRow` tie the ledger to the rows in both directions
(a queued reservation without a row would silence the item until the horizon ends).
`SendOnce`: delivery is at least once, and the only way to a second call of a sender
is a claim that was taken back, or a restart followed by that, which `allowance`
counts. `NoLostWakeup` names the three cases in which rows wait for a tick: a drain
that raised, a claim that lost rows to another drain, and a start that clears the
runtime data and therefore does not wake the thread.

`TaintedScanNeverCommits`: an attempt that was scanning when an incident was
committed must not store a result, even if its target was started again meanwhile;
the guard's owner token, not the active flag, ensures it.

`AppliedOnce` excludes crashes: a crash between the replacement and its marker lets
the next updater apply the same handoff again, which is harmless
(`ImplementsAppInstall` allows it) but not "once".

`CadenceKept` compares the time since the last claim, a history variable, with the
interval; a scan counts as asked for if the request was there when the planner read the
row or has come since. `ErrorIsEarned` compares the status with a history of failure reasons, so a
streak that survives a Start or counts another reason is seen.

`NewestNotHidden` says what an early stop may leave out, for pages in newest-first
order with fewer pinned posts than the stop asks for. `MatchesAsConfigured` compares
the masked, merged ranges of the matcher with a definition that has neither, and what is
new to the rows as a commit goes with what was new before it.

`OnlyCrossedThreadsAreLost` and `StopReachesUncrossedThread` leave out threads in
`crossed` one by one, not whole behaviours: after a crossing the other threads must
still be found. `StartingEnds` says that STARTING is left again and again unless the
manager's thread is, from some time on, one that was launched in the gap and runs on.
`PendingRequestEnds` has a premise about the environment, that quiet ticks find the
target idle again and again; without it a target that stays in ERROR, or another target
that is due at every tick, keeps the request pending, as in the code.

**Bounds.** `ResidentScan`: `UserClock` stops Start, scan requests, planning and
retries at that timestamp; everything under way still finishes. Five timestamps allow
Start, queue, claim, recovery and a second claim, which is what a conflict between an
old and a new admission needs. Two slots are the two actors of every conflict; they are
interchangeable, so safety uses a symmetry set, liveness does not.
`NotificationOutbox`: `MaxMishaps` counts exceptions, shutdowns and restarts, `MaxId`
logical rows, `MaxEpoch` resets, `MaxDay` days. Two ids and one reset let an old row
meet a new reservation of the same item; four days pass every retention limit (sent
rows 0, failed rows and horizon 1 day; the code has 7, 14 and 60, and only their order
is assumed). Retention runs without mishaps, since a row's age matters only once it
has ended. `TemporaryBlock`: `MaxGeneration` 2 gives a confirmation of an older warning,
`MaxFaults` one failing writer or runtime, `MaxTime` the end of a warning.
`TargetMaintenance`: three requests (one under way, one newer, one for another image),
one edit, one fault. `SchedulerSession`: three calls give a start during a stop and a
resume after it, and with the window's own resume at most four starts, so four threads
are never too few; one join may time out and one runner or window
fail. `UpdaterApply`: two file errors are a failed replacement and a failed rollback, or
a marker and its fallback. `TargetCadence`: `MaxEvents` counts interventions (Start,
scan-once, skip, lock retry, recovery, end of a session; a Stop is not counted), one
besides any number of failures and stops; `Overdue` stops time once a due target has
waited that long. `ScanPipeline`: `MaxScans` attempts, `MaxEvents` changes, resets and
failures; four posts with a stop at two known ones give an early stop with one post
behind it.

**Deadlock** is checked in `resident_*`, `outbox_*`, `block` and `cadence`. The other
models may rest: the user asks nothing more, or the bound on scans or updaters is used
up (`CHECK_DEADLOCK FALSE`).

**Fairness.** `ResidentScan`: `WF_vars(Scheduler)`, the scheduler coroutine never stops
for good and each thread it awaits returns; `WF_vars(Attempt(w))`, a scan ends within
its timeout and SQLite calls within the busy timeout; `WF_vars(LateClaim(w))`, a
started thread ends; `WF_vars(TimePasses)`, a silent row becomes stale. No fairness for
users, crashes, mishaps or session ends. `NotificationOutbox`: ticks keep coming
(without them `RowsEnd` is false, because claimed rows of a drain that raised wait for a
wake that only a tick gives), hooks run, a drain goes on (senders have timeouts), a
silent claim ages; `RowsEnd` excludes the time after a shutdown. `TemporaryBlock`:
tasks, the writer's thread and the stop go on. `TargetMaintenance`: a quiet tick looks, a
task that has begun goes on and a scan ends; nothing makes a tick quiet. `TargetCadence`: planner, queue, workers and
time. `SchedulerSession`: threads and the loop go on, and a window that was asked to
close does; none for users. `UpdaterApply`: an updater goes on and its deadlines pass.

## 5. Proofs

Each proof module holds for every value of the constants under the assumptions the
modules state; `tlapm` checks it without further trust. `TypeOK` of a module that has
proofs is not in a configuration, being the first theorem.

`ResidentScanProofs`: `TypeCorrect`, `AdmissionMatchesRow` (`[]OpenIffRunning`),
`LeaseRefinement` (`Spec => Lease!Spec`). `TypeOK` alone is inductive. `OpenIffRunning`
is inductive together with it, because every action does one of four things to
(row, fate): it keeps the running admission, ends whatever is open, settles the
admission it owns, or grants a new one to a row that was not running. `RowStep` names
these four cases; one lemma shows that each preserves the invariant and maps to a step
or a stutter of `ScanLease`; the rest assigns each action to its case. The bound in
`TypeOK` that no admission is dated after the clock makes a new token fresh.

Part two: `OneScanAtATime` (`[]SingleFlight`), `EntryHasOwner`
(`[]QueueEntryHasOwner`), `RequestsSurvive` (`RequestsKept`), from `TypeOK` and
`OpenIffRunning` above. The queue has one entry, and `EntryOK` says what it names: the one
attempt that has no admission yet, or an attempt with an admission. Tokens of admissions
differ (`TokensDiffer`), so two attempts never share it. `SingleFlight` is then
`ScanHasEntry`: a scan that nobody cancelled still has its entry. That needs
`RecoveryOK`, the order of recovery's two steps: it drops an entry only after it has
cancelled the scan that held it. `RequestsKept` needs that no copy of the row, in a tick or
in an attempt, has a request from the future (`DatesOK`), and that a stopping session has
nothing left that computes an idle row from an old copy (`StoppingOK`).

`NotificationOutboxProofs`: `OutboxTypeCorrect`, `LedgerAgrees`, `NoStrandedReservation`,
`NoRepeatTheorem`, `FreshMatchTheorem`. The assumption that matters is that sent and
failed rows are kept no longer than the horizon; `Items` is finite. The two properties
about the ledger are not inductive: a row is found by its slot, which names neither
epoch nor logical id, so a new reservation could meet the row of an older one. `IInv`
adds what excludes that. `RowHasLogical`: a row was made for the logical item its item
still has, in the current epoch. `IdsAreFresh`: ids are given once, hence two rows never
share a reservation (`RowsDiffer`), and a commit's reservations are new (`CommitFacts`).
`EndedBefore`: a sent or skipped row is not younger than its reservation, so retention
removes the row first (`KeptRowsAreSafe`). `SeenTracks`: the older mirror has the last
day of every item whose logical row may be gone, which is what a repeat is decided on.

Part two: `NoExtraCalls` (`[]SendOnce`), `WakeupIsKept`
(`[]NoLostWakeup`), from the `IInv` above. The first counts: the calls a reservation may
still cause (`Due`) are its pending row and the batches that hold a claim of it whose
sender was not called. A claim moves a call from the row to a batch, a sender call uses
one up, taking back a stale claim adds one to row and allowance alike; `AllowanceOK` says
that the allowance covers what is due, `BatchOK` that a batch holds a reservation once.
The second follows the thread (`ThreadInv`): a batch it selected was full or held all
pending rows, so once a batch was not full nothing is pending unless a flag (wake, hook,
awaitsTick) says so; and no tick drains while the thread is registered.

`TemporaryBlockProofs`: `BlockTypeCorrect`, `TripCancelsPeers`, `OneIncident`,
`IncidentIsWrittenFirst`, `WarningIsConfirmed`, `TaintedScanIsLost`. `IInv` adds to the
properties `Written` (the signal has one writer, whose caller waits for it in every case,
the incident count is what that writer committed, and a closed session has no task left)
and `Disowned` (a scan that was under way at an incident owns no row and is not about to
claim one, which is what the commit's guard asks).

`TargetMaintenanceProofs`: `MaintenanceTypeCorrect`, `EndedWasTaken`. `IInv` adds that a
worker with a cover request has that request recorded as taken up, and past the beginning
of its attempt that attempt, so the token it matches names its own request.

`SchedulerSessionProofs`: `SessionTypeCorrect`, `LostThreadWasCrossed`,
`StopReachesTheRest` and `OneThreadWithoutCrossing` (one thread as long as no living one
is in `crossed`), without an assumption on the interleaving. `IInv` follows what a
`start()` knows from section to section: `Alone` (a living thread was launched in a gap,
or is the manager's and has its current event), `Begun` (between the two lock sections no
thread runs but one launched in the gap), `Current` (after the preflight the same, unless
another start or a stop has taken a newer generation, and no two callers hold one
generation).

`UpdaterApplyProofs`: `UpdaterTypeCorrect`, `RunningAppIsUntouched`, `TreeStaysInstalled`,
`TornTreeIsBackedUp`, `InstallRefinement` (`Spec => ImplementsAppInstall`) and its
corollary `UpdatesNeverDowngrade`. `IInv` is the types with `Locks` (who holds which lock
at which step), `HandoffsHeld` (the holder of the operation lock works on the pending
handoff), `Files` (where a whole tree is, step by step) and `Order` (no version on its way
into the tree is older than what is installed).
`HandoffAppliedOnce` (`faults <= 2 => AppliedOnce`, for every bound on errors) needs
`ReplayInv`: ids are given once (`IdsOK`); between its check and the end of the
replacement nobody spends the handoff an updater holds, because it has the operation lock
(`FreshOK`); and an applied handoff is `Spent` (marked, overwritten, without its package,
or no longer pending), or the updater that applied it is about to spend it (`Marking`),
where two errors at the marker and its fallback leave none for the package (`AppliedOK`).

`TargetCadenceProofs`: `CadenceTypeCorrect`, `ErrorNeedsStreak` (`[]ErrorIsEarned`),
`NoEarlyScan` (`CadenceKept`). Assumed of the constants: targets and workers are finite,
and one of the delays is the longest. An error is earned because the streak in the row is
the tail of the history (`StreakOK`): every step leaves both alone, clears both, or
records a verdict of the policy in both (`StreakMove`), and the verdict is only asked for
a row whose streak is not complete. `CadenceKept` needs the way of an item from the tick
to the worker. While nobody has asked, the planner's due time plus the time since the
last start is at least an interval (`DueOK`), so what is due has waited long enough, or
for its page (`Ripe`). What was planned unasked is not already queued or scanned
(`UnaskedOK`), and a target is in one place only (`PlacesOK`): so until the claim only a
command changes its row, and a command is asking (`RipeOK`). `UnaskedOK` also says why the
planner cannot plan a target unasked that is still in the queue or with a worker: its row
is free again only through a Start, which leaves a request.

`ScanPipelineProofs`: `PipelineTypeCorrect`, `StopHidesNothingNew` (`[]NewestNotHidden`),
`ItemAnnouncedOnce` (`[]AnnouncedOnce`), `SnapshotHasNoDuplicate` (`[]SnapshotKeysDiffer`),
`AnnouncedAsConfigured` (`MatchesAsConfigured`), for any number of posts, windows,
configurations, texts and ways of showing an item, from `Bounds`, `FormsAreOwn`,
`FormsOverlap`, `StepsShort` and `PhrasesAreWords`. A window, the keys of an item, a commit,
a snapshot, a history and the merged ranges are folds. `FoldExists` and `FoldSteps` show once that
a fold is the end of a run from left to right; one lemma per fold (`TakeRuns`,
`ClassifyRuns`, `AliasRuns`, `CarryRuns`, `KeepRuns`, `RangeRuns`, and `AnnounceRuns` for
the property's own fold) restates it for the operator that
is folded, because a lemma cannot take an operator, and every later proof counts up
along such a run (`RangeInduction`). `IInv` has three parts besides the types. `ScanOK`:
what was taken are forms of different items, and the streak counts known ones among
them. `PageOK`: a list has no post twice, and an attempt has read it from its top to
some place (`ReadTo`), below which the next window begins. `RowsOK`: for every logical
item all keys of one form of it are aliases (`ItemsStand`), so by `FormsOverlap` no other
form of it is new; and an alias, like a comment id (`OwnComments`), belongs to the item it
names, so no item is taken for another. An early stop then knows more posts than the page shows out of order,
so one of them is in its place (`KnownInOrder`), and what lies below it is older.

`AnnouncedAsConfigured` has two halves. The matcher (`WantedIsEligible`): every set of ranges
has one list in order (`InOrderSorted`); merged from left to right, a range starts no
earlier than the last merged one, so joining them covers what both covered
(`RangeAdded`, `MergedCovers`); the masked places are then those of the occurrences
(`Masked`), and a phrase is found in what is left exactly when it occurs outside them
(`FoundOutside`). The commit (`CommitAnnounces`): the items before one in the same commit
are of other posts and add none of its keys, so it is new to the rows it meets exactly
when it was new before the commit.

Only model-checked: liveness (`ScansEnd` and the other properties under fairness), which is
outside the prover's reach. Every invariant and every other action property that a passing
run checks is the statement of a theorem.

## 6. Claims the code does not keep

Two are runs with findings in `PROJECT.json`; each of the others has a configuration
here with which TLC refutes it (`tlc -config <name>.cfg MC<module>`).

* `StartedIsActive`, `StoppedNeverQueued` (`ResidentScan`): the findings.
* `StopIsBoth` (`TargetMaintenance`): a refresh of the registry service reads the target
  and saves the whole row later (`application/target_registry_service.py:106`); a Pause
  stored in between is written back to not paused while the runtime row stays stopped.
  `docs/ARCHITECTURE.md:166` says a stop is both.
* `OneSchedulerThread` (`SchedulerSession`): the second lock section of `start()` checks
  only STOPPING (`webapp/scheduler_session.py:235`); a Start click and the `on_close`
  resume of a window's thread can both pass the first section and both launch a thread.
  The module says it manages one background thread.
* `StopReachesThread`: the first of those two threads keeps its own stop event, and
  `stop()` sets the event and joins the thread of the second alone.
* `StartingAlwaysEnds`: the second start sets STARTING after the first thread has begun;
  its preflight fails, `_block_start_for_preflight_failure` returns because a thread is
  alive, and STARTING stays while that thread runs.
* `StoppingIsWork`: `stop()` gives up its join and leaves STOPPING
  (`webapp/scheduler_session.py:360`); the ending thread finds itself alive and does not
  write STOPPED, so every later `start()` is refused with "Scheduler is stopping; wait
  for it to finish before starting."
* `OpenWindowIsActive`: `_clear_active_session` clears whatever record is current
  (`webapp/profile_session.py:121`), also that of another window that is open.
* `ShutdownIsFinal`: the shutdown stops the scheduler first and then closes the login
  window, whose callback resumes the scheduler (`webapp/lifespan.py:104`).
* `KeptBackupIsWhole` (`UpdaterApply`): the updater that follows one killed in the middle
  of a replacement takes the half-copied tree for the current app, backs it up, succeeds,
  and keeps that backup alone (`updates/apply_cleanup.py:247`).
* `NewSeenFirst` (`ScanPipeline`): `observe_seen_stop_item` says it requires a new item
  before it stops early; the code stops at known posts alone.

## 7. Not modelled

* Dashboard revision notifier, sidebar layout and configuration forms: display state and
  request parsing; no other component reads what they keep, apart from the configuration
  row, whose changes are `SetConfig` of `ScanPipeline`.
* Page pool: which scan loses a page that was discarded. `ResidentScan` lets the page of
  any attempt be lost at any time instead.
* Schema, migrations, secret storage, the launcher's database and profile identity locks,
  Web routes and presenters, diagnostics, packaging scripts: I/O and formatting without a
  protocol between actors.
* Of modelled components: browser launch, DOM selectors and text cleaning, the splitting
  of keyword rules into words, message text, `notification_events`, display columns,
  creation and deletion of targets except where retention meets it.
