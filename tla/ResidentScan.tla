---------------------------- MODULE ResidentScan ----------------------------
(***************************************************************************)
(* One target of the resident worker: its runtime row in SQLite, the       *)
(* in-memory TargetQueue, the scheduler tick, the executor's worker slots, *)
(* stale recovery, session stop and restart, and the Web UI commands that  *)
(* run in other threads.  Targets share nothing but the worker slots, so   *)
(* one target with several slots shows every conflict over a row.          *)
(*                                                                         *)
(* One action is one SQLite transaction or one stretch of event-loop code  *)
(* between two awaits.  A read and a write that the code does not put in   *)
(* one BEGIN IMMEDIATE transaction are two actions.                        *)
(***************************************************************************)
EXTENDS TargetRuntimeState

CONSTANT UserClock      \* no new work is opened from this time on

ASSUME UserClockAssumption == UserClock \in Nat

VARIABLES
    clock,      \* the last timestamp written
    paused,     \* targets.paused (enabled stays TRUE)
    row,        \* the target_runtime_state row
    fate,       \* history: what became of each admission (started_at token)
    tick,       \* where the scheduler coroutine stands
    due,        \* scan_requested_at of the planned DueTarget, 0 if not manual
    staleCopy,  \* the row as the forced retry of a session restart read it
    recovering, \* started_at of the recovered owner, 0 if none
    queued,     \* target_id \in _queued_target_ids
    published,  \* its item is in the asyncio queue
    owner,      \* _running_target_owners: {} or {owner key}, {0} while unbound
    attempt,    \* what each worker slot is doing with the target
    late,       \* claims still running in a thread whose attempt is gone
    session,    \* the executor session: up, ending, stopping or restarting
    asked       \* a scan-once request that passed its check of paused

vars == <<clock, paused, row, fate, tick, due, staleCopy, recovering,
          queued, published, owner, attempt, late, session, asked>>

NoKey == 0              \* the owner key before the claim: ''

Phases == {"none",      \* the slot does not work on the target
           "popped",    \* item taken from the queue, target being loaded
           "skipping",  \* mark idle if not running: about to read the row
           "writing",   \* ... about to write the row computed from the copy
           "admitting", \* try_claim_target_running submitted
           "claimed",   \* the claim succeeded, owner key not bound yet
           "bound",     \* owner bound, attempt registered, page being made
           "scanning",  \* scan task and heartbeat run
           "cleanup"}   \* the finally block

NoCopy == FreshRow("stopped")

NoAttempt == [phase |-> "none", started |-> 0, registered |-> FALSE,
              cancelled |-> FALSE, copy |-> NoCopy]

Sessions == {"up",         \* ticks run
             "ending",     \* a tick raised: queued items are still worked off
             "stopping",   \* stop requested: everything is cancelled
             "restarting"} \* browser runtime is being replaced

Ticks == {"recover", "apply", "release", "plan", "reserve", "admit",
          "publish", "rest", "patchQueued", "retryRead", "retryWrite", "cancel", "drain"}

Outcomes == {"committed", "released", "revoked", "expired"}

DataOK ==
    /\ clock \in Nat
    /\ row \in Rows
    /\ fate \in [DOMAIN fate -> {"open"} \cup Outcomes]
    /\ DOMAIN fate \subseteq 1..clock

Attempts == [phase : Phases, started : Nat, registered : BOOLEAN,
             cancelled : BOOLEAN, copy : Rows]

MemoryOK ==
    /\ paused \in BOOLEAN
    /\ tick \in Ticks
    /\ due \in Nat
    /\ staleCopy \in Rows
    /\ recovering \in Nat
    /\ queued \in BOOLEAN
    /\ published \in BOOLEAN
    /\ owner \subseteq Nat
    /\ attempt \in [Workers -> Attempts]
    /\ late \subseteq Workers
    /\ session \in Sessions
    /\ asked \in BOOLEAN

(* Every variable has its type, and no admission is dated in the future:   *)
(* started_at tokens are timestamps that were written.                     *)
TypeOK == DataOK /\ MemoryOK

(* The launcher stops every target before the worker runs; an application  *)
(* created without that option finds them as they were left.               *)
Init ==
    /\ clock = 0
    /\ paused \in BOOLEAN
    /\ row = FreshRow(IF paused THEN "stopped" ELSE "active")
    /\ fate = [t \in {} |-> "open"]
    /\ tick = "recover"
    /\ due = 0
    /\ staleCopy = NoCopy
    /\ recovering = 0
    /\ queued = FALSE
    /\ published = FALSE
    /\ owner = {}
    /\ attempt = [w \in Workers |-> NoAttempt]
    /\ late = {}
    /\ session = "up"
    /\ asked = FALSE

-----------------------------------------------------------------------------
(* Timestamps and the history of admissions.                               *)

Now == clock + 1
Stamp == clock' = Now
NewWorkAllowed == clock < UserClock

ResolveOpen(f) == fate' = [t \in DOMAIN fate |-> IF fate[t] = "open" THEN f ELSE fate[t]]
Settle(t, f) == fate' = [fate EXCEPT ![t] = f]
Grant(t) == fate' = [u \in DOMAIN fate \cup {t} |-> IF u = t THEN "open" ELSE fate[u]]

SchedulerVars == <<tick, due, staleCopy, recovering, session>>
QueueVars     == <<queued, published, owner>>
WebVars       == <<paused, asked>>

-----------------------------------------------------------------------------
(* Web UI commands: each runs in its own thread and connection.            *)

(* Stop: target and runtime row are rewritten in one transaction.          *)
StopTarget ==
    /\ paused' = TRUE
    /\ row' = FreshRow("stopped")
    /\ ResolveOpen("revoked")
    /\ UNCHANGED <<clock, SchedulerVars, QueueVars, attempt, late, asked>>

(* Start, under BEGIN IMMEDIATE.                                           *)
StartTarget ==
    /\ NewWorkAllowed
    /\ Stamp
    /\ paused' = FALSE
    /\ row' = RestartedRow(Now)
    /\ ResolveOpen("revoked")
    /\ UNCHANGED <<SchedulerVars, QueueVars, attempt, late, asked>>

(* Scan once: paused is read first, the request is written afterwards.     *)
CheckScanOnce ==
    /\ ~paused
    /\ ~asked
    /\ asked' = TRUE
    /\ UNCHANGED <<clock, paused, row, fate, SchedulerVars, QueueVars, attempt, late>>

RequestScanOnce ==
    /\ asked
    /\ asked' = FALSE
    /\ IF NewWorkAllowed
       THEN Stamp /\ row' = RequestedRow(row, Now)
       ELSE UNCHANGED <<clock, row>>
    /\ UNCHANGED <<paused, fate, SchedulerVars, QueueVars, attempt, late>>

(* The program ends and starts again: memory is lost.  The launcher has    *)
(* the Web UI stop every target before the worker runs; an application     *)
(* created without that option finds the row as the crash left it.         *)
CrashAndRestart(reset) ==
    /\ IF reset
       THEN paused' = TRUE /\ row' = FreshRow("stopped") /\ ResolveOpen("revoked")
       ELSE UNCHANGED <<paused, row, fate>>
    /\ tick' = "recover" /\ session' = "up" /\ due' = 0 /\ recovering' = 0
    /\ staleCopy' = NoCopy
    /\ queued' = FALSE /\ published' = FALSE /\ owner' = {}
    /\ attempt' = [w \in Workers |-> NoAttempt]
    /\ late' = {}
    /\ asked' = FALSE
    /\ UNCHANGED clock

(* Heartbeat or queue time becomes older than the stale threshold.         *)
TimePasses ==
    /\ row.status \in {"queued", "running"}
    /\ ~row.aged
    /\ row' = [row EXCEPT !.aged = TRUE]
    /\ UNCHANGED <<clock, fate, SchedulerVars, QueueVars, attempt, late, WebVars>>

-----------------------------------------------------------------------------
(* The scheduler tick: recover stale rows, apply the recovery to the       *)
(* running process, plan, enqueue.  It rests before the next tick, and     *)
(* only there a session ends; the first tick of a session always runs.     *)

(* Read and compare-and-set of the recovery are one step: the statement    *)
(* repeats every condition the read established.                           *)
RecoverRunning ==
    /\ tick \in {"recover", "rest"} /\ session = "up"
    /\ StaleRunning(row)
    /\ \/ row.desired = "active" /\ NewWorkAllowed /\ Stamp
          /\ row' = RecoveredRunningRow(row, FALSE, Now)
       \/ row' = RecoveredRunningRow(row, TRUE, clock) /\ UNCHANGED clock
    /\ recovering' = row.started
    /\ ResolveOpen("expired")
    /\ tick' = "apply"
    /\ UNCHANGED <<due, staleCopy, session, QueueVars, attempt, late, WebVars>>

RecoverQueued ==
    /\ tick \in {"recover", "rest"} /\ session = "up"
    /\ row' = IF StaleQueued(row) THEN Released(row) ELSE row
    /\ ~StaleRunning(row)
    /\ tick' = "plan"
    /\ UNCHANGED <<clock, fate, due, staleCopy, recovering, session,
                   QueueVars, attempt, late, WebVars>>

Cancelled(ws) ==
    [w \in Workers |-> IF w \in ws THEN [attempt[w] EXCEPT !.cancelled = TRUE]
                       ELSE attempt[w]]

(* Mutant: the queue entry is dropped, the attempt goes on.                *)
ApplyRecoveryUncancelled ==
    /\ tick = "apply"
    /\ tick' = "release"
    /\ UNCHANGED <<clock, row, fate, due, staleCopy, recovering, session,
                   QueueVars, attempt, late, WebVars>>

(* cancel_active_attempt_if_owner, then (after closing the page) the queue *)
(* entry of the recovered owner is dropped.                                *)
ApplyRecovery ==
    /\ tick = "apply"
    /\ attempt' = Cancelled({w \in Workers :
          attempt[w].registered /\ attempt[w].started = recovering})
    /\ tick' = "release"
    /\ UNCHANGED <<clock, row, fate, due, staleCopy, recovering, session,
                   QueueVars, late, WebVars>>

ReleaseRecovered ==
    /\ tick = "release"
    /\ owner' = owner \ {recovering}
    /\ recovering' = 0
    /\ tick' = "plan"
    /\ UNCHANGED <<clock, row, fate, due, staleCopy, session, queued, published,
                   attempt, late, WebVars>>

(* list_due_targets: a request makes the target due at once, otherwise the *)
(* refresh interval decides.                                               *)
PlanDue ==
    /\ tick = "plan"
    /\ NewWorkAllowed
    /\ ~paused
    /\ CanQueue(row)
    /\ due' = row.requested
    /\ tick' = "reserve"
    /\ UNCHANGED <<clock, row, fate, staleCopy, recovering, session, QueueVars,
                   attempt, late, WebVars>>

PlanNothing ==
    /\ tick = "plan"
    /\ \/ paused
       \/ ~CanQueue(row)
       \/ row.requested = 0
       \/ ~NewWorkAllowed
    /\ tick' = "rest"
    /\ UNCHANGED <<clock, row, fate, due, staleCopy, recovering, session, QueueVars,
                   attempt, late, WebVars>>

ReserveSlot ==
    /\ tick = "reserve"
    /\ IF queued \/ owner # {}
       THEN tick' = "rest" /\ UNCHANGED queued
       ELSE tick' = "admit" /\ queued' = TRUE
    /\ UNCHANGED <<clock, row, fate, due, staleCopy, recovering, session,
                   published, owner, attempt, late, WebVars>>

(* Mutant: a rejected admission keeps its reserved place.                  *)
AdmitQueuedKeepingPlace ==
    /\ tick = "admit"
    /\ IF CanQueue(row)
       THEN /\ Stamp
            /\ row' = IF due # 0 THEN ConsumeRequest(QueuedRow(row, Now), due)
                      ELSE QueuedRow(row, Now)
            /\ tick' = "publish"
       ELSE /\ tick' = "rest"
            /\ UNCHANGED <<clock, row>>
    /\ UNCHANGED <<fate, due, staleCopy, recovering, session, QueueVars,
                   attempt, late, WebVars>>

(* try_mark_target_queued and, for a manual scan, the conditional clear of *)
(* the request, in one transaction; a rejection gives the place back.      *)
AdmitQueued ==
    /\ tick = "admit"
    /\ IF CanQueue(row)
       THEN /\ Stamp
            /\ row' = IF due # 0 THEN ConsumeRequest(QueuedRow(row, Now), due)
                      ELSE QueuedRow(row, Now)
            /\ tick' = "publish"
            /\ UNCHANGED queued
       ELSE /\ tick' = "rest"
            /\ queued' = (owner # {} /\ queued)
            /\ UNCHANGED <<clock, row>>
    /\ UNCHANGED <<fate, due, staleCopy, recovering, session, published, owner,
                   attempt, late, WebVars>>

PublishReserved ==
    /\ tick = "publish"
    /\ published' = queued
    /\ tick' = "rest"
    /\ UNCHANGED <<clock, row, fate, due, staleCopy, recovering, session,
                   queued, owner, attempt, late, WebVars>>

-----------------------------------------------------------------------------
(* One attempt of worker slot w, from the queue to the finally block.      *)

At(w, phases) == attempt[w].phase \in phases
Running(w, phases) == At(w, phases) /\ ~attempt[w].cancelled
Go(w, phase) == attempt' = [attempt EXCEPT ![w].phase = phase]

Key(w) == IF attempt[w].registered THEN attempt[w].started ELSE NoKey
Owns(w) == OwnedBy(row, w, attempt[w].started)
CanCommit(w) == ~paused /\ row.desired = "active" /\ Owns(w)

Pop(w) ==
    /\ published
    /\ At(w, {"none"})
    /\ published' = FALSE /\ queued' = FALSE /\ owner' = {NoKey}
    /\ Go(w, "popped")
    /\ UNCHANGED <<clock, row, fate, SchedulerVars, late, WebVars>>

(* The target is still active, or it is skipped; a target that cannot be   *)
(* loaded at all takes the same way out.                                   *)
CheckActive(w) ==
    /\ Running(w, {"popped"})
    /\ \/ ~paused /\ row.desired = "active" /\ Go(w, "admitting")
       \/ Go(w, "skipping")
    /\ UNCHANGED <<clock, row, fate, SchedulerVars, QueueVars, late, WebVars>>

(* mark_resident_target_idle_if_not_running: reads the row and later       *)
(* replaces all of it.  It runs on the event loop without an await, so     *)
(* only other threads come in between.                                     *)
ReadForIdle(w) ==
    /\ Running(w, {"skipping"})
    /\ attempt' = [attempt EXCEPT ![w].phase = "writing", ![w].copy = row]
    /\ UNCHANGED <<clock, row, fate, SchedulerVars, QueueVars, late, WebVars>>

WriteIdle(w) ==
    /\ At(w, {"writing"})
    /\ row' = SaveIfNotRunning(row, IdleRow(attempt[w].copy))
    /\ attempt' = [attempt EXCEPT ![w].phase = "cleanup", ![w].copy = NoCopy]
    /\ UNCHANGED <<clock, fate, SchedulerVars, QueueVars, late, WebVars>>

(* try_claim_target_running; a rejected claim only notes the guard skip.   *)
Claim(w) ==
    /\ Running(w, {"admitting"})
    /\ IF CanClaim(row)
       THEN /\ Stamp
            /\ row' = RunningRow(row, w, Now)
            /\ Grant(Now)
            /\ attempt' = [attempt EXCEPT ![w].phase = "claimed", ![w].started = Now]
       ELSE /\ Go(w, "cleanup")
            /\ UNCHANGED <<clock, row, fate>>
    /\ UNCHANGED <<SchedulerVars, QueueVars, late, WebVars>>

(* Back on the event loop: bind the queue entry, register the attempt.     *)
BindOwner(w) ==
    /\ Running(w, {"claimed"})
    /\ owner' = IF owner = {} THEN {} ELSE {attempt[w].started}
    /\ attempt' = [attempt EXCEPT ![w].phase = "bound", ![w].registered = TRUE]
    /\ UNCHANGED <<clock, row, fate, SchedulerVars, queued, published, late, WebVars>>

(* The page is ready: the reload is recorded if the attempt still owns the *)
(* row; if the page was replaced meanwhile, the row is given back.         *)
PreparePage(w) ==
    /\ Running(w, {"bound"})
    /\ \/ /\ Owns(w)
          /\ row' = HeartbeatRow(row)
          /\ Go(w, "scanning")
          /\ UNCHANGED fate
       \/ /\ Owns(w)
          /\ row' = Released(row)
          /\ Settle(attempt[w].started, "released")
          /\ Go(w, "cleanup")
       \/ /\ ~Owns(w)
          /\ Go(w, "cleanup")
          /\ UNCHANGED <<row, fate>>
    /\ UNCHANGED <<clock, SchedulerVars, QueueVars, late, WebVars>>

(* A heartbeat that finds another owner cancels the scan, which then ends  *)
(* as a rejected commit.                                                   *)
Heartbeat(w) ==
    /\ Running(w, {"scanning"})
    /\ CanCommit(w)
    /\ row.aged
    /\ row' = HeartbeatRow(row)
    /\ UNCHANGED <<clock, fate, attempt, SchedulerVars, QueueVars, late, WebVars>>

(* Success or protective skip, in one BEGIN IMMEDIATE transaction.  A scan *)
(* that was finished when the cancellation arrived still gets here.        *)
CommitScan(w) ==
    /\ At(w, {"scanning"})
    /\ CanCommit(w)
    /\ row' = PreservingRequest(row, IdleRow(row))
    /\ Settle(attempt[w].started, "committed")
    /\ Go(w, "cleanup")
    /\ UNCHANGED <<clock, SchedulerVars, QueueVars, late, WebVars>>

(* A guarded failure: retried at once, retried later, or terminal.         *)
RecordFailure(w) ==
    /\ CanCommit(w)
    /\ \/ /\ NewWorkAllowed /\ Stamp
          /\ row' = PreservingRequest(row, RetriableFailureRow(row, TRUE, Now))
       \/ /\ row' = PreservingRequest(row, RetriableFailureRow(row, FALSE, clock))
          /\ UNCHANGED clock
       \/ /\ row' = PreservingRequest(row, ErrorRow(row))
          /\ UNCHANGED clock
    /\ Settle(attempt[w].started, "committed")
    /\ Go(w, "cleanup")
    /\ UNCHANGED <<SchedulerVars, QueueVars, late, WebVars>>

CommitFailure(w) ==
    /\ Running(w, {"bound", "scanning"})
    /\ RecordFailure(w)

RejectCommit(w) ==
    /\ Running(w, {"bound", "scanning"})
    /\ ~CanCommit(w)
    /\ Go(w, "cleanup")
    /\ UNCHANGED <<clock, row, fate, SchedulerVars, QueueVars, late, WebVars>>

(* The database stayed locked: the scan is asked for again, under the      *)
(* guard if there is one and only on a row that is not running otherwise.  *)
LockRetry(w) ==
    /\ Running(w, {"popped", "admitting", "bound", "scanning"})
    /\ NewWorkAllowed
    /\ ~paused /\ row.desired = "active"
    /\ \/ /\ At(w, {"bound", "scanning"})
          /\ Owns(w)
          /\ row' = PreservingRequest(row, RetryRow(row, Now))
          /\ Settle(attempt[w].started, "released")
       \/ /\ At(w, {"popped", "admitting"})
          /\ row.status \in {"idle", "queued"}
          /\ row' = RetryRow(row, Now)
          /\ UNCHANGED fate
    /\ Stamp
    /\ Go(w, "cleanup")
    /\ UNCHANGED <<SchedulerVars, QueueVars, late, WebVars>>

(* Ways out that leave the row as it is: another database error, a lock    *)
(* retry that could not be written, a page id that changed hands, a        *)
(* tripped automation runtime.  Recovery finds the row later.              *)
Abandon(w) ==
    /\ Running(w, {"popped", "admitting", "bound", "scanning"})
    /\ Go(w, "cleanup")
    /\ UNCHANGED <<clock, row, fate, SchedulerVars, QueueVars, late, WebVars>>

(* Mutant: a cancellation between the claim and its binding is swallowed.  *)
CancelBeforeClaim(w) ==
    /\ At(w, {"popped", "skipping", "admitting"})
    /\ attempt[w].cancelled
    /\ row' = ReleaseIfQueued(row)
    /\ late' = IF At(w, {"admitting"}) THEN late \cup {w} ELSE late
    /\ Go(w, "cleanup")
    /\ UNCHANGED <<clock, fate, SchedulerVars, QueueVars, WebVars>>

(* CancelledError before the attempt has its guard.  The claim may still   *)
(* be running in its thread.                                               *)
CancelBeforeGuard(w) ==
    /\ At(w, {"popped", "skipping", "admitting", "claimed"})
    /\ attempt[w].cancelled
    /\ row' = ReleaseIfQueued(row)
    /\ late' = IF At(w, {"admitting"}) THEN late \cup {w} ELSE late
    /\ Go(w, "cleanup")
    /\ UNCHANGED <<clock, fate, SchedulerVars, QueueVars, WebVars>>

(* CancelledError under the guard: a runtime restart records a failure, a  *)
(* shutdown or a recovery gives the row back, each if it is still owned.   *)
CancelUnderGuard(w) ==
    /\ At(w, {"bound", "scanning"})
    /\ attempt[w].cancelled
    /\ \/ session = "restarting" /\ RecordFailure(w)
       \/ /\ session # "restarting"
          /\ Owns(w)
          /\ row' = Released(row)
          /\ Settle(attempt[w].started, "released")
          /\ Go(w, "cleanup")
          /\ UNCHANGED <<clock, SchedulerVars, QueueVars, late, WebVars>>
       \/ /\ IF session = "restarting" THEN ~CanCommit(w) ELSE ~Owns(w)
          /\ Go(w, "cleanup")
          /\ UNCHANGED <<clock, row, fate, SchedulerVars, QueueVars, late, WebVars>>

LateClaim(w) ==
    /\ w \in late
    /\ late' = late \ {w}
    /\ \/ /\ CanClaim(row)
          /\ Stamp
          /\ row' = RunningRow(row, w, Now)
          /\ Grant(Now)
       \/ UNCHANGED <<clock, row, fate>>
    /\ UNCHANGED <<attempt, SchedulerVars, QueueVars, WebVars>>

(* Mutant: only a bound owner key is completed.                            *)
CleanupBoundOnly(w) ==
    /\ At(w, {"cleanup"})
    /\ owner' = IF attempt[w].registered THEN owner \ {attempt[w].started} ELSE owner
    /\ attempt' = [attempt EXCEPT ![w] = NoAttempt]
    /\ UNCHANGED <<clock, row, fate, SchedulerVars, queued, published, late, WebVars>>

(* run_resident_attempt_cleanup and TargetQueue.complete: only the entry   *)
(* of the attempt's own key is removed.                                    *)
Cleanup(w) ==
    /\ At(w, {"cleanup"})
    /\ owner' = owner \ {Key(w)}
    /\ attempt' = [attempt EXCEPT ![w] = NoAttempt]
    /\ UNCHANGED <<clock, row, fate, SchedulerVars, queued, published, late, WebVars>>

-----------------------------------------------------------------------------
(* ExecutorWorkerPool.stop, and the session that follows it.               *)

EndSession(kind) ==
    /\ tick = "rest" /\ session = "up"
    /\ kind = "restarting" => NewWorkAllowed
    /\ session' = kind
    /\ IF kind = "ending"
       THEN tick' = "drain" /\ UNCHANGED <<queued, published>>
       ELSE /\ tick' = IF ~published THEN "cancel"
                       ELSE IF kind = "restarting" THEN "retryRead" ELSE "patchQueued"
            /\ published' = FALSE
            /\ queued' = (queued /\ ~published)
    /\ UNCHANGED <<clock, row, fate, due, staleCopy, recovering, owner, attempt,
                   late, WebVars>>

PatchCancelledQueued ==
    /\ tick = "patchQueued"
    /\ row' = ReleaseIfQueued(row)
    /\ tick' = "cancel"
    /\ UNCHANGED <<clock, fate, due, staleCopy, recovering, session, QueueVars,
                   attempt, late, WebVars>>

(* force_request_target_retry_after_runtime_restart: reads the row, then   *)
(* saves all of it whatever happened in between.                           *)
ReadForForcedRetry ==
    /\ tick = "retryRead"
    /\ staleCopy' = row
    /\ tick' = "retryWrite"
    /\ UNCHANGED <<clock, row, fate, due, recovering, session, QueueVars,
                   attempt, late, WebVars>>

WriteForcedRetry ==
    /\ tick = "retryWrite"
    /\ Stamp
    /\ row' = RetryRow(staleCopy, Now)
    /\ ResolveOpen("expired")
    /\ staleCopy' = NoCopy
    /\ tick' = "cancel"
    /\ UNCHANGED <<due, recovering, session, QueueVars, attempt, late, WebVars>>

(* A stop cancels every worker task, a restart the registered attempts.    *)
CancelAttempts ==
    /\ tick = "cancel"
    /\ attempt' = Cancelled({w \in Workers :
          IF session = "restarting" THEN attempt[w].registered ELSE ~At(w, {"none"})})
    /\ tick' = "drain"
    /\ UNCHANGED <<clock, row, fate, due, staleCopy, recovering, session, QueueVars,
                   late, WebVars>>

(* All worker tasks ended; the next session has a new queue.               *)
NewSession ==
    /\ tick = "drain"
    /\ ~published
    /\ \A w \in Workers : At(w, {"none"})
    /\ session' = "up" /\ tick' = "recover"
    /\ queued' = FALSE /\ owner' = {}
    /\ UNCHANGED <<clock, row, fate, due, staleCopy, recovering, published,
                   attempt, late, WebVars>>

-----------------------------------------------------------------------------
(* The event loop does nothing else while the unawaited read-then-write of *)
(* one attempt is under way, nor during the unawaited part of a stop;      *)
(* threads do.                                                             *)
LoopFree == \A w \in Workers : ~At(w, {"writing"})
TickYields == session = "stopping" => tick = "drain"

TickOnLoop ==
    \/ RecoverRunning \/ RecoverQueued \/ ApplyRecovery \/ ReleaseRecovered
    \/ PlanDue \/ PlanNothing \/ ReserveSlot \/ PublishReserved
    \/ PatchCancelledQueued \/ CancelAttempts \/ NewSession

TickInThread == AdmitQueued \/ ReadForForcedRetry \/ WriteForcedRetry

SessionEnds == \E kind \in {"ending", "stopping", "restarting"} : EndSession(kind)

AttemptOnLoop(w) ==
    \/ Pop(w) \/ ReadForIdle(w) \/ BindOwner(w) \/ CommitScan(w) \/ RejectCommit(w)
    \/ CancelBeforeGuard(w) \/ Cleanup(w)

AttemptInThread(w) ==
    \/ CheckActive(w) \/ Claim(w) \/ PreparePage(w) \/ CommitFailure(w)
    \/ CancelUnderGuard(w) \/ WriteIdle(w)

Mishap(w) == Abandon(w) \/ LockRetry(w)

Scheduler == TickInThread \/ (LoopFree /\ TickOnLoop)
Attempt(w) == AttemptInThread(w) \/ (LoopFree /\ TickYields /\ AttemptOnLoop(w))

Web == StopTarget \/ StartTarget \/ CheckScanOnce \/ RequestScanOnce

Next ==
    \/ Web
    \/ \E reset \in BOOLEAN : CrashAndRestart(reset)
    \/ TimePasses
    \/ Scheduler
    \/ LoopFree /\ SessionEnds
    \/ \E w \in Workers : Attempt(w) \/ Heartbeat(w) \/ Mishap(w) \/ LateClaim(w)

(* The scheduler coroutine and every thread it waits for run on, the scan  *)
(* of an attempt ends within its timeout, and time passes.  Users need not *)
(* do anything and nothing need go wrong.                                  *)
Fairness ==
    /\ WF_vars(Scheduler)
    /\ WF_vars(TimePasses)
    /\ \A w \in Workers : WF_vars(Attempt(w)) /\ WF_vars(LateClaim(w))

Spec     == Init /\ [][Next]_vars
FairSpec == Spec /\ Fairness

-----------------------------------------------------------------------------
(* Safety.                                                                 *)

(* The row says running exactly while one admission is open, and last      *)
(* started_at is that admission: no write of any thread leaves a running   *)
(* row without an admission behind it, or an admission that a stopped or   *)
(* restarted row would still let commit.                                   *)
OpenIffRunning ==
    {t \in DOMAIN fate : fate[t] = "open"} =
        IF row.status = "running" THEN {row.started} ELSE {}

(* The row implements the lease: one admission at a time, and an admission *)
(* that was revoked, expired or given back never commits a scan or a       *)
(* failure afterwards (ScanLease).                                         *)
Lease == INSTANCE ScanLease WITH fate <- fate
ImplementsLease == Lease!Spec

(* No two attempts that nobody cancelled scan the target at once: a second *)
(* attempt reaches its scan only after recovery cancelled the first, or    *)
(* after the first gave its queue entry back.                              *)
SingleFlight ==
    \A v, w \in Workers :
        Running(v, {"scanning"}) /\ Running(w, {"scanning"}) => v = w

(* The queue never blocks the target for good: an entry of                 *)
(* _running_target_owners belongs to an attempt whose cleanup removes it,  *)
(* and a reserved place is in the queue or in the hands of the scheduler.  *)
QueueEntryHasOwner ==
    /\ \A k \in owner : \E w \in Workers : ~At(w, {"none"}) /\ Key(w) = k
    /\ queued => published \/ tick \in {"admit", "publish"}
    /\ published => queued /\ owner = {}

(* A scan-once request made while a scan runs survives the end of that     *)
(* scan, however it ends: success, failure, lock retry, cancellation or    *)
(* recovery.                                                               *)
KeepsLaterRequest ==
    row.status = "running" /\ row.requested > row.started
      /\ row'.status # "running" /\ row'.desired = "active"
    => row'.requested >= row.requested

(* A scheduler shutdown releases rows without taking a scan-once request   *)
(* away; only a scan that commits during the shutdown uses up the request  *)
(* it has answered.                                                        *)
KeepsUnansweredRequest ==
    session = "stopping" /\ row'.desired = "active" /\ row'.requested < row.requested
    => /\ row.requested <= row.started
       /\ row.started \in DOMAIN fate'
       /\ fate'[row.started] = "committed"

(* Neither the end of a scan nor a shutdown loses a scan-once request.     *)
RequestsKept == [][KeepsLaterRequest /\ KeepsUnansweredRequest]_vars

-----------------------------------------------------------------------------
(* Claims the code does not keep.                                          *)

(* Start resumes the target: a target that is not paused is active, so the *)
(* scheduler can choose it.                                                *)
StartedIsActive == ~paused => row.desired = "active"

(* A stopped target is not written as queued, not even by an old tick.     *)
StoppedNeverQueued ==
    [][ paused /\ row.status # "queued" => row'.status # "queued" ]_vars

-----------------------------------------------------------------------------
(* Liveness, under FairSpec.                                               *)

(* No row stays running or queued for good: the attempt ends or recovery   *)
(* finds the row.                                                          *)
RunningEnds == row.status = "running" ~> row.status # "running"
QueuedEnds  == row.status = "queued" ~> row.status # "queued"

(* The in-memory entry that keeps the target out of the queue goes away.   *)
EntryReleased == (owner # {}) ~> (owner = {})

(* A session that ends gives way to the next one: no attempt keeps the     *)
(* drain waiting.                                                          *)
SessionReturns == session # "up" ~> session = "up"

(* Whatever happened to it, a target comes back to where it can be queued  *)
(* again: its row, its queue entry and its session all leave their busy    *)
(* states.                                                                 *)
ScansEnd == RunningEnds /\ QueuedEnds /\ EntryReleased /\ SessionReturns
=============================================================================
