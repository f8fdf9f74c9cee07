------------------------- MODULE TargetRuntimeState -------------------------
(***************************************************************************)
(* One row of the SQLite table target_runtime_state and the conditional    *)
(* updates the repository applies to it.  Every operator is the row after  *)
(* one SQL statement (or the predicate of its WHERE clause); the modules   *)
(* that EXTEND this one decide who calls it, when, and with which possibly *)
(* stale copy of the row.                                                  *)
(*                                                                         *)
(* Timestamps are natural numbers and 0 stands for NULL / ''.  `aged' says *)
(* that last_heartbeat_at (running) or last_enqueued_at (queued) is older  *)
(* than the stale threshold.  Display-only columns are left out.           *)
(***************************************************************************)
EXTENDS Naturals

CONSTANTS Workers,      \* executor worker slots
          NoWorker      \* active_worker_id = ''

ASSUME NoWorkerAssumption == NoWorker \notin Workers

Desired == {"active", "stopped"}
Status  == {"idle", "queued", "running", "error"}

Rows == [desired   : Desired,
         status    : Status,
         requested : Nat,
         enqueued  : Nat,
         started   : Nat,
         worker    : Workers \cup {NoWorker},
         aged      : BOOLEAN]

(* TargetRuntimeState(...) as stop / start-of-program writes it.           *)
FreshRow(desired) ==
    [desired |-> desired, status |-> "idle", requested |-> 0, enqueued |-> 0,
     started |-> 0, worker |-> NoWorker, aged |-> FALSE]

(* restart_target_runtime: the user pressed Start at time now.             *)
RestartedRow(now) ==
    [FreshRow("active") EXCEPT !.requested = now]

(***************************************************************************)
(* Queue and running admission.                                            *)
(***************************************************************************)
CanQueue(row) == row.desired = "active" /\ row.status = "idle"

QueuedRow(row, now) ==
    [row EXCEPT !.status = "queued", !.enqueued = now,
                !.worker = NoWorker, !.aged = FALSE]

(* Mutant: the WHERE clause forgets runtime_status.                        *)
CanClaimAnyStatus(row) == row.desired = "active"

CanClaim(row) == row.desired = "active" /\ row.status \in {"idle", "queued"}

RunningRow(row, worker, now) ==
    [row EXCEPT !.status = "running", !.started = now,
                !.worker = worker, !.aged = FALSE]

(* The running owner of the row is the admission (worker, started_at).     *)
OwnedBy(row, worker, started) ==
    /\ row.status = "running"
    /\ row.worker = worker
    /\ row.started = started

HeartbeatRow(row) == [row EXCEPT !.aged = FALSE]

(***************************************************************************)
(* The scan-once request column.                                           *)
(***************************************************************************)
RequestedRow(row, now) == [row EXCEPT !.requested = now]

(* clear_scan_request_if_not_newer: a request that arrived after the       *)
(* scheduler read the row survives its admission.                          *)
ConsumeRequest(row, consumed) ==
    IF row.requested <= consumed THEN [row EXCEPT !.requested = 0] ELSE row

(* scan_request_after_current_attempt: what is left of the request when    *)
(* the attempt described by row ends.                                      *)
RequestAfterAttempt(row) ==
    IF \/ row.enqueued = 0 /\ row.started = 0
       \/ row.enqueued # 0 /\ row.requested > row.enqueued
       \/ row.started # 0 /\ row.requested > row.started
    THEN row.requested
    ELSE 0

(***************************************************************************)
(* Outcomes of an attempt, as states computed from a copy of the row.      *)
(***************************************************************************)
Released(row) == [row EXCEPT !.status = "idle", !.worker = NoWorker]

IdleRow(row) ==
    [Released(row) EXCEPT !.requested = RequestAfterAttempt(row), !.aged = FALSE]

RetryRow(row, now) == [Released(row) EXCEPT !.requested = now]

RetriableFailureRow(row, autoRestart, now) ==
    IF autoRestart THEN [IdleRow(row) EXCEPT !.requested = now] ELSE IdleRow(row)

ErrorRow(row) == [IdleRow(row) EXCEPT !.status = "error", !.requested = 0]

(* Mutant: the request column is written like every other column.          *)
OverwritingRequest(db, new) == new

(* The assignment shared by save_if_running_owner and the stale-running    *)
(* update: a request newer than the attempt is kept whatever `new' says.   *)
PreservingRequest(db, new) ==
    IF new.desired = "active" /\ db.requested > db.started
    THEN [new EXCEPT !.requested = db.requested]
    ELSE new

(* Mutant: the conditional save loses its condition.                       *)
SaveAlways(db, new) == new

(* save_if_not_running: the whole row is replaced by a copy computed       *)
(* earlier; only the current status is compared.                           *)
SaveIfNotRunning(db, new) == IF db.status # "running" THEN new ELSE db

(* Mutant: shutdown goes through idle_state instead of the narrow patch.   *)
IdleIfQueued(row) == IF row.status = "queued" THEN IdleRow(row) ELSE row

(* The scheduler shutdown patch of a queued admission.                     *)
ReleaseIfQueued(row) == IF row.status = "queued" THEN Released(row) ELSE row

(***************************************************************************)
(* Stale-row recovery.  `autoRestart' and `terminal' are the decision of   *)
(* the failure policy for the stale_running reason.                        *)
(***************************************************************************)
(* Mutants: recovery passes over rows with, or without, a pending request. *)
StaleRunningUnrequested(row) == row.status = "running" /\ row.aged /\ row.requested = 0
StaleQueuedRequested(row) ==
    row.status = "queued" /\ row.aged /\ row.desired = "active" /\ row.requested # 0

StaleRunning(row) == row.status = "running" /\ row.aged
StaleQueued(row)  == row.status = "queued" /\ row.aged /\ row.desired = "active"

RecoveredRunningRow(row, terminal, now) ==
    PreservingRequest(row,
        IF row.desired # "active" THEN [Released(row) EXCEPT !.requested = 0]
        ELSE IF terminal THEN ErrorRow(row)
        ELSE RetriableFailureRow(row, TRUE, now))
=============================================================================
