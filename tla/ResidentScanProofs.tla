------------------------- MODULE ResidentScanProofs -------------------------
(***************************************************************************)
(* Proofs about ResidentScan, for every set of workers and every bound     *)
(* UserClock.  Part one: type correctness, that the row says running       *)
(* exactly while one admission is open, and that the row implements        *)
(* ScanLease.                                                              *)
(*                                                                         *)
(* The argument: whatever an action does to memory, it does one of four    *)
(* things to the pair (row, fate) -- keep the running admission, end       *)
(* whatever is open, settle the admission it owns, grant a new one.        *)
(***************************************************************************)
EXTENDS ResidentScan, TLAPS

-----------------------------------------------------------------------------
(* The row operators return rows.                                          *)

LEMMA FreshRowType == \A d \in Desired : FreshRow(d) \in Rows
BY DEF FreshRow, Rows, Status

LEMMA RestartedRowType == \A now \in Nat : RestartedRow(now) \in Rows
BY DEF RestartedRow, FreshRow, Rows, Status, Desired

LEMMA RunningRowType ==
    \A r \in Rows, now \in Nat, w \in Workers : RunningRow(r, w, now) \in Rows
BY DEF RunningRow, Rows, Status

LEMMA RowType ==
    ASSUME NEW r \in Rows, NEW now \in Nat
    PROVE  /\ QueuedRow(r, now) \in Rows
           /\ HeartbeatRow(r) \in Rows
           /\ RequestedRow(r, now) \in Rows
           /\ Released(r) \in Rows
           /\ RetryRow(r, now) \in Rows
           /\ ReleaseIfQueued(r) \in Rows
BY DEF Rows, Status, Desired, QueuedRow,
       HeartbeatRow, RequestedRow, Released, RetryRow, ReleaseIfQueued

LEMMA ConsumeType == \A r \in Rows, n \in Nat : ConsumeRequest(r, n) \in Rows
BY DEF ConsumeRequest, Rows

LEMMA IdleRowType ==
    ASSUME NEW r \in Rows
    PROVE  IdleRow(r) \in Rows /\ IdleRow(r).status = "idle"
<1>1. RequestAfterAttempt(r) \in Nat
  BY DEF RequestAfterAttempt, Rows
<1> QED
  BY <1>1 DEF IdleRow, Released, Rows, Status

LEMMA FailureRowType ==
    ASSUME NEW r \in Rows, NEW now \in Nat, NEW b \in BOOLEAN
    PROVE  /\ RetriableFailureRow(r, b, now) \in Rows
           /\ RetriableFailureRow(r, b, now).status = "idle"
           /\ ErrorRow(r) \in Rows
           /\ ErrorRow(r).status = "error"
BY IdleRowType DEF RetriableFailureRow, ErrorRow, Rows, Status

LEMMA PreservingType ==
    ASSUME NEW r \in Rows, NEW s \in Rows
    PROVE  /\ PreservingRequest(r, s) \in Rows
           /\ PreservingRequest(r, s).status = s.status
BY DEF PreservingRequest, Rows

LEMMA RecoveredType ==
    ASSUME NEW r \in Rows, NEW now \in Nat, NEW b \in BOOLEAN
    PROVE  /\ RecoveredRunningRow(r, b, now) \in Rows
           /\ RecoveredRunningRow(r, b, now).status # "running"
<1> DEFINE stopped == [Released(r) EXCEPT !.requested = 0]
<1>1. stopped \in Rows /\ stopped.status = "idle"
  BY DEF Released, Rows, Status
<1>2. ErrorRow(r) \in Rows /\ RetriableFailureRow(r, TRUE, now) \in Rows
  BY FailureRowType
<1>3. ErrorRow(r).status = "error" /\ RetriableFailureRow(r, TRUE, now).status = "idle"
  BY FailureRowType
<1> HIDE DEF stopped
<1> QED
  BY <1>1, <1>2, <1>3, PreservingType DEF RecoveredRunningRow, stopped

LEMMA SaveType ==
    ASSUME NEW r \in Rows, NEW s \in Rows, s.status = "idle"
    PROVE  /\ SaveIfNotRunning(r, s) \in Rows
           /\ SaveIfNotRunning(r, s) = r \/ SaveIfNotRunning(r, s).status = "idle"
           /\ r.status = "running" => SaveIfNotRunning(r, s) = r
           /\ r.status # "running" => SaveIfNotRunning(r, s).status = "idle"
BY DEF SaveIfNotRunning

LEMMA NoCopyType == NoCopy \in Rows
BY FreshRowType DEF NoCopy, Desired

-----------------------------------------------------------------------------
(* The four things an action does to row and fate.                         *)

ClockMoves == clock' \in {clock, Now}

KeepsAdmission ==
    /\ ClockMoves
    /\ UNCHANGED fate
    /\ row'.status = "running" <=> row.status = "running"
    /\ row.status = "running" => row'.started = row.started

EndsAdmissions ==
    /\ ClockMoves
    /\ \E f \in Outcomes : ResolveOpen(f)
    /\ row'.status # "running"

SettlesAdmission ==
    /\ ClockMoves
    /\ row.status = "running" /\ row'.status # "running"
    /\ \E f \in Outcomes : Settle(row.started, f)

GrantsAdmission ==
    /\ clock' = Now
    /\ row.status # "running" /\ row'.status = "running"
    /\ row'.started = Now
    /\ Grant(Now)

RowStep ==
    /\ row' \in Rows
    /\ KeepsAdmission \/ EndsAdmissions \/ SettlesAdmission \/ GrantsAdmission

LEMMA RowUnchanged ==
    ASSUME DataOK, UNCHANGED <<row, fate>>, ClockMoves
    PROVE  RowStep
BY DEF RowStep, KeepsAdmission, DataOK

LEMMA WebRowStep ==
    ASSUME DataOK, Web \/ (\E reset \in BOOLEAN : CrashAndRestart(reset)) \/ TimePasses
    PROVE  RowStep
<1> USE DEF RowStep, ClockMoves
<1>1. CASE StopTarget
  <2>1. row' \in Rows /\ row'.status = "idle"
    BY <1>1, FreshRowType DEF StopTarget, FreshRow, Desired
  <2> QED
    BY <1>1, <2>1 DEF StopTarget, EndsAdmissions, Outcomes
<1>2. CASE StartTarget
  <2>1. Now \in Nat
    BY DEF DataOK, Now
  <2>2. row' \in Rows
    BY <1>2, <2>1, RestartedRowType DEF StartTarget
  <2> QED
    BY <1>2, <2>2 DEF StartTarget, Stamp, EndsAdmissions, Outcomes, RestartedRow, FreshRow
<1>3. CASE CheckScanOnce
  BY <1>3, RowUnchanged DEF CheckScanOnce
<1>4. CASE RequestScanOnce
  <2>1. Now \in Nat
    BY DEF DataOK, Now
  <2>2. RequestedRow(row, Now) \in Rows
    BY <2>1, RowType DEF DataOK
  <2>3. row' = row \/ row' = RequestedRow(row, Now)
    BY <1>4 DEF RequestScanOnce
  <2>4. row' \in Rows /\ row'.status = row.status /\ row'.started = row.started
    BY <2>2, <2>3 DEF RequestedRow, DataOK, Rows
  <2> QED
    BY <1>4, <2>4 DEF RequestScanOnce, Stamp, KeepsAdmission
<1>5. CASE CrashAndRestart(TRUE)
  <2>1. row' = FreshRow("stopped") /\ ResolveOpen("revoked") /\ UNCHANGED clock
    BY <1>5 DEF CrashAndRestart
  <2>2. row' \in Rows /\ row'.status = "idle"
    BY <2>1, FreshRowType DEF FreshRow, Desired
  <2> QED
    BY <2>1, <2>2 DEF EndsAdmissions, Outcomes
<1>6. CASE CrashAndRestart(FALSE)
  BY <1>6, RowUnchanged DEF CrashAndRestart
<1>7. CASE TimePasses
  <2>1. row' \in Rows /\ row'.status = row.status /\ row'.started = row.started
    BY <1>7 DEF TimePasses, DataOK, Rows
  <2> QED
    BY <1>7, <2>1 DEF TimePasses, KeepsAdmission
<1> QED
  BY <1>1, <1>2, <1>3, <1>4, <1>5, <1>6, <1>7 DEF Web

LEMMA SchedulerRowStep ==
    ASSUME DataOK, MemoryOK, Scheduler \/ SessionEnds
    PROVE  RowStep
<1> USE DEF RowStep, ClockMoves
<1>0. row \in Rows /\ Now \in Nat /\ clock \in Nat /\ due \in Nat /\ staleCopy \in Rows
  BY DEF DataOK, MemoryOK, Now
<1>1. CASE RecoverRunning
  <2>1. \/ row' = RecoveredRunningRow(row, FALSE, Now) /\ clock' = Now
        \/ row' = RecoveredRunningRow(row, TRUE, clock) /\ clock' = clock
    BY <1>1 DEF RecoverRunning, Stamp
  <2>2. row' \in Rows /\ row'.status # "running"
    BY <1>0, <2>1, RecoveredType
  <2> QED
    BY <1>1, <2>1, <2>2 DEF RecoverRunning, EndsAdmissions, Outcomes
<1>2. CASE RecoverQueued
  <2>1. row' \in Rows /\ (row' = row \/ (row.status = "queued" /\ row'.status = "idle"))
    BY <1>0, <1>2, RowType DEF RecoverQueued, StaleQueued, Released, Rows
  <2> QED
    BY <1>2, <2>1 DEF RecoverQueued, KeepsAdmission
<1>3. CASE AdmitQueued
  <2>1. CASE CanQueue(row)
    <3>1. QueuedRow(row, Now) \in Rows
      BY <1>0, RowType
    <3>2. row' \in Rows
      BY <1>0, <1>3, <2>1, <3>1, ConsumeType DEF AdmitQueued
    <3>3. row.status = "idle" /\ row'.status = "queued"
      BY <1>0, <1>3, <2>1 DEF AdmitQueued, CanQueue, QueuedRow, ConsumeRequest, Rows
    <3> QED
      BY <1>3, <2>1, <3>2, <3>3 DEF AdmitQueued, Stamp, KeepsAdmission
  <2>2. CASE ~CanQueue(row)
    BY <1>3, <2>2, RowUnchanged DEF AdmitQueued
  <2> QED
    BY <2>1, <2>2
<1>4. CASE PatchCancelledQueued
  <2>1. row' \in Rows /\ (row' = row \/ (row.status = "queued" /\ row'.status = "idle"))
    BY <1>0, <1>4, RowType DEF PatchCancelledQueued, ReleaseIfQueued, Released, Rows
  <2> QED
    BY <1>4, <2>1 DEF PatchCancelledQueued, KeepsAdmission
<1>5. CASE WriteForcedRetry
  <2>1. row' \in Rows /\ row'.status = "idle"
    BY <1>0, <1>5, RowType DEF WriteForcedRetry, RetryRow, Released, Rows
  <2> QED
    BY <1>5, <2>1 DEF WriteForcedRetry, Stamp, EndsAdmissions, Outcomes
<1>6. CASE ApplyRecovery \/ ReleaseRecovered \/ PlanDue \/ PlanNothing \/ ReserveSlot
           \/ PublishReserved \/ CancelAttempts \/ NewSession
  BY <1>6, RowUnchanged
     DEF ApplyRecovery, ReleaseRecovered, PlanDue, PlanNothing, ReserveSlot,
         PublishReserved, CancelAttempts, NewSession
<1>7. CASE ReadForForcedRetry \/ SessionEnds
  BY <1>7, RowUnchanged DEF ReadForForcedRetry, SessionEnds, EndSession
<1> QED
  BY <1>1, <1>2, <1>3, <1>4, <1>5, <1>6, <1>7 DEF Scheduler, TickOnLoop, TickInThread

LEMMA FailureRowStep ==
    ASSUME DataOK, NEW w \in Workers, RecordFailure(w)
    PROVE  RowStep
<1> USE DEF RowStep, ClockMoves
<1>0. row \in Rows /\ Now \in Nat /\ clock \in Nat
  BY DEF DataOK, Now
<1>1. \E new \in Rows : new.status # "running" /\ row' = PreservingRequest(row, new)
  BY <1>0, FailureRowType DEF RecordFailure
<1>2. row' \in Rows /\ row'.status # "running"
  BY <1>0, <1>1, PreservingType
<1>3. row.status = "running" /\ Settle(row.started, "committed")
  BY DEF RecordFailure, CanCommit, Owns, OwnedBy
<1>4. ClockMoves
  BY DEF RecordFailure, Stamp
<1> QED
  BY <1>2, <1>3, <1>4 DEF SettlesAdmission, Outcomes

LEMMA AttemptRowStep ==
    ASSUME DataOK, MemoryOK, NEW w \in Workers,
           Attempt(w) \/ Heartbeat(w) \/ Mishap(w) \/ LateClaim(w)
    PROVE  RowStep
<1> USE DEF RowStep, ClockMoves
<1>0. row \in Rows /\ Now \in Nat /\ clock \in Nat /\ attempt[w].copy \in Rows
  BY DEF DataOK, MemoryOK, Now, Attempts
<1>1. CASE Pop(w) \/ CheckActive(w) \/ ReadForIdle(w) \/ BindOwner(w) \/ RejectCommit(w)
           \/ Cleanup(w) \/ Abandon(w)
  BY <1>1, RowUnchanged
     DEF Pop, CheckActive, ReadForIdle, BindOwner, RejectCommit, Cleanup, Abandon
<1>2. CASE WriteIdle(w)
  <2>1. row' \in Rows /\ (row' = row \/ (row.status # "running" /\ row'.status = "idle"))
    BY <1>0, <1>2, IdleRowType, SaveType DEF WriteIdle
  <2> QED
    BY <1>2, <2>1 DEF WriteIdle, KeepsAdmission
<1>3. ASSUME CanClaim(row), Stamp, row' = RunningRow(row, w, Now), Grant(Now)
      PROVE  RowStep
  BY <1>0, <1>3, RunningRowType
     DEF Stamp, CanClaim, RunningRow, Rows, GrantsAdmission
<1>4. CASE Claim(w) \/ LateClaim(w)
  BY <1>3, <1>4, RowUnchanged DEF Claim, LateClaim
<1>5. ASSUME HeartbeatRow(row) = row', UNCHANGED <<fate, clock>>
      PROVE  RowStep
  BY <1>0, <1>5, RowType DEF HeartbeatRow, Rows, KeepsAdmission
<1>6. ASSUME Owns(w), row' = Released(row), Settle(attempt[w].started, "released"),
             UNCHANGED clock
      PROVE  RowStep
  <2>1. row' \in Rows /\ row'.status = "idle"
    BY <1>0, <1>6, RowType DEF Released, Rows
  <2> QED
    BY <1>6, <2>1 DEF Owns, OwnedBy, SettlesAdmission, Outcomes
<1>7. CASE PreparePage(w)
  BY <1>5, <1>6, <1>7, RowUnchanged DEF PreparePage
<1>8. CASE Heartbeat(w)
  BY <1>5, <1>8 DEF Heartbeat
<1>9. CASE CommitScan(w)
  <2>1. row' \in Rows /\ row'.status = "idle"
    BY <1>0, <1>9, IdleRowType, PreservingType DEF CommitScan
  <2> QED
    BY <1>9, <2>1 DEF CommitScan, CanCommit, Owns, OwnedBy, SettlesAdmission, Outcomes
<1>10. CASE CommitFailure(w)
  BY <1>10, FailureRowStep DEF CommitFailure
<1>11. CASE LockRetry(w)
  <2>1. RetryRow(row, Now) \in Rows /\ RetryRow(row, Now).status = "idle"
    BY <1>0, RowType DEF RetryRow, Released, Rows
  <2>2. PreservingRequest(row, RetryRow(row, Now)) \in Rows
        /\ PreservingRequest(row, RetryRow(row, Now)).status = "idle"
    BY <1>0, <2>1, PreservingType
  <2>3. CASE At(w, {"bound", "scanning"}) /\ Owns(w)
             /\ row' = PreservingRequest(row, RetryRow(row, Now))
             /\ Settle(attempt[w].started, "released")
    BY <1>11, <2>2, <2>3 DEF LockRetry, Stamp, Owns, OwnedBy, SettlesAdmission, Outcomes
  <2>4. CASE row.status \in {"idle", "queued"} /\ row' = RetryRow(row, Now) /\ UNCHANGED fate
    BY <1>11, <2>1, <2>4 DEF LockRetry, Stamp, KeepsAdmission
  <2> QED
    BY <1>11, <2>3, <2>4 DEF LockRetry
<1>12. CASE CancelBeforeGuard(w)
  <2>1. row' \in Rows /\ (row' = row \/ (row.status = "queued" /\ row'.status = "idle"))
    BY <1>0, <1>12, RowType DEF CancelBeforeGuard, ReleaseIfQueued, Released, Rows
  <2> QED
    BY <1>12, <2>1 DEF CancelBeforeGuard, KeepsAdmission
<1>13. CASE CancelUnderGuard(w)
  BY <1>6, <1>13, FailureRowStep, RowUnchanged DEF CancelUnderGuard
<1> QED
  BY <1>1, <1>2, <1>4, <1>7, <1>8, <1>9, <1>10, <1>11, <1>12, <1>13
     DEF Attempt, AttemptOnLoop, AttemptInThread, Mishap

LEMMA NextRowStep ==
    ASSUME TypeOK, [Next]_vars
    PROVE  RowStep
<1>1. CASE UNCHANGED vars
  BY <1>1, RowUnchanged DEF vars, ClockMoves, TypeOK
<1>2. CASE Next
  BY <1>2, WebRowStep, SchedulerRowStep, AttemptRowStep DEF Next, TypeOK
<1> QED
  BY <1>1, <1>2

-----------------------------------------------------------------------------
(* The inductive invariant, from the shape of a step.                      *)

LEMMA DataStep ==
    ASSUME DataOK, OpenIffRunning, RowStep
    PROVE  DataOK'
<1>0. clock \in Nat /\ Now \in Nat /\ Now = clock + 1
  BY DEF DataOK, Now
<1>1. clock' \in Nat /\ clock <= clock'
  BY <1>0 DEF RowStep, KeepsAdmission, EndsAdmissions, SettlesAdmission,
              GrantsAdmission, ClockMoves
<1>2. DOMAIN fate' \subseteq 1..clock'
  <2>1. CASE KeepsAdmission
    BY <1>1, <2>1 DEF KeepsAdmission, DataOK
  <2>2. CASE EndsAdmissions
    BY <1>1, <2>2 DEF EndsAdmissions, ResolveOpen, DataOK
  <2>3. CASE SettlesAdmission
    BY <1>1, <2>3 DEF SettlesAdmission, Settle, DataOK
  <2>4. CASE GrantsAdmission
    BY <1>0, <1>1, <2>4 DEF GrantsAdmission, Grant, DataOK
  <2> QED
    BY <2>1, <2>2, <2>3, <2>4 DEF RowStep
<1>3. fate' \in [DOMAIN fate' -> {"open"} \cup Outcomes]
  <2>1. CASE KeepsAdmission
    BY <2>1 DEF KeepsAdmission, DataOK
  <2>2. CASE EndsAdmissions
    BY <2>2 DEF EndsAdmissions, ResolveOpen, DataOK
  <2>3. CASE SettlesAdmission
    BY <2>3 DEF SettlesAdmission, Settle, DataOK
  <2>4. CASE GrantsAdmission
    BY <2>4 DEF GrantsAdmission, Grant, DataOK
  <2> QED
    BY <2>1, <2>2, <2>3, <2>4 DEF RowStep
<1> QED
  BY <1>1, <1>2, <1>3 DEF DataOK, RowStep

LEMMA OpenStep ==
    ASSUME DataOK, OpenIffRunning, RowStep
    PROVE  OpenIffRunning'
<1>0. clock \in Nat /\ Now \in Nat /\ Now \notin DOMAIN fate
  BY DEF DataOK, Now
<1>1. CASE KeepsAdmission
  BY <1>1 DEF KeepsAdmission, OpenIffRunning
<1>2. CASE EndsAdmissions
  <2>1. PICK f \in Outcomes : ResolveOpen(f)
    BY <1>2 DEF EndsAdmissions
  <2>2. f # "open"
    BY DEF Outcomes
  <2> QED
    BY <1>2, <2>1, <2>2 DEF EndsAdmissions, ResolveOpen, OpenIffRunning
<1>3. CASE SettlesAdmission
  <2>1. PICK f \in Outcomes : Settle(row.started, f)
    BY <1>3 DEF SettlesAdmission
  <2>2. f # "open"
    BY DEF Outcomes
  <2> QED
    BY <1>3, <2>1, <2>2 DEF SettlesAdmission, Settle, OpenIffRunning, DataOK
<1>4. CASE GrantsAdmission
  BY <1>0, <1>4 DEF GrantsAdmission, Grant, OpenIffRunning, DataOK
<1> QED
  BY <1>1, <1>2, <1>3, <1>4 DEF RowStep

(* Every change of attempt is an EXCEPT of one slot, or a new cancelled.   *)
LEMMA SchedulerMemoryStep ==
    ASSUME DataOK, MemoryOK, Scheduler \/ SessionEnds
    PROVE  MemoryOK'
<1> USE DEF MemoryOK
<1>0. row \in Rows /\ row.requested \in Nat /\ row.started \in Nat /\ NoCopy \in Rows
  BY NoCopyType DEF DataOK, Rows
<1>1. \A ws \in SUBSET Workers : Cancelled(ws) \in [Workers -> Attempts]
  BY DEF Cancelled, Attempts
<1>2. CASE RecoverRunning \/ RecoverQueued
  BY <1>0, <1>2 DEF RecoverRunning, RecoverQueued, Ticks, QueueVars, WebVars
<1>3. CASE ApplyRecovery
  BY <1>1, <1>3 DEF ApplyRecovery, Ticks, QueueVars, WebVars
<1>4. CASE ReleaseRecovered
  BY <1>4 DEF ReleaseRecovered, Ticks, WebVars
<1>12. CASE PlanDue
  BY <1>0, <1>12 DEF PlanDue, Ticks, QueueVars, WebVars
<1>13. CASE PlanNothing
  BY <1>13 DEF PlanNothing, Ticks, QueueVars, WebVars
<1>11. CASE ReserveSlot
  <2>1. queued' \in BOOLEAN /\ tick' \in Ticks
    BY <1>11 DEF ReserveSlot, Ticks
  <2> QED
    BY <1>11, <2>1 DEF ReserveSlot, WebVars
<1>10. CASE PublishReserved
  <2>1. published' \in BOOLEAN
    BY <1>10, Zenon DEF PublishReserved
  <2>2. tick' \in Ticks
    BY <1>10 DEF PublishReserved, Ticks
  <2> QED
    BY <1>10, <2>1, <2>2 DEF PublishReserved, WebVars
<1>5. CASE AdmitQueued
  BY <1>5 DEF AdmitQueued, Ticks, QueueVars, WebVars
<1>6. CASE PatchCancelledQueued \/ ReadForForcedRetry \/ WriteForcedRetry
  BY <1>0, <1>6 DEF PatchCancelledQueued, ReadForForcedRetry, WriteForcedRetry,
                    Ticks, QueueVars, WebVars
<1>7. CASE CancelAttempts
  BY <1>1, <1>7 DEF CancelAttempts, Ticks, QueueVars, WebVars
<1>8. CASE NewSession
  BY <1>8 DEF NewSession, Sessions, Ticks, WebVars
<1>9. CASE SessionEnds
  BY <1>9 DEF SessionEnds, EndSession, Sessions, Ticks, WebVars
<1> QED
  BY <1>2, <1>3, <1>4, <1>5, <1>6, <1>7, <1>8, <1>9, <1>10, <1>11, <1>12, <1>13
     DEF Scheduler, TickOnLoop, TickInThread

LEMMA WebMemoryStep ==
    ASSUME DataOK, MemoryOK, Web \/ (\E reset \in BOOLEAN : CrashAndRestart(reset)) \/ TimePasses
    PROVE  MemoryOK'
<1> USE DEF MemoryOK, SchedulerVars, QueueVars, WebVars
<1>1. CASE Web
  BY <1>1 DEF Web, StopTarget, StartTarget, CheckScanOnce, RequestScanOnce
<1>2. ASSUME NEW reset \in BOOLEAN, CrashAndRestart(reset)
      PROVE  MemoryOK'
  <2>1. NoAttempt \in Attempts
    BY NoCopyType DEF NoAttempt, Attempts, Phases
  <2> QED
    BY <1>2, <2>1, NoCopyType DEF CrashAndRestart, Ticks, Sessions
<1>3. CASE TimePasses
  BY <1>3 DEF TimePasses
<1> QED
  BY <1>1, <1>2, <1>3

LEMMA AttemptMemoryStep ==
    ASSUME DataOK, MemoryOK, NEW w \in Workers,
           Attempt(w) \/ Heartbeat(w) \/ Mishap(w) \/ LateClaim(w)
    PROVE  MemoryOK'
<1> USE DEF MemoryOK, SchedulerVars, QueueVars, WebVars
<1>0. row \in Rows /\ Now \in Nat /\ NoCopy \in Rows
  BY NoCopyType DEF DataOK, Now
<1>1. \A p \in Phases : Go(w, p) => attempt' \in [Workers -> Attempts]
  BY DEF Go, Attempts
<1>2. {"none", "popped", "skipping", "admitting", "scanning", "cleanup"} \subseteq Phases
  BY DEF Phases
<1>3. CASE Pop(w)
  <2>1. attempt' \in [Workers -> Attempts]
    BY <1>1, <1>2, <1>3 DEF Pop
  <2>2. {NoKey} \subseteq Nat
    BY DEF NoKey
  <2>3. owner' = {NoKey} /\ published' = FALSE /\ queued' = FALSE
    BY <1>3 DEF Pop
  <2> QED
    BY <1>3, <2>1, <2>2, <2>3 DEF Pop
<1>10. CASE CheckActive(w) \/ PreparePage(w) \/ CommitScan(w) \/ RejectCommit(w)
            \/ Abandon(w) \/ LockRetry(w)
  <2>1. \E p \in Phases : Go(w, p)
    BY <1>2, <1>10
       DEF CheckActive, PreparePage, CommitScan, RejectCommit, Abandon, LockRetry
  <2>2. UNCHANGED <<SchedulerVars, QueueVars, late, WebVars>>
    BY <1>10
       DEF CheckActive, PreparePage, CommitScan, RejectCommit, Abandon, LockRetry
  <2> QED
    BY <1>1, <2>1, <2>2
<1>11. CASE CancelBeforeGuard(w)
  BY <1>1, <1>2, <1>11 DEF CancelBeforeGuard
<1>4. CASE CommitFailure(w) \/ CancelUnderGuard(w)
  BY <1>1, <1>2, <1>4 DEF CommitFailure, CancelUnderGuard, RecordFailure
<1>5. CASE ReadForIdle(w) \/ WriteIdle(w)
  BY <1>0, <1>5 DEF ReadForIdle, WriteIdle, Attempts, Phases
<1>6. CASE Claim(w)
  <2>1. CASE CanClaim(row)
    BY <1>0, <1>6, <2>1 DEF Claim, Attempts, Phases
  <2>2. CASE ~CanClaim(row)
    BY <1>1, <1>2, <1>6, <2>2 DEF Claim
  <2> QED
    BY <2>1, <2>2
<1>7. CASE BindOwner(w)
  BY <1>7 DEF BindOwner, Attempts, Phases
<1>8. CASE Heartbeat(w) \/ LateClaim(w)
  BY <1>8 DEF Heartbeat, LateClaim
<1>9. CASE Cleanup(w)
  BY <1>0, <1>9 DEF Cleanup, NoAttempt, Attempts, Phases
<1> QED
  BY <1>3, <1>4, <1>5, <1>6, <1>7, <1>8, <1>9, <1>10, <1>11
     DEF Attempt, AttemptOnLoop, AttemptInThread, Mishap

IInv == TypeOK /\ OpenIffRunning

LEMMA InitInv == Init => IInv
<1> SUFFICES ASSUME Init PROVE IInv
  OBVIOUS
<1>1. row \in Rows /\ row.status = "idle"
  BY FreshRowType DEF Init, Desired, FreshRow
<1>2. DOMAIN fate = {} /\ fate \in [DOMAIN fate -> {"open"} \cup Outcomes]
  BY DEF Init
<1>3. NoAttempt \in Attempts
  BY NoCopyType DEF NoAttempt, Attempts, Phases
<1>4. DataOK
  BY <1>1, <1>2 DEF Init, DataOK
<1>5. MemoryOK
  BY <1>3, NoCopyType DEF Init, MemoryOK, Ticks, Sessions
<1>6. OpenIffRunning
  BY <1>1, <1>2 DEF OpenIffRunning
<1> QED
  BY <1>4, <1>5, <1>6 DEF IInv, TypeOK

LEMMA NextInv == IInv /\ [Next]_vars => IInv'
<1> SUFFICES ASSUME IInv, [Next]_vars PROVE IInv'
  OBVIOUS
<1>1. RowStep
  BY NextRowStep DEF IInv
<1>2. DataOK' /\ OpenIffRunning'
  BY <1>1, DataStep, OpenStep DEF IInv, TypeOK
<1>3. MemoryOK'
  <2>1. CASE UNCHANGED vars
    BY <2>1 DEF vars, IInv, TypeOK, MemoryOK
  <2>2. CASE Next
    BY <2>2, WebMemoryStep, SchedulerMemoryStep, AttemptMemoryStep DEF Next, IInv, TypeOK
  <2> QED
    BY <2>1, <2>2
<1> QED
  BY <1>2, <1>3 DEF IInv, TypeOK

LEMMA InvHolds == Spec => []IInv
BY InitInv, NextInv, PTL DEF Spec

-----------------------------------------------------------------------------
(* The theorems.                                                           *)

(* The types of row, memory and history: in particular no write of any     *)
(* actor leaves the row with a value outside its columns' domains, and an  *)
(* admission is never dated after the last timestamp written.              *)
THEOREM TypeCorrect == Spec => []TypeOK
BY InvHolds, PTL DEF IInv

(* The row says running exactly while one admission is open, whatever the  *)
(* Web UI, recovery, a dying session or an unguarded write of an old copy  *)
(* do to it.                                                               *)
THEOREM AdmissionMatchesRow == Spec => []OpenIffRunning
BY InvHolds, PTL DEF IInv

(* Every step of the worker, the Web UI and the recovery is a step of the  *)
(* lease or leaves it alone: one admission at a time, and a revoked,       *)
(* expired or released admission never commits.                            *)
THEOREM LeaseRefinement == Spec => ImplementsLease
<1>1. Init => Lease!Init
  BY DEF Init, Lease!Init
<1>2. IInv /\ [Next]_vars => [Lease!Next]_fate
  <2> SUFFICES ASSUME IInv, [Next]_vars PROVE [Lease!Next]_fate
    OBVIOUS
  <2>0. DataOK /\ OpenIffRunning /\ RowStep
    BY NextRowStep DEF IInv, TypeOK
  <2>1. Lease!Open = IF row.status = "running" THEN {row.started} ELSE {}
    BY <2>0 DEF Lease!Open, OpenIffRunning
  <2>2. Outcomes = Lease!Fates \ {"open"}
    BY DEF Outcomes, Lease!Fates
  <2>3. CASE KeepsAdmission
    BY <2>3 DEF KeepsAdmission
  <2>4. CASE EndsAdmissions
    <3>1. PICK f \in Outcomes : ResolveOpen(f)
      BY <2>4 DEF EndsAdmissions
    <3>2. CASE Lease!Open = {}
      <4>1. fate' = fate
        BY <2>0, <3>1, <3>2 DEF ResolveOpen, Lease!Open, DataOK
      <4> QED
        BY <4>1
    <3>3. CASE Lease!Open # {}
      <4>1. Lease!Open = {row.started}
        BY <2>1, <3>3
      <4>2. fate' = [fate EXCEPT ![row.started] = f]
        BY <2>0, <3>1, <4>1 DEF ResolveOpen, Lease!Open, DataOK
      <4>3. Lease!Resolve(row.started, f)
        BY <4>1, <4>2 DEF Lease!Resolve
      <4> QED
        BY <2>2, <4>1, <4>3 DEF Lease!Next
    <3> QED
      BY <3>2, <3>3
  <2>5. CASE SettlesAdmission
    <3>1. PICK f \in Outcomes : Settle(row.started, f)
      BY <2>5 DEF SettlesAdmission
    <3>2. row.started \in Lease!Open
      BY <2>1, <2>5 DEF SettlesAdmission
    <3>3. Lease!Resolve(row.started, f)
      BY <3>1, <3>2 DEF Lease!Resolve, Settle
    <3> QED
      BY <2>2, <3>2, <3>3 DEF Lease!Next
  <2>6. CASE GrantsAdmission
    <3>1. Now \notin DOMAIN fate
      BY <2>0 DEF DataOK, Now
    <3>2. Lease!Grant(Now)
      BY <2>1, <2>6, <3>1 DEF GrantsAdmission, Grant, Lease!Grant
    <3>3. Now \in DOMAIN fate'
      BY <2>6 DEF GrantsAdmission, Grant
    <3> QED
      BY <3>2, <3>3 DEF Lease!Next
  <2> QED
    BY <2>0, <2>3, <2>4, <2>5, <2>6 DEF RowStep
<1> QED
  BY <1>1, <1>2, InvHolds, PTL DEF Spec, ImplementsLease, Lease!Spec

-----------------------------------------------------------------------------
(***************************************************************************)
(* Part two: the queue entry and the attempts of a target, for every       *)
(* number of worker slots, and the scan-once request.                      *)
(*                                                                         *)
(* The argument: the one entry of _running_target_owners names either the  *)
(* one attempt that has no admission yet, or an attempt with an admission; *)
(* tokens of admissions differ, so two attempts never share an entry; and  *)
(* an attempt that lost its entry was cancelled, or its admission is over  *)
(* before it reached its scan.                                             *)
(***************************************************************************)
-----------------------------------------------------------------------------
(* The inductive invariant.                                                *)

Busy(w) == ~At(w, {"none"})
Admitted(w) == attempt[w].registered \/ At(w, {"claimed"})

(* The stages of an attempt: it is registered from the binding of its      *)
(* entry on, and its token is that of an admission from the claim on.      *)
StagesOK ==
    \A w \in Workers :
        /\ attempt[w].registered => At(w, {"bound", "scanning", "cleanup"})
        /\ At(w, {"bound", "scanning"}) => attempt[w].registered
        /\ Admitted(w) => attempt[w].started \in DOMAIN fate

TokensDiffer ==
    \A v, w \in Workers :
        Admitted(v) /\ Admitted(w) /\ attempt[v].started = attempt[w].started => v = w

(* One entry at most; the attempt without a registration has it.           *)
EntryOK ==
    /\ \A j, k \in owner : j = k
    /\ queued => owner = {}
    /\ tick \in {"admit", "publish"} => queued /\ ~published
    /\ \A w \in Workers : Busy(w) /\ ~attempt[w].registered => owner = {NoKey}
    /\ \A v, w \in Workers :
          Busy(v) /\ Busy(w) /\ ~attempt[v].registered /\ ~attempt[w].registered => v = w

(* A scan that nobody cancelled has its entry; an attempt that lost it     *)
(* before its scan has lost its admission as well.                         *)
ScanHasEntry ==
    \A w \in Workers :
        /\ Running(w, {"scanning"}) => Key(w) \in owner
        /\ Running(w, {"bound"}) => Key(w) \in owner \/ fate[attempt[w].started] # "open"

(* Recovery drops the entry of an admission it has ended, after it has     *)
(* cancelled the scan.                                                     *)
RecoveryOK ==
    /\ tick \in {"apply", "release"} =>
          recovering \in DOMAIN fate /\ fate[recovering] # "open"
    /\ tick = "release" =>
          \A w \in Workers :
              At(w, {"scanning"}) /\ attempt[w].started = recovering => attempt[w].cancelled

(* No request is dated in the future, whichever copy of the row holds it.  *)
DatesOK ==
    /\ row.requested <= clock
    /\ staleCopy.requested <= clock
    /\ \A w \in Workers : attempt[w].copy.requested <= clock

(* A stopping session has nothing left that computes an idle row.          *)
StoppingOK ==
    /\ tick \in {"retryRead", "retryWrite"} => session = "restarting"
    /\ session = "stopping" =>
          /\ tick \in {"patchQueued", "cancel", "drain"}
          /\ ~published
          /\ \A w \in Workers : ~At(w, {"writing"})
    /\ session = "stopping" /\ tick = "drain" =>
          \A w \in Workers : Busy(w) => attempt[w].cancelled

EntryInv ==
    /\ StagesOK
    /\ TokensDiffer
    /\ EntryOK
    /\ QueueEntryHasOwner
    /\ ScanHasEntry
    /\ RecoveryOK

RequestInv == DatesOK /\ StoppingOK
-----------------------------------------------------------------------------
(* What a step may do to the history.                                      *)

FateKept ==
    /\ DOMAIN fate \subseteq DOMAIN fate'
    /\ \A t \in DOMAIN fate : fate[t] # "open" => fate'[t] # "open"

LEMMA FateStep ==
    ASSUME IInv, RowStep
    PROVE  FateKept
<1>0. clock \in Nat /\ Now \notin DOMAIN fate
  BY DEF IInv, TypeOK, DataOK, Now
<1>1. CASE KeepsAdmission
  BY <1>1 DEF KeepsAdmission, FateKept
<1>2. CASE EndsAdmissions
  <2>1. PICK f \in Outcomes : ResolveOpen(f)
    BY <1>2 DEF EndsAdmissions
  <2> QED
    BY <2>1 DEF ResolveOpen, FateKept
<1>3. CASE SettlesAdmission
  <2>1. PICK f \in Outcomes : Settle(row.started, f)
    BY <1>3 DEF SettlesAdmission
  <2>2. f # "open"
    BY DEF Outcomes
  <2> QED
    BY <2>1, <2>2 DEF Settle, FateKept
<1>4. CASE GrantsAdmission
  BY <1>0, <1>4 DEF GrantsAdmission, Grant, FateKept
<1> QED
  BY <1>1, <1>2, <1>3, <1>4 DEF RowStep

(* The admission the row shows is open.                                    *)
LEMMA OwnedIsOpen ==
    ASSUME IInv, row.status = "running"
    PROVE  row.started \in DOMAIN fate /\ fate[row.started] = "open"
BY DEF IInv, OpenIffRunning

LEMMA TokenIsPositive == IInv => \A t \in DOMAIN fate : t \in Nat /\ t # NoKey
BY DEF IInv, TypeOK, DataOK, NoKey

-----------------------------------------------------------------------------
(* The entry and the attempts: steps that leave the queue alone.           *)

QueueUntouched == UNCHANGED <<queued, published, owner, tick, recovering>>

LEMMA EntryUntouched ==
    ASSUME EntryInv, FateKept, QueueUntouched, UNCHANGED attempt
    PROVE  EntryInv'
<1> USE DEF At, Running, Key, Busy, Admitted, QueueUntouched
<1>1. StagesOK' /\ TokensDiffer'
  BY DEF EntryInv, StagesOK, TokensDiffer, FateKept
<1>2. EntryOK' /\ QueueEntryHasOwner'
  BY DEF EntryInv, EntryOK, QueueEntryHasOwner
<1>3. ScanHasEntry'
  BY DEF EntryInv, ScanHasEntry, StagesOK, FateKept
<1>4. RecoveryOK'
  BY DEF EntryInv, RecoveryOK, FateKept
<1> QED
  BY <1>1, <1>2, <1>3, <1>4 DEF EntryInv

(* An attempt goes on to another stage with the token it has.              *)
MovesOn(w) ==
    /\ Busy(w)
    /\ attempt' = [attempt EXCEPT ![w] = attempt'[w]]
    /\ attempt'[w].registered = attempt[w].registered
    /\ attempt'[w].started = attempt[w].started
    /\ attempt'[w].cancelled = attempt[w].cancelled
    /\ \/ /\ attempt[w].phase \in {"popped", "skipping", "writing", "admitting"}
          /\ attempt'[w].phase \in {"skipping", "writing", "admitting", "cleanup"}
       \/ attempt'[w].phase = "cleanup"
       \/ /\ attempt[w].phase = "bound" /\ ~attempt[w].cancelled
          /\ attempt'[w].phase = "scanning"
          /\ fate[attempt[w].started] = "open"

LEMMA EntryMovesOn ==
    ASSUME MemoryOK, EntryInv, FateKept, QueueUntouched, NEW w \in Workers, MovesOn(w)
    PROVE  EntryInv'
<1> USE DEF At, Running, Key, Busy, Admitted, QueueUntouched
<1>0. \A v \in Workers : v # w => attempt'[v] = attempt[v]
  BY DEF MovesOn, MemoryOK
<1>1. StagesOK'
  BY <1>0 DEF EntryInv, StagesOK, MovesOn, FateKept
<1>2. TokensDiffer'
  BY <1>0 DEF EntryInv, StagesOK, TokensDiffer, MovesOn
<1>3. EntryOK'
  BY <1>0 DEF EntryInv, EntryOK, MovesOn
<1>4. QueueEntryHasOwner'
  BY <1>0 DEF EntryInv, QueueEntryHasOwner, MovesOn
<1>5. ScanHasEntry'
  <2> SUFFICES ASSUME NEW v \in Workers
               PROVE  /\ Running(v, {"scanning"})' => (Key(v) \in owner)'
                      /\ Running(v, {"bound"})' =>
                            (Key(v) \in owner \/ fate[attempt[v].started] # "open")'
    BY DEF ScanHasEntry
  <2>1. CASE v # w
    BY <1>0, <2>1 DEF EntryInv, ScanHasEntry, StagesOK, FateKept
  <2>2. CASE v = w
    BY <2>2 DEF EntryInv, ScanHasEntry, MovesOn
  <2> QED
    BY <2>1, <2>2
<1>6. RecoveryOK'
  <2>1. tick \in {"apply", "release"} =>
            recovering \in DOMAIN fate' /\ fate'[recovering] # "open"
    BY DEF EntryInv, RecoveryOK, FateKept
  <2>2. ASSUME tick = "release", NEW v \in Workers,
               attempt'[v].phase = "scanning", attempt'[v].started = recovering
        PROVE  attempt'[v].cancelled
    <3>1. CASE v # w
      BY <1>0, <2>2, <3>1 DEF EntryInv, RecoveryOK
    <3>2. CASE v = w
      BY <2>2, <3>2 DEF EntryInv, RecoveryOK, MovesOn
    <3> QED
      BY <3>1, <3>2
  <2> QED
    BY <2>1, <2>2 DEF RecoveryOK
<1> QED
  BY <1>1, <1>2, <1>3, <1>4, <1>5, <1>6 DEF EntryInv

-----------------------------------------------------------------------------
(* The entry and the attempts: the steps that give the entry a new owner.  *)

LEMMA PopEntry ==
    ASSUME IInv, EntryInv, FateKept, NEW w \in Workers, Pop(w)
    PROVE  EntryInv'
<1> USE DEF At, Running, Key, Busy, Admitted
<1>0. /\ \A v \in Workers : v # w => attempt'[v] = attempt[v]
      /\ attempt'[w] = [attempt[w] EXCEPT !.phase = "popped"]
      /\ attempt[w].phase = "none" /\ ~attempt[w].registered
      /\ attempt'[w].phase = "popped" /\ ~attempt'[w].registered
      /\ UNCHANGED <<tick, recovering>>
  BY DEF Pop, Go, SchedulerVars, IInv, TypeOK, MemoryOK, Attempts, EntryInv, StagesOK
<1>1. published /\ ~published' /\ ~queued' /\ owner = {} /\ owner' = {NoKey}
  BY DEF Pop, EntryInv, QueueEntryHasOwner
<1>2. \A v \in Workers : attempt[v].phase # "none" => attempt[v].registered
  BY <1>1 DEF EntryInv, EntryOK
<1>8. StagesOK'
  BY <1>0 DEF EntryInv, StagesOK, FateKept
<1>3. TokensDiffer'
  <2>1. \A v \in Workers : Admitted(v)' => v # w /\ Admitted(v) /\ attempt'[v] = attempt[v]
    BY <1>0
  <2> QED
    BY <2>1 DEF EntryInv, TokensDiffer
<1>4. EntryOK'
  BY <1>0, <1>1, <1>2 DEF EntryInv, EntryOK
<1>5. QueueEntryHasOwner'
  BY <1>0, <1>1 DEF QueueEntryHasOwner
<1>6. ScanHasEntry'
  BY <1>0, <1>1 DEF EntryInv, ScanHasEntry, StagesOK, FateKept
<1>7. RecoveryOK'
  BY <1>0 DEF EntryInv, RecoveryOK, FateKept
<1> QED
  BY <1>3, <1>4, <1>5, <1>6, <1>7, <1>8 DEF EntryInv

LEMMA ClaimEntry ==
    ASSUME IInv, EntryInv, FateKept, NEW w \in Workers, Claim(w), CanClaim(row)
    PROVE  EntryInv'
<1> USE DEF At, Running, Key, Busy, Admitted
<1>0. /\ \A v \in Workers : v # w => attempt'[v] = attempt[v]
      /\ attempt[w].phase = "admitting" /\ ~attempt[w].registered
      /\ attempt'[w].phase = "claimed" /\ attempt'[w].started = Now
      /\ ~attempt'[w].registered
      /\ Now \in DOMAIN fate'
      /\ QueueUntouched
  BY DEF Claim, Grant, SchedulerVars, QueueVars, QueueUntouched, IInv, TypeOK, MemoryOK,
         Attempts, EntryInv, StagesOK
<1>1. Now \notin DOMAIN fate
  BY DEF IInv, TypeOK, DataOK, Now
<1>2. StagesOK'
  BY <1>0 DEF EntryInv, StagesOK, FateKept
<1>3. TokensDiffer'
  BY <1>0, <1>1 DEF EntryInv, StagesOK, TokensDiffer
<1>4. EntryOK' /\ QueueEntryHasOwner'
  BY <1>0 DEF EntryInv, EntryOK, QueueEntryHasOwner, QueueUntouched
<1>5. ScanHasEntry'
  BY <1>0 DEF EntryInv, ScanHasEntry, StagesOK, FateKept, QueueUntouched
<1>6. RecoveryOK'
  BY <1>0 DEF EntryInv, RecoveryOK, FateKept, QueueUntouched
<1> QED
  BY <1>2, <1>3, <1>4, <1>5, <1>6 DEF EntryInv

LEMMA BindEntry ==
    ASSUME IInv, EntryInv, FateKept, NEW w \in Workers, BindOwner(w)
    PROVE  EntryInv'
<1> USE DEF At, Running, Key, Busy, Admitted
<1>0. /\ \A v \in Workers : v # w => attempt'[v] = attempt[v]
      /\ attempt[w].phase = "claimed" /\ ~attempt[w].registered
      /\ attempt'[w].phase = "bound" /\ attempt'[w].registered
      /\ attempt'[w].started = attempt[w].started
      /\ UNCHANGED <<queued, published, tick, recovering>>
  BY DEF BindOwner, SchedulerVars, IInv, TypeOK, MemoryOK, Attempts, EntryInv, StagesOK
<1>1. owner = {NoKey} /\ owner' = {attempt[w].started}
  BY <1>0 DEF BindOwner, EntryInv, EntryOK
<1>2. ~queued /\ ~published /\ tick \notin {"admit", "publish"}
  BY <1>1 DEF EntryInv, EntryOK, QueueEntryHasOwner
<1>3. \A v \in Workers : attempt[v].registered => attempt[v].started # NoKey
  BY TokenIsPositive DEF EntryInv, StagesOK
<1>4. StagesOK' /\ TokensDiffer'
  BY <1>0 DEF EntryInv, StagesOK, TokensDiffer, FateKept
<1>5. EntryOK'
  BY <1>0, <1>1, <1>2 DEF EntryInv, EntryOK
<1>6. QueueEntryHasOwner'
  BY <1>0, <1>1, <1>2 DEF QueueEntryHasOwner
<1>7. ScanHasEntry'
  BY <1>0, <1>1, <1>3 DEF EntryInv, ScanHasEntry, StagesOK, FateKept
<1>8. RecoveryOK'
  BY <1>0 DEF EntryInv, RecoveryOK, FateKept
<1> QED
  BY <1>4, <1>5, <1>6, <1>7, <1>8 DEF EntryInv

LEMMA CleanupEntry ==
    ASSUME IInv, EntryInv, FateKept, NEW w \in Workers, Cleanup(w)
    PROVE  EntryInv'
<1> USE DEF At, Running, Key, Busy, Admitted
<1>0. /\ \A v \in Workers : v # w => attempt'[v] = attempt[v]
      /\ attempt[w].phase = "cleanup"
      /\ attempt'[w].phase = "none" /\ ~attempt'[w].registered
      /\ owner' = owner \ {Key(w)}
      /\ UNCHANGED <<queued, published, tick, recovering>>
  BY DEF Cleanup, NoAttempt, SchedulerVars, IInv, TypeOK, MemoryOK, Attempts
<1>1. \A v \in Workers : attempt[v].registered => attempt[v].started # NoKey
  BY TokenIsPositive DEF EntryInv, StagesOK
<1>2. \A v \in Workers : v # w /\ attempt[v].phase # "none" => Key(v) # Key(w)
  BY <1>0, <1>1 DEF EntryInv, TokensDiffer, EntryOK
<1>3. StagesOK' /\ TokensDiffer'
  BY <1>0 DEF EntryInv, StagesOK, TokensDiffer, FateKept
<1>4. EntryOK'
  <2>1. (\A j, k \in owner : j = k)' /\ (queued => owner = {})'
        /\ (tick \in {"admit", "publish"} => queued /\ ~published)'
    BY <1>0 DEF EntryInv, EntryOK
  <2>2. \A v, u \in Workers : (Busy(v) /\ Busy(u) /\ ~attempt[v].registered
                                /\ ~attempt[u].registered => v = u)'
    BY <1>0 DEF EntryInv, EntryOK
  <2>3. ASSUME NEW v \in Workers, Busy(v)', ~attempt'[v].registered
        PROVE  owner' = {NoKey}
    <3>1. v # w /\ attempt[v].phase # "none" /\ ~attempt[v].registered
      BY <1>0, <2>3
    <3>2. owner = {NoKey} /\ Key(v) = NoKey
      BY <3>1 DEF EntryInv, EntryOK
    <3> QED
      BY <1>0, <1>2, <3>1, <3>2
  <2> QED
    BY <2>1, <2>2, <2>3 DEF EntryOK
<1>5. QueueEntryHasOwner'
  <2>1. ASSUME NEW k \in owner'
        PROVE  \E v \in Workers : (Busy(v) /\ Key(v) = k)'
    <3>1. PICK v \in Workers : attempt[v].phase # "none" /\ Key(v) = k
      BY <1>0, <2>1 DEF EntryInv, QueueEntryHasOwner
    <3>2. v # w
      BY <1>0, <2>1, <3>1
    <3> QED
      BY <1>0, <3>1, <3>2
  <2>2. (queued => published \/ tick \in {"admit", "publish"})'
        /\ (published => queued /\ owner = {})'
    BY <1>0 DEF EntryInv, QueueEntryHasOwner
  <2> QED
    BY <2>1, <2>2 DEF QueueEntryHasOwner
<1>6. ScanHasEntry'
  BY <1>0, <1>2 DEF EntryInv, ScanHasEntry, StagesOK, FateKept
<1>7. RecoveryOK'
  BY <1>0 DEF EntryInv, RecoveryOK, FateKept
<1> QED
  BY <1>3, <1>4, <1>5, <1>6, <1>7 DEF EntryInv

(* Every other step of an attempt moves it on.                             *)
LEMMA AttemptMovesOn ==
    ASSUME IInv, EntryInv, NEW w \in Workers,
           \/ CheckActive(w) \/ ReadForIdle(w) \/ WriteIdle(w) \/ PreparePage(w)
           \/ CommitScan(w) \/ CommitFailure(w) \/ RejectCommit(w) \/ Mishap(w)
           \/ CancelBeforeGuard(w) \/ CancelUnderGuard(w)
           \/ (Claim(w) /\ ~CanClaim(row))
    PROVE  MovesOn(w) /\ QueueUntouched
<1> USE DEF At, Running, Busy, QueueUntouched, QueueVars, SchedulerVars
<1>0. attempt \in [Workers -> Attempts]
  BY DEF IInv, TypeOK, MemoryOK
<1>1. ASSUME NEW p, Go(w, p)
      PROVE  /\ attempt' = [attempt EXCEPT ![w] = attempt'[w]]
             /\ attempt'[w].phase = p
             /\ attempt'[w].registered = attempt[w].registered
             /\ attempt'[w].started = attempt[w].started
             /\ attempt'[w].cancelled = attempt[w].cancelled
  BY <1>0, <1>1 DEF Go, Attempts
<1>2. CASE CheckActive(w)
  <2>1. Go(w, "admitting") \/ Go(w, "skipping")
    BY <1>2 DEF CheckActive
  <2> QED
    BY <1>1, <1>2, <2>1 DEF CheckActive, MovesOn
<1>3. CASE ReadForIdle(w) \/ WriteIdle(w)
  BY <1>0, <1>3 DEF ReadForIdle, WriteIdle, MovesOn, Attempts
<1>4. ASSUME Go(w, "cleanup"), Busy(w)
      PROVE  MovesOn(w)
  BY <1>1, <1>4 DEF MovesOn
<1>5. CASE PreparePage(w)
  <2>1. CASE Go(w, "cleanup")
    BY <1>4, <1>5, <2>1 DEF PreparePage
  <2>2. CASE Owns(w) /\ Go(w, "scanning")
    <3>1. fate[attempt[w].started] = "open"
      BY <2>2, OwnedIsOpen DEF Owns, OwnedBy
    <3>2. attempt[w].phase = "bound" /\ ~attempt[w].cancelled /\ QueueUntouched
      BY <1>5 DEF PreparePage
    <3>3. attempt'[w].phase = "scanning"
      BY <1>1, <2>2
    <3> QED
      BY <1>1, <2>2, <3>1, <3>2, <3>3 DEF MovesOn
  <2> QED
    BY <1>5, <2>1, <2>2 DEF PreparePage
<1>6. CASE CommitScan(w) \/ CommitFailure(w) \/ RejectCommit(w) \/ Mishap(w)
  BY <1>4, <1>6 DEF CommitScan, CommitFailure, RecordFailure, RejectCommit, Mishap, Abandon,
                    LockRetry
<1>7. CASE CancelBeforeGuard(w) \/ CancelUnderGuard(w)
  BY <1>4, <1>7 DEF CancelBeforeGuard, CancelUnderGuard, RecordFailure
<1>8. CASE Claim(w) /\ ~CanClaim(row)
  BY <1>4, <1>8 DEF Claim
<1> QED
  BY <1>2, <1>3, <1>5, <1>6, <1>7, <1>8

LEMMA AttemptEntryStep ==
    ASSUME IInv, EntryInv, FateKept, NEW w \in Workers,
           Attempt(w) \/ Heartbeat(w) \/ Mishap(w) \/ LateClaim(w)
    PROVE  EntryInv'
<1>0. MemoryOK
  BY DEF IInv, TypeOK
<1>1. CASE Heartbeat(w) \/ LateClaim(w)
  BY <1>1, EntryUntouched DEF Heartbeat, LateClaim, QueueUntouched, QueueVars, SchedulerVars
<1>2. CASE Pop(w) \/ BindOwner(w) \/ Cleanup(w)
  BY <1>2, PopEntry, BindEntry, CleanupEntry
<1>3. CASE Claim(w) /\ CanClaim(row)
  BY <1>3, ClaimEntry
<1>4. CASE MovesOn(w) /\ QueueUntouched
  BY <1>0, <1>4, EntryMovesOn
<1> QED
  BY <1>1, <1>2, <1>3, <1>4, AttemptMovesOn
     DEF Attempt, AttemptOnLoop, AttemptInThread, Mishap

-----------------------------------------------------------------------------
(* The entry and the attempts: the scheduler, a session end, a crash.      *)

(* All attempts are gone and the queue is empty.                           *)
LEMMA EntryReset ==
    ASSUME \A w \in Workers : attempt'[w].phase = "none" /\ ~attempt'[w].registered,
           owner' = {}, ~queued', ~published', tick' = "recover"
    PROVE  EntryInv'
BY DEF At, Running, Key, Busy, Admitted, EntryInv, StagesOK, TokensDiffer, EntryOK,
       QueueEntryHasOwner, ScanHasEntry, RecoveryOK

(* Only the place of the scheduler changes, away from those the invariant  *)
(* speaks of.                                                              *)
LEMMA EntryTick ==
    ASSUME EntryInv, FateKept, UNCHANGED <<queued, published, owner, attempt>>,
           tick \notin {"admit", "publish"},
           tick' \notin {"admit", "publish", "apply", "release"}
    PROVE  EntryInv'
<1> USE DEF At, Running, Key, Busy, Admitted
<1>1. StagesOK' /\ TokensDiffer'
  BY DEF EntryInv, StagesOK, TokensDiffer, FateKept
<1>2. EntryOK' /\ QueueEntryHasOwner' /\ RecoveryOK'
  BY DEF EntryInv, EntryOK, QueueEntryHasOwner, RecoveryOK
<1>3. ScanHasEntry'
  BY DEF EntryInv, ScanHasEntry, StagesOK, FateKept
<1> QED
  BY <1>1, <1>2, <1>3 DEF EntryInv

(* Attempts are cancelled.                                                 *)
LEMMA EntryCancelled ==
    ASSUME IInv, EntryInv, FateKept, UNCHANGED <<queued, published, owner>>,
           NEW ws \in SUBSET Workers, attempt' = Cancelled(ws),
           tick \notin {"admit", "publish"}, tick' \notin {"admit", "publish"},
           RecoveryOK'
    PROVE  EntryInv'
<1> USE DEF At, Running, Key, Busy, Admitted
<1>0. \A w \in Workers : /\ attempt'[w].phase = attempt[w].phase
                         /\ attempt'[w].registered = attempt[w].registered
                         /\ attempt'[w].started = attempt[w].started
                         /\ attempt[w].cancelled => attempt'[w].cancelled
  BY DEF Cancelled, IInv, TypeOK, MemoryOK, Attempts
<1>1. StagesOK' /\ TokensDiffer'
  BY <1>0 DEF EntryInv, StagesOK, TokensDiffer, FateKept
<1>2. EntryOK' /\ QueueEntryHasOwner'
  BY <1>0 DEF EntryInv, EntryOK, QueueEntryHasOwner
<1>3. ScanHasEntry'
  BY <1>0 DEF EntryInv, ScanHasEntry, StagesOK, FateKept
<1> QED
  BY <1>1, <1>2, <1>3 DEF EntryInv

LEMMA RecoverRunningEntry ==
    ASSUME IInv, EntryInv, FateKept, RecoverRunning
    PROVE  EntryInv'
<1> USE DEF At, Running, Key, Busy, Admitted
<1>0. /\ tick \notin {"admit", "publish"} /\ tick' = "apply"
      /\ recovering' = row.started
      /\ UNCHANGED <<queued, published, owner, attempt>>
  BY DEF RecoverRunning, QueueVars
<1>1. recovering' \in DOMAIN fate' /\ fate'[recovering'] # "open"
  <2>1. row.started \in DOMAIN fate
    BY OwnedIsOpen DEF RecoverRunning, StaleRunning
  <2>2. fate' = [t \in DOMAIN fate |-> IF fate[t] = "open" THEN "expired" ELSE fate[t]]
    BY DEF RecoverRunning, ResolveOpen
  <2> QED
    BY <1>0, <2>1, <2>2
<1>2. StagesOK' /\ TokensDiffer'
  BY <1>0 DEF EntryInv, StagesOK, TokensDiffer, FateKept
<1>3. EntryOK' /\ QueueEntryHasOwner'
  BY <1>0 DEF EntryInv, EntryOK, QueueEntryHasOwner
<1>4. ScanHasEntry'
  BY <1>0 DEF EntryInv, ScanHasEntry, StagesOK, FateKept
<1>5. RecoveryOK'
  BY <1>0, <1>1 DEF RecoveryOK
<1> QED
  BY <1>2, <1>3, <1>4, <1>5 DEF EntryInv

(* The recovered scan is cancelled; a claim of the same admission that is  *)
(* not bound yet is not, but it has lost its admission.                    *)
LEMMA ApplyRecoveryEntry ==
    ASSUME IInv, EntryInv, FateKept, ApplyRecovery
    PROVE  EntryInv'
<1> DEFINE ws == {w \in Workers : attempt[w].registered /\ attempt[w].started = recovering}
<1>0. /\ tick = "apply" /\ tick' = "release"
      /\ attempt' = Cancelled(ws)
      /\ UNCHANGED <<queued, published, owner, recovering>>
  BY DEF ApplyRecovery, QueueVars
<1>1. \A w \in Workers : /\ attempt'[w].phase = attempt[w].phase
                         /\ attempt'[w].started = attempt[w].started
                         /\ w \in ws => attempt'[w].cancelled
  BY <1>0 DEF Cancelled, IInv, TypeOK, MemoryOK, Attempts
<1>2. RecoveryOK'
  BY <1>0, <1>1 DEF EntryInv, RecoveryOK, StagesOK, FateKept, At
<1> QED
  BY <1>0, <1>2, EntryCancelled

LEMMA ReleaseRecoveredEntry ==
    ASSUME IInv, EntryInv, FateKept, ReleaseRecovered
    PROVE  EntryInv'
<1> USE DEF At, Running, Key, Busy, Admitted
<1>0. /\ tick = "release" /\ tick' = "plan"
      /\ owner' = owner \ {recovering}
      /\ UNCHANGED <<queued, published, attempt, fate>>
  BY DEF ReleaseRecovered
<1>1. recovering \in DOMAIN fate /\ fate[recovering] # "open" /\ recovering # NoKey
  BY <1>0, TokenIsPositive DEF EntryInv, RecoveryOK
<1>2. StagesOK' /\ TokensDiffer'
  BY <1>0 DEF EntryInv, StagesOK, TokensDiffer
<1>3. EntryOK'
  BY <1>0, <1>1 DEF EntryInv, EntryOK
<1>4. QueueEntryHasOwner'
  BY <1>0 DEF EntryInv, QueueEntryHasOwner
<1>5. ScanHasEntry'
  <2> SUFFICES ASSUME NEW w \in Workers, ~attempt[w].cancelled
               PROVE  /\ attempt[w].phase = "scanning" => Key(w) \in owner'
                      /\ attempt[w].phase = "bound" =>
                            Key(w) \in owner' \/ fate[attempt[w].started] # "open"
    BY <1>0 DEF ScanHasEntry
  <2>1. attempt[w].phase \in {"bound", "scanning"} => Key(w) = attempt[w].started
    BY DEF EntryInv, StagesOK
  <2>2. attempt[w].phase = "scanning" => attempt[w].started # recovering
    BY <1>0 DEF EntryInv, RecoveryOK
  <2> QED
    BY <1>0, <1>1, <2>1, <2>2 DEF EntryInv, ScanHasEntry
<1>6. RecoveryOK'
  BY <1>0 DEF RecoveryOK
<1> QED
  BY <1>2, <1>3, <1>4, <1>5, <1>6 DEF EntryInv

(* The reserved place: taken when the queue has nothing of the target,     *)
(* then put in the queue or given back.                                    *)
LEMMA PlaceEntry ==
    ASSUME IInv, EntryInv, FateKept, ReserveSlot \/ AdmitQueued \/ PublishReserved
    PROVE  EntryInv'
<1> USE DEF At, Running, Key, Busy, Admitted
<1>0. UNCHANGED <<owner, attempt>> /\ tick' \notin {"apply", "release"}
  BY DEF ReserveSlot, AdmitQueued, PublishReserved
<1>1. StagesOK' /\ TokensDiffer'
  BY <1>0 DEF EntryInv, StagesOK, TokensDiffer, FateKept
<1>2. ScanHasEntry' /\ RecoveryOK'
  BY <1>0 DEF EntryInv, ScanHasEntry, StagesOK, RecoveryOK, FateKept
<1>3. CASE ReserveSlot
  <2>1. /\ published' = published /\ tick = "reserve"
        /\ \/ tick' = "rest" /\ queued' = queued
           \/ ~queued /\ owner = {} /\ tick' = "admit" /\ queued' = TRUE
    BY <1>3 DEF ReserveSlot
  <2> QED
    BY <1>0, <1>1, <1>2, <2>1 DEF EntryInv, EntryOK, QueueEntryHasOwner
<1>4. CASE AdmitQueued
  <2>1. /\ published' = published /\ tick = "admit"
        /\ \/ tick' = "publish" /\ queued' = queued
           \/ tick' = "rest" /\ queued' = (owner # {} /\ queued)
    BY <1>4 DEF AdmitQueued
  <2>2. queued /\ ~published /\ owner = {}
    BY <2>1 DEF EntryInv, EntryOK
  <2>3. /\ ~published'
        /\ \/ tick' = "publish" /\ queued'
           \/ tick' = "rest" /\ ~queued'
    BY <2>1, <2>2, Zenon
  <2> QED
    BY <1>0, <1>1, <1>2, <2>2, <2>3 DEF EntryInv, EntryOK, QueueEntryHasOwner
<1>5. CASE PublishReserved
  <2>1. tick = "publish" /\ tick' = "rest" /\ queued' = queued /\ published' = queued
    BY <1>5, Zenon DEF PublishReserved
  <2>2. queued /\ owner = {}
    BY <2>1 DEF EntryInv, EntryOK
  <2> QED
    BY <1>0, <1>1, <1>2, <2>1, <2>2 DEF EntryInv, EntryOK, QueueEntryHasOwner
<1> QED
  BY <1>3, <1>4, <1>5

LEMMA SessionEndEntry ==
    ASSUME IInv, EntryInv, FateKept, SessionEnds
    PROVE  EntryInv'
<1> USE DEF At, Running, Key, Busy, Admitted
<1>1. PICK kind : EndSession(kind)
  BY DEF SessionEnds
<1>2. CASE kind = "ending"
  BY <1>1, <1>2, EntryTick DEF EndSession
<1>3. CASE kind # "ending"
  <2>1. /\ UNCHANGED <<owner, attempt>>
        /\ tick = "rest" /\ tick' \in {"cancel", "retryRead", "patchQueued"}
        /\ ~published'
    BY <1>1, <1>3 DEF EndSession
  <2>2. queued' = (queued /\ ~published)
    BY <1>1, <1>3, Zenon DEF EndSession
  <2>3. ~queued'
    BY <2>1, <2>2 DEF EntryInv, QueueEntryHasOwner
  <2>4. StagesOK' /\ TokensDiffer'
    BY <2>1 DEF EntryInv, StagesOK, TokensDiffer, FateKept
  <2>5. EntryOK' /\ QueueEntryHasOwner' /\ RecoveryOK'
    BY <2>1, <2>3 DEF EntryInv, EntryOK, QueueEntryHasOwner, RecoveryOK
  <2>6. ScanHasEntry'
    BY <2>1 DEF EntryInv, ScanHasEntry, StagesOK, FateKept
  <2> QED
    BY <2>4, <2>5, <2>6 DEF EntryInv
<1> QED
  BY <1>2, <1>3

LEMMA SchedulerEntryStep ==
    ASSUME IInv, EntryInv, FateKept, Scheduler \/ SessionEnds
    PROVE  EntryInv'
<1>1. CASE RecoverRunning \/ ApplyRecovery \/ ReleaseRecovered \/ SessionEnds
  BY <1>1, RecoverRunningEntry, ApplyRecoveryEntry, ReleaseRecoveredEntry, SessionEndEntry
<1>2. CASE ReserveSlot \/ AdmitQueued \/ PublishReserved
  BY <1>2, PlaceEntry
<1>3. CASE RecoverQueued \/ PlanDue \/ PlanNothing
  BY <1>3, EntryTick DEF RecoverQueued, PlanDue, PlanNothing, QueueVars
<1>4. CASE PatchCancelledQueued \/ ReadForForcedRetry \/ WriteForcedRetry
  BY <1>4, EntryTick DEF PatchCancelledQueued, ReadForForcedRetry, WriteForcedRetry, QueueVars
<1>5. CASE CancelAttempts
  <2>1. PICK ws \in SUBSET Workers : attempt' = Cancelled(ws)
    BY <1>5 DEF CancelAttempts
  <2>2. tick = "cancel" /\ tick' = "drain" /\ UNCHANGED <<queued, published, owner>>
    BY <1>5 DEF CancelAttempts, QueueVars
  <2>3. RecoveryOK'
    BY <2>2 DEF RecoveryOK
  <2> QED
    BY <2>1, <2>2, <2>3, EntryCancelled
<1>6. CASE NewSession
  <2>1. \A w \in Workers : attempt'[w].phase = "none" /\ ~attempt'[w].registered
    BY <1>6 DEF NewSession, EntryInv, StagesOK, At
  <2>2. owner' = {} /\ ~queued' /\ ~published' /\ tick' = "recover"
    BY <1>6 DEF NewSession
  <2> QED
    BY <2>1, <2>2, EntryReset
<1> QED
  BY <1>1, <1>2, <1>3, <1>4, <1>5, <1>6 DEF Scheduler, TickOnLoop, TickInThread

LEMMA WebEntryStep ==
    ASSUME IInv, EntryInv, FateKept,
           Web \/ (\E reset \in BOOLEAN : CrashAndRestart(reset)) \/ TimePasses
    PROVE  EntryInv'
<1>1. CASE Web \/ TimePasses
  BY <1>1, EntryUntouched
     DEF Web, StopTarget, StartTarget, CheckScanOnce, RequestScanOnce, TimePasses,
         QueueUntouched, QueueVars, SchedulerVars
<1>2. ASSUME NEW reset \in BOOLEAN, CrashAndRestart(reset)
      PROVE  EntryInv'
  <2>1. \A w \in Workers : attempt'[w].phase = "none" /\ ~attempt'[w].registered
    BY <1>2 DEF CrashAndRestart, NoAttempt
  <2>2. owner' = {} /\ ~queued' /\ ~published' /\ tick' = "recover"
    BY <1>2 DEF CrashAndRestart
  <2> QED
    BY <2>1, <2>2, EntryReset
<1> QED
  BY <1>1, <1>2

LEMMA InitEntry == Init => EntryInv
<1> SUFFICES ASSUME Init PROVE EntryInv
  OBVIOUS
<1>1. \A w \in Workers : attempt[w].phase = "none" /\ ~attempt[w].registered
  BY DEF Init, NoAttempt
<1> QED
  BY <1>1 DEF Init, At, Running, Key, Busy, Admitted, EntryInv, StagesOK, TokensDiffer, EntryOK,
              QueueEntryHasOwner, ScanHasEntry, RecoveryOK

LEMMA NextEntry == IInv /\ EntryInv /\ [Next]_vars => EntryInv'
<1> SUFFICES ASSUME IInv, EntryInv, [Next]_vars PROVE EntryInv'
  OBVIOUS
<1>1. FateKept
  BY NextRowStep, FateStep DEF IInv
<1>2. CASE UNCHANGED vars
  BY <1>1, <1>2, EntryUntouched DEF vars, QueueUntouched
<1>3. CASE Next
  BY <1>1, <1>3, WebEntryStep, SchedulerEntryStep, AttemptEntryStep DEF Next
<1> QED
  BY <1>2, <1>3

LEMMA EntryInvHolds == Spec => []EntryInv
BY InvHolds, InitEntry, NextEntry, PTL DEF Spec

-----------------------------------------------------------------------------
(* The entry: theorems.                                                    *)

(* However claims, bindings, recovery, session ends and crashes interleave *)
(* and however many slots there are, two attempts that nobody cancelled    *)
(* never scan the target at the same time.                                 *)
THEOREM OneScanAtATime == Spec => []SingleFlight
<1>1. EntryInv => SingleFlight
  BY DEF EntryInv, EntryOK, ScanHasEntry, TokensDiffer, StagesOK, SingleFlight,
         Admitted, Running, At, Key
<1> QED
  BY <1>1, EntryInvHolds, PTL

(* The in-memory queue never keeps a target out for good: a running entry  *)
(* belongs to an attempt whose cleanup removes it, and a reserved place is *)
(* in the queue or in the hands of the scheduler.                          *)
THEOREM EntryHasOwner == Spec => []QueueEntryHasOwner
BY EntryInvHolds, PTL DEF EntryInv

-----------------------------------------------------------------------------
(* What the row operators do to the request.                               *)

LEMMA NoCopyRequest == NoCopy.requested = 0
BY DEF NoCopy, FreshRow

LEMMA IdleRequest ==
    ASSUME NEW r \in Rows
    PROVE  IdleRow(r).requested <= r.requested /\ IdleRow(r).desired = r.desired
<1>1. r.requested \in Nat /\ RequestAfterAttempt(r) \in {0, r.requested}
  BY DEF RequestAfterAttempt, Rows
<1> QED
  BY <1>1 DEF IdleRow, Released, Rows

LEMMA FailureRequest ==
    ASSUME NEW r \in Rows, NEW now \in Nat, NEW b \in BOOLEAN, r.requested <= now
    PROVE  /\ RetriableFailureRow(r, b, now).requested <= now
           /\ ErrorRow(r).requested <= now
           /\ RetriableFailureRow(r, b, now).desired = r.desired
           /\ ErrorRow(r).desired = r.desired
<1>1. IdleRow(r) \in Rows /\ r.requested \in Nat
  BY IdleRowType DEF Rows
<1>2. IdleRow(r).requested <= now /\ IdleRow(r).requested \in Nat
  BY <1>1, IdleRequest DEF Rows
<1> QED
  BY <1>1, <1>2, IdleRequest DEF RetriableFailureRow, ErrorRow, Rows

(* The request of a running row survives every write that preserves it.    *)
Preserves(old, new) ==
    new.desired # "active" \/ (old.requested > old.started => new.requested = old.requested)

LEMMA PreservingKeeps ==
    ASSUME NEW r \in Rows, NEW s \in Rows, NEW now \in Nat,
           r.requested <= now, s.requested <= now
    PROVE  /\ Preserves(r, PreservingRequest(r, s))
           /\ PreservingRequest(r, s).requested <= now
BY DEF Preserves, PreservingRequest, Rows

(* A step that is fair to the request in one of four ways.                 *)
Keeps    == row'.requested >= row.requested
Stops    == row'.desired # "active"
Commits  == /\ row.status = "running"
            /\ row.started \in DOMAIN fate'
            /\ fate'[row.started] = "committed"
            /\ Preserves(row, row')
Replaces == session # "stopping" /\ (row.status = "running" => Preserves(row, row'))

RequestStep ==
    /\ row'.requested <= clock'
    /\ Keeps \/ Stops \/ Commits \/ Replaces

LEMMA RequestStepKeeps ==
    ASSUME row \in Rows, row' \in Rows, RequestStep
    PROVE  KeepsLaterRequest /\ KeepsUnansweredRequest
<1>0. row.requested \in Nat /\ row'.requested \in Nat /\ row.started \in Nat
  BY DEF Rows
<1>1. CASE Keeps \/ Stops
  BY <1>0, <1>1 DEF Keeps, Stops, KeepsLaterRequest, KeepsUnansweredRequest
<1>2. CASE Commits
  BY <1>0, <1>2 DEF Commits, Preserves, KeepsLaterRequest, KeepsUnansweredRequest
<1>3. CASE Replaces
  BY <1>0, <1>3 DEF Replaces, Preserves, KeepsLaterRequest, KeepsUnansweredRequest
<1> QED
  BY <1>1, <1>2, <1>3 DEF RequestStep

-----------------------------------------------------------------------------
(* Every step is such a step.                                              *)

LEMMA SameRequest ==
    ASSUME IInv, DatesOK, ClockMoves, row'.requested = row.requested
    PROVE  RequestStep
BY DEF IInv, TypeOK, DataOK, DatesOK, Rows, Now, ClockMoves, RequestStep, Keeps

LEMMA NewRequest ==
    ASSUME IInv, DatesOK, Stamp, row'.requested = Now
    PROVE  RequestStep
BY DEF IInv, TypeOK, DataOK, DatesOK, Rows, Now, Stamp, RequestStep, Keeps

LEMMA WebRequestStep ==
    ASSUME IInv, DatesOK,
           Web \/ (\E reset \in BOOLEAN : CrashAndRestart(reset)) \/ TimePasses
    PROVE  RequestStep
<1>0. row \in Rows /\ clock \in Nat
  BY DEF IInv, TypeOK, DataOK
<1>1. ASSUME row' = FreshRow("stopped"), UNCHANGED clock
      PROVE  RequestStep
  BY <1>0, <1>1 DEF FreshRow, RequestStep, Stops
<1>2. CASE StopTarget
  BY <1>1, <1>2 DEF StopTarget
<1>3. CASE StartTarget
  BY <1>3, NewRequest DEF StartTarget, RestartedRow, FreshRow
<1>4. CASE CheckScanOnce
  BY <1>4, SameRequest DEF CheckScanOnce, ClockMoves
<1>5. CASE RequestScanOnce
  <2>1. CASE NewWorkAllowed
    BY <1>0, <1>5, <2>1, NewRequest DEF RequestScanOnce, RequestedRow, Rows
  <2>2. CASE ~NewWorkAllowed
    BY <1>5, <2>2, SameRequest DEF RequestScanOnce, ClockMoves
  <2> QED
    BY <2>1, <2>2
<1>6. ASSUME NEW reset \in BOOLEAN, CrashAndRestart(reset)
      PROVE  RequestStep
  BY <1>1, <1>6, SameRequest DEF CrashAndRestart, ClockMoves
<1>7. CASE TimePasses
  BY <1>0, <1>7, SameRequest DEF TimePasses, ClockMoves, Rows
<1> QED
  BY <1>2, <1>3, <1>4, <1>5, <1>6, <1>7 DEF Web

LEMMA RecoverRunningRequest ==
    ASSUME IInv, DatesOK, RecoverRunning
    PROVE  RequestStep
<1>0. row \in Rows /\ clock \in Nat /\ Now \in Nat /\ row.requested <= clock
      /\ row.requested <= Now
  BY DEF IInv, TypeOK, DataOK, DatesOK, Now, Rows
<1>1. PICK b \in BOOLEAN, now \in {clock, Now} :
         row' = RecoveredRunningRow(row, b, now) /\ clock' = now
  BY DEF RecoverRunning, Stamp
<1>2. PICK s \in Rows : row' = PreservingRequest(row, s) /\ s.requested <= now
  <2> DEFINE stopped == [Released(row) EXCEPT !.requested = 0]
  <2>1. Released(row) \in Rows /\ now \in Nat
    BY <1>0, RowType
  <2>2. stopped \in Rows /\ stopped.requested <= now
    <3>1. stopped.requested = 0
      BY <2>1 DEF Rows
    <3>2. stopped \in Rows
      BY <2>1 DEF Rows
    <3> QED
      BY <2>1, <3>1, <3>2
  <2>3. /\ ErrorRow(row) \in Rows /\ ErrorRow(row).requested <= now
        /\ RetriableFailureRow(row, TRUE, now) \in Rows
        /\ RetriableFailureRow(row, TRUE, now).requested <= now
    BY <1>0, FailureRowType, FailureRequest
  <2>4. \E s \in {stopped, ErrorRow(row), RetriableFailureRow(row, TRUE, now)} :
           row' = PreservingRequest(row, s)
    BY <1>1 DEF RecoveredRunningRow
  <2> HIDE DEF stopped
  <2>5. CASE row' = PreservingRequest(row, stopped)
    BY <2>2, <2>5
  <2>6. CASE row' = PreservingRequest(row, ErrorRow(row))
    BY <2>3, <2>6
  <2>7. CASE row' = PreservingRequest(row, RetriableFailureRow(row, TRUE, now))
    BY <2>3, <2>7
  <2> QED
    BY <2>4, <2>5, <2>6, <2>7
<1>3. Preserves(row, row') /\ row'.requested <= clock'
  BY <1>0, <1>1, <1>2, PreservingKeeps
<1> QED
  BY <1>3 DEF RecoverRunning, RequestStep, Replaces

LEMMA SchedulerRequestStep ==
    ASSUME IInv, DatesOK, StoppingOK, Scheduler \/ SessionEnds
    PROVE  RequestStep
<1>0. row \in Rows /\ clock \in Nat /\ staleCopy \in Rows /\ row.requested <= clock
  BY DEF IInv, TypeOK, DataOK, MemoryOK, DatesOK
<1>1. CASE RecoverRunning
  BY <1>1, RecoverRunningRequest
<1>2. CASE RecoverQueued
  <2>1. row'.requested = row.requested
    BY <1>0, <1>2 DEF RecoverQueued, Released, Rows
  <2> QED
    BY <1>2, <2>1, SameRequest DEF RecoverQueued, ClockMoves
<1>3. CASE AdmitQueued
  <2>1. CASE CanQueue(row)
    <3>1. row'.requested \in {0, row.requested}
      BY <1>0, <1>3, <2>1 DEF AdmitQueued, QueuedRow, ConsumeRequest, Rows
    <3>2. clock' = clock + 1 /\ row.status = "idle" /\ session # "stopping"
      BY <1>3, <2>1 DEF AdmitQueued, Stamp, Now, CanQueue, StoppingOK
    <3>3. row'.requested <= clock'
      BY <1>0, <3>1, <3>2 DEF Rows
    <3> QED
      BY <3>2, <3>3 DEF RequestStep, Replaces
  <2>2. CASE ~CanQueue(row)
    BY <1>3, <2>2, SameRequest DEF AdmitQueued, ClockMoves
  <2> QED
    BY <2>1, <2>2
<1>4. CASE PatchCancelledQueued
  <2>1. row'.requested = row.requested
    BY <1>0, <1>4 DEF PatchCancelledQueued, ReleaseIfQueued, Released, Rows
  <2> QED
    BY <1>4, <2>1, SameRequest DEF PatchCancelledQueued, ClockMoves
<1>5. CASE WriteForcedRetry
  <2>1. row'.requested = Now
    BY <1>0, <1>5 DEF WriteForcedRetry, RetryRow, Released, Rows
  <2> QED
    BY <1>5, <2>1, NewRequest DEF WriteForcedRetry
<1>6. CASE ApplyRecovery \/ ReleaseRecovered \/ PlanDue \/ PlanNothing \/ ReserveSlot
           \/ PublishReserved \/ CancelAttempts \/ NewSession
           \/ ReadForForcedRetry \/ SessionEnds
  BY <1>6, SameRequest
     DEF ApplyRecovery, ReleaseRecovered, PlanDue, PlanNothing, ReserveSlot, ClockMoves,
         PublishReserved, CancelAttempts, NewSession, ReadForForcedRetry, SessionEnds, EndSession
<1> QED
  BY <1>1, <1>2, <1>3, <1>4, <1>5, <1>6 DEF Scheduler, TickOnLoop, TickInThread

LEMMA CommittedRequest ==
    ASSUME IInv, NEW w \in Workers, Owns(w), Settle(attempt[w].started, "committed"),
           Preserves(row, row'), row'.requested <= clock'
    PROVE  RequestStep
<1>1. row.status = "running" /\ row.started = attempt[w].started
  BY DEF Owns, OwnedBy
<1>2. row.started \in DOMAIN fate
  BY <1>1, OwnedIsOpen
<1>3. row.started \in DOMAIN fate' /\ fate'[row.started] = "committed"
  BY <1>1, <1>2 DEF Settle
<1> QED
  BY <1>1, <1>3 DEF RequestStep, Commits

LEMMA FailureRequestStep ==
    ASSUME IInv, DatesOK, NEW w \in Workers, RecordFailure(w)
    PROVE  RequestStep
<1>0. row \in Rows /\ clock \in Nat /\ Now \in Nat /\ row.requested <= clock
      /\ row.requested <= Now
  BY DEF IInv, TypeOK, DataOK, DatesOK, Now, Rows
<1>1. PICK now \in {clock, Now} :
         /\ clock' = now
         /\ \E s \in {RetriableFailureRow(row, TRUE, now), RetriableFailureRow(row, FALSE, now),
                      ErrorRow(row)} : row' = PreservingRequest(row, s)
  BY DEF RecordFailure, Stamp
<1>2. Preserves(row, row') /\ row'.requested <= clock'
  <2>0. now \in Nat /\ row.requested <= now
    BY <1>0
  <2>1. /\ ErrorRow(row) \in Rows /\ ErrorRow(row).requested <= now
        /\ \A b \in BOOLEAN : /\ RetriableFailureRow(row, b, now) \in Rows
                               /\ RetriableFailureRow(row, b, now).requested <= now
    BY <1>0, <2>0, FailureRowType, FailureRequest
  <2>2. PICK s \in Rows : row' = PreservingRequest(row, s) /\ s.requested <= now
    BY <1>1, <2>1
  <2> QED
    BY <1>0, <1>1, <2>0, <2>2, PreservingKeeps
<1>3. Owns(w) /\ Settle(attempt[w].started, "committed")
  BY DEF RecordFailure, CanCommit
<1> QED
  BY <1>2, <1>3, CommittedRequest

LEMMA AttemptRequestStep ==
    ASSUME IInv, DatesOK, StoppingOK, NEW w \in Workers,
           Attempt(w) \/ Heartbeat(w) \/ Mishap(w) \/ LateClaim(w)
    PROVE  RequestStep
<1>0. row \in Rows /\ clock \in Nat /\ Now \in Nat /\ row.requested <= clock
      /\ row.requested <= Now /\ attempt[w].copy \in Rows /\ attempt[w].copy.requested <= clock
  BY DEF IInv, TypeOK, DataOK, MemoryOK, Attempts, DatesOK, Now, Rows
<1>1. CASE Pop(w) \/ CheckActive(w) \/ ReadForIdle(w) \/ BindOwner(w) \/ RejectCommit(w)
           \/ Cleanup(w) \/ Abandon(w)
  BY <1>1, SameRequest
     DEF Pop, CheckActive, ReadForIdle, BindOwner, RejectCommit, Cleanup, Abandon, ClockMoves
<1>2. CASE WriteIdle(w)
  <2>1. session # "stopping" /\ clock' = clock
    BY <1>2 DEF WriteIdle, StoppingOK
  <2>2. IdleRow(attempt[w].copy) \in Rows /\ IdleRow(attempt[w].copy).requested <= clock
    <3>1. IdleRow(attempt[w].copy) \in Rows
          /\ IdleRow(attempt[w].copy).requested <= attempt[w].copy.requested
      BY <1>0, IdleRowType, IdleRequest
    <3> QED
      BY <1>0, <3>1 DEF Rows
  <2>3. row' = IF row.status # "running" THEN IdleRow(attempt[w].copy) ELSE row
    BY <1>2 DEF WriteIdle, SaveIfNotRunning
  <2> QED
    BY <1>0, <2>1, <2>2, <2>3 DEF RequestStep, Replaces, Preserves
<1>3. ASSUME row' = RunningRow(row, w, Now), Stamp
      PROVE  RequestStep
  BY <1>0, <1>3, SameRequest DEF RunningRow, Rows, Stamp, ClockMoves
<1>4. CASE Claim(w) \/ LateClaim(w)
  BY <1>3, <1>4, SameRequest DEF Claim, LateClaim, ClockMoves
<1>5. ASSUME row' \in {HeartbeatRow(row), Released(row), ReleaseIfQueued(row), row},
             UNCHANGED clock
      PROVE  RequestStep
  <2>1. row'.requested = row.requested
    BY <1>0, <1>5 DEF HeartbeatRow, Released, ReleaseIfQueued, Rows
  <2> QED
    BY <1>5, <2>1, SameRequest DEF ClockMoves
<1>6. CASE PreparePage(w) \/ Heartbeat(w) \/ CancelBeforeGuard(w)
  BY <1>5, <1>6 DEF PreparePage, Heartbeat, CancelBeforeGuard
<1>7. CASE CommitScan(w)
  <2>1. IdleRow(row) \in Rows /\ IdleRow(row).requested <= clock
    <3>1. IdleRow(row) \in Rows /\ IdleRow(row).requested <= row.requested
      BY <1>0, IdleRowType, IdleRequest
    <3> QED
      BY <1>0, <3>1 DEF Rows
  <2>2. row' = PreservingRequest(row, IdleRow(row)) /\ clock' = clock
    BY <1>7 DEF CommitScan
  <2>3. Preserves(row, row') /\ row'.requested <= clock'
    BY <1>0, <2>1, <2>2, PreservingKeeps
  <2> QED
    BY <1>7, <2>3, CommittedRequest DEF CommitScan, CanCommit
<1>8. CASE CommitFailure(w)
  BY <1>8, FailureRequestStep DEF CommitFailure
<1>9. CASE LockRetry(w)
  <2>1. RetryRow(row, Now) \in Rows /\ RetryRow(row, Now).requested = Now
    BY <1>0, RowType DEF RetryRow, Released, Rows
  <2>2. row'.requested \in {Now, row.requested}
    BY <1>9, <2>1 DEF LockRetry, PreservingRequest, Rows
  <2>3. Stamp
    BY <1>9 DEF LockRetry
  <2> QED
    BY <2>2, <2>3, SameRequest, NewRequest DEF Stamp, ClockMoves
<1>10. CASE CancelUnderGuard(w)
  BY <1>5, <1>10, FailureRequestStep DEF CancelUnderGuard
<1> QED
  BY <1>1, <1>2, <1>4, <1>6, <1>7, <1>8, <1>9, <1>10
     DEF Attempt, AttemptOnLoop, AttemptInThread, Mishap

-----------------------------------------------------------------------------
(* Dates and the stopping session are inductive.                           *)

LEMMA DatesStep ==
    ASSUME IInv, IInv', DatesOK, RequestStep, ClockMoves,
           staleCopy' \in {staleCopy, row, NoCopy},
           \A w \in Workers : attempt'[w].copy \in {attempt[w].copy, row, NoCopy}
    PROVE  DatesOK'
<1>0. clock \in Nat /\ clock' \in Nat /\ clock <= clock'
  BY DEF IInv, TypeOK, DataOK, ClockMoves, Now
<1>1. \A r \in Rows : r.requested <= clock => r.requested <= clock'
  BY <1>0 DEF Rows
<1>2. NoCopy \in Rows /\ NoCopy.requested <= clock
  BY <1>0, NoCopyType, NoCopyRequest
<1>3. row \in Rows /\ staleCopy \in Rows /\ \A w \in Workers : attempt[w].copy \in Rows
  BY DEF IInv, TypeOK, DataOK, MemoryOK, Attempts
<1>4. staleCopy'.requested <= clock'
  BY <1>1, <1>2, <1>3 DEF DatesOK
<1>5. \A w \in Workers : attempt'[w].copy.requested <= clock'
  BY <1>1, <1>2, <1>3 DEF DatesOK
<1> QED
  BY <1>4, <1>5 DEF DatesOK, RequestStep

(* Who copies the row: the skip of a target and the forced retry.          *)
LEMMA CopiesStep ==
    ASSUME IInv, Next
    PROVE  /\ staleCopy' \in {staleCopy, row, NoCopy}
           /\ \A w \in Workers : attempt'[w].copy \in {attempt[w].copy, row, NoCopy}
<1> USE DEF SchedulerVars, QueueVars, WebVars
<1>0. attempt \in [Workers -> Attempts]
  BY DEF IInv, TypeOK, MemoryOK
<1>1. CASE Web \/ TimePasses
  BY <1>1 DEF Web, StopTarget, StartTarget, CheckScanOnce, RequestScanOnce, TimePasses
<1>2. ASSUME NEW reset \in BOOLEAN, CrashAndRestart(reset)
      PROVE  /\ staleCopy' \in {staleCopy, row, NoCopy}
             /\ \A w \in Workers : attempt'[w].copy \in {attempt[w].copy, row, NoCopy}
  BY <1>2 DEF CrashAndRestart, NoAttempt
<1>3. CASE Scheduler \/ SessionEnds
  <2>1. CASE ApplyRecovery \/ CancelAttempts
    <3>1. PICK ws \in SUBSET Workers : attempt' = Cancelled(ws) /\ staleCopy' = staleCopy
      BY <2>1 DEF ApplyRecovery, CancelAttempts
    <3>2. \A w \in Workers : attempt'[w].copy = attempt[w].copy
      BY <1>0, <3>1 DEF Cancelled, Attempts
    <3> QED
      BY <3>1, <3>2
  <2>2. CASE ReadForForcedRetry \/ WriteForcedRetry \/ SessionEnds
    BY <2>2 DEF ReadForForcedRetry, WriteForcedRetry, SessionEnds, EndSession
  <2>3. CASE RecoverRunning \/ RecoverQueued \/ ReleaseRecovered \/ PlanDue \/ PlanNothing
             \/ ReserveSlot \/ PublishReserved \/ AdmitQueued \/ PatchCancelledQueued
             \/ NewSession
    BY <2>3 DEF RecoverRunning, RecoverQueued, ReleaseRecovered, PlanDue, PlanNothing,
                ReserveSlot, PublishReserved, AdmitQueued, PatchCancelledQueued, NewSession
  <2> QED
    BY <1>3, <2>1, <2>2, <2>3 DEF Scheduler, TickOnLoop, TickInThread
<1>4. ASSUME NEW w \in Workers, Attempt(w) \/ Heartbeat(w) \/ Mishap(w) \/ LateClaim(w)
      PROVE  /\ staleCopy' = staleCopy
             /\ \A v \in Workers : attempt'[v].copy \in {attempt[v].copy, row, NoCopy}
  <2>1. ASSUME NEW p, Go(w, p)
        PROVE  \A v \in Workers : attempt'[v].copy = attempt[v].copy
    BY <1>0, <2>1 DEF Go, Attempts
  <2>2. CASE Pop(w) \/ CheckActive(w) \/ PreparePage(w) \/ CommitScan(w) \/ CommitFailure(w)
             \/ RejectCommit(w) \/ Mishap(w) \/ CancelBeforeGuard(w) \/ CancelUnderGuard(w)
    <3>1. (\E p : Go(w, p)) /\ staleCopy' = staleCopy
      BY <2>2 DEF Pop, CheckActive, PreparePage, CommitScan, CommitFailure, RecordFailure,
                  RejectCommit, Mishap, Abandon, LockRetry, CancelBeforeGuard, CancelUnderGuard
    <3> QED
      BY <2>1, <3>1
  <2>3. CASE Claim(w) \/ BindOwner(w) \/ ReadForIdle(w) \/ WriteIdle(w) \/ Cleanup(w)
    BY <1>0, <2>3 DEF Claim, Go, BindOwner, ReadForIdle, WriteIdle, Cleanup, NoAttempt, Attempts
  <2>4. CASE Heartbeat(w) \/ LateClaim(w)
    BY <2>4 DEF Heartbeat, LateClaim
  <2> QED
    BY <1>4, <2>2, <2>3, <2>4 DEF Attempt, AttemptOnLoop, AttemptInThread
<1> QED
  BY <1>1, <1>2, <1>3, <1>4 DEF Next

LEMMA StoppingUntouched ==
    ASSUME StoppingOK, UNCHANGED <<tick, session, published, attempt>>
    PROVE  StoppingOK'
BY DEF StoppingOK, At, Busy

LEMMA SchedulerStoppingStep ==
    ASSUME IInv, StoppingOK, Scheduler \/ (LoopFree /\ SessionEnds)
    PROVE  StoppingOK'
<1> USE DEF At, Busy, QueueVars
<1>0. attempt \in [Workers -> Attempts]
  BY DEF IInv, TypeOK, MemoryOK
<1>1. \A ws \in SUBSET Workers : attempt' = Cancelled(ws) =>
         \A w \in Workers : /\ attempt'[w].phase = attempt[w].phase
                            /\ w \in ws => attempt'[w].cancelled
  BY <1>0 DEF Cancelled, Attempts
<1>2. CASE RecoverRunning \/ RecoverQueued
  BY <1>2 DEF RecoverRunning, RecoverQueued, StoppingOK
<1>3. CASE ReleaseRecovered \/ PlanDue \/ PlanNothing \/ ReserveSlot \/ AdmitQueued
           \/ PublishReserved
  BY <1>3 DEF ReleaseRecovered, PlanDue, PlanNothing, ReserveSlot, AdmitQueued,
              PublishReserved, StoppingOK
<1>4. CASE ApplyRecovery
  BY <1>4 DEF ApplyRecovery, StoppingOK
<1>5. CASE PatchCancelledQueued \/ ReadForForcedRetry \/ WriteForcedRetry
  BY <1>5 DEF PatchCancelledQueued, ReadForForcedRetry, WriteForcedRetry, StoppingOK
<1>6. CASE CancelAttempts
  <2>1. tick' = "drain" /\ UNCHANGED <<session, published>>
    BY <1>6 DEF CancelAttempts
  <2>2. CASE session = "stopping"
    <3> DEFINE ws == {w \in Workers : attempt[w].phase # "none"}
    <3>1. attempt' = Cancelled(ws)
      BY <1>6, <2>2 DEF CancelAttempts
    <3>2. \A w \in Workers : attempt'[w].phase = attempt[w].phase
      BY <1>1, <3>1
    <3>3. \A w \in Workers : attempt'[w].phase # "none" => attempt'[w].cancelled
      BY <1>1, <3>1, <3>2
    <3> QED
      BY <2>1, <2>2, <3>2, <3>3 DEF StoppingOK
  <2>3. CASE session # "stopping"
    BY <2>1, <2>3 DEF StoppingOK
  <2> QED
    BY <2>2, <2>3
<1>7. CASE NewSession
  BY <1>7 DEF NewSession, StoppingOK
<1>8. CASE LoopFree /\ SessionEnds
  <2>1. PICK kind \in {"ending", "stopping", "restarting"} : EndSession(kind)
    BY <1>8 DEF SessionEnds
  <2>2. CASE kind = "ending"
    BY <2>1, <2>2 DEF EndSession, StoppingOK
  <2>3. CASE kind # "ending"
    <3>1. /\ session' = kind /\ ~published' /\ UNCHANGED attempt
          /\ tick' \in {"cancel", "retryRead", "patchQueued"}
          /\ tick' = "retryRead" => kind = "restarting"
      BY <2>1, <2>3 DEF EndSession
    <3> QED
      BY <1>8, <3>1 DEF LoopFree, StoppingOK
  <2> QED
    BY <2>2, <2>3
<1> QED
  BY <1>2, <1>3, <1>4, <1>5, <1>6, <1>7, <1>8 DEF Scheduler, TickOnLoop, TickInThread

(* Nothing computes an idle row in a stopping session: the unawaited part  *)
(* of the stop lets no attempt run, and after it every attempt is          *)
(* cancelled.                                                              *)
LEMMA AttemptStoppingStep ==
    ASSUME IInv, EntryInv, StoppingOK, NEW w \in Workers,
           Attempt(w) \/ Heartbeat(w) \/ Mishap(w) \/ LateClaim(w)
    PROVE  StoppingOK'
<1> USE DEF At, Busy, QueueVars, SchedulerVars
<1>0. attempt \in [Workers -> Attempts]
  BY DEF IInv, TypeOK, MemoryOK
<1>1. UNCHANGED <<tick, session>> /\ (published' = published \/ published)
  BY DEF Attempt, AttemptOnLoop, AttemptInThread, Mishap, Pop, CheckActive, ReadForIdle,
         WriteIdle, Claim, BindOwner, PreparePage, Heartbeat, CommitScan, CommitFailure,
         RecordFailure, RejectCommit, LockRetry, Abandon, CancelBeforeGuard, CancelUnderGuard,
         LateClaim, Cleanup
<1>2. CASE session # "stopping"
  BY <1>1, <1>2 DEF StoppingOK
<1>3. CASE session = "stopping"
  <2>0. ~published /\ published' = published /\ ~Pop(w)
    BY <1>1, <1>3 DEF StoppingOK, Pop
  <2>1. ASSUME \A v \in Workers : v # w => attempt'[v] = attempt[v],
               attempt[w].phase # "none", attempt'[w].phase # "writing",
               attempt'[w].phase = "none" \/ attempt'[w].cancelled = attempt[w].cancelled
        PROVE  StoppingOK'
    BY <1>1, <1>3, <2>0, <2>1 DEF StoppingOK
  <2>2. ASSUME NEW p, Go(w, p), p # "writing", attempt[w].phase # "none"
        PROVE  StoppingOK'
    <3>1. /\ \A v \in Workers : v # w => attempt'[v] = attempt[v]
          /\ attempt'[w].phase = p /\ attempt'[w].cancelled = attempt[w].cancelled
      BY <1>0, <2>2 DEF Go, Attempts
    <3> QED
      BY <2>1, <2>2, <3>1
  <2>3. CASE CheckActive(w) \/ PreparePage(w) \/ CommitScan(w) \/ CommitFailure(w)
             \/ RejectCommit(w) \/ Mishap(w) \/ CancelBeforeGuard(w) \/ CancelUnderGuard(w)
             \/ (Claim(w) /\ ~CanClaim(row))
    <3>1. attempt[w].phase # "none"
          /\ \E p \in {"admitting", "skipping", "scanning", "cleanup"} : Go(w, p)
      BY <2>3 DEF CheckActive, PreparePage, CommitScan, CommitFailure, RecordFailure,
                  RejectCommit, Mishap, Abandon, LockRetry, CancelBeforeGuard,
                  CancelUnderGuard, Claim, Running
    <3> QED
      BY <2>2, <3>1
  <2>4. CASE (Claim(w) /\ CanClaim(row)) \/ BindOwner(w) \/ WriteIdle(w) \/ Cleanup(w)
    <3>1. /\ \A v \in Workers : v # w => attempt'[v] = attempt[v]
          /\ attempt[w].phase # "none" /\ attempt'[w].phase # "writing"
          /\ attempt'[w].phase = "none" \/ attempt'[w].cancelled = attempt[w].cancelled
      BY <1>0, <2>4 DEF Claim, BindOwner, WriteIdle, Cleanup, NoAttempt, Running, Attempts
    <3> QED
      BY <2>1, <3>1
  <2>5. CASE LoopFree /\ TickYields /\ ReadForIdle(w)
    BY <1>3, <2>5 DEF ReadForIdle, Running, TickYields, StoppingOK
  <2>6. CASE Heartbeat(w) \/ LateClaim(w)
    BY <1>1, <2>0, <2>6, StoppingUntouched DEF Heartbeat, LateClaim
  <2> QED
    BY <2>0, <2>3, <2>4, <2>5, <2>6 DEF Attempt, AttemptOnLoop, AttemptInThread
<1> QED
  BY <1>2, <1>3

LEMMA InitRequest == Init => RequestInv
<1> SUFFICES ASSUME Init PROVE RequestInv
  OBVIOUS
<1>1. row.requested = 0
  BY DEF Init, FreshRow
<1>2. \A w \in Workers : attempt[w].copy = NoCopy /\ attempt[w].phase = "none"
  BY DEF Init, NoAttempt
<1>3. DatesOK
  BY <1>1, <1>2, NoCopyRequest DEF Init, DatesOK
<1>4. StoppingOK
  BY DEF Init, StoppingOK
<1> QED
  BY <1>3, <1>4 DEF RequestInv

LEMMA NextRequest ==
    ASSUME IInv, EntryInv, RequestInv, Next
    PROVE  RequestInv' /\ RequestStep
<1>0. IInv' /\ RowStep /\ DatesOK /\ StoppingOK
  BY NextInv, NextRowStep DEF IInv, RequestInv
<1>1. RequestStep
  BY <1>0, WebRequestStep, SchedulerRequestStep, AttemptRequestStep DEF Next
<1>2. ClockMoves
  BY <1>0 DEF RowStep, KeepsAdmission, EndsAdmissions, SettlesAdmission, GrantsAdmission,
              ClockMoves
<1>3. DatesOK'
  BY <1>0, <1>1, <1>2, CopiesStep, DatesStep
<1>4. StoppingOK'
  <2>1. CASE Web \/ TimePasses
    BY <1>0, <2>1, StoppingUntouched
       DEF Web, StopTarget, StartTarget, CheckScanOnce, RequestScanOnce, TimePasses,
           SchedulerVars, QueueVars
  <2>2. CASE \E reset \in BOOLEAN : CrashAndRestart(reset)
    BY <2>2 DEF CrashAndRestart, StoppingOK
  <2> QED
    BY <1>0, <2>1, <2>2, SchedulerStoppingStep, AttemptStoppingStep DEF Next
<1> QED
  BY <1>1, <1>3, <1>4 DEF RequestInv

-----------------------------------------------------------------------------
(* The request: theorem.                                                   *)

(* A scan-once request made while a scan runs survives the end of that     *)
(* scan, whoever ends it and whichever copy of the row is written back; a  *)
(* shutdown uses up only a request that a committed scan has answered.     *)
THEOREM RequestsSurvive == Spec => RequestsKept
<1>1. RequestInv /\ IInv /\ EntryInv /\ [Next]_vars => RequestInv'
  <2> SUFFICES ASSUME RequestInv, IInv, EntryInv, [Next]_vars PROVE RequestInv'
    OBVIOUS
  <2>1. CASE UNCHANGED vars
    BY <2>1, StoppingUntouched DEF vars, RequestInv, DatesOK
  <2>2. CASE Next
    BY <2>2, NextRequest
  <2> QED
    BY <2>1, <2>2
<1>2. RequestInv /\ IInv /\ EntryInv /\ [Next]_vars
        => [KeepsLaterRequest /\ KeepsUnansweredRequest]_vars
  <2> SUFFICES ASSUME RequestInv, IInv, EntryInv, Next
               PROVE  KeepsLaterRequest /\ KeepsUnansweredRequest
    OBVIOUS
  <2>1. RequestStep
    BY NextRequest
  <2>2. row \in Rows /\ row' \in Rows
    BY NextInv DEF IInv, TypeOK, DataOK
  <2> QED
    BY <2>1, <2>2, RequestStepKeeps
<1> QED
  BY <1>1, <1>2, InitRequest, InvHolds, EntryInvHolds, PTL DEF Spec, RequestsKept
=============================================================================
