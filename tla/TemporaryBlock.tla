--------------------------- MODULE TemporaryBlock ---------------------------
(***************************************************************************)
(* Facebook shows its "temporarily blocked" page: one task of the browser  *)
(* session trips the runtime, one writer stores the incident and stops     *)
(* every target, the session is rebuilt, and a later Start has to confirm  *)
(* the warning the user was shown.                                         *)
(*                                                                         *)
(* An action is one SQLite transaction or one stretch of the event loop    *)
(* without an await.  A target is `active' when it is enabled, not paused  *)
(* and its row wants ACTIVE: every command here writes the three together. *)
(* `owner' stands for the running row's worker_id and started_at; a worker *)
(* runs one attempt at a time, so its name identifies the attempt.         *)
(***************************************************************************)
EXTENDS Naturals, FiniteSets

CONSTANTS
    Targets, Workers,
    Maintenance,      \* the tasks of a tick that refresh metadata or covers
    Nobody,
    WarningFor,       \* how long a warning lasts
    MaxTime, MaxGeneration, MaxFaults   \* bounds of the model

Tasks == Workers \cup Maintenance

ASSUME TasksAssumption ==
    /\ Workers \cap Maintenance = {}
    /\ Nobody \notin Tasks /\ Nobody \notin Targets
    /\ WarningFor \in Nat \ {0}
    /\ {MaxTime, MaxGeneration, MaxFaults} \subseteq Nat

VARIABLES
    time,
    warning,     \* facebook_temporary_block_warning: generation, warning_until
    active,      \* targets being monitored
    owner,       \* the attempt that owns the running row
    session,     \* the browser runtime session
    tripped,     \* its one-way signal
    writer,      \* its incident writer, and the task that created it
    restart,     \* the executor's restart request
    crashed,     \* a tick raised: the loop ends
    task,        \* phase, target and pending cancellation of each task
    shown,       \* generations the Web UI has asked the user to confirm
    faults,
    \* history
    confirmed,   \* generation confirmed by the Start that made a target active
    incidents,   \* incidents committed by this session
    tainted,     \* workers that were scanning when an incident was committed
    result       \* what the attempt of a worker has stored

webVars == <<active, owner, shown, confirmed>>
vars == <<time, warning, active, owner, session, tripped, writer, restart,
          crashed, task, shown, faults, confirmed, incidents, tainted, result>>

Idle == [phase |-> "idle", target |-> Nobody, cancel |-> FALSE]
NoWriter == [state |-> "none", by |-> Nobody]

\* Tasks inside `with facebook_work()'.
Registered == {k \in Tasks : task[k].phase \in {"admitted", "io", "leaving"}}
WarningActive == time < warning.until

Init ==
    /\ time = 0
    /\ warning = [generation |-> 0, until |-> 0]
    /\ active = {}
    /\ owner = [t \in Targets |-> Nobody]
    /\ session = "open" /\ tripped = FALSE /\ writer = NoWriter
    /\ restart = FALSE /\ crashed = FALSE
    /\ task = [k \in Tasks |-> Idle]
    /\ shown = {}
    /\ faults = 0
    /\ confirmed = [t \in Targets |-> 0]
    /\ incidents = 0 /\ tainted = {}
    /\ result = [k \in Workers |-> "none"]

-----------------------------------------------------------------------------
(* The Web UI.  Every command is one immediate transaction. *)

\* A forgotten generation: any confirmation opens the gate.
StartAllowedByAnyConfirmation(c, g) == ~WarningActive \/ c
\* _temporary_block_start_policy: c, the form says "confirmed"; g, the
\* generation it carries.
StartAllowed(c, g) == ~WarningActive \/ (c /\ g = warning.generation)

\* Start of one target, or of a group of them.
Start(G, c, g) ==
    /\ c => g \in shown
    /\ IF StartAllowed(c, g)
       THEN /\ active' = active \cup G
            /\ owner' = [t \in Targets |-> IF t \in G THEN Nobody ELSE owner[t]]
            /\ confirmed' = [t \in Targets |-> IF t \in G THEN g ELSE confirmed[t]]
            /\ UNCHANGED shown
       ELSE /\ shown' = shown \cup {warning.generation}
            /\ UNCHANGED <<active, owner, confirmed>>
    /\ UNCHANGED <<time, warning, session, tripped, writer, restart, crashed,
                   task, faults, incidents, tainted, result>>

Pause(t) ==
    /\ active' = active \ {t}
    /\ owner' = [owner EXCEPT ![t] = Nobody]
    /\ UNCHANGED <<time, warning, session, tripped, writer, restart, crashed,
                   task, shown, faults, confirmed, incidents, tainted, result>>

-----------------------------------------------------------------------------
(* The incident transaction. *)

\* The running row of an active target still belongs to this scan.
GuardMatches(k) ==
    LET t == task[k].target
    IN  t \in Targets /\ t \in active /\ owner[t] = k

\* Mutant: only the targets that are being scanned are stopped.
PauseScannedOnly ==
    /\ active' = {t \in active : owner[t] = Nobody}
    /\ owner' = [t \in Targets |-> Nobody]
\* pause_all_target_monitoring.
PauseAll ==
    /\ active' = {}
    /\ owner' = [t \in Targets |-> Nobody]

RecordWarning ==
    warning' = [generation |-> warning.generation + 1, until |-> time + WarningFor]

Scanning == {k \in Workers : task[k].phase \in {"io", "leaving", "waits"}
                               /\ result[k] = "none"}

RecordIncident ==
    /\ RecordWarning
    /\ PauseAll

\* _record_facebook_access_incident, in the writer's thread.
WriterCommits ==
    /\ writer.state = "running"
    /\ writer' = [writer EXCEPT !.state = "committed"]
    /\ result' = [k \in Workers |->
                     IF k = writer.by /\ GuardMatches(k) THEN "blocked" ELSE result[k]]
    /\ RecordIncident
    /\ incidents' = incidents + 1
    /\ tainted' = tainted \cup Scanning
    /\ UNCHANGED <<time, session, tripped, restart, crashed, task, shown, faults,
                   confirmed>>

\* The retries ran out, or the transaction raised: it was rolled back.
WriterFails ==
    /\ writer.state = "running" /\ faults < MaxFaults
    /\ writer' = [writer EXCEPT !.state = "failed"]
    /\ faults' = faults + 1
    /\ UNCHANGED <<time, warning, active, owner, session, tripped, restart,
                   crashed, task, shown, confirmed, incidents, tainted, result>>

\* A one-shot fallback or the resolver of a new target: while no session has
\* the profile, with a signal of its own and the writer in the same thread.
FallbackBlocked ==
    /\ session = "closed" /\ warning.generation < MaxGeneration
    /\ RecordIncident
    /\ UNCHANGED <<time, session, tripped, writer, restart, crashed, task, shown,
                   faults, confirmed, incidents, tainted, result>>

-----------------------------------------------------------------------------
(* Tasks of the browser session. *)

Goto(k, phase) == task' = [task EXCEPT ![k].phase = phase]
Leave(k) == task' = [task EXCEPT ![k] = Idle]

\* Mutant: work is admitted without looking at the signal.
AdmittedAlways == TRUE
Admitted == ~tripped

\* A worker takes an item of the queue (facebook_work, then load and admit).
EnterScan(k, t) ==
    /\ session = "open" /\ ~restart
    /\ task[k] = Idle /\ Admitted
    /\ task' = [task EXCEPT ![k] = [phase |-> "admitted", target |-> t, cancel |-> FALSE]]
    /\ result' = [result EXCEPT ![k] = "none"]
    /\ tainted' = tainted \ {k}
    /\ UNCHANGED <<time, warning, active, owner, session, tripped, writer, restart,
                   crashed, shown, faults, confirmed, incidents>>

\* The claim of the row, in a thread: it refuses a target stopped meanwhile.
Claim(k) ==
    /\ task[k].phase = "admitted"
    /\ LET t == task[k].target IN
       IF t \in active /\ owner[t] = Nobody
       THEN /\ owner' = [owner EXCEPT ![t] = k]
            /\ Goto(k, "io")
       ELSE /\ Leave(k)
            /\ UNCHANGED owner
    /\ UNCHANGED <<time, warning, active, session, tripped, writer, restart,
                   crashed, shown, faults, confirmed, incidents, tainted, result>>

EnterMaintenance(k) ==
    /\ session = "open" /\ ~restart /\ ~crashed
    /\ task[k] = Idle /\ Admitted
    /\ \A other \in Maintenance : task[other] = Idle
    /\ Goto(k, "io")
    /\ UNCHANGED <<time, warning, active, owner, session, tripped, writer, restart,
                   crashed, shown, faults, confirmed, incidents, tainted, result>>

\* Mutant: the commit checks only that the target is being monitored.
CommitsIfActive(k) == task[k].target \in active
CommitGuard(k) == GuardMatches(k)

\* commit_success: guard and outcome in one transaction, in a thread.
FinishScan(k) ==
    /\ task[k].phase = "io"
    /\ IF CommitGuard(k)
       THEN /\ result' = [result EXCEPT ![k] = "scan"]
            /\ owner' = [owner EXCEPT ![task[k].target] = Nobody]
       ELSE UNCHANGED <<result, owner>>
    /\ Leave(k)
    /\ UNCHANGED <<time, warning, active, session, tripped, writer, restart,
                   crashed, shown, faults, confirmed, incidents, tainted>>

FinishMaintenance(k) ==
    /\ task[k].phase = "io"
    /\ Leave(k)
    /\ UNCHANGED <<time, warning, active, owner, session, tripped, writer, restart,
                   crashed, shown, faults, confirmed, incidents, tainted, result>>

\* The page guard raises; the attempt still has awaits before it records it.
SeeBlock(k) ==
    /\ task[k].phase = "io" /\ warning.generation < MaxGeneration
    /\ Goto(k, "leaving")
    /\ UNCHANGED <<time, warning, active, owner, session, tripped, writer, restart,
                   crashed, shown, faults, confirmed, incidents, tainted, result>>

\* Mutant: the loop skips the peers that saw the page too.
CancelScanningPeers(k) ==
    [j \in Tasks |-> IF j = k THEN [task[k] EXCEPT !.phase = "waits", !.cancel = FALSE]
                     ELSE IF task[j].phase = "io" THEN [task[j] EXCEPT !.cancel = TRUE]
                     ELSE task[j]]

\* Every other task inside facebook_work is cancelled.
CancelPeers(k) ==
    [j \in Tasks |-> IF j = k THEN [task[k] EXCEPT !.phase = "waits", !.cancel = FALSE]
                     ELSE IF j \in Registered THEN [task[j] EXCEPT !.cancel = TRUE]
                     ELSE task[j]]

\* Mutant: the writer is named after the target.
TripByTarget(k) ==
    /\ tripped' = TRUE
    /\ writer' = [state |-> "running", by |-> task[k].target]
    /\ task' = CancelPeers(k)
\* Mutant: the signal is left for the writer to set.
TripWithoutSignal(k) ==
    /\ writer' = [state |-> "running", by |-> k]
    /\ task' = CancelPeers(k)
    /\ UNCHANGED tripped
Trip(k) ==
    /\ tripped' = TRUE
    /\ writer' = [state |-> "running", by |-> k]
    /\ task' = CancelPeers(k)

\* record_temporary_block up to its first await: the first caller trips the
\* signal, a later one would wait for the writer that is there.
RecordBlock(k) ==
    /\ task[k].phase = "leaving"
    /\ task[k].cancel => ~tripped
    /\ IF ~tripped THEN Trip(k)
       ELSE /\ Goto(k, "waits")
            /\ UNCHANGED <<tripped, writer>>
    /\ UNCHANGED <<time, warning, active, owner, session, restart, crashed, shown,
                   faults, confirmed, incidents, tainted, result>>

\* Mutant: a cancelled caller leaves its writer behind.
WriterEndedOrCancelled(k) == writer.state \in {"committed", "failed"} \/ task[k].cancel
\* _await_task_terminal_despite_cancellation: a cancellation is kept for later.
WriterEnded(k) == writer.state \in {"committed", "failed"}

\* Mutant: no new browser after an incident that was not written.
RestartAfterCommit == restart \/ writer.state = "committed"
\* A scan asks for a new browser whatever came out (finally).
RestartAfterScan == TRUE

LeaveScanIncident(k) ==
    /\ task[k].phase = "waits" /\ WriterEnded(k)
    /\ restart' = RestartAfterScan
    /\ Leave(k)
    /\ UNCHANGED <<time, warning, active, owner, session, tripped, writer, crashed,
                   shown, faults, confirmed, incidents, tainted, result>>

\* A maintenance task asks for it after a commit; an error ends the tick.
LeaveMaintenanceIncident(k) ==
    /\ task[k].phase = "waits" /\ WriterEnded(k)
    /\ restart' = (restart \/ (writer.state = "committed" /\ ~task[k].cancel))
    /\ crashed' = (crashed \/ writer.state = "failed")
    /\ Leave(k)
    /\ UNCHANGED <<time, warning, active, owner, session, tripped, writer, shown,
                   faults, confirmed, incidents, tainted, result>>

\* CancelledError inside the work: after a trip the row is left to the incident,
\* otherwise the attempt hands its row back.
Cancelled(k) ==
    /\ k \in Registered /\ task[k].cancel
    /\ owner' = [t \in Targets |-> IF ~tripped /\ t = task[k].target /\ owner[t] = k
                                   THEN Nobody ELSE owner[t]]
    /\ Leave(k)
    /\ UNCHANGED <<time, warning, active, session, tripped, writer, restart, crashed,
                   shown, faults, confirmed, incidents, tainted, result>>

\* Recovery of a running row whose heartbeat has stopped.
RecoverRow(t) ==
    /\ session = "open" /\ owner[t] # Nobody
    /\ task[owner[t]].target # t
    /\ owner' = [owner EXCEPT ![t] = Nobody]
    /\ UNCHANGED <<time, warning, active, session, tripped, writer, restart, crashed,
                   task, shown, faults, confirmed, incidents, tainted, result>>

-----------------------------------------------------------------------------
(* The browser session. *)

RuntimeFails ==
    /\ session = "open" /\ ~restart /\ faults < MaxFaults
    /\ restart' = TRUE
    /\ faults' = faults + 1
    /\ UNCHANGED <<time, warning, active, owner, session, tripped, writer, crashed,
                   task, shown, confirmed, incidents, tainted, result>>

\* executor.stop: a restart cancels the attempts, an error lets them end.
BeginStop ==
    /\ session = "open" /\ (restart \/ crashed)
    /\ \A k \in Maintenance : task[k] = Idle
    /\ session' = "closing"
    /\ task' = [k \in Tasks |-> IF restart /\ task[k] # Idle
                                THEN [task[k] EXCEPT !.cancel = TRUE] ELSE task[k]]
    /\ UNCHANGED <<time, warning, active, owner, tripped, writer, restart, crashed,
                   shown, faults, confirmed, incidents, tainted, result>>

\* The workers have been gathered: context closed, profile lease released.
Close ==
    /\ session = "closing"
    /\ \A k \in Tasks : task[k] = Idle
    /\ session' = "closed"
    /\ UNCHANGED <<time, warning, active, owner, tripped, writer, restart, crashed,
                   task, shown, faults, confirmed, incidents, tainted, result>>

\* The next browser session has a runtime of its own.
Open ==
    /\ session = "closed"
    /\ session' = "open" /\ tripped' = FALSE /\ writer' = NoWriter
    /\ restart' = FALSE /\ crashed' = FALSE
    /\ incidents' = 0
    /\ UNCHANGED <<time, warning, active, owner, task, shown, faults, confirmed,
                   tainted, result>>

Tick ==
    /\ time < MaxTime
    /\ time' = time + 1
    /\ UNCHANGED <<warning, active, owner, session, tripped, writer, restart, crashed,
                   task, shown, faults, confirmed, incidents, tainted, result>>

-----------------------------------------------------------------------------

WebStep ==
    \/ \E G \in SUBSET Targets \ {{}} : Start(G, FALSE, 0)
    \/ \E G \in SUBSET Targets \ {{}}, g \in shown : Start(G, TRUE, g)
    \/ \E t \in Targets : Pause(t)

ScanStep(k) ==
    \/ Claim(k) \/ FinishScan(k) \/ SeeBlock(k) \/ RecordBlock(k)
    \/ LeaveScanIncident(k) \/ Cancelled(k)

MaintenanceStep(k) ==
    \/ FinishMaintenance(k) \/ SeeBlock(k) \/ RecordBlock(k)
    \/ LeaveMaintenanceIncident(k) \/ Cancelled(k)

Next ==
    \/ WebStep
    \/ WriterCommits \/ WriterFails \/ FallbackBlocked
    \/ \E k \in Workers : ScanStep(k) \/ \E t \in Targets : EnterScan(k, t)
    \/ \E k \in Maintenance : MaintenanceStep(k) \/ EnterMaintenance(k)
    \/ \E t \in Targets : RecoverRow(t)
    \/ RuntimeFails \/ BeginStop \/ Close \/ Open
    \/ Tick

Spec == Init /\ [][Next]_vars

\* The event loop runs every ready task, a writer ends, a stop is carried out.
Fairness ==
    /\ WF_vars(WriterCommits \/ WriterFails)
    /\ \A k \in Workers : WF_vars(ScanStep(k))
    /\ \A k \in Maintenance : WF_vars(MaintenanceStep(k))
    /\ WF_vars(BeginStop) /\ WF_vars(Close)

FairSpec == Spec /\ Fairness

-----------------------------------------------------------------------------
(* Properties. *)

Warnings == [generation : Nat, until : Nat]
Writers == [state : {"none", "running", "committed", "failed"}, by : Tasks \cup {Nobody}]
TaskRecord == [phase : {"idle", "admitted", "io", "leaving", "waits"},
               target : Targets \cup {Nobody}, cancel : BOOLEAN]
Results == {"none", "scan", "blocked"}

\* The variables stay in their types.
TypeOK ==
    /\ time \in Nat
    /\ warning \in Warnings
    /\ active \subseteq Targets
    /\ owner \in [Targets -> Workers \cup {Nobody}]
    /\ session \in {"open", "closing", "closed"}
    /\ tripped \in BOOLEAN /\ restart \in BOOLEAN /\ crashed \in BOOLEAN
    /\ writer \in Writers
    /\ task \in [Tasks -> TaskRecord]
    /\ shown \subseteq Nat
    /\ faults \in Nat
    /\ confirmed \in [Targets -> Nat]
    /\ incidents \in Nat
    /\ tainted \subseteq Workers
    /\ result \in [Workers -> Results]

\* While a warning lasts, a target is monitored only because a Start confirmed
\* exactly that warning: neither a Start that raced the incident nor a
\* confirmation of an older warning leaves a target running.
ActiveWasConfirmed ==
    WarningActive => \A t \in active : confirmed[t] = warning.generation

\* The tasks of one browser session record one incident between them, however
\* many of them see the page (record_temporary_block and its writer task).
OneIncidentPerSession == incidents <= 1

\* After the trip every task still inside facebook_work carries a cancellation:
\* nothing that was doing Facebook I/O is overlooked, nothing enters later.
PeersAreCancelled ==
    tripped => \A k \in Registered : task[k].cancel

\* A session does not give up the browser profile while its incident is still
\* being written, even when the callers of the writer are cancelled.
IncidentBeforeNextSession ==
    session = "closed" => writer.state # "running"

\* An attempt that was scanning when an incident was committed never stores a
\* scan result, even if its target has been started again meanwhile.
TaintedScanNeverCommits ==
    \A k \in tainted : result[k] # "scan"

\* A block that tripped the runtime ends the browser session: some task asks for
\* a restart or the tick fails, and the stop does not wait for anyone forever.
TripEndsSession == tripped ~> session = "closed"

=============================================================================
