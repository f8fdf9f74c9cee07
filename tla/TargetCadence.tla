---------------------------- MODULE TargetCadence ----------------------------
(***************************************************************************)
(* When each target is scanned: the scheduler's planner with its in-memory *)
(* due times, the bounded ticks, the queue, and what every outcome of a    *)
(* scan does to the streaks and the request of the target's row.           *)
(*                                                                         *)
(* Time is relative: a due time is the distance from now, an age the       *)
(* distance to now, and both stop at the value past which nothing depends  *)
(* on them.  Who may write the row, and when, is the subject of            *)
(* ResidentScan; here an admission or an outcome is one step.              *)
(***************************************************************************)
EXTENDS FailurePolicy, Integers, Sequences, FiniteSets, SequencesExt

CONSTANTS
    Targets, Workers, Nobody,
    Refresh,          \* the refresh settings of each target
    SkipLimit,        \* unconfirmed sort orders in a row that make a failure
    Mishaps,          \* what a scan of each target may run into
    Overdue,          \* a due time further back than this is not told apart
    MaxEvents        \* bound on commands, skips, locks, recoveries and ends of sessions

Delays == {RetryDelay} \cup UNION {Refresh[t] : t \in Targets}

ASSUME CadenceAssumption ==
    /\ Nobody \notin Targets
    /\ Refresh \in [Targets -> SUBSET (Nat \ {0})]
    /\ \A t \in Targets : Refresh[t] # {}
    /\ SkipLimit \in Nat \ {0} /\ Overdue \in Nat /\ MaxEvents \in Nat
    /\ DOMAIN Mishaps = Targets
    /\ IsFiniteSet(Targets) /\ IsFiniteSet(Workers)
    /\ \E longest \in Delays : \A delay \in Delays : delay <= longest

VARIABLES
    row,        \* wanted, status, request and streaks of each target
    age,        \* time since its latest scan run finished; Never without one
    due,        \* the planner's next due time; Never if it holds none
    batch,      \* due targets of this tick that are not queued yet
    queue,      \* items waiting for a worker
    work,       \* the item each worker scans, and whether it owns the row
    rebuild,    \* a rebuild of the browser session was requested
    events,     \* how often the user, a recovery or the end of a session intervened
    ticked,     \* the planner ran in this unit of time
    \* history
    since,      \* time since the last running claim of the target
    failed      \* reasons of its failures since the last clean slate, newest last

vars == <<row, age, due, batch, queue, work, rebuild, events, since, failed, ticked>>

Horizon == CHOOSE n \in Delays : \A m \in Delays : m <= n
Never == Horizon + 1
Ages == 0..Horizon

Item(t, manual, interval) == [target |-> t, manual |-> manual, interval |-> interval]
NoWork == [item |-> Item(Nobody, FALSE, 0), owns |-> FALSE]

\* A request is told apart by what had happened when it came: `before' the
\* planner read the row, after that but before the target was `planned' into
\* the queue, while it was `queued' or while it was `running'.
Requests == {"no", "before", "planned", "queued", "running"}

NoReason == ""

Clean(wanted, request) ==
    [wanted |-> wanted, status |-> "idle", request |-> request,
     failure |-> NoReason, failures |-> 0, skips |-> 0]

Init ==
    /\ row \in [Targets -> {Clean(TRUE, "before"), Clean(FALSE, "no")}]
    /\ age \in [Targets -> {Never, 0}]
    /\ due = [t \in Targets |-> Never]
    /\ batch = <<>> /\ queue = <<>>
    /\ work = [w \in Workers |-> NoWork]
    /\ rebuild = FALSE /\ events = 0 /\ ticked = FALSE
    /\ since = [t \in Targets |-> Never]
    /\ failed = [t \in Targets |-> <<>>]

-----------------------------------------------------------------------------
(* What an outcome makes of the row.                                       *)

\* scan_request_after_current_attempt: a request newer than the attempt.
Kept(r) == IF r.request \in {"queued", "running"} THEN "before" ELSE "no"

Idled(r) == [Clean(r.wanted, Kept(r)) EXCEPT !.status = "idle"]

\* Mutant: a skipped scan counts as a good one.
SkippedAsClean(r) == [Idled(r) EXCEPT !.skips = r.skips + 1]

Skipped(r) == [r EXCEPT !.status = "idle", !.request = Kept(r), !.skips = r.skips + 1]

\* The update keeps a request newer than the attempt, also next to an error.
Newer(r, request) == IF r.request = "running" THEN "before" ELSE request

Failed(r, d) ==
    CASE d.action = "idle"  -> Idled(r)
      [] d.action = "retry" ->
            [Clean(r.wanted, IF d.now THEN "before" ELSE Kept(r))
                EXCEPT !.failure = d.reason, !.failures = d.streak]
      [] d.action = "error" ->
            [Clean(r.wanted, Newer(r, "no"))
                EXCEPT !.status = "error",
                       !.failure = IF d.streak > 0 THEN d.reason ELSE NoReason,
                       !.failures = d.streak]

DecisionFor(t, reason, source) == Decide(reason, source, row[t].failure, row[t].failures)

\* The failures a reader of the scan history would count.
Noted(t, d) ==
    IF d.streak = 0 THEN <<>>
    ELSE LET all == Append(failed[t], d.reason)
         IN  IF Len(all) > FailureLimit THEN Tail(all) ELSE all

RecordFailure(t, d) ==
    /\ row' = [row EXCEPT ![t] = Failed(@, d)]
    /\ failed' = [failed EXCEPT ![t] = Noted(t, d)]
    /\ age' = [age EXCEPT ![t] = 0]

-----------------------------------------------------------------------------
(* The user.                                                               *)

\* Interventions are counted: an instance has MaxEvents of them, and a Stop
\* before or after each.
Event == events < MaxEvents /\ events' = events + 1

Disowned(t) ==
    work' = [w \in Workers |->
                IF work[w].item.target = t THEN [work[w] EXCEPT !.owns = FALSE] ELSE work[w]]

InBatch(t) == \E i \in DOMAIN batch : batch[i].target = t
RequestNow(t) ==
    CASE row[t].status \in {"queued", "running"} -> row[t].status
      [] InBatch(t) -> "planned"
      [] OTHER      -> "before"

Start(t) ==
    /\ row' = [row EXCEPT ![t] = Clean(TRUE, IF InBatch(t) THEN "planned" ELSE "before")]
    /\ failed' = [failed EXCEPT ![t] = <<>>]
    /\ Disowned(t)
    /\ Event
    /\ UNCHANGED <<age, due, batch, queue, rebuild, since, ticked>>

Stop(t) ==
    /\ row[t].wanted
    /\ row' = [row EXCEPT ![t] = Clean(FALSE, "no")]
    /\ failed' = [failed EXCEPT ![t] = <<>>]
    /\ Disowned(t)
    /\ UNCHANGED <<age, due, batch, queue, rebuild, events, since, ticked>>

ScanOnce(t) ==
    /\ row[t].wanted
    /\ row' = [row EXCEPT ![t].request = RequestNow(t)]
    /\ Event
    /\ UNCHANGED <<age, due, batch, queue, work, rebuild, since, failed, ticked>>

-----------------------------------------------------------------------------
(* The planner.                                                            *)

\* Mutant: the failure streak has no say in the schedule.
RetryDueIgnored(t) == Never

\* When a target waits for its page to come back: the time it is tried again.
RetryDue(t) ==
    IF row[t].failures > 0 /\ age[t] # Never /\ DelayOf(row[t].failure) > 0
    THEN DelayOf(row[t].failure) - age[t]
    ELSE Never

InitialDue(t, interval) == IF age[t] = Never THEN 0 ELSE interval - age[t]

Plannable(t) == row[t].wanted /\ row[t].status # "error"
Open(t) == Plannable(t) /\ row[t].status = "idle"

\* The due time the planner remembers for t, given its interval.
Planned(t, interval) ==
    IF ~Plannable(t) THEN Never
    ELSE IF row[t].status # "idle" \/ row[t].request # "no" THEN due[t]
    ELSE IF RetryDue(t) # Never THEN RetryDue(t)
    ELSE IF due[t] # Never THEN due[t]
    ELSE InitialDue(t, interval)

Earlier(a, b) == a.at < b.at

\* list_due_targets: every target in the order of the table, then sorted by
\* due time and cut to the number of workers.  A requested scan is due now.
PlanDue ==
    /\ batch = <<>> /\ ~rebuild
    /\ \E interval \in [Targets -> UNION {Refresh[t] : t \in Targets}] :
        /\ \A t \in Targets : interval[t] \in Refresh[t]
        /\ LET at == [t \in Targets |-> Planned(t, interval[t])]
               Manual(t) == row[t].request # "no"
               chosen == {t \in Targets : Open(t) /\ (Manual(t) \/ at[t] <= 0)}
               entries == {[at |-> IF Manual(t) THEN 0 ELSE at[t],
                            item |-> Item(t, Manual(t), interval[t])] : t \in chosen}
           IN  /\ due' = at
               /\ \E order \in SetToSeqs(entries) :
                    /\ \A i, j \in DOMAIN order : Earlier(order[i], order[j]) => i < j
                    /\ batch' = [i \in 1..(IF Len(order) < Cardinality(Workers)
                                           THEN Len(order) ELSE Cardinality(Workers))
                                    |-> order[i].item]
    /\ ticked' = TRUE
    /\ UNCHANGED <<row, age, queue, work, rebuild, events, since, failed>>

Taken(t) ==
    \/ \E i \in DOMAIN queue : queue[i].target = t
    \/ \E w \in Workers : work[w].item.target = t

\* enqueue_due_targets, one target of the batch: the place in memory, then the
\* row; the request the planner saw is consumed, a newer one is not.
Enqueue ==
    /\ batch # <<>>
    /\ LET item == Head(batch)
           t == item.target
       IN  /\ batch' = Tail(batch)
           /\ IF ~Taken(t) /\ Open(t)
              THEN /\ queue' = Append(queue, item)
                   /\ row' = [row EXCEPT ![t].status = "queued",
                                         ![t].request = IF @ = "planned" THEN "before"
                                                        ELSE IF item.manual THEN "no" ELSE @]
              ELSE /\ row' = [row EXCEPT ![t].request = IF @ = "planned" THEN "before" ELSE @]
                   /\ UNCHANGED queue
    /\ UNCHANGED <<age, due, work, rebuild, events, since, failed, ticked>>

-----------------------------------------------------------------------------
(* The workers.                                                            *)

\* Mutant: the next scan is due one interval after this one was.
NextDueFromLast(item) ==
    IF due[item.target] = Never THEN item.interval ELSE due[item.target] + item.interval

\* mark_dispatched: start-to-start cadence.
NextDue(item) == item.interval

Claim(w) ==
    /\ work[w] = NoWork /\ queue # <<>>
    /\ LET item == Head(queue)
           t == item.target
       IN  /\ queue' = Tail(queue)
           /\ IF Plannable(t) /\ row[t].status \in {"idle", "queued"}
              THEN /\ row' = [row EXCEPT ![t].status = "running"]
                   /\ work' = [work EXCEPT ![w] = [item |-> item, owns |-> TRUE]]
                   /\ due' = [due EXCEPT ![t] = NextDue(item)]
                   /\ since' = [since EXCEPT ![t] = 0]
              ELSE /\ row' = IF row[t].wanted \/ row[t].status = "running" THEN row
                             ELSE [row EXCEPT ![t] = Idled(@)]
                   /\ UNCHANGED <<work, due, since>>
    /\ UNCHANGED <<age, batch, rebuild, events, failed, ticked>>

Scanning(w) == work[w] # NoWork /\ work[w].owns
Busy(t) == \E w \in Workers : Scanning(w) /\ work[w].item.target = t
EndAttempt(w) == work' = [work EXCEPT ![w] = NoWork]

\* An attempt that lost its row leaves no trace.
GiveUp(w) ==
    /\ work[w] # NoWork /\ ~work[w].owns
    /\ EndAttempt(w)
    /\ UNCHANGED <<row, age, due, batch, queue, rebuild, events, since, failed, ticked>>

Succeed(w) ==
    /\ Scanning(w)
    /\ LET t == work[w].item.target
       IN  /\ row' = [row EXCEPT ![t] = Idled(@)]
           /\ age' = [age EXCEPT ![t] = 0]
           /\ failed' = [failed EXCEPT ![t] = <<>>]
    /\ EndAttempt(w)
    /\ UNCHANGED <<due, batch, queue, rebuild, events, since, ticked>>

\* The order of the feed could not be confirmed: the scan is skipped, and
\* after SkipLimit of them in a row that is a failure.
SkipScan(w) ==
    /\ Scanning(w)
    /\ Event
    /\ LET t == work[w].item.target
       IN  IF row[t].skips + 1 < SkipLimit
           THEN /\ row' = [row EXCEPT ![t] = Skipped(@)]
                /\ age' = [age EXCEPT ![t] = 0]
                /\ UNCHANGED failed
           ELSE RecordFailure(t, DecisionFor(t, "sort_adjust_unconfirmed", "worker_failure"))
    /\ EndAttempt(w)
    /\ UNCHANGED <<due, batch, queue, rebuild, since, ticked>>

\* The row is given back with everything it says, the request included.
Released(r) ==
    [r EXCEPT !.status = "idle", !.request = IF @ = "no" THEN "no" ELSE "before"]

\* Mutant: the forced retry leaves the status behind.
RetriedInPlace(r) == [r EXCEPT !.request = "before"]

Retried(r) == [r EXCEPT !.status = "idle", !.request = "before"]

\* What the page or the exception of a mishap comes to.
PathOf(mishap) ==
    IF mishap.kind = "page" THEN Recorded(Finding(mishap.page), "worker_failure")
    ELSE ExceptionPath(mishap.error, TRUE, FALSE)

FailScan(w, mishap) ==
    /\ LET t == work[w].item.target
           path == PathOf(mishap)
           d == DecisionFor(t, path.reason, path.source)
       IN  \/ /\ path.path = "record"
              /\ RecordFailure(t, d)
              /\ rebuild' = (rebuild \/ d.rebuild)
              /\ UNCHANGED events
           \/ /\ path.path = "lock_retry" /\ Event
              /\ row' = [row EXCEPT ![t] = Retried(@)]
              /\ UNCHANGED <<age, failed, rebuild>>
    /\ EndAttempt(w)
    /\ UNCHANGED <<due, batch, queue, since, ticked>>

-----------------------------------------------------------------------------
(* Recovery, and the ends of a session.                                    *)

\* The heartbeat of a running row stopped: the tick takes the row away and
\* notes a failure, and the executor cancels the attempt.
RecoverRunning(t) ==
    /\ batch = <<>> /\ Busy(t) /\ Event
    /\ RecordFailure(t, DecisionFor(t, "stale_running", "runtime_recovery"))
    /\ work' = [w \in Workers |-> IF work[w].item.target = t THEN NoWork ELSE work[w]]
    /\ UNCHANGED <<due, batch, queue, rebuild, since, ticked>>

Queued(t) == \E i \in DOMAIN queue : queue[i].target = t

\* The executor and its browser are replaced under the same planner: running
\* scans fail, queued ones are asked for again.
RebuildSession ==
    /\ rebuild /\ batch = <<>>
    /\ LET D(t) == DecisionFor(t, "scheduler_runtime", "unknown_exception")
       IN  /\ row' = [t \in Targets |-> IF Busy(t) THEN Failed(row[t], D(t))
                                        ELSE IF Queued(t) THEN Retried(row[t]) ELSE row[t]]
           /\ failed' = [t \in Targets |-> IF Busy(t) THEN Noted(t, D(t)) ELSE failed[t]]
    /\ age' = [t \in Targets |-> IF Busy(t) THEN 0 ELSE age[t]]
    /\ work' = [w \in Workers |-> NoWork]
    /\ queue' = <<>> /\ rebuild' = FALSE
    /\ UNCHANGED <<due, batch, events, since, ticked>>

\* The worker is stopped and another one started: it has a new planner.
NewScheduler ==
    /\ batch = <<>> /\ Event
    /\ row' = [t \in Targets |->
                  IF Busy(t) \/ (Queued(t) /\ row[t].status = "queued")
                  THEN Released(row[t]) ELSE row[t]]
    /\ due' = [t \in Targets |-> Never]
    /\ since' = [t \in Targets |-> Never]
    /\ work' = [w \in Workers |-> NoWork]
    /\ queue' = <<>> /\ rebuild' = FALSE
    /\ UNCHANGED <<age, batch, failed, ticked>>

\* The session failed as a whole: once its scans are given back, every wanted
\* target takes the failure.
SessionFailure(reason) ==
    /\ batch = <<>> /\ Event
    /\ LET hit == {t \in Targets : Plannable(t)}
           D(t) == DecisionFor(t, reason, "unknown_exception")
       IN  /\ row' = [t \in Targets |-> IF t \in hit THEN Failed(Released(row[t]), D(t)) ELSE row[t]]
           /\ failed' = [t \in Targets |-> IF t \in hit THEN Noted(t, D(t)) ELSE failed[t]]
           /\ age' = [t \in Targets |-> IF t \in hit THEN 0 ELSE age[t]]
    /\ work' = [w \in Workers |-> NoWork]
    /\ due' = [t \in Targets |-> Never]
    /\ since' = [t \in Targets |-> Never]
    /\ queue' = <<>> /\ rebuild' = FALSE
    /\ UNCHANGED <<batch, ticked>>

-----------------------------------------------------------------------------
(* Time.  A tick is shorter than the shortest refresh interval: the        *)
(* planner runs in every unit.                                             *)
Older(a) == IF a = Never THEN Never ELSE IF a < Horizon THEN a + 1 ELSE a
Nearer(d) == IF d = Never THEN Never ELSE d - 1

PassTime ==
    /\ ticked /\ batch = <<>>
    /\ \A t \in Targets : due[t] > 0 - Overdue
    /\ ticked' = FALSE
    /\ due' = [t \in Targets |-> Nearer(due[t])]
    /\ age' = [t \in Targets |-> Older(age[t])]
    /\ since' = [t \in Targets |-> Older(since[t])]
    /\ UNCHANGED <<row, batch, queue, work, rebuild, events, failed>>

-----------------------------------------------------------------------------
AttemptEnds(w) ==
    \/ GiveUp(w) \/ Succeed(w) \/ SkipScan(w)
    \/ Scanning(w) /\ \E mishap \in Mishaps[work[w].item.target] : FailScan(w, mishap)

Web == \E t \in Targets : Start(t) \/ Stop(t) \/ ScanOnce(t)

Next ==
    \/ Web
    \/ PlanDue \/ Enqueue \/ PassTime \/ RebuildSession \/ NewScheduler
    \/ \E t \in Targets : RecoverRunning(t)
    \/ \E reason \in {"profile_locked", "scheduler_runtime"} : SessionFailure(reason)
    \/ \E w \in Workers : Claim(w) \/ AttemptEnds(w)

\* Ticks and workers run on, and time passes.
Fairness ==
    /\ WF_vars(PlanDue) /\ WF_vars(Enqueue) /\ WF_vars(RebuildSession)
    /\ WF_vars(PassTime)
    /\ \A w \in Workers : WF_vars(Claim(w)) /\ WF_vars(AttemptEnds(w))

Spec     == Init /\ [][Next]_vars
FairSpec == Spec /\ Fairness

-----------------------------------------------------------------------------
Items ==
    {i \in [target : Targets, manual : BOOLEAN, interval : Nat] : i.interval \in Refresh[i.target]}

\* What a failure may be recorded as.
Reasons ==
    {"sort_adjust_unconfirmed", "stale_running", "scheduler_runtime", "profile_locked"}
    \cup UNION {{PathOf(mishap).reason : mishap \in Mishaps[t]} : t \in Targets}

Rows == [wanted : BOOLEAN, status : {"idle", "queued", "running", "error"},
         request : Requests, failure : Reasons \cup {NoReason}, failures : 0..FailureLimit,
         skips : 0..SkipLimit]

\* The variables stay in their types.
TypeOK ==
    /\ row \in [Targets -> Rows]
    /\ age \in [Targets -> Ages \cup {Never}] /\ since \in [Targets -> Ages \cup {Never}]
    /\ due \in [Targets -> Int]
    /\ batch \in Seq(Items) /\ queue \in Seq(Items)
    /\ work \in [Workers -> [item : Items, owns : BOOLEAN] \cup {NoWork}]
    /\ failed \in [Targets -> Seq(Reasons)]
    /\ rebuild \in BOOLEAN /\ events \in 0..MaxEvents /\ ticked \in BOOLEAN

\* The program is a polite visitor whatever went wrong before: a scan nobody
\* asked for, when it was planned or since, starts no sooner than one refresh
\* interval after the last one did, and a page that was unavailable is left
\* alone for RetryDelay.
Cadence(t) ==
    LET began == since'[t] = 0 /\ row'[t].status = "running" /\ row[t].status # "running"
        waits == row[t].failures > 0 /\ DelayOf(row[t].failure) > 0
        asked == Head(queue).manual \/ row[t].request # "no"
    IN  began /\ ~asked =>
            /\ waits => age[t] # Never /\ age[t] >= RetryDelay
            /\ waits \/ since[t] = Never \/ \E i \in Refresh[t] : since[t] >= i
CadenceKept == [][\A t \in Targets : Cadence(t)]_vars

\* A target ends in error by its streak exactly when its last FailureLimit
\* failures had one reason, with no good scan, Start or Stop between them.
ErrorIsEarned ==
    \A t \in Targets :
        (row[t].status = "error" /\ row[t].failures > 0)
        <=> Len(failed[t]) >= FailureLimit
            /\ \A i \in Len(failed[t]) - FailureLimit + 1 .. Len(failed[t]) :
                    failed[t][i] = failed[t][Len(failed[t])]

\* Every wanted target is scanned again and again, however busy the others
\* keep the workers.
TargetsServed ==
    \A t \in Targets :
        Plannable(t) ~> (row[t].status = "running" \/ ~Plannable(t))
=============================================================================
