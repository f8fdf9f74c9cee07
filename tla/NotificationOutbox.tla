------------------------- MODULE NotificationOutbox -------------------------
(***************************************************************************)
(* From a matching item to a notification that was sent: what a scan       *)
(* commit writes, the outbox rows, the two dispatchers that may drain      *)
(* them, and everything that deletes rows (reset, deletion of a target,    *)
(* clearing failures, retention).                                          *)
(*                                                                         *)
(* One action is one SQLite transaction or one call of a sender.  Days     *)
(* stand for stored times (0 is "no row"); only retention compares them.   *)
(* An item stands for its set of aliases; its outbox slot is the           *)
(* idempotency key target:item_key:channel.                                *)
(***************************************************************************)
EXTENDS Integers, FiniteSets, Functions

CONSTANTS
    Targets, Items, Channels,
    Owner,        \* the target each item belongs to
    NoEndpoint,   \* channels without an endpoint to refresh (desktop)
    BatchLimit,   \* rows one claim takes at most
    MaxBatches,   \* batches of the thread for one wake
    SentKeep, FailedKeep, Horizon,    \* days of retention
    MaxDay, MaxId, MaxEpoch, MaxMishaps   \* bounds of the model

ASSUME ConstantsAssumption ==
    /\ Owner \in [Items -> Targets]
    /\ NoEndpoint \subseteq Channels
    /\ {BatchLimit, MaxBatches} \subseteq Nat \ {0}
    /\ {SentKeep, FailedKeep, Horizon, MaxDay, MaxId, MaxEpoch, MaxMishaps}
          \subseteq Nat
    /\ SentKeep <= Horizon /\ FailedKeep <= Horizon
    /\ IsFiniteSet(Items)

VARIABLES
    day,
    epoch,        \* target_dedupe_state.dedupe_epoch
    nextId,       \* AUTOINCREMENT of logical_items
    logical,      \* logical_items: id of the item's row (0: none) and last_seen_at
    seen,         \* seen_items.last_seen_at, the older mirror
    latest,       \* items of the latest_scan_items snapshots
    ledger,       \* notification_dedupe
    outbox,       \* notification_outbox, by slot
    drain,        \* what each dispatcher is doing
    registered,   \* the thread is registered for this database
    stopping,     \* its stop event
    wake,         \* its wake event
    hook,         \* an after-commit hook is still to run
    mishaps,
    \* history
    witnessed,    \* last day a commit contained the item since its reset
    allowance,    \* sender calls a reservation may still cause: one, and one
                  \* more for each time its row went back to pending
    awaitsTick    \* pending rows may be left to the next scheduler tick

tables == <<epoch, nextId, logical, seen, latest, ledger, outbox>>
wakeVars == <<registered, stopping, wake, hook>>
history == <<witnessed, allowance, awaitsTick>>
vars == <<day, tables, drain, wakeVars, mishaps, history>>

Dispatchers == {"thread", "tick"}
Slots == Items \X Channels
NoKey == [target |-> "none", epoch |-> 0, id |-> 0, channel |-> "none"]
Keys == [target : Targets, epoch : 0..MaxEpoch, id : 1..MaxId, channel : Channels]
Reservations == (1..MaxId) \X Channels
Live == {"pending", "processing"}
Ended == {"sent", "failed", "skipped"}

Row(key, status, token) ==
    [dedupe_id |-> key, status |-> status, processing_token |-> token,
     at |-> day, aged |-> FALSE]

ItemsOf(t) == {i \in Items : Owner[i] = t}
SlotsOf(t) == {r \in DOMAIN outbox : Owner[r[1]] = t}
RowsWith(statuses) == {r \in DOMAIN outbox : outbox[r].status \in statuses}
Before(at, keep) == at + keep < day
Idle == [phase |-> "idle", batches |-> 0, full |-> FALSE, picked |-> {},
         batch |-> {}, entry |-> <<>>, result |-> "sent"]

Init ==
    /\ day = 1
    /\ epoch = [t \in Targets |-> 0]
    /\ nextId = 1
    /\ logical = [i \in Items |-> [id |-> 0, seen |-> 0]]
    /\ seen = [i \in Items |-> 0]
    /\ latest = {}
    /\ ledger = <<>>
    /\ outbox = <<>>
    /\ drain = [d \in Dispatchers |-> Idle]
    /\ registered = TRUE /\ stopping = FALSE /\ hook = FALSE
    /\ wake \in BOOLEAN
    /\ mishaps = 0
    /\ witnessed = [i \in Items |-> 0]
    /\ allowance = [k \in Reservations |-> 1]
    /\ awaitsTick = FALSE

-----------------------------------------------------------------------------
(* The commit of a scan. *)

Unknown(S) == {i \in S : logical[i].id = 0}

\* Mutant: the older mirror is no longer asked.
IsNewWithoutMirror(S) == Unknown(S)
\* is_new: no logical row of the current epoch, and not seen within the horizon.
IsNew(S) == {i \in Unknown(S) : seen[i] = 0 \/ Before(seen[i], Horizon)}

\* mark_seen_aliases: a row for every item without one, all rows touched.
MarkSeen(S, ids) ==
    [i \in Items |-> IF i \in S
                     THEN [id |-> IF i \in DOMAIN ids THEN ids[i] ELSE logical[i].id,
                           seen |-> day]
                     ELSE logical[i]]

KeyOf(i, id, c) ==
    [target |-> Owner[i], epoch |-> epoch[Owner[i]], id |-> id, channel |-> c]

\* reserve_match: INSERT OR IGNORE, an existing reservation is only touched.
Reserve(keys) ==
    [k \in DOMAIN ledger \cup keys |->
        [status |-> IF k \in DOMAIN ledger THEN ledger[k].status ELSE "queued",
         at |-> IF k \in keys THEN day ELSE ledger[k].at]]

\* enqueue: INSERT OR IGNORE on the slot, only for reservations just created.
Enqueue(wanted) ==
    [r \in DOMAIN outbox \cup DOMAIN wanted |->
        IF r \in DOMAIN outbox THEN outbox[r] ELSE Row(wanted[r], "pending", "")]

\* S: the items of the page, M: those the keywords match, C: the channels the
\* loaded configuration has on; the snapshot may keep older items.
CommitScan(t, S, M, C, keepOlder) ==
    /\ \E ids \in Injection(Unknown(S), nextId..MaxId) :
          LET slots == (IsNew(S) \cap M) \X C
              key == [r \in slots |-> KeyOf(r[1], ids[r[1]], r[2])]
              wanted == Restrict(key, {r \in slots : key[r] \notin DOMAIN ledger})
          IN  /\ \A i \in Unknown(S) : ids[i] < nextId + Cardinality(Unknown(S))
              /\ nextId' = nextId + Cardinality(Unknown(S))
              /\ logical' = MarkSeen(S, ids)
              /\ ledger' = Reserve(Range(key))
              /\ outbox' = Enqueue(wanted)
              /\ hook' = (hook \/ ~(DOMAIN wanted \subseteq DOMAIN outbox))
    /\ seen' = [i \in Items |-> IF i \in S THEN day ELSE seen[i]]
    /\ witnessed' = [i \in Items |-> IF i \in S THEN day ELSE witnessed[i]]
    /\ latest' = S \cup IF keepOlder THEN latest ELSE latest \ ItemsOf(t)
    /\ UNCHANGED <<day, epoch, drain, registered, stopping, wake, mishaps,
                   allowance, awaitsTick>>

Wake == /\ wake' = TRUE
        /\ awaitsTick' = FALSE

NoWake == UNCHANGED <<wake, awaitsTick>>

RunAfterCommitHook ==
    /\ hook /\ hook' = FALSE
    /\ IF registered THEN Wake ELSE NoWake
    /\ UNCHANGED <<day, tables, drain, registered, stopping, mishaps, witnessed,
                   allowance>>

-----------------------------------------------------------------------------
(* What deletes rows. *)

Forgotten(t) ==
    [i \in Items |-> IF Owner[i] = t THEN [id |-> 0, seen |-> 0] ELSE logical[i]]

\* Mutant: the reservations keep their epoch, the rows go.
ResetSameEpoch(t) ==
    /\ epoch[t] < MaxEpoch
    /\ logical' = Forgotten(t)
    /\ seen' = [i \in Items |-> IF Owner[i] = t THEN 0 ELSE seen[i]]
    /\ witnessed' = [i \in Items |-> IF Owner[i] = t THEN 0 ELSE witnessed[i]]
    /\ outbox' = Restrict(outbox, DOMAIN outbox \ SlotsOf(t))
    /\ UNCHANGED <<day, epoch, nextId, latest, ledger, drain, wakeVars, mishaps,
                   allowance, awaitsTick>>

\* Mutant: the older mirror is not cleared.
ResetKeepingSeen(t) ==
    /\ epoch[t] < MaxEpoch
    /\ epoch' = [epoch EXCEPT ![t] = @ + 1]
    /\ logical' = Forgotten(t)
    /\ witnessed' = [i \in Items |-> IF Owner[i] = t THEN 0 ELSE witnessed[i]]
    /\ outbox' = Restrict(outbox, DOMAIN outbox \ SlotsOf(t))
    /\ UNCHANGED <<day, nextId, seen, latest, ledger, drain, wakeVars, mishaps,
                   allowance, awaitsTick>>

ResetTargetNotificationState(t) ==
    /\ epoch[t] < MaxEpoch
    /\ epoch' = [epoch EXCEPT ![t] = @ + 1]
    /\ logical' = Forgotten(t)
    /\ seen' = [i \in Items |-> IF Owner[i] = t THEN 0 ELSE seen[i]]
    /\ witnessed' = [i \in Items |-> IF Owner[i] = t THEN 0 ELSE witnessed[i]]
    /\ outbox' = Restrict(outbox, DOMAIN outbox \ SlotsOf(t))
    /\ UNCHANGED <<day, nextId, latest, ledger, drain, wakeVars, mishaps,
                   allowance, awaitsTick>>

\* Foreign keys cascade; seen_items belongs to the scope and stays.  A target
\* of that scope made later has a new id: its epoch starts at 0 again.
DeleteTarget(t) ==
    /\ epoch' = [epoch EXCEPT ![t] = 0]
    /\ logical' = Forgotten(t)
    /\ latest' = latest \ ItemsOf(t)
    /\ ledger' = Restrict(ledger, {k \in DOMAIN ledger : k.target # t})
    /\ outbox' = Restrict(outbox, DOMAIN outbox \ SlotsOf(t))
    /\ UNCHANGED <<day, nextId, seen, drain, wakeVars, mishaps, history>>

ClearFailed ==
    /\ RowsWith({"failed"}) # {}
    /\ outbox' = Restrict(outbox, DOMAIN outbox \ RowsWith({"failed"}))
    /\ UNCHANGED <<day, epoch, nextId, logical, seen, latest, ledger, drain,
                   wakeVars, mishaps, history>>

\* The four DELETEs of prune_bounded_retention, each seeing the ones before it.
\* Mutant: the age alone decides.
ExpiredRowsByAge == {r \in DOMAIN outbox : Before(outbox[r].at, SentKeep)}
ExpiredRows ==
    {r \in DOMAIN outbox :
        \/ outbox[r].status \in {"sent", "skipped"} /\ Before(outbox[r].at, SentKeep)
        \/ outbox[r].status = "failed" /\ Before(outbox[r].at, FailedKeep)}

\* Mutant: rows that still refer to the reservation do not protect it.
ExpiredReservationsByAge == {k \in DOMAIN ledger : Before(ledger[k].at, Horizon)}
ExpiredReservations ==
    {k \in DOMAIN ledger :
        /\ Before(ledger[k].at, Horizon)
        /\ \A r \in RowsWith(Live \cup {"failed"}) \ ExpiredRows :
              outbox[r].dedupe_id # k}

ExpiredLogical ==
    {i \in Items :
        /\ logical[i].id # 0 /\ Before(logical[i].seen, Horizon)
        /\ \A k \in DOMAIN ledger \ ExpiredReservations : k.id # logical[i].id
        /\ i \notin latest}

PruneBoundedRetention ==
    /\ outbox' = [r \in DOMAIN outbox \ ExpiredRows |->
                    IF outbox[r].dedupe_id \in ExpiredReservations
                    THEN [outbox[r] EXCEPT !.dedupe_id = NoKey] ELSE outbox[r]]
    /\ ledger' = Restrict(ledger, DOMAIN ledger \ ExpiredReservations)
    /\ logical' = [i \in Items |-> IF i \in ExpiredLogical
                                   THEN [id |-> 0, seen |-> 0] ELSE logical[i]]
    /\ seen' = [i \in Items |-> IF Before(seen[i], Horizon) THEN 0 ELSE seen[i]]
    /\ UNCHANGED <<day, epoch, nextId, latest, drain, wakeVars, mishaps, history>>

-----------------------------------------------------------------------------
(* A drain, by the thread after a wake or by a scheduler tick while no      *)
(* thread is registered.                                                    *)

To(d, phase) == drain' = [drain EXCEPT ![d].phase = phase]

Begin(d) == drain' = [drain EXCEPT ![d] = [Idle EXCEPT !.phase = "recover"]]

\* _run: the event is cleared before the drain, not after it.
ThreadWakes ==
    /\ drain["thread"].phase = "idle" /\ wake
    /\ wake' = FALSE
    /\ IF stopping THEN To("thread", "gone") ELSE Begin("thread")
    /\ UNCHANGED <<day, tables, registered, stopping, hook, mishaps, history>>

\* Mutant: a tick leaves a registered thread alone.
TickDispatchesUnregistered ==
    /\ drain["tick"].phase = "idle" /\ ~registered
    /\ Begin("tick") /\ NoWake
    /\ UNCHANGED <<day, tables, registered, stopping, hook, mishaps, witnessed,
                   allowance>>

\* dispatch_pending_notification_outbox
TickDispatches ==
    /\ drain["tick"].phase = "idle"
    /\ IF registered
       THEN Wake /\ UNCHANGED drain
       ELSE Begin("tick") /\ NoWake
    /\ UNCHANGED <<day, tables, registered, stopping, hook, mishaps, witnessed,
                   allowance>>

RecoverStaleProcessing(d) ==
    LET stale == {r \in RowsWith({"processing"}) : outbox[r].aged}
    IN  /\ drain[d].phase = "recover"
        /\ outbox' = [r \in DOMAIN outbox |->
                        IF r \in stale THEN Row(outbox[r].dedupe_id, "pending", "")
                                       ELSE outbox[r]]
        /\ allowance' = [k \in Reservations |->
                           allowance[k] + Cardinality({r \in stale :
                               <<outbox[r].dedupe_id.id, outbox[r].dedupe_id.channel>> = k})]
        /\ To(d, "select")
        /\ UNCHANGED <<day, epoch, nextId, logical, seen, latest, ledger, wakeVars,
                       mishaps, witnessed, awaitsTick>>

\* How a drain ends: stopped, at the batch limit, or with nothing left to take.
\* Only the thread counts batches, and it wakes itself if the last one was full.
AtBatchLimit(d) == d = "thread" /\ drain[d].batches >= MaxBatches

\* Mutant: the thread does not wake itself.
FinishDrainAsleep(d) ==
    /\ drain[d].phase = "select"
    /\ \/ d = "thread" /\ (stopping \/ AtBatchLimit(d))
       \/ RowsWith({"pending"}) = {}
    /\ drain' = [drain EXCEPT ![d] = Idle]
    /\ UNCHANGED <<day, tables, wakeVars, mishaps, history>>

FinishDrain(d) ==
    /\ drain[d].phase = "select"
    /\ \/ d = "thread" /\ (stopping \/ AtBatchLimit(d))
       \/ RowsWith({"pending"}) = {}
    /\ drain' = [drain EXCEPT ![d] = Idle]
    /\ IF AtBatchLimit(d) /\ drain[d].full /\ ~stopping THEN Wake ELSE NoWake
    /\ UNCHANGED <<day, tables, registered, stopping, hook, mishaps, witnessed,
                   allowance>>

\* _claim_status reads the ids first and claims them, still pending, later.
SelectPending(d) ==
    /\ drain[d].phase = "select"
    /\ d = "thread" => ~stopping /\ ~AtBatchLimit(d)
    /\ RowsWith({"pending"}) # {}
    /\ \E picked \in SUBSET RowsWith({"pending"}) :
          /\ \/ Cardinality(picked) = BatchLimit
             \/ picked = RowsWith({"pending"}) /\ Cardinality(picked) < BatchLimit
          /\ drain' = [drain EXCEPT ![d].picked = picked, ![d].phase = "claim"]
    /\ UNCHANGED <<day, tables, wakeVars, mishaps, history>>

\* Mutant: the claim takes rows another drain has claimed since.
StillUnfinished(picked) == picked \cap RowsWith(Live)
StillPending(picked) == picked \cap RowsWith({"pending"})

ClaimPending(d) ==
    LET claimed == StillPending(drain[d].picked)
    IN  /\ drain[d].phase = "claim"
        /\ outbox' = [r \in DOMAIN outbox |->
                        IF r \in claimed THEN Row(outbox[r].dedupe_id, "processing", d)
                                         ELSE outbox[r]]
        /\ drain' = [drain EXCEPT ![d] =
                       IF claimed = {} THEN Idle
                       ELSE [@ EXCEPT !.batch = {<<r, outbox[r].dedupe_id>> : r \in claimed},
                                      !.full = Cardinality(claimed) >= BatchLimit,
                                      !.picked = {}, !.phase = "prepare"]]
        /\ awaitsTick' = (awaitsTick \/ (d = "thread" /\ claimed # drain[d].picked))
        /\ UNCHANGED <<day, epoch, nextId, logical, seen, latest, ledger, wakeVars,
                       mishaps, witnessed, allowance>>

-----------------------------------------------------------------------------
(* One entry of a claimed batch.  Every write repeats the claim's status    *)
(* and token; a claim that is no longer current gives the entry up.         *)

Slot(d) == drain[d].entry[1]
Reservation(d) == <<drain[d].entry[2].id, drain[d].entry[2].channel>>

HoldsClaim(d, r) ==
    /\ r \in DOMAIN outbox
    /\ outbox[r].status = "processing" /\ outbox[r].processing_token = d

TouchProcessing(r) == [outbox EXCEPT ![r].at = day, ![r].aged = FALSE]

NextEntry(d, e) ==
    LET rest == drain[d].batch \ {e}
        batches == IF d = "thread" /\ rest = {} THEN drain[d].batches + 1
                                                 ELSE drain[d].batches
    IN  drain' = [drain EXCEPT ![d].batch = rest, ![d].entry = <<>>,
                               ![d].result = "sent", ![d].batches = batches,
                               ![d].phase = IF rest = {} THEN "select" ELSE "prepare"]

EntryUnchanged == UNCHANGED <<day, epoch, nextId, logical, seen, latest, wakeVars,
                              witnessed>>

EnsureClaim(d) ==
    /\ drain[d].phase = "prepare"
    /\ \E e \in drain[d].batch :
          IF HoldsClaim(d, e[1])
          THEN /\ outbox' = TouchProcessing(e[1])
               /\ drain' = [drain EXCEPT ![d].entry = e, ![d].phase = "refresh"]
          ELSE NextEntry(d, e) /\ UNCHANGED outbox
    /\ UNCHANGED <<ledger, mishaps, allowance, awaitsTick>> /\ EntryUnchanged

\* The endpoint of the current configuration: as stored, another one (a guarded
\* write), or none because the channel is off now, which skips the sender.
RefreshEndpoint(d) ==
    /\ drain[d].phase = "refresh"
    /\ \E differs, off \in BOOLEAN :
          /\ Slot(d)[2] \in NoEndpoint => ~differs /\ ~off
          /\ IF differs /\ ~HoldsClaim(d, Slot(d))
             THEN NextEntry(d, drain[d].entry) /\ UNCHANGED outbox
             ELSE /\ outbox' = IF differs THEN TouchProcessing(Slot(d)) ELSE outbox
                  /\ drain' = [drain EXCEPT
                                 ![d].result = IF off THEN "skipped" ELSE "sent",
                                 ![d].phase = IF off THEN "record" ELSE "send"]
    /\ UNCHANGED <<ledger, mishaps, allowance, awaitsTick>> /\ EntryUnchanged

CallSender(d) ==
    /\ drain[d].phase = "send"
    /\ \E result \in {"sent", "failed"} :
          drain' = [drain EXCEPT ![d].result = result, ![d].phase = "record"]
    /\ allowance' = [allowance EXCEPT ![Reservation(d)] = @ - 1]
    /\ UNCHANGED <<outbox, ledger, mishaps, awaitsTick>> /\ EntryUnchanged

\* mark_result, and with it the ledger row, in one transaction.
\* Mutant: the outbox row alone is finished.
RecordRowOnly(d) ==
    /\ drain[d].phase = "record"
    /\ outbox' = IF HoldsClaim(d, Slot(d))
                 THEN [outbox EXCEPT ![Slot(d)] = Row(@.dedupe_id, drain[d].result, "")]
                 ELSE outbox
    /\ NextEntry(d, drain[d].entry)
    /\ UNCHANGED <<ledger, mishaps, allowance, awaitsTick>> /\ EntryUnchanged

RecordResult(d) ==
    /\ drain[d].phase = "record"
    /\ IF HoldsClaim(d, Slot(d))
       THEN LET k == outbox[Slot(d)].dedupe_id
            IN  /\ outbox' = [outbox EXCEPT ![Slot(d)] = Row(k, drain[d].result, "")]
                /\ ledger' = [j \in DOMAIN ledger |->
                                IF j = k THEN [status |-> drain[d].result, at |-> day]
                                         ELSE ledger[j]]
       ELSE UNCHANGED <<outbox, ledger>>
    /\ NextEntry(d, drain[d].entry)
    /\ UNCHANGED <<mishaps, allowance, awaitsTick>> /\ EntryUnchanged

\* An exception of any step of the entry is recorded as its failure.
EntryRaises(d) ==
    /\ mishaps < MaxMishaps /\ mishaps' = mishaps + 1
    /\ \/ /\ drain[d].phase = "prepare"
          /\ \E e \in drain[d].batch :
                drain' = [drain EXCEPT ![d].entry = e, ![d].result = "failed",
                                       ![d].phase = "record"]
       \/ /\ drain[d].phase \in {"refresh", "send", "record"}
          /\ drain' = [drain EXCEPT ![d].result = "failed", ![d].phase = "record"]
    /\ UNCHANGED <<outbox, ledger, allowance, awaitsTick>> /\ EntryUnchanged

\* An exception elsewhere, the failure recorder included, ends the drain: what
\* it claimed stays in processing.
AbortDrain(d) ==
    /\ drain[d].phase \notin {"idle", "gone"}
    /\ mishaps < MaxMishaps /\ mishaps' = mishaps + 1
    /\ drain' = [drain EXCEPT ![d] = Idle]
    /\ awaitsTick' = (awaitsTick \/ d = "thread")
    /\ UNCHANGED <<outbox, ledger, allowance>> /\ EntryUnchanged

-----------------------------------------------------------------------------
(* The program and time. *)

\* The scheduler is asked to stop (its join may time out), then the thread.
ShutdownDispatcher ==
    /\ registered
    /\ mishaps < MaxMishaps /\ mishaps' = mishaps + 1
    /\ registered' = FALSE /\ stopping' = TRUE /\ wake' = TRUE
    /\ UNCHANGED <<day, tables, drain, hook, history>>

\* The process ends at any point and starts again; a start that clears the
\* runtime data clears the snapshots and does not wake the thread.
Restart(clearRuntimeData) ==
    /\ mishaps < MaxMishaps /\ mishaps' = mishaps + 1
    /\ latest' = IF clearRuntimeData THEN {} ELSE latest
    /\ drain' = [d \in Dispatchers |-> Idle]
    /\ registered' = TRUE /\ stopping' = FALSE /\ hook' = FALSE
    /\ wake' = ~clearRuntimeData
    /\ awaitsTick' = clearRuntimeData
    /\ UNCHANGED <<day, epoch, nextId, logical, seen, ledger, outbox, witnessed,
                   allowance>>

\* A claim untouched for longer than the stale threshold.
ProcessingAges(r) ==
    /\ r \in RowsWith({"processing"}) /\ ~outbox[r].aged
    /\ outbox' = [outbox EXCEPT ![r].aged = TRUE]
    /\ UNCHANGED <<day, epoch, nextId, logical, seen, latest, ledger, drain,
                   wakeVars, mishaps, history>>

NextDay ==
    /\ day < MaxDay /\ day' = day + 1
    /\ UNCHANGED <<tables, drain, wakeVars, mishaps, history>>

-----------------------------------------------------------------------------
Drain(d) ==
    \/ RecoverStaleProcessing(d) \/ FinishDrain(d) \/ SelectPending(d) \/ ClaimPending(d)
    \/ EnsureClaim(d) \/ RefreshEndpoint(d) \/ CallSender(d) \/ RecordResult(d)

Next ==
    \/ \E t \in Targets : \E S \in SUBSET ItemsOf(t) : \E M \in SUBSET S :
          \E C \in SUBSET Channels : \E b \in BOOLEAN : CommitScan(t, S, M, C, b)
    \/ \E t \in Targets : ResetTargetNotificationState(t) \/ DeleteTarget(t)
    \/ RunAfterCommitHook \/ ClearFailed \/ PruneBoundedRetention
    \/ ThreadWakes \/ TickDispatches
    \/ \E d \in Dispatchers : Drain(d) \/ EntryRaises(d) \/ AbortDrain(d)
    \/ ShutdownDispatcher \/ \E b \in BOOLEAN : Restart(b)
    \/ \E r \in Slots : ProcessingAges(r)
    \/ NextDay

Spec == Init /\ [][Next]_vars

Fairness ==
    /\ WF_vars(TickDispatches) /\ WF_vars(RunAfterCommitHook) /\ WF_vars(ThreadWakes)
    /\ \A d \in Dispatchers : WF_vars(Drain(d))
    /\ \A r \in Slots : WF_vars(ProcessingAges(r))

FairSpec == Spec /\ Fairness

-----------------------------------------------------------------------------
LedgerRow == [status : {"queued"} \cup Ended, at : Nat]
OutboxRow == [dedupe_id : Keys \cup {NoKey}, status : Live \cup Ended,
              processing_token : Dispatchers \cup {""}, at : Nat, aged : BOOLEAN]
Claims == Slots \X (Keys \cup {NoKey})
DrainState ==
    [phase : {"idle", "recover", "select", "claim", "prepare", "refresh", "send",
              "record", "gone"},
     batches : Nat, full : BOOLEAN, picked : SUBSET Slots, batch : SUBSET Claims,
     entry : Claims \cup {<<>>}, result : Ended]

\* Every variable has its type, and only a claimed row has a token.
TypeOK ==
    /\ day \in Nat \ {0} /\ nextId \in Nat \ {0}
    /\ epoch \in [Targets -> 0..MaxEpoch]
    /\ logical \in [Items -> [id : 0..MaxId, seen : Nat]]
    /\ seen \in [Items -> Nat] /\ witnessed \in [Items -> Nat]
    /\ drain \in [Dispatchers -> DrainState]
    /\ DOMAIN ledger \subseteq Keys
    /\ \A k \in DOMAIN ledger : ledger[k] \in LedgerRow
    /\ DOMAIN outbox \subseteq Slots
    /\ \A r \in DOMAIN outbox :
          /\ outbox[r] \in OutboxRow
          /\ (outbox[r].processing_token # "") = (outbox[r].status = "processing")

\* What the ledger says of a reservation is what its row says: a row on its way
\* belongs to a queued reservation, a finished row to one with the same result
\* (mark_result and _mark_dedupe_result, retention and reset between them).
LedgerMatchesRow ==
    \A r \in DOMAIN outbox :
        LET k == outbox[r].dedupe_id
        IN  /\ k \in DOMAIN ledger
            /\ ledger[k].status = IF outbox[r].status \in Live THEN "queued"
                                                               ELSE outbox[r].status

\* No reservation is stranded: one of the current epoch that is still queued has
\* its row on the way.  A lost row would silence the item for the horizon.
QueuedHasRow ==
    \A k \in DOMAIN ledger :
        ledger[k].status = "queued" /\ k.epoch = epoch[k.target] =>
            \E r \in RowsWith(Live) : outbox[r].dedupe_id = k

\* A sender is called once per reservation, and once more each time a claim that
\* went silent was taken back; nothing else sends an item twice on a channel.
SendOnce ==
    \A k \in Reservations : allowance[k] >= 0

\* The wake event is not lost: rows wait for the next scheduler tick only after a
\* drain that raised, a claim that lost rows, or a start without a wake.
NoLostWakeup ==
    /\ registered /\ drain["thread"].phase = "idle" /\ ~wake /\ ~hook /\ ~awaitsTick
    => RowsWith({"pending"}) = {}

\* An item seen within the horizon is not reserved again, whatever retention
\* deleted in the meantime.
NoRepeatWithinHorizon ==
    [][\A k \in DOMAIN ledger' \ DOMAIN ledger :
          \A i \in Items : Owner[i] = k.target /\ logical'[i].id = k.id =>
              witnessed[i] = 0 \/ Before(witnessed[i], Horizon)]_vars

\* A match the target has not seen since its last reset gets a pending row on
\* every channel of the scan: no old row, claimed row or reservation is in its way.
FreshMatchNotified ==
    [][\A i \in Items : witnessed[i] = 0 /\ witnessed'[i] # 0 =>
          \A S \in SUBSET ItemsOf(Owner[i]) : \A M \in SUBSET S :
              \A C \in SUBSET Channels : \A b \in BOOLEAN :
                  i \in M /\ CommitScan(Owner[i], S, M, C, b) =>
                      \A c \in C :
                          /\ <<i, c>> \in DOMAIN outbox'
                          /\ outbox'[<<i, c>>].status = "pending"
                          /\ outbox'[<<i, c>>].dedupe_id \notin DOMAIN ledger]_vars

\* A row on its way is sent, fails, is skipped or is deleted, unless the program
\* is shut down.
RowsEnd ==
    \A r \in Slots :
        (r \in RowsWith(Live)) ~> (r \notin RowsWith(Live) \/ stopping)

=============================================================================
