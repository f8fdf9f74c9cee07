---------------------- MODULE NotificationOutboxProofs ----------------------
(***************************************************************************)
(* Proofs about NotificationOutbox, for every set of targets, items and    *)
(* channels and every retention whose row limits do not exceed the         *)
(* horizon.  Part one: ledger and rows agree, no reservation is stranded,  *)
(* an item is not announced twice within the horizon, and a fresh match    *)
(* gets its rows.                                                          *)
(*                                                                         *)
(* The argument: the slot of a row has no epoch and no logical id, so all  *)
(* depends on a row never outliving the logical item it was made for.      *)
(* Reset and deletion remove both; retention keeps the logical item while  *)
(* the reservation is there, and the reservation while the row is.         *)
(***************************************************************************)
EXTENDS NotificationOutbox, FiniteSetTheorems, TLAPS

\* A row was made for the logical item its item still has.
RowHasLogical ==
    \A r \in DOMAIN outbox :
        LET k == outbox[r].dedupe_id
        IN  /\ k \in Keys
            /\ k.id = logical[r[1]].id /\ k.channel = r[2]
            /\ k.target = Owner[r[1]] /\ k.epoch = epoch[Owner[r[1]]]

\* Ids are given once.
IdsAreFresh ==
    /\ \A i \in Items : logical[i].id < nextId
    /\ \A i, j \in Items : logical[i].id = logical[j].id /\ logical[i].id # 0 => i = j
    /\ \A k \in DOMAIN ledger : k.id < nextId /\ k.epoch <= epoch[k.target]

\* A finished row is not younger than its reservation.
EndedBefore ==
    \A r \in RowsWith(Ended) : outbox[r].at <= ledger[outbox[r].dedupe_id].at

\* The mirror has the last day the item was seen, until that is past the horizon.
SeenTracks ==
    \A i \in Items :
        /\ seen[i] = witnessed[i] \/ (seen[i] = 0 /\ Before(witnessed[i], Horizon))
        /\ witnessed[i] = 0 => logical[i].id = 0

IInv ==
    /\ TypeOK /\ LedgerMatchesRow /\ QueuedHasRow
    /\ RowHasLogical /\ IdsAreFresh /\ EndedBefore /\ SeenTracks

-----------------------------------------------------------------------------
(* Types. *)

DrainTyped == drain \in [Dispatchers -> DrainState]

LedgerTyped ==
    /\ DOMAIN ledger \subseteq Keys
    /\ \A k \in DOMAIN ledger : ledger[k] \in LedgerRow

RowTyped(row) ==
    /\ row \in OutboxRow
    /\ (row.processing_token # "") = (row.status = "processing")

RowsTyped ==
    /\ DOMAIN outbox \subseteq Slots
    /\ \A r \in DOMAIN outbox : RowTyped(outbox[r])

ScalarsTyped ==
    /\ day \in Nat \ {0} /\ nextId \in Nat \ {0}
    /\ epoch \in [Targets -> 0..MaxEpoch]
    /\ logical \in [Items -> [id : 0..MaxId, seen : Nat]]
    /\ seen \in [Items -> Nat] /\ witnessed \in [Items -> Nat]

LEMMA TypeParts == TypeOK <=> DrainTyped /\ LedgerTyped /\ RowsTyped /\ ScalarsTyped
BY DEF TypeOK, DrainTyped, LedgerTyped, RowsTyped, RowTyped, ScalarsTyped

LEMMA ConstantFacts ==
    /\ Owner \in [Items -> Targets]
    /\ BatchLimit \in Nat /\ MaxBatches \in Nat
    /\ SentKeep \in Nat /\ FailedKeep \in Nat /\ Horizon \in Nat
    /\ MaxDay \in Nat /\ MaxId \in Nat /\ MaxEpoch \in Nat
    /\ SentKeep <= Horizon /\ FailedKeep <= Horizon
    /\ IsFiniteSet(Items)
BY ConstantsAssumption DEF ConstantsAssumption

\* The steps of a drain.
LEMMA ToTyped ==
    ASSUME DrainTyped, NEW d \in Dispatchers,
           NEW phase \in {"idle", "recover", "select", "claim", "prepare", "refresh",
                          "send", "record", "gone"},
           To(d, phase)
    PROVE  DrainTyped'
BY DEF DrainTyped, To, DrainState

LEMMA IdleTyped == Idle \in DrainState
BY DEF Idle, DrainState, Claims, Ended

LEMMA BeginTyped ==
    ASSUME DrainTyped, NEW d \in Dispatchers, Begin(d)
    PROVE  DrainTyped'
BY IdleTyped DEF DrainTyped, Begin, DrainState

LEMMA NextEntryTyped ==
    ASSUME DrainTyped, NEW d \in Dispatchers, NEW e, NextEntry(d, e)
    PROVE  DrainTyped'
<1> DEFINE rest == drain[d].batch \ {e}
           batches == IF d = "thread" /\ rest = {} THEN drain[d].batches + 1
                                                    ELSE drain[d].batches
           phase == IF rest = {} THEN "select" ELSE "prepare"
<1>1. drain[d] \in DrainState
  BY DEF DrainTyped
<1>2. rest \in SUBSET Claims /\ batches \in Nat
  BY <1>1 DEF DrainState
<1>3. "sent" \in Ended /\ <<>> \in Claims \cup {<<>>}
  BY DEF Ended
<1>4. phase \in {"idle", "recover", "select", "claim", "prepare", "refresh", "send",
                 "record", "gone"}
  OBVIOUS
<1>5. drain' = [drain EXCEPT ![d].batch = rest, ![d].entry = <<>>,
                             ![d].result = "sent", ![d].batches = batches,
                             ![d].phase = phase]
  BY DEF NextEntry
<1> HIDE DEF rest, batches, phase
<1> DEFINE next == [drain[d] EXCEPT !.batch = rest, !.entry = <<>>, !.result = "sent",
                                    !.batches = batches, !.phase = phase]
<1>6. next \in DrainState
  BY <1>1, <1>2, <1>3, <1>4 DEF DrainState
<1>7. drain' = [drain EXCEPT ![d] = next]
  BY <1>5, <1>1 DEF DrainTyped, DrainState
<1> QED
  BY <1>6, <1>7 DEF DrainTyped

-----------------------------------------------------------------------------
(* Steps that keep every row, with its reservation, on its side of "live".   *)

RowsKept ==
    /\ UNCHANGED <<epoch, nextId, logical, seen, ledger, witnessed>>
    /\ day' \in Nat /\ day <= day'
    /\ DOMAIN outbox' = DOMAIN outbox
    /\ \A r \in DOMAIN outbox :
          /\ RowTyped(outbox'[r])
          /\ outbox'[r].dedupe_id = outbox[r].dedupe_id
          /\ \/ outbox[r].status \in Live /\ outbox'[r].status \in Live
             \/ outbox'[r].status = outbox[r].status /\ outbox'[r].at = outbox[r].at

LEMMA BeforeMonotone ==
    ASSUME NEW at \in Nat, NEW keep \in Nat, day \in Nat, day' \in Nat, day <= day',
           Before(at, keep)
    PROVE  at + keep < day'
BY DEF Before

LEMMA RowsKeptStep ==
    ASSUME IInv, RowsKept, DrainTyped'
    PROVE  IInv'
<1>1. /\ DrainTyped /\ LedgerTyped /\ RowsTyped /\ ScalarsTyped
  BY TypeParts DEF IInv
<1>2. TypeOK'
  <2>1. LedgerTyped' /\ RowsTyped' /\ ScalarsTyped'
    BY <1>1 DEF RowsKept, LedgerTyped, RowsTyped, ScalarsTyped
  <2> QED
    BY <2>1, TypeParts, PTL
<1>3. LedgerMatchesRow'
  BY DEF IInv, LedgerMatchesRow, RowsKept, Live
<1>4. QueuedHasRow'
  <2> SUFFICES ASSUME NEW k \in DOMAIN ledger,
                      ledger[k].status = "queued", k.epoch = epoch[k.target]
               PROVE  \E r \in RowsWith(Live)' : outbox'[r].dedupe_id = k
    BY DEF QueuedHasRow, RowsKept
  <2>1. PICK r \in RowsWith(Live) : outbox[r].dedupe_id = k
    BY DEF IInv, QueuedHasRow
  <2>2. r \in RowsWith(Live)' /\ outbox'[r].dedupe_id = k
    BY <2>1 DEF RowsKept, RowsWith
  <2> QED
    BY <2>2
<1>5. RowHasLogical'
  BY DEF IInv, RowHasLogical, RowsKept
<1>6. IdsAreFresh'
  BY DEF IInv, IdsAreFresh, RowsKept
<1>7. EndedBefore'
  BY DEF IInv, EndedBefore, RowsKept, RowsWith, Ended, Live
<1>8. SeenTracks'
  BY <1>1, ConstantFacts, BeforeMonotone
     DEF IInv, SeenTracks, RowsKept, Before, ScalarsTyped
<1> QED
  BY <1>2, <1>3, <1>4, <1>5, <1>6, <1>7, <1>8 DEF IInv

\* Steps that leave the tables alone.
Quiet ==
    /\ UNCHANGED <<epoch, nextId, logical, seen, ledger, outbox, witnessed>>
    /\ day' \in Nat /\ day <= day'

LEMMA QuietStep ==
    ASSUME IInv, Quiet, DrainTyped'
    PROVE  IInv'
<1>1. RowsTyped
  BY TypeParts DEF IInv
<1>2. RowsKept
  BY <1>1 DEF Quiet, RowsKept, RowsTyped
<1> QED
  BY <1>2, RowsKeptStep

LEMMA ProgramSteps ==
    ASSUME IInv,
           \/ RunAfterCommitHook \/ ThreadWakes \/ TickDispatches
           \/ ShutdownDispatcher \/ (\E b \in BOOLEAN : Restart(b)) \/ NextDay
           \/ UNCHANGED vars
    PROVE  IInv'
<1>1. DrainTyped /\ day \in Nat
  BY TypeParts DEF IInv, ScalarsTyped
<1>2. "thread" \in Dispatchers /\ "tick" \in Dispatchers
  BY DEF Dispatchers
<1>3. Quiet
  BY <1>1 DEF RunAfterCommitHook, ThreadWakes, TickDispatches, ShutdownDispatcher, Restart,
              NextDay, vars, Quiet, tables, history, wakeVars
<1>4. DrainTyped'
  <2>1. CASE UNCHANGED drain
    BY <2>1, <1>1 DEF DrainTyped
  <2>2. CASE ThreadWakes
    BY <2>2, <1>1, <1>2, BeginTyped, ToTyped DEF ThreadWakes
  <2>3. CASE TickDispatches
    BY <2>1, <2>3, <1>1, <1>2, BeginTyped DEF TickDispatches
  <2>4. CASE \E b \in BOOLEAN : Restart(b)
    BY <2>4, IdleTyped DEF Restart, DrainTyped
  <2> QED
    BY <2>1, <2>2, <2>3, <2>4
       DEF RunAfterCommitHook, ShutdownDispatcher, NextDay, vars
<1> QED
  BY <1>3, <1>4, QuietStep

LEMMA QuietDrainSteps ==
    ASSUME IInv, NEW d \in Dispatchers,
           \/ FinishDrain(d) \/ SelectPending(d) \/ CallSender(d)
           \/ EntryRaises(d) \/ AbortDrain(d)
    PROVE  IInv'
<1>1. DrainTyped /\ RowsTyped /\ day \in Nat
  BY TypeParts DEF IInv, ScalarsTyped
<1>2. drain[d] \in DrainState
  BY <1>1 DEF DrainTyped
<1>3. Quiet
  <2>1. CASE FinishDrain(d) \/ SelectPending(d)
    BY <1>1, <2>1 DEF FinishDrain, SelectPending, Quiet, tables, history
  <2>2. CASE CallSender(d) \/ EntryRaises(d) \/ AbortDrain(d)
    <3>1. EntryUnchanged /\ UNCHANGED <<outbox, ledger>>
      BY <2>2 DEF CallSender, EntryRaises, AbortDrain
    <3> QED
      BY <1>1, <3>1 DEF EntryUnchanged, Quiet
  <2> QED
    BY <2>1, <2>2
<1>4. {"sent", "failed"} \subseteq Ended
  BY DEF Ended
<1>5. DrainTyped'
  <2>1. CASE FinishDrain(d)
    BY <2>1, <1>1, IdleTyped DEF FinishDrain, DrainTyped
  <2>2. CASE SelectPending(d)
    <3>1. PICK picked \in SUBSET RowsWith({"pending"}) :
             drain' = [drain EXCEPT ![d].picked = picked, ![d].phase = "claim"]
      BY <2>2 DEF SelectPending
    <3>2. picked \in SUBSET Slots
      BY <1>1 DEF RowsWith, RowsTyped
    <3> QED
      BY <3>1, <3>2, <1>1, <1>2 DEF DrainTyped, DrainState
  <2>3. CASE CallSender(d)
    BY <2>3, <1>1, <1>2, <1>4 DEF CallSender, DrainTyped, DrainState
  <2>4. CASE EntryRaises(d)
    <3>1. CASE \E e \in drain[d].batch :
                  drain' = [drain EXCEPT ![d].entry = e, ![d].result = "failed",
                                         ![d].phase = "record"]
      <4>1. PICK e \in drain[d].batch :
               drain' = [drain EXCEPT ![d].entry = e, ![d].result = "failed",
                                      ![d].phase = "record"]
        BY <3>1
      <4>2. e \in Claims \cup {<<>>} /\ "failed" \in Ended
        BY <1>2 DEF DrainState, Ended
      <4> DEFINE next == [drain[d] EXCEPT !.entry = e, !.result = "failed",
                                          !.phase = "record"]
      <4>3. next \in DrainState
        BY <4>2, <1>2 DEF DrainState
      <4>4. drain' = [drain EXCEPT ![d] = next]
        BY <4>1, <1>1, <1>2 DEF DrainTyped, DrainState
      <4> QED
        BY <4>3, <4>4, <1>1 DEF DrainTyped
    <3>2. CASE drain' = [drain EXCEPT ![d].result = "failed", ![d].phase = "record"]
      BY <3>2, <1>1, <1>2, <1>4 DEF DrainTyped, DrainState
    <3> QED
      BY <2>4, <3>1, <3>2 DEF EntryRaises
  <2>5. CASE AbortDrain(d)
    BY <2>5, <1>1, IdleTyped DEF AbortDrain, DrainTyped
  <2> QED
    BY <2>1, <2>2, <2>3, <2>4, <2>5
<1> QED
  BY <1>3, <1>5, QuietStep

\* A claim that is touched stays a claim.
LEMMA TouchKeepsRows ==
    ASSUME IInv, NEW r, r \in DOMAIN outbox, outbox[r].status = "processing",
           outbox' \in {TouchProcessing(r), [outbox EXCEPT ![r].aged = TRUE]},
           UNCHANGED <<day, epoch, nextId, logical, seen, ledger, witnessed>>
    PROVE  RowsKept
<1>1. RowsTyped /\ day \in Nat
  BY TypeParts DEF IInv, ScalarsTyped
<1>2. RowTyped(outbox[r])
  BY <1>1 DEF RowsTyped
<1> DEFINE touched == [outbox[r] EXCEPT !.at = day, !.aged = FALSE]
           grown == [outbox[r] EXCEPT !.aged = TRUE]
<1>3. /\ RowTyped(touched) /\ touched.status = "processing"
      /\ RowTyped(grown) /\ grown.status = "processing"
      /\ touched.dedupe_id = outbox[r].dedupe_id /\ grown.dedupe_id = outbox[r].dedupe_id
  BY <1>1, <1>2 DEF RowTyped, OutboxRow
<1>4. \/ outbox' = [outbox EXCEPT ![r] = touched]
      \/ outbox' = [outbox EXCEPT ![r] = grown]
  BY <1>2 DEF TouchProcessing, RowTyped, OutboxRow
<1>5. SUFFICES ASSUME NEW s \in DOMAIN outbox
             PROVE  /\ RowTyped(outbox'[s])
                    /\ outbox'[s].dedupe_id = outbox[s].dedupe_id
                    /\ \/ outbox[s].status \in Live /\ outbox'[s].status \in Live
                       \/ outbox'[s] = outbox[s]
  BY <1>1, <1>4 DEF RowsKept
<1> HIDE DEF touched, grown
<1>6. CASE s = r
  BY <1>3, <1>4, <1>6 DEF Live
<1>7. CASE s # r
  <2>1. outbox'[s] = outbox[s]
    BY <1>4, <1>7
  <2> QED
    BY <1>1, <2>1 DEF RowsTyped
<1> QED
  BY <1>6, <1>7

\* Rows on their way are written anew, with another live status.
LEMMA RewriteKeepsRows ==
    ASSUME IInv, NEW S, \A r \in S : outbox[r].status \in Live,
           NEW s \in Live, NEW token,
           \A k \in Keys \cup {NoKey} : RowTyped(Row(k, s, token)),
           DOMAIN outbox' = DOMAIN outbox,
           \A r \in DOMAIN outbox :
              outbox'[r] = IF r \in S THEN Row(outbox[r].dedupe_id, s, token)
                                      ELSE outbox[r],
           UNCHANGED <<day, epoch, nextId, logical, seen, ledger, witnessed>>
    PROVE  RowsKept
<1>1. RowsTyped /\ day \in Nat
  BY TypeParts DEF IInv, ScalarsTyped
<1> SUFFICES ASSUME NEW r \in DOMAIN outbox
             PROVE  /\ RowTyped(outbox'[r])
                    /\ outbox'[r].dedupe_id = outbox[r].dedupe_id
                    /\ \/ outbox[r].status \in Live /\ outbox'[r].status \in Live
                       \/ outbox'[r] = outbox[r]
  BY <1>1 DEF RowsKept
<1>2. RowTyped(outbox[r]) /\ outbox[r].dedupe_id \in Keys \cup {NoKey}
  BY <1>1 DEF RowsTyped, RowTyped, OutboxRow
<1>3. CASE r \in S
  <2>1. outbox'[r] = Row(outbox[r].dedupe_id, s, token)
    BY <1>3
  <2> QED
    <3>1. /\ RowTyped(Row(outbox[r].dedupe_id, s, token))
          /\ Row(outbox[r].dedupe_id, s, token).dedupe_id = outbox[r].dedupe_id
          /\ Row(outbox[r].dedupe_id, s, token).status = s
      BY <1>2 DEF Row
    <3> QED
      BY <1>3, <2>1, <3>1
<1>4. CASE r \notin S
  <2>1. outbox'[r] = outbox[r]
    BY <1>4
  <2> QED
    BY <1>2, <2>1
<1> QED
  BY <1>3, <1>4

LEMMA RowSteps ==
    ASSUME IInv, NEW d \in Dispatchers,
           \/ RecoverStaleProcessing(d) \/ ClaimPending(d)
           \/ EnsureClaim(d) \/ RefreshEndpoint(d)
    PROVE  IInv'
<1>1. DrainTyped /\ RowsTyped /\ day \in Nat
  BY TypeParts DEF IInv, ScalarsTyped
<1>2. drain[d] \in DrainState
  BY <1>1 DEF DrainTyped
<1>3. /\ \A k \in Keys \cup {NoKey} : RowTyped(Row(k, "pending", ""))
      /\ \A k \in Keys \cup {NoKey} : RowTyped(Row(k, "processing", d))
      /\ "pending" \in Live /\ "processing" \in Live
  BY <1>1 DEF Live, RowTyped, Row, OutboxRow, Dispatchers
<1>4. UNCHANGED <<day, epoch, nextId, logical, seen, ledger, witnessed>>
  <2>1. CASE RecoverStaleProcessing(d) \/ ClaimPending(d)
    BY <2>1 DEF RecoverStaleProcessing, ClaimPending
  <2>2. CASE EnsureClaim(d) \/ RefreshEndpoint(d)
    BY <2>2 DEF EnsureClaim, RefreshEndpoint, EntryUnchanged
  <2> QED
    BY <2>1, <2>2
<1>5. CASE RecoverStaleProcessing(d)
  <2>1. DrainTyped'
    BY <1>1, <1>5, ToTyped DEF RecoverStaleProcessing
  <2>2. RowsKept
    <3> DEFINE stale == {r \in RowsWith({"processing"}) : outbox[r].aged}
    <3>1. \A r \in stale : outbox[r].status \in Live
      BY DEF RowsWith, Live
    <3>2. outbox' = [r \in DOMAIN outbox |->
                       IF r \in stale THEN Row(outbox[r].dedupe_id, "pending", "")
                                      ELSE outbox[r]]
      BY <1>5 DEF RecoverStaleProcessing
    <3> HIDE DEF stale
    <3> QED
      BY <1>3, <1>4, <3>1, <3>2, RewriteKeepsRows
  <2> QED
    BY <2>1, <2>2, RowsKeptStep
<1>6. CASE ClaimPending(d)
  <2> DEFINE claimed == StillPending(drain[d].picked)
             batch == {<<r, outbox[r].dedupe_id>> : r \in claimed}
             full == Cardinality(claimed) >= BatchLimit
             next == [drain[d] EXCEPT !.batch = batch, !.full = full,
                                      !.picked = {}, !.phase = "prepare"]
  <2>1. claimed \subseteq DOMAIN outbox /\ \A r \in claimed : outbox[r].status = "pending"
    BY DEF StillPending, RowsWith
  <2>2. RowsKept
    <3>1. outbox' = [r \in DOMAIN outbox |->
                        IF r \in claimed THEN Row(outbox[r].dedupe_id, "processing", d)
                                         ELSE outbox[r]]
      BY <1>6 DEF ClaimPending
    <3> HIDE DEF claimed
    <3> QED
      BY <1>3, <1>4, <2>1, <3>1, RewriteKeepsRows
  <2>3. batch \in SUBSET Claims /\ full \in BOOLEAN
    <3>1. \A r \in DOMAIN outbox :
             r \in Slots /\ outbox[r].dedupe_id \in Keys \cup {NoKey}
      BY <1>1 DEF RowsTyped, RowTyped, OutboxRow
    <3> HIDE DEF claimed
    <3>2. batch \subseteq Claims
      BY <2>1, <3>1 DEF Claims
    <3> QED
      BY <3>2
  <2>4. drain' = [drain EXCEPT ![d] = IF claimed = {} THEN Idle ELSE next]
    BY <1>6 DEF ClaimPending
  <2>5. next \in DrainState
    <3> HIDE DEF batch, full
    <3> QED
      BY <1>2, <2>3 DEF DrainState
  <2>6. DrainTyped'
    <3> HIDE DEF next, claimed
    <3> QED
      BY <1>1, <2>4, <2>5, IdleTyped DEF DrainTyped
  <2> QED
    BY <2>2, <2>6, RowsKeptStep
<1>7. CASE EnsureClaim(d)
  <2>1. PICK e \in drain[d].batch :
           IF HoldsClaim(d, e[1])
           THEN /\ outbox' = TouchProcessing(e[1])
                /\ drain' = [drain EXCEPT ![d].entry = e, ![d].phase = "refresh"]
           ELSE NextEntry(d, e) /\ UNCHANGED outbox
    BY <1>7 DEF EnsureClaim
  <2>2. CASE HoldsClaim(d, e[1])
    <3>1. RowsKept
      BY <1>4, <2>1, <2>2, TouchKeepsRows DEF HoldsClaim
    <3>2. e \in Claims
      BY <1>2 DEF DrainState
    <3> DEFINE next == [drain[d] EXCEPT !.entry = e, !.phase = "refresh"]
    <3>3. next \in DrainState
      BY <1>2, <3>2 DEF DrainState
    <3>4. drain' = [drain EXCEPT ![d] = next]
      BY <1>1, <1>2, <2>1, <2>2 DEF DrainTyped, DrainState
    <3>5. DrainTyped'
      BY <1>1, <3>3, <3>4 DEF DrainTyped
    <3> QED
      BY <3>1, <3>5, RowsKeptStep
  <2>3. CASE ~HoldsClaim(d, e[1])
    BY <1>1, <1>4, <2>1, <2>3, NextEntryTyped, QuietStep DEF Quiet
  <2> QED
    BY <2>2, <2>3
<1>8. CASE RefreshEndpoint(d)
  <2>1. PICK differs \in BOOLEAN, off \in BOOLEAN :
           IF differs /\ ~HoldsClaim(d, Slot(d))
           THEN NextEntry(d, drain[d].entry) /\ UNCHANGED outbox
           ELSE /\ outbox' = IF differs THEN TouchProcessing(Slot(d)) ELSE outbox
                /\ drain' = [drain EXCEPT
                               ![d].result = IF off THEN "skipped" ELSE "sent",
                               ![d].phase = IF off THEN "record" ELSE "send"]
    BY <1>8 DEF RefreshEndpoint
  <2>2. CASE differs /\ ~HoldsClaim(d, Slot(d))
    BY <1>1, <1>4, <2>1, <2>2, NextEntryTyped, QuietStep DEF Quiet
  <2>3. CASE ~(differs /\ ~HoldsClaim(d, Slot(d)))
    <3>1. DrainTyped'
      <4> DEFINE result == IF off THEN "skipped" ELSE "sent"
                 phase == IF off THEN "record" ELSE "send"
      <4>1. result \in Ended /\ phase \in {"record", "send"}
        BY DEF Ended
      <4>2. drain' = [drain EXCEPT ![d].result = result, ![d].phase = phase]
        BY <2>1, <2>3
      <4> HIDE DEF result, phase
      <4> QED
        BY <1>1, <1>2, <4>1, <4>2 DEF DrainTyped, DrainState
    <3>2. CASE differs
      <4>1. RowsKept
        BY <1>4, <2>1, <2>3, <3>2, TouchKeepsRows DEF HoldsClaim
      <4> QED
        BY <3>1, <4>1, RowsKeptStep
    <3>3. CASE ~differs
      BY <1>1, <1>4, <2>1, <2>3, <3>1, <3>3, QuietStep DEF Quiet
    <3> QED
      BY <3>2, <3>3
  <2> QED
    BY <2>2, <2>3
<1> QED
  BY <1>5, <1>6, <1>7, <1>8

LEMMA AgingStep ==
    ASSUME IInv, NEW r \in Slots, ProcessingAges(r)
    PROVE  IInv'
<1>1. DrainTyped'
  BY TypeParts DEF IInv, DrainTyped, ProcessingAges
<1>2. RowsKept
  BY TouchKeepsRows DEF ProcessingAges, RowsWith, wakeVars, history
<1> QED
  BY <1>1, <1>2, RowsKeptStep

-----------------------------------------------------------------------------
(* The result of an entry goes to its row and to the reservation.            *)

\* Different rows have different reservations.
LEMMA RowsDiffer ==
    ASSUME RowHasLogical, IdsAreFresh, RowsTyped,
           NEW r \in DOMAIN outbox, NEW s \in DOMAIN outbox,
           outbox[r].dedupe_id = outbox[s].dedupe_id
    PROVE  r = s
<1>1. r \in Items \X Channels /\ s \in Items \X Channels
  BY DEF RowsTyped, Slots
<1>2. r[2] = s[2] /\ logical[r[1]].id = logical[s[1]].id
  BY DEF RowHasLogical
<1>3. logical[r[1]].id # 0
  BY DEF RowHasLogical, Keys
<1>4. r[1] = s[1]
  BY <1>1, <1>2, <1>3 DEF IdsAreFresh
<1> QED
  BY <1>1, <1>2, <1>4

LEMMA LinksKept ==
    ASSUME RowHasLogical, DOMAIN outbox' = DOMAIN outbox, UNCHANGED <<epoch, logical>>,
           \A r \in DOMAIN outbox : outbox'[r].dedupe_id = outbox[r].dedupe_id
    PROVE  RowHasLogical'
BY DEF RowHasLogical

LEMMA RecordStep ==
    ASSUME IInv, NEW d \in Dispatchers, RecordResult(d)
    PROVE  IInv'
<1>1. DrainTyped /\ LedgerTyped /\ RowsTyped /\ ScalarsTyped
  BY TypeParts DEF IInv
<1>2. drain[d].result \in Ended
  BY <1>1 DEF DrainTyped, DrainState
<1>3. UNCHANGED <<day, epoch, nextId, logical, seen, witnessed>>
  BY DEF RecordResult, EntryUnchanged
<1>4. DrainTyped'
  BY <1>1, NextEntryTyped DEF RecordResult
<1>5. CASE ~HoldsClaim(d, Slot(d))
  BY <1>1, <1>3, <1>4, <1>5, QuietStep DEF RecordResult, Quiet, ScalarsTyped
<1>6. CASE HoldsClaim(d, Slot(d))
  <2> DEFINE slot == Slot(d)
             k == outbox[slot].dedupe_id
             result == drain[d].result
  <2>1. slot \in DOMAIN outbox /\ outbox[slot].status = "processing"
    BY <1>6 DEF HoldsClaim
  <2>2. /\ outbox' = [outbox EXCEPT ![slot] = Row(k, result, "")]
        /\ ledger' = [j \in DOMAIN ledger |->
                        IF j = k THEN [status |-> result, at |-> day] ELSE ledger[j]]
    BY <1>6 DEF RecordResult
  <2> HIDE DEF slot, result
  <2>3. k \in Keys /\ k \in DOMAIN ledger
    BY <2>1 DEF IInv, RowHasLogical, LedgerMatchesRow
  <2>4. /\ RowTyped(Row(k, result, "")) /\ Row(k, result, "").dedupe_id = k
        /\ Row(k, result, "").status = result /\ Row(k, result, "").at = day
        /\ result \in Ended
    BY <1>1, <1>2, <2>3 DEF Row, RowTyped, OutboxRow, Ended, ScalarsTyped, result
  <2>5. /\ DOMAIN outbox' = DOMAIN outbox /\ DOMAIN ledger' = DOMAIN ledger
        /\ outbox'[slot] = Row(k, result, "")
        /\ \A r \in DOMAIN outbox : r # slot => outbox'[r] = outbox[r]
        /\ ledger'[k] \in LedgerRow
        /\ ledger'[k].status = result /\ ledger'[k].at = day
        /\ \A j \in DOMAIN ledger : j # k => ledger'[j] = ledger[j]
    <3> DEFINE entry == [status |-> result, at |-> day]
    <3>1. entry \in LedgerRow /\ entry.status = result /\ entry.at = day
      BY <1>1, <2>4 DEF LedgerRow, ScalarsTyped
    <3>2. ledger' = [j \in DOMAIN ledger |-> IF j = k THEN entry ELSE ledger[j]]
      BY <2>2
    <3> HIDE DEF entry, k
    <3> QED
      BY <2>1, <2>2, <2>3, <3>1, <3>2
  <2>6. \A r \in DOMAIN outbox : r # slot => outbox[r].dedupe_id # k
    BY <1>1, <2>1, RowsDiffer DEF IInv
  <2> HIDE DEF k
  <2>7. TypeOK'
    <3>1. LedgerTyped'
      BY <1>1, <2>4, <2>5 DEF LedgerTyped, LedgerRow, ScalarsTyped
    <3>2. RowsTyped'
      BY <1>1, <2>4, <2>5 DEF RowsTyped
    <3>3. ScalarsTyped'
      BY <1>1, <1>3 DEF ScalarsTyped
    <3> QED
      BY <1>4, <3>1, <3>2, <3>3, TypeParts, PTL
  <2>8. LedgerMatchesRow'
    <3> SUFFICES ASSUME NEW r \in DOMAIN outbox
                 PROVE  /\ outbox'[r].dedupe_id \in DOMAIN ledger
                        /\ ledger'[outbox'[r].dedupe_id].status =
                             IF outbox'[r].status \in Live THEN "queued"
                                                           ELSE outbox'[r].status
      BY <2>5 DEF LedgerMatchesRow
    <3>1. CASE r = slot
      BY <2>3, <2>4, <2>5, <3>1 DEF Live, Ended
    <3>2. CASE r # slot
      BY <2>5, <2>6, <3>2 DEF IInv, LedgerMatchesRow
    <3> QED
      BY <3>1, <3>2
  <2>9. QueuedHasRow'
    <3> SUFFICES ASSUME NEW j \in DOMAIN ledger,
                        ledger'[j].status = "queued", j.epoch = epoch[j.target]
                 PROVE  \E r \in RowsWith(Live)' : outbox'[r].dedupe_id = j
      BY <1>3, <2>5 DEF QueuedHasRow
    <3>1. j # k
      BY <2>4, <2>5 DEF Ended
    <3>2. PICK r \in RowsWith(Live) : outbox[r].dedupe_id = j
      BY <2>5, <3>1 DEF IInv, QueuedHasRow
    <3>3. r # slot
      BY <3>1, <3>2 DEF k
    <3> QED
      BY <2>5, <3>2, <3>3 DEF RowsWith
  <2>10. RowHasLogical'
    <3>1. \A r \in DOMAIN outbox : outbox'[r].dedupe_id = outbox[r].dedupe_id
      BY <2>4, <2>5 DEF k
    <3> QED
      BY <1>3, <2>5, <3>1, LinksKept DEF IInv
  <2>11. IdsAreFresh'
    BY <1>3, <2>5 DEF IInv, IdsAreFresh
  <2>12. EndedBefore'
    <3> SUFFICES ASSUME NEW r \in RowsWith(Ended)'
                 PROVE  outbox'[r].at <= ledger'[outbox'[r].dedupe_id].at
      BY DEF EndedBefore
    <3>1. r \in DOMAIN outbox
      BY <2>5 DEF RowsWith
    <3>2. CASE r = slot
      <4>1. outbox'[r].at = day /\ outbox'[r].dedupe_id = k /\ ledger'[k].at = day
        BY <2>4, <2>5, <3>2
      <4> QED
        BY <1>1, <4>1 DEF ScalarsTyped
    <3>3. CASE r # slot
      <4>1. r \in RowsWith(Ended) /\ outbox[r].dedupe_id \in DOMAIN ledger
        BY <2>5, <3>1, <3>3 DEF RowsWith, IInv, LedgerMatchesRow
      <4> QED
        BY <2>5, <2>6, <3>1, <3>3, <4>1 DEF IInv, EndedBefore
    <3> QED
      BY <3>2, <3>3
  <2>13. SeenTracks'
    BY <1>3 DEF IInv, SeenTracks, Before
  <2> QED
    BY <2>7, <2>8, <2>9, <2>10, <2>11, <2>12, <2>13 DEF IInv
<1> QED
  BY <1>5, <1>6

-----------------------------------------------------------------------------
(* Deletion: what stays is as it was, and what a row needs stays with it.    *)

OnlyRemoved ==
    /\ DOMAIN outbox' \subseteq DOMAIN outbox /\ DOMAIN ledger' \subseteq DOMAIN ledger
    /\ \A k \in DOMAIN ledger' :
          /\ ledger'[k] = ledger[k] /\ k.epoch <= epoch'[k.target]
          /\ k.epoch = epoch'[k.target] =>
                /\ k.epoch = epoch[k.target]
                /\ \A r \in RowsWith(Live) :
                      outbox[r].dedupe_id = k => r \in DOMAIN outbox'
    /\ \A r \in DOMAIN outbox' :
          /\ outbox'[r] = outbox[r] /\ outbox[r].dedupe_id \in DOMAIN ledger'
          /\ logical'[r[1]].id = logical[r[1]].id
          /\ epoch'[Owner[r[1]]] = epoch[Owner[r[1]]]
    /\ \A i \in Items : logical'[i].id = 0 \/ logical'[i].id = logical[i].id
    /\ ScalarsTyped' /\ SeenTracks' /\ nextId' = nextId /\ drain' = drain

LEMMA RemovalStep ==
    ASSUME IInv, OnlyRemoved
    PROVE  IInv'
<1>1. DrainTyped /\ LedgerTyped /\ RowsTyped /\ ScalarsTyped
  BY TypeParts DEF IInv
<1>2. TypeOK'
  <2>1. DrainTyped'
    BY <1>1 DEF DrainTyped, OnlyRemoved
  <2>2. LedgerTyped' /\ RowsTyped' /\ ScalarsTyped'
    BY <1>1 DEF LedgerTyped, RowsTyped, OnlyRemoved
  <2> QED
    BY <2>1, <2>2, TypeParts, PTL
<1>3. LedgerMatchesRow'
  BY DEF IInv, LedgerMatchesRow, OnlyRemoved
<1>4. QueuedHasRow'
  <2> SUFFICES ASSUME NEW k \in DOMAIN ledger', ledger'[k].status = "queued",
                      k.epoch = epoch'[k.target]
               PROVE  \E r \in RowsWith(Live)' : outbox'[r].dedupe_id = k
    BY DEF QueuedHasRow
  <2>1. PICK r \in RowsWith(Live) : outbox[r].dedupe_id = k
    BY DEF IInv, QueuedHasRow, OnlyRemoved
  <2> QED
    BY <2>1 DEF OnlyRemoved, RowsWith
<1>5. RowHasLogical'
  BY DEF IInv, RowHasLogical, OnlyRemoved
<1>6. IdsAreFresh'
  <2>1. nextId \in Nat \ {0}
    BY <1>1 DEF ScalarsTyped
  <2>2. \A i \in Items : logical'[i].id < nextId'
    BY <2>1 DEF IInv, IdsAreFresh, OnlyRemoved
  <2>3. \A i, j \in Items : logical'[i].id = logical'[j].id /\ logical'[i].id # 0 => i = j
    BY DEF IInv, IdsAreFresh, OnlyRemoved
  <2>4. \A k \in DOMAIN ledger' : k.id < nextId' /\ k.epoch <= epoch'[k.target]
    BY DEF IInv, IdsAreFresh, OnlyRemoved
  <2> QED
    BY <2>2, <2>3, <2>4 DEF IdsAreFresh
<1>7. EndedBefore'
  BY DEF IInv, EndedBefore, RowsWith, OnlyRemoved
<1> QED
  BY <1>2, <1>3, <1>4, <1>5, <1>6, <1>7 DEF IInv, OnlyRemoved

\* Where a row belongs.
LEMMA RowPlace ==
    ASSUME IInv, NEW r \in DOMAIN outbox
    PROVE  /\ r[1] \in Items /\ Owner[r[1]] \in Targets
           /\ outbox[r].dedupe_id \in Keys
           /\ outbox[r].dedupe_id \in DOMAIN ledger
           /\ outbox[r].dedupe_id.target = Owner[r[1]]
           /\ outbox[r].dedupe_id.id = logical[r[1]].id
           /\ outbox[r].dedupe_id.id # 0
<1>1. RowsTyped
  BY TypeParts DEF IInv
<1>2. r[1] \in Items /\ Owner[r[1]] \in Targets
  BY <1>1, ConstantFacts DEF RowsTyped, Slots
<1>3. /\ outbox[r].dedupe_id \in Keys
      /\ outbox[r].dedupe_id.target = Owner[r[1]]
      /\ outbox[r].dedupe_id.id = logical[r[1]].id
  BY DEF IInv, RowHasLogical
<1>4. outbox[r].dedupe_id.id # 0
  BY <1>3 DEF Keys
<1> QED
  BY <1>2, <1>3, <1>4 DEF IInv, LedgerMatchesRow

LEMMA KeyPlace ==
    ASSUME IInv, NEW k \in DOMAIN ledger
    PROVE  /\ k \in Keys /\ k.target \in Targets /\ k.epoch \in Nat /\ k.id \in Nat
           /\ k.id < nextId /\ k.epoch <= epoch[k.target] /\ epoch[k.target] \in Nat
<1>1. LedgerTyped /\ ScalarsTyped
  BY TypeParts DEF IInv
<1>2. k \in Keys
  BY <1>1 DEF LedgerTyped
<1>3. k.target \in Targets /\ k.epoch \in Nat /\ k.id \in Nat
  BY <1>2, ConstantFacts DEF Keys
<1>4. epoch[k.target] \in Nat
  BY <1>1, <1>3, ConstantFacts DEF ScalarsTyped
<1> QED
  BY <1>2, <1>3, <1>4 DEF IInv, IdsAreFresh

\* The logical items of a target are forgotten, those of the others are not.
LEMMA ForgottenFacts ==
    ASSUME ScalarsTyped, NEW t, logical' = Forgotten(t)
    PROVE  /\ logical' \in [Items -> [id : 0..MaxId, seen : Nat]]
           /\ \A i \in Items :
                 /\ Owner[i] = t => logical'[i].id = 0
                 /\ Owner[i] # t => logical'[i] = logical[i]
<1> DEFINE none == [id |-> 0, seen |-> 0]
<1>1. none \in [id : 0..MaxId, seen : Nat] /\ none.id = 0
  BY ConstantFacts
<1>2. logical' = [i \in Items |-> IF Owner[i] = t THEN none ELSE logical[i]]
  BY DEF Forgotten
<1> HIDE DEF none
<1> QED
  BY <1>1, <1>2 DEF ScalarsTyped

LEMMA ResetStep ==
    ASSUME IInv, NEW t \in Targets, ResetTargetNotificationState(t)
    PROVE  IInv'
<1>1. ScalarsTyped
  BY TypeParts DEF IInv
<1>2. /\ logical' \in [Items -> [id : 0..MaxId, seen : Nat]]
      /\ \A i \in Items : /\ Owner[i] = t => logical'[i].id = 0
                          /\ Owner[i] # t => logical'[i] = logical[i]
  BY <1>1, ForgottenFacts DEF ResetTargetNotificationState
<1>3. UNCHANGED <<day, nextId, ledger, drain>>
  BY DEF ResetTargetNotificationState
<1>4. /\ epoch' \in [Targets -> 0..MaxEpoch] /\ epoch'[t] = epoch[t] + 1
      /\ \A u \in Targets : u # t => epoch'[u] = epoch[u]
  BY <1>1, ConstantFacts DEF ResetTargetNotificationState, ScalarsTyped
<1>5. /\ seen' \in [Items -> Nat] /\ witnessed' \in [Items -> Nat]
      /\ \A i \in Items : IF Owner[i] = t THEN seen'[i] = 0 /\ witnessed'[i] = 0
                          ELSE seen'[i] = seen[i] /\ witnessed'[i] = witnessed[i]
  BY <1>1 DEF ResetTargetNotificationState, ScalarsTyped
<1>6. /\ DOMAIN outbox' = DOMAIN outbox \ SlotsOf(t)
      /\ \A r \in DOMAIN outbox' : outbox'[r] = outbox[r]
  BY DEF ResetTargetNotificationState, Restrict
<1>7. ScalarsTyped'
  BY <1>1, <1>2, <1>3, <1>4, <1>5 DEF ScalarsTyped
<1>8. SeenTracks'
  BY <1>2, <1>3, <1>5 DEF IInv, SeenTracks, Before
<1>9. ASSUME NEW k \in DOMAIN ledger
      PROVE  /\ k.epoch <= epoch'[k.target]
             /\ k.epoch = epoch'[k.target] => k.target # t /\ k.epoch = epoch[k.target]
  <2>1. CASE k.target = t
    BY <1>4, <2>1, KeyPlace
  <2>2. CASE k.target # t
    BY <1>4, <2>2, KeyPlace
  <2> QED
    BY <2>1, <2>2
<1>10. \A r \in DOMAIN outbox : r \in DOMAIN outbox' <=> outbox[r].dedupe_id.target # t
  BY <1>6, RowPlace DEF SlotsOf
<1>11. ASSUME NEW r \in DOMAIN outbox'
       PROVE  /\ outbox'[r] = outbox[r] /\ outbox[r].dedupe_id \in DOMAIN ledger
              /\ logical'[r[1]].id = logical[r[1]].id
              /\ epoch'[Owner[r[1]]] = epoch[Owner[r[1]]]
  <2>1. r \in DOMAIN outbox /\ Owner[r[1]] # t
    BY <1>6 DEF SlotsOf
  <2> QED
    BY <1>2, <1>4, <1>6, <2>1, RowPlace
<1>12. OnlyRemoved
  BY <1>2, <1>3, <1>6, <1>7, <1>8, <1>9, <1>10, <1>11 DEF OnlyRemoved, RowsWith
<1> QED
  BY <1>12, RemovalStep

LEMMA DeleteStep ==
    ASSUME IInv, NEW t \in Targets, DeleteTarget(t)
    PROVE  IInv'
<1>1. ScalarsTyped
  BY TypeParts DEF IInv
<1>2. /\ logical' \in [Items -> [id : 0..MaxId, seen : Nat]]
      /\ \A i \in Items : /\ Owner[i] = t => logical'[i].id = 0
                          /\ Owner[i] # t => logical'[i] = logical[i]
  BY <1>1, ForgottenFacts DEF DeleteTarget
<1>3. UNCHANGED <<day, nextId, drain, seen, witnessed>>
  BY DEF DeleteTarget, history
<1>4. /\ epoch' \in [Targets -> 0..MaxEpoch]
      /\ \A u \in Targets : u # t => epoch'[u] = epoch[u]
  BY <1>1, ConstantFacts DEF DeleteTarget, ScalarsTyped
<1>5. /\ DOMAIN outbox' = DOMAIN outbox \ SlotsOf(t)
      /\ \A r \in DOMAIN outbox' : outbox'[r] = outbox[r]
      /\ DOMAIN ledger' = {k \in DOMAIN ledger : k.target # t}
      /\ \A k \in DOMAIN ledger' : ledger'[k] = ledger[k]
  BY DEF DeleteTarget, Restrict
<1>6. ScalarsTyped'
  BY <1>1, <1>2, <1>3, <1>4 DEF ScalarsTyped
<1>7. SeenTracks'
  BY <1>2, <1>3 DEF IInv, SeenTracks, Before
<1>8. \A k \in DOMAIN ledger' :
         k.target # t /\ k.epoch <= epoch'[k.target] /\ epoch'[k.target] = epoch[k.target]
  BY <1>4, <1>5, KeyPlace
<1>9. \A r \in DOMAIN outbox : r \in DOMAIN outbox' <=> outbox[r].dedupe_id.target # t
  BY <1>5, RowPlace DEF SlotsOf
<1>10. ASSUME NEW r \in DOMAIN outbox'
       PROVE  /\ outbox'[r] = outbox[r] /\ outbox[r].dedupe_id \in DOMAIN ledger'
              /\ logical'[r[1]].id = logical[r[1]].id
              /\ epoch'[Owner[r[1]]] = epoch[Owner[r[1]]]
  <2>1. r \in DOMAIN outbox /\ Owner[r[1]] # t
    BY <1>5 DEF SlotsOf
  <2> QED
    BY <1>2, <1>4, <1>5, <2>1, RowPlace
<1>11. OnlyRemoved
  BY <1>2, <1>3, <1>5, <1>6, <1>7, <1>8, <1>9, <1>10 DEF OnlyRemoved, RowsWith
<1> QED
  BY <1>11, RemovalStep

LEMMA ClearFailedStep ==
    ASSUME IInv, ClearFailed
    PROVE  IInv'
<1>1. ScalarsTyped
  BY TypeParts DEF IInv
<1>2. UNCHANGED <<day, epoch, nextId, logical, seen, ledger, drain, witnessed>>
  BY DEF ClearFailed, history
<1>3. /\ DOMAIN outbox' = DOMAIN outbox \ RowsWith({"failed"})
      /\ \A r \in DOMAIN outbox' : outbox'[r] = outbox[r]
  BY DEF ClearFailed, Restrict
<1>4. ScalarsTyped' /\ SeenTracks'
  BY <1>1, <1>2 DEF ScalarsTyped, IInv, SeenTracks, Before
<1>5. \A r \in RowsWith(Live) : r \in DOMAIN outbox'
  BY <1>3 DEF RowsWith, Live
<1>6. OnlyRemoved
  BY <1>2, <1>3, <1>4, <1>5, KeyPlace, RowPlace DEF OnlyRemoved
<1> QED
  BY <1>6, RemovalStep

-----------------------------------------------------------------------------
(* Retention: a row protects its reservation, and that its logical item.     *)

\* The reservation of a row that stays is not expired: a row on its way or
\* failed is looked for, and a sent or skipped one stays for less than the
\* horizon.
LEMMA KeptRowsAreSafe ==
    ASSUME IInv, NEW r \in DOMAIN outbox \ ExpiredRows
    PROVE  outbox[r].dedupe_id \notin ExpiredReservations
<1> DEFINE k == outbox[r].dedupe_id
<1>1. LedgerTyped /\ RowsTyped /\ day \in Nat
  BY TypeParts DEF IInv, ScalarsTyped
<1>2. k \in DOMAIN ledger
  BY RowPlace
<1>3. CASE outbox[r].status \in Live \cup {"failed"}
  BY <1>3 DEF ExpiredReservations, RowsWith
<1>4. CASE outbox[r].status \in {"sent", "skipped"}
  <2>1. ~Before(outbox[r].at, SentKeep)
    BY <1>4 DEF ExpiredRows
  <2>2. outbox[r].at <= ledger[k].at
    BY <1>4 DEF IInv, EndedBefore, RowsWith, Ended
  <2>3. outbox[r].at \in Nat /\ ledger[k].at \in Nat
    BY <1>1, <1>2 DEF RowsTyped, RowTyped, OutboxRow, LedgerTyped, LedgerRow
  <2>4. ~Before(ledger[k].at, Horizon)
    BY <1>1, <2>1, <2>2, <2>3, ConstantFacts DEF Before
  <2> QED
    BY <2>4 DEF ExpiredReservations
<1>5. outbox[r].status \in Live \cup {"failed"} \/ outbox[r].status \in {"sent", "skipped"}
  BY <1>1 DEF RowsTyped, RowTyped, OutboxRow, Live, Ended
<1> QED
  BY <1>3, <1>4, <1>5

LEMMA PruneStep ==
    ASSUME IInv, PruneBoundedRetention
    PROVE  IInv'
<1>1. ScalarsTyped
  BY TypeParts DEF IInv
<1>2. UNCHANGED <<day, epoch, nextId, drain, witnessed>>
  BY DEF PruneBoundedRetention, history
<1>3. /\ DOMAIN outbox' = DOMAIN outbox \ ExpiredRows
      /\ \A r \in DOMAIN outbox' : outbox'[r] = outbox[r]
  <2>1. outbox' = [r \in DOMAIN outbox \ ExpiredRows |->
                     IF outbox[r].dedupe_id \in ExpiredReservations
                     THEN [outbox[r] EXCEPT !.dedupe_id = NoKey] ELSE outbox[r]]
    BY DEF PruneBoundedRetention
  <2> QED
    BY <2>1, KeptRowsAreSafe
<1>4. /\ DOMAIN ledger' = DOMAIN ledger \ ExpiredReservations
      /\ \A k \in DOMAIN ledger' : ledger'[k] = ledger[k]
  BY DEF PruneBoundedRetention, Restrict
<1>5. /\ logical' \in [Items -> [id : 0..MaxId, seen : Nat]]
      /\ \A i \in Items : /\ i \in ExpiredLogical => logical'[i].id = 0
                          /\ i \notin ExpiredLogical => logical'[i] = logical[i]
  <2> DEFINE none == [id |-> 0, seen |-> 0]
  <2>1. none \in [id : 0..MaxId, seen : Nat] /\ none.id = 0
    BY ConstantFacts
  <2>2. logical' = [i \in Items |-> IF i \in ExpiredLogical THEN none ELSE logical[i]]
    BY DEF PruneBoundedRetention
  <2> HIDE DEF none
  <2> QED
    BY <1>1, <2>1, <2>2 DEF ScalarsTyped
<1>6. /\ seen' \in [Items -> Nat]
      /\ \A i \in Items : seen'[i] = IF Before(seen[i], Horizon) THEN 0 ELSE seen[i]
  BY <1>1 DEF PruneBoundedRetention, ScalarsTyped
<1>7. ScalarsTyped'
  BY <1>1, <1>2, <1>5, <1>6 DEF ScalarsTyped
<1>8. SeenTracks'
  BY <1>1, <1>2, <1>5, <1>6 DEF IInv, SeenTracks, Before
<1>9. ASSUME NEW r \in DOMAIN outbox'
      PROVE  /\ outbox'[r] = outbox[r] /\ outbox[r].dedupe_id \in DOMAIN ledger'
             /\ logical'[r[1]].id = logical[r[1]].id
  <2>1. r \in DOMAIN outbox
    BY <1>3
  <2>2. outbox[r].dedupe_id \in DOMAIN ledger \ ExpiredReservations
    BY <1>3, <2>1, KeptRowsAreSafe, RowPlace
  <2>3. r[1] \notin ExpiredLogical
    BY <2>1, <2>2, RowPlace DEF ExpiredLogical
  <2> QED
    BY <1>3, <1>4, <1>5, <2>1, <2>2, <2>3, RowPlace
<1>10. \A r \in RowsWith(Live) : r \in DOMAIN outbox'
  BY <1>3 DEF RowsWith, Live, ExpiredRows
<1>11. OnlyRemoved
  BY <1>2, <1>3, <1>4, <1>5, <1>7, <1>8, <1>9, <1>10, KeyPlace DEF OnlyRemoved
<1> QED
  BY <1>11, RemovalStep

-----------------------------------------------------------------------------
(* The commit of a scan. *)

NewSlots(S, M, C) == (IsNew(S) \cap M) \X C

\* What a commit adds: key gives each new slot its reservation.
Committed(S, slots, ids, key) ==
    /\ ids \in [Unknown(S) -> 1..MaxId]
    /\ \A i \in Unknown(S) : nextId <= ids[i] /\ ids[i] < nextId'
    /\ \A i, j \in Unknown(S) : ids[i] = ids[j] => i = j
    /\ nextId' \in Nat /\ nextId <= nextId'
    /\ logical' \in [Items -> [id : 0..MaxId, seen : Nat]]
    /\ \A i \in Items : logical'[i].id = IF i \in Unknown(S) THEN ids[i]
                                                             ELSE logical[i].id
    /\ \A r \in slots :
          /\ r[1] \in Unknown(S) /\ r[1] \in Items /\ r \in Slots
          /\ key[r] \in Keys /\ key[r] \notin DOMAIN ledger /\ r \notin DOMAIN outbox
          /\ key[r].target = Owner[r[1]] /\ key[r].epoch = epoch[Owner[r[1]]]
          /\ key[r].id = ids[r[1]] /\ key[r].channel = r[2]
          /\ RowTyped(outbox'[r]) /\ outbox'[r].status = "pending"
          /\ outbox'[r].dedupe_id = key[r]
    /\ DOMAIN outbox' = DOMAIN outbox \cup slots
    /\ \A r \in DOMAIN outbox : outbox'[r] = outbox[r]
    /\ DOMAIN ledger' = DOMAIN ledger \cup {key[r] : r \in slots}
    /\ \A k \in DOMAIN ledger : ledger'[k] = ledger[k]
    /\ \A r \in slots : ledger'[key[r]] \in LedgerRow /\ ledger'[key[r]].status = "queued"

LEMMA CommitFacts ==
    ASSUME IInv, NEW t \in Targets, NEW S \in SUBSET ItemsOf(t), NEW M \in SUBSET S,
           NEW C \in SUBSET Channels, NEW b \in BOOLEAN, CommitScan(t, S, M, C, b)
    PROVE  \E ids, key : Committed(S, NewSlots(S, M, C), ids, key)
<1> DEFINE slots == NewSlots(S, M, C)
           n == Cardinality(Unknown(S))
           key(ids) == [r \in slots |-> KeyOf(r[1], ids[r[1]], r[2])]
           wanted(ids) == Restrict(key(ids), {r \in slots : key(ids)[r] \notin DOMAIN ledger})
<1>1. LedgerTyped /\ RowsTyped /\ ScalarsTyped
  BY TypeParts DEF IInv
<1>2. PICK ids \in Injection(Unknown(S), nextId..MaxId) :
         /\ \A i \in Unknown(S) : ids[i] < nextId + n
         /\ nextId' = nextId + n
         /\ logical' = MarkSeen(S, ids)
         /\ ledger' = Reserve(Range(key(ids)))
         /\ outbox' = Enqueue(wanted(ids))
  BY DEF CommitScan, NewSlots
<1>3. Unknown(S) \subseteq Items /\ S \subseteq Items /\ n \in Nat
  <2>1. Unknown(S) \subseteq Items /\ S \subseteq Items
    BY DEF Unknown, ItemsOf
  <2> QED
    BY <2>1, ConstantFacts, FS_Subset, FS_CardinalityType
<1>4. /\ ids \in [Unknown(S) -> 1..MaxId]
      /\ \A i \in Unknown(S) : nextId <= ids[i] /\ ids[i] < nextId'
      /\ \A i, j \in Unknown(S) : ids[i] = ids[j] => i = j
      /\ nextId' \in Nat /\ nextId <= nextId'
  BY <1>1, <1>2, <1>3, ConstantFacts DEF Injection, IsInjective, ScalarsTyped
<1>5. \A r \in slots :
         /\ r[1] \in Unknown(S) /\ r[1] \in Items /\ r \in Slots /\ r[2] \in Channels
         /\ Owner[r[1]] \in Targets /\ epoch[Owner[r[1]]] \in 0..MaxEpoch
  BY <1>1, <1>3, ConstantFacts DEF NewSlots, IsNew, Slots, ScalarsTyped
<1>6. ASSUME NEW r \in slots
      PROVE  /\ key(ids)[r] \in Keys
             /\ key(ids)[r].target = Owner[r[1]] /\ key(ids)[r].epoch = epoch[Owner[r[1]]]
             /\ key(ids)[r].id = ids[r[1]] /\ key(ids)[r].channel = r[2]
  BY <1>4, <1>5 DEF KeyOf, Keys
<1> DEFINE k == key(ids)
<1>7. ASSUME NEW r \in slots
      PROVE  k[r] \notin DOMAIN ledger /\ r \notin DOMAIN outbox
  <2>1. k[r].id >= nextId
    BY <1>4, <1>5, <1>6
  <2>2. k[r] \notin DOMAIN ledger
    BY <1>1, <2>1, KeyPlace DEF ScalarsTyped
  <2>3. logical[r[1]].id = 0
    BY <1>5 DEF Unknown
  <2> QED
    BY <2>2, <2>3, RowPlace
<1>8. DOMAIN k = slots
  OBVIOUS
<1>9. wanted(ids) = [r \in slots |-> k[r]]
  BY <1>7, <1>8 DEF Restrict
<1>10. Range(k) = {k[r] : r \in slots}
  BY <1>8 DEF Range
<1>11. logical' = MarkSeen(S, ids) /\ ledger' = Reserve(Range(k)) /\ outbox' = Enqueue(wanted(ids))
  BY <1>2
<1> HIDE DEF k, slots, wanted
<1>12. /\ DOMAIN outbox' = DOMAIN outbox \cup slots
       /\ \A r \in DOMAIN outbox : outbox'[r] = outbox[r]
       /\ \A r \in slots : outbox'[r] = Row(k[r], "pending", "")
  BY <1>7, <1>9, <1>11 DEF Enqueue
<1>13. ASSUME NEW r \in slots
       PROVE  /\ RowTyped(outbox'[r]) /\ outbox'[r].status = "pending"
              /\ outbox'[r].dedupe_id = k[r]
  <2>1. k[r] \in Keys /\ day \in Nat
    BY <1>1, <1>6 DEF k, ScalarsTyped
  <2>2. RowTyped(Row(k[r], "pending", ""))
    BY <2>1 DEF RowTyped, Row, OutboxRow, Live
  <2>3. outbox'[r] = Row(k[r], "pending", "")
    BY <1>12
  <2>4. Row(k[r], "pending", "").status = "pending" /\ Row(k[r], "pending", "").dedupe_id = k[r]
    BY DEF Row
  <2> QED
    BY <2>2, <2>3, <2>4
<1>14. /\ DOMAIN ledger' = DOMAIN ledger \cup {k[r] : r \in slots}
       /\ \A j \in DOMAIN ledger : ledger'[j] = ledger[j]
       /\ \A r \in slots : ledger'[k[r]] \in LedgerRow /\ ledger'[k[r]].status = "queued"
  BY <1>1, <1>7, <1>10, <1>11 DEF Reserve, LedgerTyped, LedgerRow, ScalarsTyped
<1>15. /\ logical' \in [Items -> [id : 0..MaxId, seen : Nat]]
       /\ \A i \in Items : logical'[i].id = IF i \in Unknown(S) THEN ids[i]
                                                                ELSE logical[i].id
  BY <1>1, <1>3, <1>4, <1>11, ConstantFacts DEF MarkSeen, Unknown, ScalarsTyped
<1>16. Committed(S, slots, ids, k)
  BY <1>4, <1>5, <1>6, <1>7, <1>12, <1>13, <1>14, <1>15 DEF Committed, k
<1> QED
  BY <1>16 DEF slots

LEMMA CommitStep ==
    ASSUME IInv, NEW t \in Targets, NEW S \in SUBSET ItemsOf(t), NEW M \in SUBSET S,
           NEW C \in SUBSET Channels, NEW b \in BOOLEAN, CommitScan(t, S, M, C, b)
    PROVE  IInv'
<1> DEFINE slots == NewSlots(S, M, C)
<1>1. DrainTyped /\ LedgerTyped /\ RowsTyped /\ ScalarsTyped
  BY TypeParts DEF IInv
<1>2. PICK ids, key : Committed(S, slots, ids, key)
  BY CommitFacts
<1>3. /\ UNCHANGED <<day, epoch, drain>>
      /\ seen' = [i \in Items |-> IF i \in S THEN day ELSE seen[i]]
      /\ witnessed' = [i \in Items |-> IF i \in S THEN day ELSE witnessed[i]]
  BY DEF CommitScan
<1> HIDE DEF slots
<1>4. TypeOK'
  <2>1. DrainTyped'
    BY <1>1, <1>3 DEF DrainTyped
  <2>2. LedgerTyped'
    BY <1>1, <1>2 DEF LedgerTyped, Committed
  <2>3. RowsTyped'
    BY <1>1, <1>2 DEF RowsTyped, Committed
  <2>4. nextId' \in Nat \ {0}
    BY <1>1, <1>2 DEF ScalarsTyped, Committed
  <2>5. seen' \in [Items -> Nat] /\ witnessed' \in [Items -> Nat]
    BY <1>1, <1>3 DEF ScalarsTyped
  <2>6. ScalarsTyped'
    BY <1>1, <1>2, <1>3, <2>4, <2>5 DEF ScalarsTyped, Committed
  <2> QED
    BY <2>1, <2>2, <2>3, <2>6, TypeParts, PTL
<1>5. LedgerMatchesRow'
  <2> SUFFICES ASSUME NEW r \in DOMAIN outbox'
               PROVE  /\ outbox'[r].dedupe_id \in DOMAIN ledger'
                      /\ ledger'[outbox'[r].dedupe_id].status =
                           IF outbox'[r].status \in Live THEN "queued"
                                                         ELSE outbox'[r].status
    BY DEF LedgerMatchesRow
  <2>1. CASE r \in DOMAIN outbox
    BY <1>2, <2>1 DEF IInv, LedgerMatchesRow, Committed
  <2>2. CASE r \in slots
    BY <1>2, <2>2 DEF Committed, Live
  <2> QED
    BY <1>2, <2>1, <2>2 DEF Committed
<1>6. QueuedHasRow'
  <2> SUFFICES ASSUME NEW k \in DOMAIN ledger', ledger'[k].status = "queued",
                      k.epoch = epoch'[k.target]
               PROVE  \E r \in RowsWith(Live)' : outbox'[r].dedupe_id = k
    BY DEF QueuedHasRow
  <2>1. CASE k \in DOMAIN ledger
    <3>1. PICK r \in RowsWith(Live) : outbox[r].dedupe_id = k
      BY <1>2, <1>3, <2>1 DEF IInv, QueuedHasRow, Committed
    <3> QED
      BY <1>2, <3>1 DEF Committed, RowsWith
  <2>2. CASE \E r \in slots : k = key[r]
    <3>1. PICK r \in slots : k = key[r]
      BY <2>2
    <3>2. r \in DOMAIN outbox' /\ outbox'[r].status \in Live /\ outbox'[r].dedupe_id = k
      BY <1>2, <3>1 DEF Committed, Live
    <3> QED
      BY <3>2 DEF RowsWith
  <2> QED
    BY <1>2, <2>1, <2>2 DEF Committed
<1>7. RowHasLogical'
  <2> SUFFICES ASSUME NEW r \in DOMAIN outbox'
               PROVE  /\ outbox'[r].dedupe_id \in Keys
                      /\ outbox'[r].dedupe_id.id = logical'[r[1]].id
                      /\ outbox'[r].dedupe_id.channel = r[2]
                      /\ outbox'[r].dedupe_id.target = Owner[r[1]]
                      /\ outbox'[r].dedupe_id.epoch = epoch'[Owner[r[1]]]
    BY DEF RowHasLogical
  <2>1. CASE r \in DOMAIN outbox
    <3>1. r[1] \in Items /\ r[1] \notin Unknown(S) /\ outbox'[r] = outbox[r]
      BY <1>2, <2>1, RowPlace DEF Unknown, Committed
    <3>2. logical'[r[1]].id = logical[r[1]].id
      BY <1>2, <3>1 DEF Committed
    <3> QED
      BY <1>3, <2>1, <3>1, <3>2 DEF IInv, RowHasLogical
  <2>2. CASE r \in slots
    BY <1>2, <1>3, <2>2 DEF Committed
  <2> QED
    BY <1>2, <2>1, <2>2 DEF Committed
<1>8. IdsAreFresh'
  <2>1. \A i \in Items : logical[i].id \in Nat /\ logical[i].id < nextId
    BY <1>1, ConstantFacts DEF ScalarsTyped, IInv, IdsAreFresh
  <2>2. \A i \in Unknown(S) : ids[i] \in Nat /\ nextId <= ids[i] /\ ids[i] < nextId'
    BY <1>2, ConstantFacts DEF Committed
  <2>3. nextId \in Nat /\ nextId' \in Nat /\ nextId <= nextId'
    BY <1>1, <1>2 DEF ScalarsTyped, Committed
  <2>4. \A i \in Items : logical'[i].id < nextId'
    BY <1>2, <2>1, <2>2, <2>3 DEF Committed
  <2>5. \A i, j \in Items : logical'[i].id = logical'[j].id /\ logical'[i].id # 0 => i = j
    BY <1>2, <2>1, <2>2, <2>3 DEF IInv, IdsAreFresh, Committed
  <2>6. \A k \in DOMAIN ledger : k.id < nextId' /\ k.epoch <= epoch'[k.target]
    BY <1>3, <2>3, KeyPlace
  <2>7. ASSUME NEW r \in slots
        PROVE  key[r].id < nextId' /\ key[r].epoch <= epoch'[key[r].target]
    <3>1. /\ key[r].id < nextId' /\ key[r].target \in Targets
          /\ key[r].epoch = epoch'[key[r].target]
      BY <1>2, <1>3, <2>2, ConstantFacts DEF Committed
    <3>2. epoch'[key[r].target] \in Nat
      BY <1>1, <1>3, <3>1, ConstantFacts DEF ScalarsTyped
    <3> QED
      BY <3>1, <3>2
  <2>8. DOMAIN ledger' = DOMAIN ledger \cup {key[r] : r \in slots}
    BY <1>2 DEF Committed
  <2> QED
    BY <2>4, <2>5, <2>6, <2>7, <2>8 DEF IdsAreFresh
<1>9. EndedBefore'
  <2> SUFFICES ASSUME NEW r \in RowsWith(Ended)'
               PROVE  outbox'[r].at <= ledger'[outbox'[r].dedupe_id].at
    BY DEF EndedBefore
  <2>1. r \in DOMAIN outbox /\ outbox'[r] = outbox[r] /\ r \in RowsWith(Ended)
    BY <1>2 DEF Committed, RowsWith, Ended
  <2>2. ledger'[outbox[r].dedupe_id] = ledger[outbox[r].dedupe_id]
    BY <1>2, <2>1, RowPlace DEF Committed
  <2> QED
    BY <2>1, <2>2 DEF IInv, EndedBefore
<1>10. SeenTracks'
  <2> SUFFICES ASSUME NEW i \in Items
               PROVE  /\ \/ seen'[i] = witnessed'[i]
                         \/ seen'[i] = 0 /\ witnessed'[i] + Horizon < day'
                      /\ witnessed'[i] = 0 => logical'[i].id = 0
    BY DEF SeenTracks, Before
  <2>1. CASE i \in S
    BY <1>1, <1>3, <2>1 DEF ScalarsTyped
  <2>2. CASE i \notin S
    <3>1. logical'[i].id = logical[i].id
      BY <1>2, <2>2 DEF Committed, Unknown
    <3> QED
      BY <1>3, <2>2, <3>1 DEF IInv, SeenTracks, Before
  <2> QED
    BY <2>1, <2>2
<1> QED
  BY <1>4, <1>5, <1>6, <1>7, <1>8, <1>9, <1>10 DEF IInv

-----------------------------------------------------------------------------
(* The invariant and what follows from it. *)

LEMMA InitStep == Init => IInv
<1> SUFFICES ASSUME Init PROVE IInv
  OBVIOUS
<1>1. DOMAIN ledger = {} /\ DOMAIN outbox = {} /\ RowsWith(Ended) = {}
  BY DEF Init, RowsWith
<1>2. DrainTyped
  BY IdleTyped DEF Init, DrainTyped
<1> DEFINE none == [id |-> 0, seen |-> 0]
<1>3. none \in [id : 0..MaxId, seen : Nat] /\ none.id = 0
  BY ConstantFacts
<1>4. logical = [i \in Items |-> none]
  BY DEF Init
<1> HIDE DEF none
<1>5. ScalarsTyped
  BY <1>3, <1>4, ConstantFacts DEF Init, ScalarsTyped
<1>6. TypeOK
  BY <1>1, <1>2, <1>5, TypeParts DEF LedgerTyped, RowsTyped
<1>7. IdsAreFresh /\ SeenTracks
  BY <1>1, <1>3, <1>4 DEF Init, IdsAreFresh, SeenTracks
<1> QED
  BY <1>1, <1>6, <1>7 DEF IInv, LedgerMatchesRow, QueuedHasRow, RowHasLogical, EndedBefore

LEMMA NextStep ==
    ASSUME IInv, [Next]_vars
    PROVE  IInv'
<1>1. CASE UNCHANGED vars
  BY <1>1, ProgramSteps
<1>2. CASE \E t \in Targets : \E S \in SUBSET ItemsOf(t) : \E M \in SUBSET S :
             \E C \in SUBSET Channels : \E b \in BOOLEAN : CommitScan(t, S, M, C, b)
  BY <1>2, CommitStep
<1>3. CASE \E t \in Targets : ResetTargetNotificationState(t) \/ DeleteTarget(t)
  BY <1>3, ResetStep, DeleteStep
<1>4. CASE RunAfterCommitHook \/ ThreadWakes \/ TickDispatches \/ ShutdownDispatcher
           \/ (\E b \in BOOLEAN : Restart(b)) \/ NextDay
  BY <1>4, ProgramSteps
<1>5. CASE ClearFailed \/ PruneBoundedRetention
  BY <1>5, ClearFailedStep, PruneStep
<1>6. CASE \E d \in Dispatchers : Drain(d) \/ EntryRaises(d) \/ AbortDrain(d)
  BY <1>6, QuietDrainSteps, RowSteps, RecordStep DEF Drain
<1>7. CASE \E r \in Slots : ProcessingAges(r)
  BY <1>7, AgingStep
<1> QED
  BY <1>1, <1>2, <1>3, <1>4, <1>5, <1>6, <1>7 DEF Next

\* The inductive invariant holds: a row never outlives the logical item and the
\* reservation it was made for.
THEOREM OutboxInvariant == Spec => []IInv
<1>1. IInv /\ [Next]_vars => IInv'
  BY NextStep
<1> QED
  BY <1>1, InitStep, PTL DEF Spec

\* Every variable keeps its type, and only a claimed row has a token.
THEOREM OutboxTypeCorrect == Spec => []TypeOK
<1>1. IInv => TypeOK
  BY DEF IInv
<1> QED
  BY <1>1, OutboxInvariant, PTL

\* The ledger and the rows agree: whatever the order of dispatch, retention,
\* reset and deletion, the reservation of a row is there and has its status.
THEOREM LedgerAgrees == Spec => []LedgerMatchesRow
<1>1. IInv => LedgerMatchesRow
  BY DEF IInv
<1> QED
  BY <1>1, OutboxInvariant, PTL

\* No reservation of the current epoch is stranded in "queued" without a row
\* that is on its way.
THEOREM NoStrandedReservation == Spec => []QueuedHasRow
<1>1. IInv => QueuedHasRow
  BY DEF IInv
<1> QED
  BY <1>1, OutboxInvariant, PTL

\* Only the commit of a scan makes reservations.
LEMMA OnlyCommitReserves ==
    ASSUME IInv, [Next]_vars,
           ~ \E t \in Targets : \E S \in SUBSET ItemsOf(t) : \E M \in SUBSET S :
                \E C \in SUBSET Channels : \E b \in BOOLEAN : CommitScan(t, S, M, C, b)
    PROVE  DOMAIN ledger' \subseteq DOMAIN ledger
<1>1. CASE \E t \in Targets : ResetTargetNotificationState(t) \/ DeleteTarget(t)
  BY <1>1 DEF ResetTargetNotificationState, DeleteTarget, Restrict
<1>2. CASE ClearFailed \/ PruneBoundedRetention
  BY <1>2 DEF ClearFailed, PruneBoundedRetention, Restrict
<1>3. CASE \/ UNCHANGED vars \/ RunAfterCommitHook \/ ThreadWakes \/ TickDispatches
           \/ ShutdownDispatcher \/ (\E b \in BOOLEAN : Restart(b)) \/ NextDay
           \/ \E r \in Slots : ProcessingAges(r)
  BY <1>3 DEF vars, tables, RunAfterCommitHook, ThreadWakes, TickDispatches,
              ShutdownDispatcher, Restart, NextDay, ProcessingAges
<1>4. CASE \E d \in Dispatchers : Drain(d) \/ EntryRaises(d) \/ AbortDrain(d)
  <2>1. PICK d \in Dispatchers : Drain(d) \/ EntryRaises(d) \/ AbortDrain(d)
    BY <1>4
  <2>2. CASE RecordResult(d)
    BY <2>2 DEF RecordResult
  <2>3. CASE \/ EnsureClaim(d) \/ RefreshEndpoint(d) \/ CallSender(d)
             \/ EntryRaises(d) \/ AbortDrain(d)
    BY <2>3 DEF EnsureClaim, RefreshEndpoint, CallSender, EntryRaises, AbortDrain
  <2>4. CASE \/ RecoverStaleProcessing(d) \/ FinishDrain(d) \/ SelectPending(d)
             \/ ClaimPending(d)
    BY <2>4 DEF RecoverStaleProcessing, FinishDrain, SelectPending, ClaimPending, tables
  <2> QED
    BY <2>1, <2>2, <2>3, <2>4 DEF Drain
<1> QED
  BY <1>1, <1>2, <1>3, <1>4 DEF Next

\* An item the target has seen within the horizon is not reserved again, also
\* after retention has deleted its rows.
THEOREM NoRepeatTheorem == Spec => NoRepeatWithinHorizon
<1> DEFINE NoRepeat ==
      \A k \in DOMAIN ledger' \ DOMAIN ledger :
          \A i \in Items : Owner[i] = k.target /\ logical'[i].id = k.id =>
              witnessed[i] = 0 \/ Before(witnessed[i], Horizon)
<1>1. ASSUME IInv, [Next]_vars PROVE NoRepeat
  <2> SUFFICES ASSUME NEW k \in DOMAIN ledger' \ DOMAIN ledger, NEW i \in Items,
                      Owner[i] = k.target, logical'[i].id = k.id
               PROVE  witnessed[i] = 0 \/ Before(witnessed[i], Horizon)
    OBVIOUS
  <2>1. PICK t \in Targets : \E S \in SUBSET ItemsOf(t) : \E M \in SUBSET S :
           \E C \in SUBSET Channels : \E b \in BOOLEAN : CommitScan(t, S, M, C, b)
    BY <1>1, OnlyCommitReserves
  <2>2. PICK S \in SUBSET ItemsOf(t) : \E M \in SUBSET S :
           \E C \in SUBSET Channels : \E b \in BOOLEAN : CommitScan(t, S, M, C, b)
    BY <2>1
  <2>3. PICK M \in SUBSET S, C \in SUBSET Channels, b \in BOOLEAN :
           CommitScan(t, S, M, C, b)
    BY <2>2
  <2>4. PICK ids, key : Committed(S, NewSlots(S, M, C), ids, key)
    BY <1>1, <2>3, CommitFacts
  <2>5. PICK r \in NewSlots(S, M, C) : k = key[r]
    BY <2>4 DEF Committed
  <2>6. r[1] \in Items /\ r[1] \in Unknown(S) /\ k.id = ids[r[1]] /\ nextId <= k.id
    BY <2>4, <2>5 DEF Committed
  <2>7. i = r[1]
    <3>1. logical[i].id < nextId /\ logical[i].id \in Nat /\ nextId \in Nat
      BY <1>1, TypeParts, ConstantFacts DEF IInv, IdsAreFresh, ScalarsTyped
    <3>2. k.id \in Nat
      BY <2>4, <2>6, ConstantFacts DEF Committed
    <3>3. i \in Unknown(S) /\ ids[i] = k.id
      BY <2>4, <2>6, <3>1, <3>2 DEF Committed
    <3> QED
      BY <2>4, <2>6, <3>3 DEF Committed
  <2>8. seen[i] = 0 \/ Before(seen[i], Horizon)
    BY <2>5, <2>7 DEF NewSlots, IsNew
  <2> QED
    BY <1>1, <2>8 DEF IInv, SeenTracks
<1>2. IInv /\ [Next]_vars => [NoRepeat]_vars
  BY <1>1
<1> QED
  BY <1>2, OutboxInvariant, PTL DEF Spec, NoRepeatWithinHorizon

\* A match the target has not seen since its last reset gets a pending row on
\* every channel of the scan.
THEOREM FreshMatchTheorem == Spec => FreshMatchNotified
<1> DEFINE Notified ==
      \A i \in Items : witnessed[i] = 0 /\ witnessed'[i] # 0 =>
          \A S \in SUBSET ItemsOf(Owner[i]) : \A M \in SUBSET S :
              \A C \in SUBSET Channels : \A b \in BOOLEAN :
                  i \in M /\ CommitScan(Owner[i], S, M, C, b) =>
                      \A c \in C :
                          /\ <<i, c>> \in DOMAIN outbox'
                          /\ outbox'[<<i, c>>].status = "pending"
                          /\ outbox'[<<i, c>>].dedupe_id \notin DOMAIN ledger
<1>1. ASSUME IInv PROVE Notified
  <2> SUFFICES ASSUME NEW i \in Items, witnessed[i] = 0,
                      NEW S \in SUBSET ItemsOf(Owner[i]), NEW M \in SUBSET S,
                      NEW C \in SUBSET Channels, NEW b \in BOOLEAN,
                      i \in M, CommitScan(Owner[i], S, M, C, b), NEW c \in C
               PROVE  /\ <<i, c>> \in DOMAIN outbox'
                      /\ outbox'[<<i, c>>].status = "pending"
                      /\ outbox'[<<i, c>>].dedupe_id \notin DOMAIN ledger
    OBVIOUS
  <2>1. PICK ids, key : Committed(S, NewSlots(S, M, C), ids, key)
    BY <1>1, CommitFacts, ConstantFacts
  <2>2. i \in IsNew(S)
    BY <1>1 DEF IInv, SeenTracks, IsNew, Unknown
  <2>3. <<i, c>> \in NewSlots(S, M, C)
    BY <2>2 DEF NewSlots
  <2> QED
    BY <2>1, <2>3 DEF Committed
<1>2. IInv => [Notified]_vars
  BY <1>1
<1> QED
  BY <1>2, OutboxInvariant, PTL DEF Spec, FreshMatchNotified

-----------------------------------------------------------------------------
(***************************************************************************)
(* Part two: how often a sender may be called, and that the wake event is  *)
(* not lost, for every number of items, channels, batches and rows to a    *)
(* batch.                                                                  *)
(*                                                                         *)
(* The first argument counts: the calls a reservation may still cause are  *)
(* its pending row and the batches that still hold a claim of it; a claim  *)
(* moves a call from the row to a batch, a sender call uses one up, and    *)
(* only taking back a stale claim adds one.  The second follows the thread *)
(* through a drain: once it holds a batch that was not full, nothing is    *)
(* pending unless a flag says so.                                          *)
(***************************************************************************)
Res(k) == <<k.id, k.channel>>
Waiting == RowsWith({"pending"})

-----------------------------------------------------------------------------
(* The invariant about sender calls. *)

\* d holds a claim of the reservation whose sender it has not called yet.
MayCall(d, c) ==
    \E e \in drain[d].batch :
        Res(e[2]) = c /\ ~(drain[d].phase = "record" /\ drain[d].entry = e)

HasPending(c) == \E r \in Waiting : Res(outbox[r].dedupe_id) = c

One(b) == IF b THEN 1 ELSE 0
Due(c) == One(HasPending(c)) + One(MayCall("thread", c)) + One(MayCall("tick", c))

\* A batch holds each reservation once, the entry it is at among them.
BatchOK ==
    \A d \in Dispatchers :
        /\ drain[d].phase \in {"refresh", "send", "record"} =>
              drain[d].entry \in drain[d].batch
        /\ \A e \in drain[d].batch : e[2] \in Keys /\ e[2].id < nextId
        /\ \A e, f \in drain[d].batch : Res(e[2]) = Res(f[2]) => e = f

AllowanceOK ==
    /\ allowance \in [Reservations -> Int]
    /\ \A c \in Reservations : allowance[c] >= Due(c)
    /\ \A c \in Reservations : c[1] >= nextId => allowance[c] = 1

CallInv == BatchOK /\ AllowanceOK

-----------------------------------------------------------------------------
(* The invariant about the wake event. *)

Settled == ~wake /\ ~hook /\ ~awaitsTick
Thread == drain["thread"]

\* While the thread is registered no tick drains, and what the thread leaves
\* behind it knows of.
ThreadInv ==
    registered =>
        /\ ~stopping /\ drain["tick"].phase = "idle" /\ Thread.phase # "gone"
        /\ Thread.phase = "recover" => Thread.batches = 0
        /\ Thread.phase = "claim" => Thread.picked # {}
        /\ Settled /\ Thread.phase = "idle" => Waiting = {}
        /\ Settled /\ Thread.phase = "claim" =>
              Cardinality(Thread.picked) >= BatchLimit \/ Waiting \subseteq Thread.picked
        /\ Settled /\ ~Thread.full
              /\ (Thread.phase \in {"prepare", "refresh", "send", "record"}
                  \/ (Thread.phase = "select" /\ Thread.batches > 0)) =>
              Waiting = {}

-----------------------------------------------------------------------------
(* The wake event: steps that leave the thread alone. *)

FlagVars == <<registered, stopping, wake, hook, awaitsTick>>

LEMMA ThreadKept ==
    ASSUME ThreadInv, UNCHANGED <<drain, FlagVars>>, Waiting' \subseteq Waiting
    PROVE  ThreadInv'
BY DEF ThreadInv, Settled, Thread, FlagVars

LEMMA WaitingShrinks ==
    ASSUME DOMAIN outbox' \subseteq DOMAIN outbox,
           \A r \in DOMAIN outbox' : outbox'[r].status = "pending" => outbox[r].status = "pending"
    PROVE  Waiting' \subseteq Waiting
BY DEF Waiting, RowsWith

\* Only a commit and the taking back of a stale claim make rows pending.
LEMMA TableSteps ==
    ASSUME IInv,
           \/ \E t \in Targets : ResetTargetNotificationState(t) \/ DeleteTarget(t)
           \/ ClearFailed \/ PruneBoundedRetention \/ NextDay
           \/ \E r \in Slots : ProcessingAges(r)
    PROVE  /\ DOMAIN outbox' \subseteq DOMAIN outbox
           /\ \A r \in DOMAIN outbox' :
                 /\ outbox'[r].status = outbox[r].status
                 /\ outbox'[r].dedupe_id \in {outbox[r].dedupe_id, NoKey}
           /\ UNCHANGED <<drain, FlagVars, allowance, nextId>>
<1> USE DEF FlagVars, wakeVars, history, tables
<1>1. CASE \E t \in Targets : ResetTargetNotificationState(t) \/ DeleteTarget(t)
  BY <1>1 DEF ResetTargetNotificationState, DeleteTarget, Restrict
<1>2. CASE ClearFailed
  BY <1>2 DEF ClearFailed, Restrict
<1>3. CASE PruneBoundedRetention
  <2>1. \A r \in DOMAIN outbox : outbox[r] \in OutboxRow
    BY TypeParts DEF IInv, RowsTyped, RowTyped
  <2>2. outbox' = [r \in DOMAIN outbox \ ExpiredRows |->
                     IF outbox[r].dedupe_id \in ExpiredReservations
                     THEN [outbox[r] EXCEPT !.dedupe_id = NoKey] ELSE outbox[r]]
    BY <1>3 DEF PruneBoundedRetention
  <2>3. \A r \in DOMAIN outbox' :
           /\ outbox'[r].status = outbox[r].status
           /\ outbox'[r].dedupe_id \in {outbox[r].dedupe_id, NoKey}
    BY <2>1, <2>2 DEF OutboxRow
  <2> QED
    BY <1>3, <2>2, <2>3 DEF PruneBoundedRetention
<1>4. CASE NextDay
  BY <1>4 DEF NextDay
<1>5. ASSUME NEW r \in Slots, ProcessingAges(r)
      PROVE  /\ DOMAIN outbox' \subseteq DOMAIN outbox
             /\ \A s \in DOMAIN outbox' :
                   /\ outbox'[s].status = outbox[s].status
                   /\ outbox'[s].dedupe_id \in {outbox[s].dedupe_id, NoKey}
             /\ UNCHANGED <<drain, FlagVars, allowance, nextId>>
  <2>1. \A s \in DOMAIN outbox : outbox[s] \in OutboxRow
    BY TypeParts DEF IInv, RowsTyped, RowTyped
  <2>2. r \in DOMAIN outbox /\ outbox' = [outbox EXCEPT ![r].aged = TRUE]
    BY <1>5 DEF ProcessingAges, RowsWith
  <2>3. DOMAIN outbox' = DOMAIN outbox
        /\ \A s \in DOMAIN outbox :
              /\ outbox'[s].status = outbox[s].status
              /\ outbox'[s].dedupe_id = outbox[s].dedupe_id
    BY <2>1, <2>2 DEF OutboxRow
  <2>4. UNCHANGED <<drain, FlagVars, allowance, nextId>>
    BY <1>5 DEF ProcessingAges
  <2> QED
    BY <2>3, <2>4
<1> QED
  BY <1>1, <1>2, <1>3, <1>4, <1>5

LEMMA TableThread ==
    ASSUME IInv, ThreadInv,
           \/ \E t \in Targets : ResetTargetNotificationState(t) \/ DeleteTarget(t)
           \/ ClearFailed \/ PruneBoundedRetention \/ NextDay
           \/ \E r \in Slots : ProcessingAges(r)
    PROVE  ThreadInv'
BY TableSteps, WaitingShrinks, ThreadKept

\* A commit that made a row left its hook to run.
LEMMA CommitThread ==
    ASSUME ThreadInv, NEW t \in Targets, NEW S \in SUBSET ItemsOf(t), NEW M \in SUBSET S,
           NEW C \in SUBSET Channels, NEW b \in BOOLEAN, CommitScan(t, S, M, C, b)
    PROVE  ThreadInv'
<1>1. PICK wanted : /\ outbox' = Enqueue(wanted)
                    /\ hook' = (hook \/ ~(DOMAIN wanted \subseteq DOMAIN outbox))
  BY DEF CommitScan
<1>2. UNCHANGED <<drain, registered, stopping, wake, awaitsTick>>
  BY DEF CommitScan
<1>3. CASE DOMAIN wanted \subseteq DOMAIN outbox
  <2>1. Waiting' \subseteq Waiting
    BY <1>1, <1>3 DEF Enqueue, Waiting, RowsWith
  <2>2. hook' <=> hook
    BY <1>1, <1>3, Zenon
  <2> QED
    BY <1>2, <2>1, <2>2 DEF ThreadInv, Settled, Thread
<1>4. CASE ~(DOMAIN wanted \subseteq DOMAIN outbox)
  <2>1. hook'
    BY <1>1, <1>4, Zenon
  <2> QED
    BY <1>2, <2>1 DEF ThreadInv, Settled, Thread
<1> QED
  BY <1>3, <1>4

LEMMA ProgramThread ==
    ASSUME IInv, ThreadInv,
           \/ RunAfterCommitHook \/ ThreadWakes \/ TickDispatches
           \/ ShutdownDispatcher \/ (\E b \in BOOLEAN : Restart(b)) \/ UNCHANGED vars
    PROVE  ThreadInv'
<1> USE DEF Settled, Thread
<1>0. drain \in [Dispatchers -> DrainState] /\ "thread" \in Dispatchers /\ "tick" \in Dispatchers
  BY TypeParts DEF IInv, DrainTyped, Dispatchers
<1>1. CASE RunAfterCommitHook
  <2>1. UNCHANGED <<drain, registered, stopping>> /\ Waiting' = Waiting /\ ~hook'
        /\ (registered => wake')
    BY <1>1 DEF RunAfterCommitHook, Wake, tables, Waiting, RowsWith
  <2> QED
    BY <2>1 DEF ThreadInv
<1>2. CASE ThreadWakes
  <2>1. drain["tick"]' = drain["tick"] /\ UNCHANGED <<registered, stopping>>
    BY <1>0, <1>2 DEF ThreadWakes, Begin, To
  <2>2. ~stopping => drain["thread"]'.phase = "recover" /\ drain["thread"]'.batches = 0
    BY <1>0, <1>2 DEF ThreadWakes, Begin, Idle
  <2> QED
    BY <2>1, <2>2 DEF ThreadInv
<1>3. CASE TickDispatches
  <2>1. CASE registered
    <3>1. UNCHANGED <<drain, registered, stopping, hook>> /\ wake'
      BY <1>3, <2>1 DEF TickDispatches, Wake
    <3> QED
      BY <3>1 DEF ThreadInv
  <2>2. CASE ~registered
    BY <1>3, <2>2 DEF TickDispatches, ThreadInv
  <2> QED
    BY <2>1, <2>2
<1>4. CASE ShutdownDispatcher
  BY <1>4 DEF ShutdownDispatcher, ThreadInv
<1>5. ASSUME NEW b \in BOOLEAN, Restart(b)
      PROVE  ThreadInv'
  <2>1. drain' = [d \in Dispatchers |-> Idle] /\ ~stopping' /\ Idle.phase = "idle"
    BY <1>5 DEF Restart, Idle
  <2>2. wake' \/ awaitsTick'
    BY <1>5, Zenon DEF Restart
  <2> QED
    BY <1>0, <2>1, <2>2 DEF ThreadInv
<1>6. CASE UNCHANGED vars
  <2>1. UNCHANGED <<drain, FlagVars>> /\ Waiting' = Waiting
    BY <1>6 DEF vars, tables, wakeVars, history, FlagVars, Waiting, RowsWith
  <2> QED
    BY <2>1, ThreadKept
<1> QED
  BY <1>1, <1>2, <1>3, <1>4, <1>5, <1>6

-----------------------------------------------------------------------------
(* The wake event: the drain. *)

\* While the thread is registered only the thread drains.
LEMMA OnlyThreadDrains ==
    ASSUME ThreadInv, UNCHANGED registered, NEW d \in Dispatchers,
           drain[d].phase # "idle", d # "thread"
    PROVE  ThreadInv'
BY DEF ThreadInv, Dispatchers

\* What a drain does to the rows makes none of them pending, recovery apart.
LEMMA DrainWaiting ==
    ASSUME IInv, NEW d \in Dispatchers,
           \/ FinishDrain(d) \/ SelectPending(d) \/ ClaimPending(d) \/ EnsureClaim(d)
           \/ RefreshEndpoint(d) \/ CallSender(d) \/ RecordResult(d)
           \/ EntryRaises(d) \/ AbortDrain(d)
    PROVE  /\ DOMAIN outbox' = DOMAIN outbox
           /\ \A r \in DOMAIN outbox :
                 /\ outbox'[r].dedupe_id = outbox[r].dedupe_id
                 /\ outbox'[r].status = "pending" => outbox[r].status = "pending"
<1>1. /\ \A r \in DOMAIN outbox : outbox[r] \in OutboxRow
      /\ drain \in [Dispatchers -> DrainState]
  BY TypeParts DEF IInv, RowsTyped, RowTyped, DrainTyped
<1>2. CASE \/ FinishDrain(d) \/ SelectPending(d) \/ CallSender(d) \/ EntryRaises(d)
           \/ AbortDrain(d)
  <2>1. outbox' = outbox
    BY <1>2 DEF FinishDrain, SelectPending, CallSender, EntryRaises, AbortDrain, tables
  <2> QED
    BY <2>1
<1>3. CASE ClaimPending(d)
  <2>1. PICK claimed :
           outbox' = [r \in DOMAIN outbox |->
                        IF r \in claimed THEN Row(outbox[r].dedupe_id, "processing", d)
                                         ELSE outbox[r]]
    BY <1>3 DEF ClaimPending
  <2> QED
    BY <2>1 DEF Row
<1>4. ASSUME NEW r \in DOMAIN outbox, outbox' = TouchProcessing(r)
      PROVE  /\ DOMAIN outbox' = DOMAIN outbox
             /\ \A s \in DOMAIN outbox :
                   /\ outbox'[s].dedupe_id = outbox[s].dedupe_id
                   /\ outbox'[s].status = "pending" => outbox[s].status = "pending"
  BY <1>1, <1>4 DEF TouchProcessing, OutboxRow
<1>5. ASSUME outbox' = outbox \/ \E r \in DOMAIN outbox : outbox' = TouchProcessing(r)
      PROVE  /\ DOMAIN outbox' = DOMAIN outbox
             /\ \A s \in DOMAIN outbox :
                   /\ outbox'[s].dedupe_id = outbox[s].dedupe_id
                   /\ outbox'[s].status = "pending" => outbox[s].status = "pending"
  BY <1>4, <1>5
<1>6. CASE EnsureClaim(d)
  BY <1>5, <1>6 DEF EnsureClaim, HoldsClaim
<1>7. CASE RefreshEndpoint(d)
  <2>1. PICK differs, off \in BOOLEAN :
           IF differs /\ ~HoldsClaim(d, Slot(d))
           THEN outbox' = outbox
           ELSE outbox' = IF differs THEN TouchProcessing(Slot(d)) ELSE outbox
    BY <1>7 DEF RefreshEndpoint
  <2>2. outbox' = outbox \/ (Slot(d) \in DOMAIN outbox /\ outbox' = TouchProcessing(Slot(d)))
    BY <2>1 DEF HoldsClaim
  <2> QED
    BY <1>5, <2>2
<1>8. CASE RecordResult(d)
  <2>1. drain[d].result # "pending"
    BY <1>1 DEF DrainState, Ended
  <2>2. \/ outbox' = outbox
        \/ /\ Slot(d) \in DOMAIN outbox
           /\ outbox' = [outbox EXCEPT ![Slot(d)] =
                           Row(outbox[Slot(d)].dedupe_id, drain[d].result, "")]
    BY <1>8 DEF RecordResult, HoldsClaim
  <2>3. ASSUME NEW k, NEW result
        PROVE  Row(k, result, "").dedupe_id = k /\ Row(k, result, "").status = result
    BY DEF Row
  <2> DEFINE slot == Slot(d)
             row == Row(outbox[slot].dedupe_id, drain[d].result, "")
  <2>4. row.dedupe_id = outbox[slot].dedupe_id /\ row.status # "pending"
    BY <2>1, <2>3
  <2> HIDE DEF row
  <2>5. CASE slot \in DOMAIN outbox /\ outbox' = [outbox EXCEPT ![slot] = row]
    BY <2>4, <2>5
  <2> QED
    BY <2>2, <2>5 DEF row
<1> QED
  BY <1>2, <1>3, <1>6, <1>7, <1>8

\* The thread is at an entry of its batch, before and after.
LEMMA EntryThread ==
    ASSUME IInv, ThreadInv, UNCHANGED <<FlagVars>>, Waiting' \subseteq Waiting,
           Thread.phase \in {"prepare", "refresh", "send", "record"},
           Thread'.phase \in {"prepare", "refresh", "send", "record", "select"},
           Thread'.full = Thread.full, drain'["tick"] = drain["tick"]
    PROVE  ThreadInv'
BY DEF ThreadInv, Settled, Thread, FlagVars

LEMMA NextEntryEffect ==
    ASSUME IInv, NEW d \in Dispatchers, NEW e, NextEntry(d, e)
    PROVE  /\ drain'[d].phase \in {"prepare", "select"}
           /\ drain'[d].batch = drain[d].batch \ {e}
           /\ drain'[d].full = drain[d].full
           /\ \A c \in Dispatchers : c # d => drain'[c] = drain[c]
<1> DEFINE rest == drain[d].batch \ {e}
           batches == IF d = "thread" /\ rest = {} THEN drain[d].batches + 1
                                                    ELSE drain[d].batches
           phase == IF rest = {} THEN "select" ELSE "prepare"
<1>1. drain \in [Dispatchers -> DrainState]
  BY TypeParts DEF IInv, DrainTyped
<1>2. drain' = [drain EXCEPT ![d].batch = rest, ![d].entry = <<>>,
                             ![d].result = "sent", ![d].batches = batches,
                             ![d].phase = phase]
  BY DEF NextEntry
<1>3. phase \in {"prepare", "select"}
  OBVIOUS
<1> HIDE DEF batches, phase, rest
<1>4. drain'[d].phase = phase /\ drain'[d].batch = rest /\ drain'[d].full = drain[d].full
  BY <1>1, <1>2 DEF DrainState
<1>5. \A c \in Dispatchers : c # d => drain'[c] = drain[c]
  BY <1>1, <1>2
<1> QED
  BY <1>3, <1>4, <1>5 DEF rest

LEMMA DrainThread ==
    ASSUME IInv, ThreadInv, NEW d \in Dispatchers,
           \/ Drain(d) \/ EntryRaises(d) \/ AbortDrain(d)
    PROVE  ThreadInv'
<1>0. /\ drain \in [Dispatchers -> DrainState] /\ Thread \in DrainState
      /\ "thread" \in Dispatchers /\ "tick" \in Dispatchers
      /\ BatchLimit \in Nat \ {0} /\ MaxBatches \in Nat \ {0}
  BY TypeParts, ConstantsAssumption DEF IInv, DrainTyped, Dispatchers, Thread, ConstantsAssumption
<1>1. UNCHANGED <<registered, stopping, hook>> /\ drain[d].phase # "idle"
  BY DEF Drain, RecoverStaleProcessing, FinishDrain, SelectPending, ClaimPending, EnsureClaim,
         RefreshEndpoint, CallSender, RecordResult, EntryRaises, AbortDrain, EntryUnchanged,
         wakeVars
<1>2. CASE d # "thread"
  BY <1>1, <1>2, OnlyThreadDrains
<1>3. CASE d = "thread" /\ registered
  <2> USE <1>3
  <2>0. ~stopping /\ drain["tick"].phase = "idle"
    BY DEF ThreadInv
  <2>1. CASE RecoverStaleProcessing(d)
    <3>1. drain'["thread"].phase = "select" /\ drain'["thread"].batches = 0
          /\ drain'["tick"] = drain["tick"]
      BY <1>0, <2>1 DEF RecoverStaleProcessing, To, ThreadInv, Thread, DrainState
    <3> QED
      BY <1>1, <2>0, <3>1 DEF ThreadInv, Thread
  <2>2. CASE FinishDrain(d)
    <3>1. /\ drain'["thread"].phase = "idle" /\ drain'["tick"] = drain["tick"]
          /\ Waiting' = Waiting
      BY <1>0, <2>2 DEF FinishDrain, Idle, tables, Waiting, RowsWith
    <3>2. (AtBatchLimit(d) /\ drain[d].full => wake')
          /\ (~(AtBatchLimit(d) /\ drain[d].full) => UNCHANGED <<wake, awaitsTick>>)
      BY <2>0, <2>2 DEF FinishDrain, Wake, NoWake
    <3>3. AtBatchLimit(d) => Thread.batches > 0
      BY <1>0 DEF AtBatchLimit, Thread, DrainState
    <3>4. Waiting = {} \/ AtBatchLimit(d)
      BY <2>0, <2>2 DEF FinishDrain, Waiting
    <3>5. Settled' => Waiting' = {}
      <4> SUFFICES ASSUME Settled' PROVE Waiting = {}
        BY <3>1
      <4>1. CASE AtBatchLimit(d)
        <5>1. ~drain[d].full /\ Settled
          BY <1>1, <3>2, <4>1 DEF Settled
        <5>2. Thread.phase = "select"
          BY <2>2 DEF FinishDrain, Thread
        <5> QED
          BY <3>3, <4>1, <5>1, <5>2 DEF ThreadInv, Thread
      <4> QED
        BY <3>4, <4>1
    <3> QED
      BY <1>1, <2>0, <3>1, <3>5 DEF ThreadInv, Thread
  <2>3. CASE SelectPending(d)
    <3>1. PICK picked \in SUBSET Waiting :
             /\ \/ Cardinality(picked) = BatchLimit
                \/ picked = Waiting
             /\ drain' = [drain EXCEPT ![d].picked = picked, ![d].phase = "claim"]
      BY <2>3 DEF SelectPending, Waiting
    <3>2. drain'["thread"].phase = "claim" /\ drain'["thread"].picked = picked
          /\ drain'["tick"] = drain["tick"]
      BY <1>0, <3>1 DEF DrainState
    <3>3. Waiting' = Waiting /\ Waiting # {}
      BY <2>3 DEF SelectPending, tables, Waiting, RowsWith
    <3>4. picked # {}
      BY <1>0, <3>1, <3>3, FS_EmptySet
    <3>5. Cardinality(picked) >= BatchLimit \/ Waiting \subseteq picked
      BY <1>0, <3>1
    <3> QED
      BY <1>1, <2>0, <3>2, <3>3, <3>4, <3>5 DEF ThreadInv, Thread
  <2>4. CASE ClaimPending(d)
    <3> DEFINE claimed == StillPending(drain[d].picked)
    <3>1. /\ drain'["tick"] = drain["tick"]
          /\ claimed = {} => drain'["thread"].phase = "idle"
          /\ claimed # {} => /\ drain'["thread"].phase = "prepare"
                             /\ drain'["thread"].full = (Cardinality(claimed) >= BatchLimit)
      BY <1>0, <2>4 DEF ClaimPending, Idle, DrainState
    <3>2. (claimed # drain[d].picked => awaitsTick')
          /\ (claimed = drain[d].picked => (awaitsTick' <=> awaitsTick))
      <4>1. awaitsTick' = (awaitsTick \/ (d = "thread" /\ claimed # drain[d].picked))
        BY <2>4 DEF ClaimPending
      <4> QED
        BY <4>1, Zenon
    <3>3. Waiting' = Waiting \ claimed
      BY <2>4 DEF ClaimPending, Waiting, RowsWith, StillPending, Row
    <3>4. drain[d].phase = "claim" /\ UNCHANGED wake
      BY <2>4 DEF ClaimPending, wakeVars
    <3> HIDE DEF claimed
    <3>5. drain[d].picked # {}
      BY <3>4 DEF ThreadInv, Thread
    <3>6. CASE claimed # drain[d].picked
      BY <1>1, <2>0, <3>1, <3>2, <3>6 DEF ThreadInv, Thread, Settled
    <3>7. CASE claimed = drain[d].picked
      <4>1. Settled' => Settled
        BY <1>1, <3>2, <3>4, <3>7 DEF Settled
      <4>2. ASSUME Settled', ~drain'["thread"].full
            PROVE  Waiting' = {}
        <5>1. ~(Cardinality(claimed) >= BatchLimit)
          BY <3>1, <3>5, <3>7, <4>2
        <5>2. Waiting \subseteq claimed
          BY <3>4, <3>7, <4>1, <4>2, <5>1 DEF ThreadInv, Thread
        <5> QED
          BY <3>3, <5>2
      <4> QED
        BY <1>1, <2>0, <3>1, <3>5, <3>7, <4>2 DEF ThreadInv, Thread
    <3> QED
      BY <3>6, <3>7
  <2>5. CASE EnsureClaim(d) \/ RefreshEndpoint(d) \/ CallSender(d) \/ RecordResult(d)
             \/ EntryRaises(d)
    <3>1. UNCHANGED FlagVars /\ Waiting' \subseteq Waiting
      <4>1. UNCHANGED FlagVars
        BY <2>5 DEF EnsureClaim, RefreshEndpoint, CallSender, RecordResult, EntryRaises,
                    EntryUnchanged, wakeVars, FlagVars
      <4> QED
        BY <2>5, <4>1, DrainWaiting, WaitingShrinks
    <3>2. Thread.phase \in {"prepare", "refresh", "send", "record"}
      BY <2>5 DEF EnsureClaim, RefreshEndpoint, CallSender, RecordResult, EntryRaises, Thread
    <3>3. /\ drain'["thread"].phase \in {"prepare", "refresh", "send", "record", "select"}
          /\ drain'["thread"].full = drain["thread"].full
          /\ drain'["tick"] = drain["tick"]
      <4>1. CASE \E e : NextEntry(d, e)
        BY <1>0, <4>1, NextEntryEffect
      <4>2. CASE EnsureClaim(d) /\ ~ \E e : NextEntry(d, e)
        BY <1>0, <4>2 DEF EnsureClaim, DrainState
      <4>3. CASE RefreshEndpoint(d) /\ ~ \E e : NextEntry(d, e)
        BY <1>0, <4>3 DEF RefreshEndpoint, DrainState
      <4>4. CASE CallSender(d)
        BY <1>0, <4>4 DEF CallSender, DrainState
      <4>5. CASE EntryRaises(d)
        <5>1. \/ \E e : drain' = [drain EXCEPT ![d].entry = e, ![d].result = "failed",
                                               ![d].phase = "record"]
              \/ drain' = [drain EXCEPT ![d].result = "failed", ![d].phase = "record"]
          BY <4>5 DEF EntryRaises
        <5>2. CASE drain' = [drain EXCEPT ![d].result = "failed", ![d].phase = "record"]
          BY <1>0, <5>2 DEF DrainState
        <5>3. ASSUME NEW e, drain' = [drain EXCEPT ![d].entry = e, ![d].result = "failed",
                                                   ![d].phase = "record"]
              PROVE  /\ drain'["thread"].phase = "record"
                     /\ drain'["thread"].full = drain["thread"].full
                     /\ drain'["tick"] = drain["tick"]
          BY <1>0, <5>3 DEF DrainState
        <5> QED
          BY <5>1, <5>2, <5>3
      <4>6. CASE RecordResult(d)
        BY <4>1, <4>6 DEF RecordResult
      <4> QED
        BY <2>5, <4>1, <4>2, <4>3, <4>4, <4>5, <4>6
    <3> QED
      BY <3>1, <3>2, <3>3, EntryThread DEF Thread
  <2>6. CASE AbortDrain(d)
    <3>1. drain'["thread"].phase = "idle" /\ drain'["tick"] = drain["tick"]
      BY <1>0, <2>6 DEF AbortDrain, Idle
    <3>2. awaitsTick'
      BY <2>6, Zenon DEF AbortDrain
    <3> QED
      BY <1>1, <2>0, <3>1, <3>2 DEF ThreadInv, Thread, Settled
  <2> QED
    BY <2>1, <2>2, <2>3, <2>4, <2>5, <2>6 DEF Drain
<1> QED
  BY <1>1, <1>2, <1>3 DEF ThreadInv

-----------------------------------------------------------------------------
(* Sender calls: counting. *)

LEMMA DueBounds ==
    ASSUME NEW c
    PROVE  Due(c) \in Nat /\ Due(c)' \in Nat
BY DEF Due, One

LEMMA DueShrinks ==
    ASSUME NEW c, HasPending(c)' => HasPending(c),
           MayCall("thread", c)' => MayCall("thread", c),
           MayCall("tick", c)' => MayCall("tick", c)
    PROVE  Due(c)' <= Due(c)
BY DEF Due, One

\* A reservation has one row at most, and its id was given.
LEMMA RowOfReservation ==
    ASSUME IInv, NEW r \in DOMAIN outbox
    PROVE  /\ outbox[r].dedupe_id \in Keys /\ outbox[r].dedupe_id.id < nextId
           /\ \A s \in DOMAIN outbox :
                 Res(outbox[r].dedupe_id) = Res(outbox[s].dedupe_id) => r = s
<1>1. RowsTyped /\ RowHasLogical /\ IdsAreFresh
  BY TypeParts DEF IInv
<1>2. r \in Items \X Channels
  BY <1>1 DEF RowsTyped, Slots
<1>3. outbox[r].dedupe_id \in Keys /\ outbox[r].dedupe_id.id < nextId
  BY <1>1, <1>2 DEF RowHasLogical, IdsAreFresh
<1>4. ASSUME NEW s \in DOMAIN outbox, Res(outbox[r].dedupe_id) = Res(outbox[s].dedupe_id)
      PROVE  r = s
  <2>1. s \in Items \X Channels
    BY <1>1 DEF RowsTyped, Slots
  <2>2. r[2] = s[2] /\ logical[r[1]].id = logical[s[1]].id
    BY <1>1, <1>4 DEF RowHasLogical, Res
  <2>3. logical[r[1]].id # 0
    BY <1>1 DEF RowHasLogical, Keys
  <2>4. r[1] = s[1]
    BY <1>1, <1>2, <2>1, <2>2, <2>3 DEF IdsAreFresh
  <2> QED
    BY <1>2, <2>1, <2>2, <2>4
<1> QED
  BY <1>3, <1>4

LEMMA KeyReservation ==
    ASSUME NEW k \in Keys
    PROVE  Res(k) \in Reservations /\ Res(k)[1] = k.id
BY DEF Res, Keys, Reservations

LEMMA NoKeyReservation == Res(NoKey) \notin Reservations
BY ConstantFacts DEF Res, NoKey, Reservations

\* Nothing may still be sent for an id that was not given yet.
LEMMA UnusedIsFree ==
    ASSUME IInv, CallInv, NEW c \in Reservations, c[1] >= nextId, NEW d \in Dispatchers
    PROVE  ~MayCall(d, c) /\ ~HasPending(c)
<1>0. nextId \in Nat
  BY TypeParts DEF IInv, ScalarsTyped
<1>1. \A e \in drain[d].batch : e[2] \in Keys /\ e[2].id < nextId
  BY DEF CallInv, BatchOK
<1>2. ~MayCall(d, c)
  BY <1>0, <1>1, KeyReservation DEF MayCall, Keys
<1>3. ~HasPending(c)
  BY <1>0, RowOfReservation, KeyReservation DEF HasPending, Waiting, RowsWith, Keys
<1> QED
  BY <1>2, <1>3

\* Steps after which no more calls are due than before.
LEMMA CallsShrink ==
    ASSUME IInv, CallInv, BatchOK', UNCHANGED <<allowance, nextId>>,
           \A c \in Reservations : HasPending(c)' => HasPending(c),
           \A d \in Dispatchers, c \in Reservations : MayCall(d, c)' => MayCall(d, c)
    PROVE  CallInv'
<1>1. "thread" \in Dispatchers /\ "tick" \in Dispatchers
  BY DEF Dispatchers
<1>2. \A c \in Reservations : Due(c)' <= Due(c) /\ Due(c) \in Nat /\ Due(c)' \in Nat
  BY <1>1, DueBounds, DueShrinks
<1>3. AllowanceOK'
  BY <1>2 DEF CallInv, AllowanceOK
<1> QED
  BY <1>3 DEF CallInv

\* The batch of d only gets smaller; an entry that was at its record is done.
LEMMA BatchGoesOn ==
    ASSUME IInv, CallInv, NEW d \in Dispatchers, UNCHANGED <<allowance, nextId>>,
           \A c \in Dispatchers : c # d => drain'[c] = drain[c],
           drain'[d].batch \subseteq drain[d].batch,
           drain'[d].phase \in {"refresh", "send", "record"} =>
               drain'[d].entry \in drain'[d].batch,
           drain[d].phase = "record" =>
               \/ drain[d].entry \notin drain'[d].batch
               \/ drain'[d].phase = "record" /\ drain'[d].entry = drain[d].entry,
           \A c \in Reservations : HasPending(c)' => HasPending(c)
    PROVE  CallInv'
<1>1. BatchOK'
  BY DEF CallInv, BatchOK
<1>2. \A c \in Dispatchers, x \in Reservations : MayCall(c, x)' => MayCall(c, x)
  <2> SUFFICES ASSUME NEW c \in Dispatchers, NEW x \in Reservations, MayCall(c, x)'
               PROVE  MayCall(c, x)
    OBVIOUS
  <2>1. CASE c # d
    BY <2>1 DEF MayCall
  <2>2. CASE c = d
    BY <2>2 DEF MayCall
  <2> QED
    BY <2>1, <2>2
<1> QED
  BY <1>1, <1>2, CallsShrink

-----------------------------------------------------------------------------
(* Sender calls: the steps. *)

LEMMA TableCalls ==
    ASSUME IInv, CallInv,
           \/ \E t \in Targets : ResetTargetNotificationState(t) \/ DeleteTarget(t)
           \/ ClearFailed \/ PruneBoundedRetention \/ NextDay
           \/ \E r \in Slots : ProcessingAges(r)
    PROVE  CallInv'
<1>1. /\ DOMAIN outbox' \subseteq DOMAIN outbox
      /\ \A r \in DOMAIN outbox' :
            /\ outbox'[r].status = outbox[r].status
            /\ outbox'[r].dedupe_id \in {outbox[r].dedupe_id, NoKey}
      /\ UNCHANGED <<drain, FlagVars, allowance, nextId>>
  BY TableSteps
<1>2. \A c \in Reservations : HasPending(c)' => HasPending(c)
  BY <1>1, NoKeyReservation DEF HasPending, Waiting, RowsWith
<1>3. BatchOK'
  BY <1>1 DEF CallInv, BatchOK
<1>4. \A d \in Dispatchers, c \in Reservations : MayCall(d, c)' => MayCall(d, c)
  BY <1>1 DEF MayCall
<1> QED
  BY <1>1, <1>2, <1>3, <1>4, CallsShrink

LEMMA CommitCalls ==
    ASSUME IInv, CallInv, NEW t \in Targets, NEW S \in SUBSET ItemsOf(t), NEW M \in SUBSET S,
           NEW C \in SUBSET Channels, NEW b \in BOOLEAN, CommitScan(t, S, M, C, b)
    PROVE  CallInv'
<1> DEFINE slots == NewSlots(S, M, C)
<1>0. nextId \in Nat /\ "thread" \in Dispatchers /\ "tick" \in Dispatchers
  BY TypeParts DEF IInv, ScalarsTyped, Dispatchers
<1>1. PICK ids, key : Committed(S, slots, ids, key)
  BY CommitFacts
<1>2. /\ UNCHANGED <<drain, allowance>> /\ nextId' \in Nat /\ nextId <= nextId'
  BY <1>1 DEF CommitScan, Committed
<1> HIDE DEF slots
<1>3. ASSUME NEW c \in Reservations, HasPending(c)', ~HasPending(c)
      PROVE  c[1] >= nextId
  <2>1. PICK r \in DOMAIN outbox' :
           outbox'[r].status = "pending" /\ Res(outbox'[r].dedupe_id) = c
    BY <1>3 DEF HasPending, Waiting, RowsWith
  <2>2. r \notin DOMAIN outbox
    BY <1>1, <1>3, <2>1 DEF Committed, HasPending, Waiting, RowsWith
  <2>3. r \in slots
    BY <1>1, <2>1, <2>2 DEF Committed
  <2>4. outbox'[r].dedupe_id \in Keys /\ outbox'[r].dedupe_id.id >= nextId
    BY <1>0, <1>1, <2>3 DEF Committed
  <2> QED
    BY <2>1, <2>4, KeyReservation
<1>4. BatchOK'
  BY <1>0, <1>2 DEF CallInv, BatchOK, Keys
<1>5. \A d \in Dispatchers, c \in Reservations : MayCall(d, c)' <=> MayCall(d, c)
  BY <1>2 DEF MayCall
<1>6. ASSUME NEW c \in Reservations
      PROVE  allowance'[c] >= Due(c)' /\ (c[1] >= nextId' => allowance'[c] = 1)
  <2>0. c[1] \in Nat
    BY DEF Reservations
  <2>1. CASE HasPending(c)' => HasPending(c)
    <3>1. Due(c)' <= Due(c) /\ Due(c) \in Nat /\ Due(c)' \in Nat
      BY <1>0, <1>5, <2>1, DueBounds, DueShrinks
    <3> QED
      BY <1>0, <1>2, <2>0, <3>1 DEF CallInv, AllowanceOK
  <2>2. CASE HasPending(c)' /\ ~HasPending(c)
    <3>1. c[1] >= nextId
      BY <1>3, <2>2
    <3>2. ~MayCall("thread", c)' /\ ~MayCall("tick", c)'
      BY <1>0, <1>5, <3>1, UnusedIsFree
    <3>3. Due(c)' = 1
      BY <2>2, <3>2 DEF Due, One
    <3> QED
      BY <1>2, <3>1, <3>3 DEF CallInv, AllowanceOK
  <2> QED
    BY <2>1, <2>2
<1> QED
  BY <1>2, <1>4, <1>6 DEF CallInv, AllowanceOK

LEMMA ProgramCalls ==
    ASSUME IInv, CallInv,
           \/ RunAfterCommitHook \/ ThreadWakes \/ TickDispatches
           \/ ShutdownDispatcher \/ (\E b \in BOOLEAN : Restart(b)) \/ UNCHANGED vars
    PROVE  CallInv'
<1>0. drain \in [Dispatchers -> DrainState] /\ "thread" \in Dispatchers /\ "tick" \in Dispatchers
  BY TypeParts DEF IInv, DrainTyped, Dispatchers
<1>1. UNCHANGED <<allowance, nextId, outbox>>
  BY DEF RunAfterCommitHook, ThreadWakes, TickDispatches, ShutdownDispatcher, Restart, vars,
         tables, history
<1>2. \A c \in Reservations : HasPending(c)' => HasPending(c)
  BY <1>1 DEF HasPending, Waiting, RowsWith
<1>3. ASSUME NEW d \in Dispatchers, Begin(d)
      PROVE  CallInv'
  <2>1. \A c \in Dispatchers : c # d => drain'[c] = drain[c]
    BY <1>0, <1>3 DEF Begin
  <2>2. drain'[d].batch = {} /\ drain'[d].phase = "recover"
    BY <1>0, <1>3 DEF Begin, Idle
  <2> QED
    BY <1>1, <1>2, <2>1, <2>2, BatchGoesOn
<1>4. CASE UNCHANGED drain
  <2>1. BatchOK'
    BY <1>1, <1>4 DEF CallInv, BatchOK
  <2>2. \A d \in Dispatchers, c \in Reservations : MayCall(d, c)' => MayCall(d, c)
    BY <1>4 DEF MayCall
  <2> QED
    BY <1>1, <1>2, <2>1, <2>2, CallsShrink
<1>5. CASE ThreadWakes
  <2>1. CASE To("thread", "gone")
    <3>1. \A c \in Dispatchers : c # "thread" => drain'[c] = drain[c]
      BY <1>0, <2>1 DEF To
    <3>2. drain'["thread"].batch = drain["thread"].batch /\ drain'["thread"].phase = "gone"
          /\ drain["thread"].phase = "idle"
      BY <1>0, <1>5, <2>1 DEF To, DrainState, ThreadWakes
    <3> QED
      BY <1>0, <1>1, <1>2, <3>1, <3>2, BatchGoesOn
  <2>2. CASE Begin("thread")
    BY <1>0, <1>3, <2>2
  <2> QED
    BY <1>5, <2>1, <2>2 DEF ThreadWakes
<1>6. ASSUME NEW b \in BOOLEAN, Restart(b)
      PROVE  CallInv'
  <2>1. \A d \in Dispatchers : drain'[d].batch = {} /\ drain'[d].phase = "idle"
    BY <1>6 DEF Restart, Idle
  <2>2. BatchOK'
    BY <2>1 DEF BatchOK
  <2>3. \A d \in Dispatchers, c \in Reservations : MayCall(d, c)' => MayCall(d, c)
    BY <2>1 DEF MayCall
  <2> QED
    BY <1>1, <1>2, <2>2, <2>3, CallsShrink
<1>7. CASE RunAfterCommitHook \/ ShutdownDispatcher \/ UNCHANGED vars
  BY <1>4, <1>7 DEF RunAfterCommitHook, ShutdownDispatcher, vars
<1>8. CASE TickDispatches
  BY <1>0, <1>3, <1>4, <1>8 DEF TickDispatches
<1> QED
  BY <1>5, <1>6, <1>7, <1>8

-----------------------------------------------------------------------------
(* Sender calls: the drain. *)

\* A claim moves a call from the pending row to the batch.
LEMMA DueMoves ==
    ASSUME NEW c, NEW d \in Dispatchers, HasPending(c)' => HasPending(c),
           \A x \in Dispatchers : x # d => (MayCall(x, c)' => MayCall(x, c)),
           MayCall(d, c)' => HasPending(c) /\ ~HasPending(c)'
    PROVE  Due(c)' <= Due(c)
<1>1. CASE d = "thread"
  BY <1>1 DEF Dispatchers, Due, One
<1>2. CASE d = "tick"
  BY <1>2 DEF Dispatchers, Due, One
<1> QED
  BY <1>1, <1>2 DEF Dispatchers

\* A sender call uses one up.
LEMMA DueUsed ==
    ASSUME NEW c, NEW d \in Dispatchers, HasPending(c)' => HasPending(c),
           \A x \in Dispatchers : x # d => (MayCall(x, c)' => MayCall(x, c)),
           MayCall(d, c), ~MayCall(d, c)'
    PROVE  Due(c)' <= Due(c) - 1
<1>1. CASE d = "thread"
  BY <1>1 DEF Dispatchers, Due, One
<1>2. CASE d = "tick"
  BY <1>2 DEF Dispatchers, Due, One
<1> QED
  BY <1>1, <1>2 DEF Dispatchers

\* A stale claim taken back adds one, to the reservation of its row.
LEMMA RecoverCalls ==
    ASSUME IInv, CallInv, NEW d \in Dispatchers, RecoverStaleProcessing(d)
    PROVE  CallInv'
<1> DEFINE stale == {r \in RowsWith({"processing"}) : outbox[r].aged}
           Of(c) == {r \in stale :
                       <<outbox[r].dedupe_id.id, outbox[r].dedupe_id.channel>> = c}
<1>0. /\ drain \in [Dispatchers -> DrainState] /\ nextId \in Nat
      /\ allowance \in [Reservations -> Int]
  BY TypeParts DEF IInv, DrainTyped, ScalarsTyped, CallInv, AllowanceOK
<1>1. /\ outbox' = [r \in DOMAIN outbox |->
                      IF r \in stale THEN Row(outbox[r].dedupe_id, "pending", "")
                                     ELSE outbox[r]]
      /\ allowance' = [c \in Reservations |-> allowance[c] + Cardinality(Of(c))]
      /\ To(d, "select") /\ drain[d].phase = "recover" /\ nextId' = nextId
  BY DEF RecoverStaleProcessing
<1>2. \A r \in stale : r \in DOMAIN outbox
  BY DEF RowsWith
<1>3. \A c : Of(c) = {r \in stale : Res(outbox[r].dedupe_id) = c}
  BY DEF Res
<1>4. ASSUME NEW c \in Reservations
      PROVE  /\ Of(c) = {} => Cardinality(Of(c)) = 0
             /\ Of(c) # {} => Cardinality(Of(c)) = 1
  <2>1. Of(c) = {} => Cardinality(Of(c)) = 0
    BY FS_EmptySet
  <2>2. ASSUME NEW r \in Of(c)
        PROVE  Cardinality(Of(c)) = 1
    <3>1. Of(c) = {r}
      BY <1>2, <1>3, <2>2, RowOfReservation
    <3> QED
      BY <3>1, FS_Singleton
  <2> QED
    BY <2>1, <2>2
<1>5. /\ \A x \in Dispatchers : x # d => drain'[x] = drain[x]
      /\ drain'[d].phase = "select" /\ drain'[d].batch = drain[d].batch
  BY <1>0, <1>1 DEF To, DrainState
<1>6. ASSUME NEW c \in Reservations, HasPending(c)', ~HasPending(c)
      PROVE  Of(c) # {}
  <2>1. PICK r \in DOMAIN outbox : outbox'[r].status = "pending" /\ Res(outbox'[r].dedupe_id) = c
    BY <1>1, <1>6 DEF HasPending, Waiting, RowsWith
  <2>2. r \in stale
    BY <1>1, <1>6, <2>1 DEF HasPending, Waiting, RowsWith
  <2>3. outbox'[r].dedupe_id = outbox[r].dedupe_id
    BY <1>1, <2>1, <2>2 DEF Row
  <2> QED
    BY <1>3, <2>1, <2>2, <2>3
<1>7. ASSUME NEW c \in Reservations, c[1] >= nextId
      PROVE  Of(c) = {}
  BY <1>0, <1>2, <1>3, <1>7, RowOfReservation, KeyReservation DEF Keys
<1>8. \A x \in Dispatchers, c \in Reservations : MayCall(x, c)' => MayCall(x, c)
  <2> SUFFICES ASSUME NEW x \in Dispatchers, NEW c \in Reservations, MayCall(x, c)'
               PROVE  MayCall(x, c)
    OBVIOUS
  <2>1. CASE x # d
    BY <1>5, <2>1 DEF MayCall
  <2>2. CASE x = d
    BY <1>1, <1>5, <2>2 DEF MayCall
  <2> QED
    BY <2>1, <2>2
<1>9. BatchOK'
  BY <1>1, <1>5 DEF CallInv, BatchOK
<1> HIDE DEF Of
<1>10. ASSUME NEW c \in Reservations
       PROVE  /\ allowance'[c] \in Int /\ allowance'[c] >= Due(c)'
              /\ c[1] >= nextId' => allowance'[c] = 1
  <2>1. /\ allowance'[c] = allowance[c] + Cardinality(Of(c))
        /\ allowance[c] \in Int /\ allowance[c] >= Due(c)
        /\ c[1] >= nextId => allowance[c] = 1
    BY <1>0, <1>1 DEF CallInv, AllowanceOK
  <2>2. Due(c) \in Nat /\ Due(c)' \in Nat
    BY DueBounds
  <2>3. Due(c)' <= Due(c) + Cardinality(Of(c))
    <3>1. MayCall("thread", c)' => MayCall("thread", c)
      BY <1>8 DEF Dispatchers
    <3>2. MayCall("tick", c)' => MayCall("tick", c)
      BY <1>8 DEF Dispatchers
    <3>3. CASE Of(c) = {}
      BY <1>4, <1>6, <2>2, <3>1, <3>2, <3>3, DueShrinks
    <3>4. CASE Of(c) # {}
      BY <1>4, <3>1, <3>2, <3>4 DEF Due, One
    <3> QED
      BY <3>3, <3>4
  <2>4. Cardinality(Of(c)) \in {0, 1} /\ (c[1] >= nextId => Cardinality(Of(c)) = 0)
    BY <1>4, <1>7
  <2>5. allowance'[c] \in Int /\ allowance'[c] >= Due(c)'
    BY <2>1, <2>2, <2>3, <2>4
  <2>6. c[1] >= nextId => allowance'[c] = 1
    BY <2>1, <2>4
  <2> QED
    BY <1>1, <2>5, <2>6
<1>11. allowance' \in [Reservations -> Int]
  BY <1>1, <1>10
<1> QED
  BY <1>9, <1>10, <1>11 DEF CallInv, AllowanceOK

LEMMA ClaimCalls ==
    ASSUME IInv, CallInv, NEW d \in Dispatchers, ClaimPending(d)
    PROVE  CallInv'
<1> DEFINE claimed == StillPending(drain[d].picked)
<1>0. drain \in [Dispatchers -> DrainState] /\ nextId \in Nat
  BY TypeParts DEF IInv, DrainTyped, ScalarsTyped
<1>1. /\ outbox' = [r \in DOMAIN outbox |->
                      IF r \in claimed THEN Row(outbox[r].dedupe_id, "processing", d)
                                       ELSE outbox[r]]
      /\ UNCHANGED <<allowance, nextId>>
  BY DEF ClaimPending
<1>2. claimed \subseteq Waiting /\ Waiting \subseteq DOMAIN outbox
  BY DEF StillPending, Waiting, RowsWith
<1>3. /\ \A x \in Dispatchers : x # d => drain'[x] = drain[x]
      /\ drain'[d].phase \in {"idle", "prepare"}
      /\ \A e \in drain'[d].batch : \E r \in claimed : e = <<r, outbox[r].dedupe_id>>
  BY <1>0 DEF ClaimPending, Idle, DrainState
<1>4. \A c \in Reservations : HasPending(c)' => HasPending(c)
  BY DrainWaiting DEF HasPending, Waiting, RowsWith
<1>5. ASSUME NEW c \in Reservations, NEW r \in claimed, Res(outbox[r].dedupe_id) = c
      PROVE  HasPending(c) /\ ~HasPending(c)'
  <2>1. HasPending(c)
    BY <1>2, <1>5 DEF HasPending
  <2>2. ASSUME HasPending(c)'
        PROVE  FALSE
    <3>1. PICK s \in DOMAIN outbox :
             outbox'[s].status = "pending" /\ Res(outbox'[s].dedupe_id) = c
      BY <1>1, <2>2 DEF HasPending, Waiting, RowsWith
    <3>2. s \notin claimed /\ outbox'[s] = outbox[s]
      BY <1>1, <3>1 DEF Row
    <3>3. s = r
      BY <1>2, <1>5, <3>1, <3>2, RowOfReservation
    <3> QED
      BY <1>5, <3>2, <3>3
  <2> QED
    BY <2>1, <2>2
<1> HIDE DEF claimed
<1>6. ASSUME NEW c \in Reservations
      PROVE  Due(c)' <= Due(c)
  <2>1. MayCall(d, c)' => HasPending(c) /\ ~HasPending(c)'
    BY <1>3, <1>5 DEF MayCall
  <2>2. \A x \in Dispatchers : x # d => (MayCall(x, c)' => MayCall(x, c))
    BY <1>3 DEF MayCall
  <2> QED
    BY <1>4, <2>1, <2>2, DueMoves
<1>7. BatchOK'
  <2>1. \A e \in drain'[d].batch : e[2] \in Keys /\ e[2].id < nextId
    BY <1>2, <1>3, RowOfReservation
  <2>2. \A e, f \in drain'[d].batch : Res(e[2]) = Res(f[2]) => e = f
    BY <1>2, <1>3, RowOfReservation
  <2> QED
    BY <1>1, <1>3, <2>1, <2>2 DEF CallInv, BatchOK
<1>8. AllowanceOK'
  BY <1>1, <1>6, DueBounds DEF CallInv, AllowanceOK
<1> QED
  BY <1>7, <1>8 DEF CallInv

LEMMA SenderCalls ==
    ASSUME IInv, CallInv, NEW d \in Dispatchers, CallSender(d)
    PROVE  CallInv'
<1>0. /\ drain \in [Dispatchers -> DrainState] /\ nextId \in Nat
      /\ allowance \in [Reservations -> Int]
  BY TypeParts DEF IInv, DrainTyped, ScalarsTyped, CallInv, AllowanceOK
<1>1. /\ drain[d].phase = "send" /\ UNCHANGED <<outbox, nextId>>
      /\ allowance' = [allowance EXCEPT ![Reservation(d)] = @ - 1]
  BY DEF CallSender, EntryUnchanged
<1>2. PICK result : drain' = [drain EXCEPT ![d].result = result, ![d].phase = "record"]
  BY DEF CallSender
<1>3. /\ \A x \in Dispatchers : x # d => drain'[x] = drain[x]
      /\ drain'[d].phase = "record" /\ drain'[d].batch = drain[d].batch
      /\ drain'[d].entry = drain[d].entry
  BY <1>0, <1>2 DEF DrainState
<1>4. drain[d].entry \in drain[d].batch
  BY <1>1 DEF CallInv, BatchOK
<1>5. PICK c0 \in Reservations :
         c0 = Reservation(d) /\ c0 = Res(drain[d].entry[2]) /\ c0[1] < nextId
  <2>1. Reservation(d) = Res(drain[d].entry[2])
    BY DEF Reservation, Res
  <2>2. drain[d].entry[2] \in Keys /\ drain[d].entry[2].id < nextId
    BY <1>4 DEF CallInv, BatchOK
  <2> QED
    BY <2>1, <2>2, KeyReservation
<1>6. MayCall(d, c0) /\ ~MayCall(d, c0)'
  <2>1. MayCall(d, c0)
    BY <1>1, <1>4, <1>5 DEF MayCall
  <2>2. \A e \in drain[d].batch : Res(e[2]) = c0 => e = drain[d].entry
    BY <1>4, <1>5 DEF CallInv, BatchOK
  <2>3. ~MayCall(d, c0)'
    BY <1>3, <2>2 DEF MayCall
  <2> QED
    BY <2>1, <2>3
<1>7. \A x \in Dispatchers, c \in Reservations : MayCall(x, c)' => MayCall(x, c)
  <2> SUFFICES ASSUME NEW x \in Dispatchers, NEW c \in Reservations, MayCall(x, c)'
               PROVE  MayCall(x, c)
    OBVIOUS
  <2>1. CASE x # d
    BY <1>3, <2>1 DEF MayCall
  <2>2. CASE x = d
    BY <1>1, <1>3, <2>2 DEF MayCall
  <2> QED
    BY <2>1, <2>2
<1>8. \A c \in Reservations : HasPending(c)' => HasPending(c)
  BY <1>1 DEF HasPending, Waiting, RowsWith
<1>9. BatchOK'
  BY <1>1, <1>3, <1>4 DEF CallInv, BatchOK
<1>10. ASSUME NEW c \in Reservations
       PROVE  allowance'[c] >= Due(c)' /\ (c[1] >= nextId' => allowance'[c] = 1)
  <2>1. /\ allowance[c] \in Int /\ allowance[c] >= Due(c) /\ Due(c) \in Nat /\ Due(c)' \in Nat
        /\ c[1] >= nextId => allowance[c] = 1
    BY <1>0, DueBounds DEF CallInv, AllowanceOK
  <2>2. CASE c = c0
    <3>1. Due(c)' <= Due(c) - 1
      BY <1>6, <1>7, <1>8, <2>2, DueUsed
    <3>2. allowance'[c] = allowance[c] - 1
      BY <1>0, <1>1, <1>5, <2>2
    <3>3. c[1] \in Nat
      BY DEF Reservations
    <3> QED
      BY <1>0, <1>1, <1>5, <2>1, <2>2, <3>1, <3>2, <3>3
  <2>3. CASE c # c0
    <3>1. Due(c)' <= Due(c)
      BY <1>7, <1>8, DueShrinks DEF Dispatchers
    <3>2. allowance'[c] = allowance[c]
      BY <1>0, <1>1, <1>5, <2>3
    <3> QED
      BY <1>1, <2>1, <3>1, <3>2
  <2> QED
    BY <2>2, <2>3
<1>11. allowance' \in [Reservations -> Int]
  BY <1>0, <1>1, <1>5
<1> QED
  BY <1>9, <1>10, <1>11 DEF CallInv, AllowanceOK

LEMMA BatchCalls ==
    ASSUME IInv, CallInv, NEW d \in Dispatchers,
           \/ FinishDrain(d) \/ SelectPending(d) \/ EnsureClaim(d) \/ RefreshEndpoint(d)
           \/ RecordResult(d) \/ EntryRaises(d) \/ AbortDrain(d)
    PROVE  CallInv'
<1>0. drain \in [Dispatchers -> DrainState]
  BY TypeParts DEF IInv, DrainTyped
<1>1. UNCHANGED <<allowance, nextId>>
  BY DEF FinishDrain, SelectPending, EnsureClaim, RefreshEndpoint, RecordResult, EntryRaises,
         AbortDrain, EntryUnchanged, tables, history
<1>2. \A c \in Reservations : HasPending(c)' => HasPending(c)
  BY DrainWaiting DEF HasPending, Waiting, RowsWith
<1>3. drain[d].phase \in {"refresh", "send", "record"} => drain[d].entry \in drain[d].batch
  BY DEF CallInv, BatchOK
<1>4. CASE FinishDrain(d) \/ AbortDrain(d)
  <2>1. drain' = [drain EXCEPT ![d] = Idle]
    BY <1>4 DEF FinishDrain, AbortDrain
  <2>2. drain'[d].batch = {} /\ drain'[d].phase = "idle"
        /\ \A x \in Dispatchers : x # d => drain'[x] = drain[x]
    BY <1>0, <2>1 DEF Idle
  <2> QED
    BY <1>1, <1>2, <2>2, BatchGoesOn
<1>5. CASE SelectPending(d)
  <2>1. PICK picked : drain' = [drain EXCEPT ![d].picked = picked, ![d].phase = "claim"]
    BY <1>5 DEF SelectPending
  <2>2. drain'[d].batch = drain[d].batch /\ drain'[d].phase = "claim"
        /\ drain[d].phase = "select"
        /\ \A x \in Dispatchers : x # d => drain'[x] = drain[x]
    BY <1>0, <1>5, <2>1 DEF DrainState, SelectPending
  <2> QED
    BY <1>1, <1>2, <2>2, BatchGoesOn
<1>6. ASSUME NEW e, NextEntry(d, e), drain[d].phase = "record" => e = drain[d].entry
      PROVE  CallInv'
  <2>1. /\ drain'[d].phase \in {"prepare", "select"}
        /\ drain'[d].batch = drain[d].batch \ {e}
        /\ \A x \in Dispatchers : x # d => drain'[x] = drain[x]
    BY <1>6, NextEntryEffect
  <2> QED
    BY <1>1, <1>2, <1>6, <2>1, BatchGoesOn
<1>7. CASE EnsureClaim(d)
  <2>1. PICK e \in drain[d].batch :
           \/ NextEntry(d, e)
           \/ drain' = [drain EXCEPT ![d].entry = e, ![d].phase = "refresh"]
    BY <1>7 DEF EnsureClaim
  <2>2. drain[d].phase = "prepare"
    BY <1>7 DEF EnsureClaim
  <2>3. CASE NextEntry(d, e)
    BY <1>6, <2>2, <2>3
  <2>4. CASE drain' = [drain EXCEPT ![d].entry = e, ![d].phase = "refresh"]
    <3>1. drain'[d].batch = drain[d].batch /\ drain'[d].entry = e
          /\ \A x \in Dispatchers : x # d => drain'[x] = drain[x]
      BY <1>0, <2>4 DEF DrainState
    <3> QED
      BY <1>1, <1>2, <2>2, <3>1, BatchGoesOn
  <2> QED
    BY <2>1, <2>3, <2>4
<1>8. CASE RefreshEndpoint(d)
  <2>1. PICK off \in BOOLEAN :
           \/ NextEntry(d, drain[d].entry)
           \/ drain' = [drain EXCEPT ![d].result = IF off THEN "skipped" ELSE "sent",
                                     ![d].phase = IF off THEN "record" ELSE "send"]
    BY <1>8 DEF RefreshEndpoint
  <2>2. drain[d].phase = "refresh"
    BY <1>8 DEF RefreshEndpoint
  <2>3. CASE NextEntry(d, drain[d].entry)
    BY <1>6, <2>3
  <2>4. CASE drain' = [drain EXCEPT ![d].result = IF off THEN "skipped" ELSE "sent",
                                    ![d].phase = IF off THEN "record" ELSE "send"]
    <3>1. drain'[d].batch = drain[d].batch /\ drain'[d].entry = drain[d].entry
          /\ \A x \in Dispatchers : x # d => drain'[x] = drain[x]
      BY <1>0, <2>4 DEF DrainState
    <3> QED
      BY <1>1, <1>2, <1>3, <2>2, <3>1, BatchGoesOn
  <2> QED
    BY <2>1, <2>3, <2>4
<1>9. CASE RecordResult(d)
  <2>1. NextEntry(d, drain[d].entry)
    BY <1>9 DEF RecordResult
  <2> QED
    BY <1>6, <2>1
<1>10. CASE EntryRaises(d)
  <2>1. \/ /\ drain[d].phase = "prepare"
           /\ \E e \in drain[d].batch :
                 drain' = [drain EXCEPT ![d].entry = e, ![d].result = "failed",
                                        ![d].phase = "record"]
        \/ /\ drain[d].phase \in {"refresh", "send", "record"}
           /\ drain' = [drain EXCEPT ![d].result = "failed", ![d].phase = "record"]
    BY <1>10 DEF EntryRaises
  <2>2. ASSUME NEW e \in drain[d].batch, drain[d].phase = "prepare",
               drain' = [drain EXCEPT ![d].entry = e, ![d].result = "failed",
                                      ![d].phase = "record"]
        PROVE  CallInv'
    <3>1. drain'[d].batch = drain[d].batch /\ drain'[d].entry = e
          /\ \A x \in Dispatchers : x # d => drain'[x] = drain[x]
      BY <1>0, <2>2 DEF DrainState
    <3> QED
      BY <1>1, <1>2, <2>2, <3>1, BatchGoesOn
  <2>3. ASSUME drain[d].phase \in {"refresh", "send", "record"},
               drain' = [drain EXCEPT ![d].result = "failed", ![d].phase = "record"]
        PROVE  CallInv'
    <3>1. drain'[d].batch = drain[d].batch /\ drain'[d].entry = drain[d].entry
          /\ drain'[d].phase = "record"
          /\ \A x \in Dispatchers : x # d => drain'[x] = drain[x]
      BY <1>0, <2>3 DEF DrainState
    <3> QED
      BY <1>1, <1>2, <1>3, <2>3, <3>1, BatchGoesOn
  <2> QED
    BY <2>1, <2>2, <2>3
<1> QED
  BY <1>4, <1>5, <1>7, <1>8, <1>9, <1>10

-----------------------------------------------------------------------------
(* The theorems. *)

LEMMA InitDrain ==
    ASSUME Init
    PROVE  CallInv /\ ThreadInv
<1>1. /\ nextId = 1 /\ outbox = <<>> /\ drain = [d \in Dispatchers |-> Idle]
      /\ allowance = [k \in Reservations |-> 1] /\ ~stopping
  BY DEF Init
<1>2. Waiting = {}
  BY <1>1 DEF Waiting, RowsWith
<1>3. \A d \in Dispatchers : drain[d].batch = {} /\ drain[d].phase = "idle"
  BY <1>1 DEF Idle
<1>4. "thread" \in Dispatchers /\ "tick" \in Dispatchers
  BY DEF Dispatchers
<1>5. BatchOK
  BY <1>3 DEF BatchOK
<1>6. \A c \in Reservations : Due(c) = 0
  BY <1>2, <1>3, <1>4 DEF Due, One, HasPending, MayCall
<1>7. AllowanceOK
  BY <1>1, <1>6 DEF AllowanceOK
<1>8. ThreadInv
  BY <1>1, <1>2, <1>3, <1>4 DEF ThreadInv, Thread
<1> QED
  BY <1>5, <1>7, <1>8 DEF CallInv

LEMMA NextDrain ==
    ASSUME IInv, CallInv, ThreadInv, [Next]_vars
    PROVE  CallInv' /\ ThreadInv'
<1>1. ASSUME NEW t \in Targets, NEW S \in SUBSET ItemsOf(t), NEW M \in SUBSET S,
             NEW C \in SUBSET Channels, NEW b \in BOOLEAN, CommitScan(t, S, M, C, b)
      PROVE  CallInv' /\ ThreadInv'
  BY <1>1, CommitCalls, CommitThread
<1>2. CASE \/ \E t \in Targets : ResetTargetNotificationState(t) \/ DeleteTarget(t)
           \/ ClearFailed \/ PruneBoundedRetention \/ NextDay
           \/ \E r \in Slots : ProcessingAges(r)
  BY <1>2, TableCalls, TableThread
<1>3. CASE \/ RunAfterCommitHook \/ ThreadWakes \/ TickDispatches
           \/ ShutdownDispatcher \/ (\E b \in BOOLEAN : Restart(b)) \/ UNCHANGED vars
  BY <1>3, ProgramCalls, ProgramThread
<1>4. ASSUME NEW d \in Dispatchers, Drain(d) \/ EntryRaises(d) \/ AbortDrain(d)
      PROVE  CallInv' /\ ThreadInv'
  <2>1. ThreadInv'
    BY <1>4, DrainThread
  <2>2. CallInv'
    BY <1>4, RecoverCalls, ClaimCalls, SenderCalls, BatchCalls DEF Drain
  <2> QED
    BY <2>1, <2>2
<1> QED
  BY <1>1, <1>2, <1>3, <1>4 DEF Next

LEMMA DrainInvariant == Spec => [](IInv /\ CallInv /\ ThreadInv)
<1> DEFINE Inv == CallInv /\ ThreadInv
<1>1. Init => Inv
  BY InitDrain
<1>2. IInv /\ Inv /\ [Next]_vars => Inv'
  BY NextDrain
<1> QED
  BY <1>1, <1>2, OutboxInvariant, PTL DEF Spec

\* A sender is called once per reservation and once more for each stale claim
\* that was taken back: no race between the thread and a tick, no lost claim, no
\* exception and no restart makes a further call.
THEOREM NoExtraCalls == Spec => []SendOnce
<1>1. CallInv => SendOnce
  <2> SUFFICES ASSUME CallInv
               PROVE  SendOnce
    OBVIOUS
  <2>1. \A c \in Reservations : allowance[c] \in Int /\ allowance[c] >= Due(c)
                                /\ Due(c) \in Nat
    BY DueBounds DEF CallInv, AllowanceOK
  <2> QED
    BY <2>1 DEF SendOnce
<1> QED
  BY <1>1, DrainInvariant, PTL

\* The wake event is not lost: an idle registered thread leaves pending rows to
\* the next scheduler tick only when a drain raised, a claim lost rows or the
\* program was started without a wake.
THEOREM WakeupIsKept == Spec => []NoLostWakeup
<1>1. ThreadInv => NoLostWakeup
  BY DEF ThreadInv, NoLostWakeup, Settled, Thread, Waiting
<1> QED
  BY <1>1, DrainInvariant, PTL
=============================================================================
