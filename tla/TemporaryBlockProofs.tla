------------------------ MODULE TemporaryBlockProofs ------------------------
(***************************************************************************)
(* Proofs about TemporaryBlock, for any targets, workers, maintenance      *)
(* tasks and bounds: who is cancelled by a trip, how many incidents a      *)
(* browser session records, what a commit after an incident may store, and *)
(* who may monitor while a warning lasts.                                  *)
(*                                                                         *)
(* The writer outlives the cancellation of its caller because the caller   *)
(* waits for it in every case (Written); a scan that was under way at an   *)
(* incident has lost its row and claims no other before it begins anew     *)
(* (Disowned).                                                             *)
(***************************************************************************)
EXTENDS TemporaryBlock, TLAPS

(* The signal has one writer, its caller waits for it, and a closed        *)
(* session has no task left.                                               *)
Written ==
    /\ writer.state = "none" <=> ~tripped
    /\ writer.state = "running" => writer.by \in Tasks /\ task[writer.by].phase = "waits"
    /\ session = "closed" => \A k \in Tasks : task[k] = Idle
    /\ incidents = IF writer.state = "committed" THEN 1 ELSE 0

(* A scan that was under way at an incident owns no row any more.          *)
Disowned ==
    \A k \in tainted :
        /\ result[k] # "scan"
        /\ task[k].phase # "admitted"
        /\ \A t \in Targets : owner[t] # k

IInv == TypeOK /\ PeersAreCancelled /\ Written /\ ActiveWasConfirmed /\ Disowned

-----------------------------------------------------------------------------
(* Types.                                                                  *)

LEMMA Increments == 0 \in Nat /\ \A n \in Nat : n + 1 \in Nat
OBVIOUS

LEMMA IdleIsTask == Idle \in TaskRecord /\ Idle.phase = "idle" /\ Idle.cancel = FALSE
BY DEF Idle, TaskRecord

(* What moving or releasing a task does to the tasks.                      *)
LEMMA TaskMoves ==
    ASSUME TypeOK, NEW k \in Tasks, NEW x \in {"idle", "admitted", "io", "leaving", "waits"},
           Goto(k, x)
    PROVE  /\ task' \in [Tasks -> TaskRecord]
           /\ task'[k].phase = x /\ task'[k].cancel = task[k].cancel
           /\ \A j \in Tasks \ {k} : task'[j] = task[j]
<1>1. task \in [Tasks -> TaskRecord]
  BY DEF TypeOK
<1> QED
  BY <1>1 DEF Goto, TaskRecord

LEMMA TaskLeaves ==
    ASSUME TypeOK, NEW k \in Tasks, Leave(k)
    PROVE  /\ task' \in [Tasks -> TaskRecord]
           /\ task'[k] = Idle
           /\ \A j \in Tasks \ {k} : task'[j] = task[j]
<1>1. task \in [Tasks -> TaskRecord]
  BY DEF TypeOK
<1> QED
  BY <1>1, IdleIsTask DEF Leave

LEMMA PeersCancelled ==
    ASSUME TypeOK, NEW k \in Tasks, task' = CancelPeers(k)
    PROVE  /\ task' \in [Tasks -> TaskRecord]
           /\ task'[k].phase = "waits"
           /\ \A j \in Tasks \ {k} : /\ task'[j].phase = task[j].phase
                                     /\ j \in Registered => task'[j].cancel
                                     /\ task[j] = Idle => task'[j] = Idle
<1>1. task \in [Tasks -> TaskRecord]
  BY DEF TypeOK
<1>2. \A j \in Tasks : task[j] = Idle => j \notin Registered
  BY IdleIsTask DEF Registered
<1> QED
  BY <1>1, <1>2 DEF CancelPeers, TaskRecord

(* A step that changes rows only.                                          *)
LEMMA WebTypes ==
    ASSUME TypeOK, WebStep
    PROVE  TypeOK'
<1>1. CASE \E G \in SUBSET Targets \ {{}} : \E c \in BOOLEAN, g \in shown \cup {0} : Start(G, c, g)
  <2>1. PICK G \in SUBSET Targets \ {{}}, c \in BOOLEAN, g \in shown \cup {0} : Start(G, c, g)
    BY <1>1
  <2>2. g \in Nat
    BY Increments DEF TypeOK
  <2>3. /\ active' \subseteq Targets /\ owner' \in [Targets -> Workers \cup {Nobody}]
        /\ confirmed' \in [Targets -> Nat] /\ shown' \subseteq Nat
    <3>1. warning.generation \in Nat
      BY DEF TypeOK, Warnings
    <3> QED
      BY <2>1, <2>2, <3>1 DEF Start, TypeOK
  <2> QED
    BY <2>1, <2>3 DEF Start, TypeOK
<1>2. CASE \E t \in Targets : Pause(t)
  <2>1. PICK t \in Targets : Pause(t)
    BY <1>2
  <2>2. active' \subseteq Targets /\ owner' \in [Targets -> Workers \cup {Nobody}]
    BY <2>1 DEF Pause, TypeOK
  <2> QED
    BY <2>1, <2>2 DEF Pause, TypeOK
<1> QED
  BY <1>1, <1>2 DEF WebStep

LEMMA IncidentTypes ==
    ASSUME TypeOK, RecordIncident
    PROVE  /\ warning' \in Warnings /\ active' = {}
           /\ owner' = [t \in Targets |-> Nobody]
           /\ owner' \in [Targets -> Workers \cup {Nobody}]
<1>1. warning.generation + 1 \in Nat
  BY Increments DEF TypeOK, Warnings
<1>2. time + WarningFor \in Nat
  BY TasksAssumption DEF TypeOK
<1> QED
  BY <1>1, <1>2 DEF RecordIncident, RecordWarning, PauseAll, Warnings

LEMMA WriterTypes ==
    ASSUME TypeOK, WriterCommits \/ WriterFails \/ FallbackBlocked
    PROVE  TypeOK'
<1>1. writer' \in Writers
  BY DEF TypeOK, Writers, WriterCommits, WriterFails, FallbackBlocked
<1>2. CASE WriterCommits
  <2>1. result' \in [Workers -> Results] /\ tainted' \subseteq Workers
    BY <1>2 DEF WriterCommits, TypeOK, Results, Scanning
  <2>2. incidents' \in Nat
    BY <1>2, Increments DEF WriterCommits, TypeOK
  <2>3. /\ warning' \in Warnings /\ active' = {}
        /\ owner' \in [Targets -> Workers \cup {Nobody}]
    BY <1>2, IncidentTypes DEF WriterCommits
  <2> QED
    BY <1>1, <1>2, <2>1, <2>2, <2>3 DEF WriterCommits, TypeOK
<1>3. CASE WriterFails
  <2>1. faults' \in Nat
    BY <1>3, Increments DEF WriterFails, TypeOK
  <2> QED
    BY <1>1, <1>3, <2>1 DEF WriterFails, TypeOK
<1>4. CASE FallbackBlocked
  <2>1. /\ warning' \in Warnings /\ active' = {}
        /\ owner' \in [Targets -> Workers \cup {Nobody}]
    BY <1>4, IncidentTypes DEF FallbackBlocked
  <2> QED
    BY <1>1, <1>4, <2>1 DEF FallbackBlocked, TypeOK
<1> QED
  BY <1>2, <1>3, <1>4

LEMMA ScanTypes ==
    ASSUME TypeOK, NEW k \in Workers,
           Claim(k) \/ FinishScan(k) \/ \E t \in Targets : EnterScan(k, t)
    PROVE  TypeOK'
<1>0. k \in Tasks
  BY DEF Tasks
<1>1. CASE Claim(k)
  <2>1. task' \in [Tasks -> TaskRecord]
    BY <1>0, <1>1, TaskMoves, TaskLeaves DEF Claim
  <2>2. owner' \in [Targets -> Workers \cup {Nobody}]
    BY <1>1 DEF Claim, TypeOK
  <2> QED
    BY <1>1, <2>1, <2>2 DEF Claim, TypeOK
<1>2. CASE FinishScan(k)
  <2>1. task' \in [Tasks -> TaskRecord]
    BY <1>0, <1>2, TaskLeaves DEF FinishScan
  <2>2. owner' \in [Targets -> Workers \cup {Nobody}] /\ result' \in [Workers -> Results]
    BY <1>2 DEF FinishScan, TypeOK, Results
  <2> QED
    BY <1>2, <2>1, <2>2 DEF FinishScan, TypeOK
<1>3. CASE \E t \in Targets : EnterScan(k, t)
  <2>1. PICK t \in Targets : EnterScan(k, t)
    BY <1>3
  <2>2. task' \in [Tasks -> TaskRecord]
    <3>1. [phase |-> "admitted", target |-> t, cancel |-> FALSE] \in TaskRecord
      BY DEF TaskRecord
    <3> QED
      BY <2>1, <3>1 DEF EnterScan, TypeOK
  <2>3. tainted' \subseteq Workers /\ result' \in [Workers -> Results]
    BY <2>1 DEF EnterScan, TypeOK, Results
  <2> QED
    BY <2>1, <2>2, <2>3 DEF EnterScan, TypeOK
<1> QED
  BY <1>1, <1>2, <1>3

LEMMA TaskTypes ==
    ASSUME TypeOK, NEW k \in Tasks,
           \/ EnterMaintenance(k) \/ FinishMaintenance(k) \/ SeeBlock(k) \/ RecordBlock(k)
           \/ LeaveScanIncident(k) \/ LeaveMaintenanceIncident(k) \/ Cancelled(k)
    PROVE  TypeOK'
<1>1. task' \in [Tasks -> TaskRecord]
  BY TaskMoves, TaskLeaves, PeersCancelled
     DEF EnterMaintenance, FinishMaintenance, SeeBlock, RecordBlock, Trip,
         LeaveScanIncident, LeaveMaintenanceIncident, Cancelled
<1>2. owner' \in [Targets -> Workers \cup {Nobody}]
  BY DEF EnterMaintenance, FinishMaintenance, SeeBlock, RecordBlock,
         LeaveScanIncident, LeaveMaintenanceIncident, Cancelled, TypeOK
<1>3. tripped' \in BOOLEAN /\ restart' \in BOOLEAN /\ crashed' \in BOOLEAN
  BY DEF EnterMaintenance, FinishMaintenance, SeeBlock, RecordBlock, Trip, RestartAfterScan,
         LeaveScanIncident, LeaveMaintenanceIncident, Cancelled, TypeOK
<1>4. writer' \in Writers
  BY DEF EnterMaintenance, FinishMaintenance, SeeBlock, RecordBlock, Trip,
         LeaveScanIncident, LeaveMaintenanceIncident, Cancelled, TypeOK, Writers
<1>5. UNCHANGED <<time, warning, active, session, shown, faults, confirmed, incidents,
                  tainted, result>>
  BY DEF EnterMaintenance, FinishMaintenance, SeeBlock, RecordBlock,
         LeaveScanIncident, LeaveMaintenanceIncident, Cancelled
<1> QED
  BY <1>1, <1>2, <1>3, <1>4, <1>5 DEF TypeOK

SessionStep == \/ \E t \in Targets : RecoverRow(t)
               \/ RuntimeFails \/ BeginStop \/ Close \/ Open \/ Tick

LEMMA SessionTypes ==
    ASSUME TypeOK, SessionStep
    PROVE  TypeOK'
<1>1. task' \in [Tasks -> TaskRecord]
  <2>1. task \in [Tasks -> TaskRecord]
    BY DEF TypeOK
  <2>2. \A k \in Tasks : [task[k] EXCEPT !.cancel = TRUE] \in TaskRecord
    BY <2>1 DEF TaskRecord
  <2>3. CASE BeginStop
    BY <2>1, <2>2, <2>3 DEF BeginStop
  <2>4. CASE ~BeginStop
    BY <2>1, <2>4 DEF SessionStep, RecoverRow, RuntimeFails, Close, Open, Tick
  <2> QED
    BY <2>3, <2>4
<1>2. owner' \in [Targets -> Workers \cup {Nobody}]
  BY DEF SessionStep, RecoverRow, RuntimeFails, BeginStop, Close, Open, Tick, TypeOK
<1>3. /\ tripped' \in BOOLEAN /\ restart' \in BOOLEAN /\ crashed' \in BOOLEAN
      /\ session' \in {"open", "closing", "closed"}
  BY DEF SessionStep, RecoverRow, RuntimeFails, BeginStop, Close, Open, Tick, TypeOK
<1>4. writer' \in Writers
  BY DEF SessionStep, RecoverRow, RuntimeFails, BeginStop, Close, Open, Tick, TypeOK,
         Writers, NoWriter
<1>5. time' \in Nat /\ faults' \in Nat /\ incidents' \in Nat
  BY Increments
     DEF SessionStep, RecoverRow, RuntimeFails, BeginStop, Close, Open, Tick, TypeOK
<1>6. UNCHANGED <<warning, active, shown, confirmed, tainted, result>>
  BY DEF SessionStep, RecoverRow, RuntimeFails, BeginStop, Close, Open, Tick
<1> QED
  BY <1>1, <1>2, <1>3, <1>4, <1>5, <1>6 DEF TypeOK

-----------------------------------------------------------------------------
(* Cancellation and the writer.                                            *)

(* A task that stays inside, or leaves; nobody new comes in.               *)
LEMMA PeersStay ==
    ASSUME PeersAreCancelled, tripped' => tripped,
           \A j \in Tasks : task'[j].phase \in {"admitted", "io", "leaving"} =>
               /\ task[j].phase \in {"admitted", "io", "leaving"}
               /\ task[j].cancel => task'[j].cancel
    PROVE  PeersAreCancelled'
BY DEF PeersAreCancelled, Registered

LEMMA PeersEnter ==
    ASSUME TypeOK, PeersAreCancelled, Admitted, UNCHANGED tripped
    PROVE  PeersAreCancelled'
BY DEF PeersAreCancelled, Admitted

LEMMA PeersStep ==
    ASSUME TypeOK, PeersAreCancelled, Next
    PROVE  PeersAreCancelled'
<1>0. Workers \subseteq Tasks /\ Maintenance \subseteq Tasks
  BY DEF Tasks
<1>1. CASE WebStep \/ WriterCommits \/ WriterFails \/ FallbackBlocked
  <2>1. UNCHANGED <<task, tripped>>
    BY <1>1 DEF WebStep, Start, Pause, WriterCommits, WriterFails, FallbackBlocked
  <2> QED
    BY <2>1, PeersStay
<1>2. CASE SessionStep
  <2>1. tripped' => tripped
    BY <1>2 DEF SessionStep, RecoverRow, RuntimeFails, BeginStop, Close, Open, Tick
  <2>2. \A j \in Tasks : /\ task'[j].phase = task[j].phase
                         /\ task[j].cancel => task'[j].cancel
    <3>1. task \in [Tasks -> TaskRecord]
      BY DEF TypeOK
    <3>2. CASE BeginStop
      BY <3>1, <3>2 DEF BeginStop, TaskRecord
    <3>3. CASE ~BeginStop
      BY <1>2, <3>3 DEF SessionStep, RecoverRow, RuntimeFails, Close, Open, Tick
    <3> QED
      BY <3>2, <3>3
  <2> QED
    BY <2>1, <2>2, PeersStay
<1>3. CASE \/ \E k \in Workers, t \in Targets : EnterScan(k, t)
           \/ \E k \in Maintenance : EnterMaintenance(k)
  BY <1>3, PeersEnter DEF EnterScan, EnterMaintenance
<1>4. ASSUME NEW k \in Tasks,
             \/ (k \in Workers /\ (Claim(k) \/ FinishScan(k)))
             \/ FinishMaintenance(k) \/ SeeBlock(k)
             \/ LeaveScanIncident(k) \/ LeaveMaintenanceIncident(k) \/ Cancelled(k)
      PROVE  PeersAreCancelled'
  <2>1. UNCHANGED tripped
    BY <1>4 DEF Claim, FinishScan, FinishMaintenance, SeeBlock, LeaveScanIncident,
                LeaveMaintenanceIncident, Cancelled
  <2>2. CASE Leave(k)
    BY <2>1, <2>2, TaskLeaves, IdleIsTask, PeersStay
  <2>3. CASE Goto(k, "io") /\ task[k].phase = "admitted"
    BY <2>1, <2>3, TaskMoves, PeersStay
  <2>4. CASE Goto(k, "leaving") /\ task[k].phase = "io"
    BY <2>1, <2>4, TaskMoves, PeersStay
  <2> QED
    BY <1>4, <2>2, <2>3, <2>4 DEF Claim, FinishScan, FinishMaintenance, SeeBlock,
       LeaveScanIncident, LeaveMaintenanceIncident, Cancelled
<1>5. ASSUME NEW k \in Tasks, RecordBlock(k)
      PROVE  PeersAreCancelled'
  <2>1. CASE tripped
    <3>1. Goto(k, "waits") /\ UNCHANGED tripped
      BY <1>5, <2>1 DEF RecordBlock
    <3> QED
      BY <3>1, TaskMoves, PeersStay
  <2>2. CASE ~tripped
    <3>1. task' = CancelPeers(k)
      BY <1>5, <2>2 DEF RecordBlock, Trip
    <3> QED
      BY <3>1, PeersCancelled DEF PeersAreCancelled, Registered
  <2> QED
    BY <2>1, <2>2
<1> QED
  BY <1>0, <1>1, <1>2, <1>3, <1>4, <1>5
     DEF Next, ScanStep, MaintenanceStep, SessionStep

(* Tasks that nobody's writer waits for may move.                          *)
LEMMA WrittenMoves ==
    ASSUME Written, UNCHANGED <<writer, tripped, incidents>>,
           \A j \in Tasks : task[j].phase = "waits" =>
               task'[j].phase = "waits" \/ writer.state # "running",
           session' = "closed" => \A j \in Tasks : task'[j] = Idle
    PROVE  Written'
BY DEF Written

LEMMA WrittenStep ==
    ASSUME TypeOK, Written, Next
    PROVE  Written'
<1>0. /\ Workers \subseteq Tasks /\ Maintenance \subseteq Tasks
      /\ task \in [Tasks -> TaskRecord] /\ writer \in Writers
  BY DEF Tasks, TypeOK
<1>1. CASE WebStep
  BY <1>1, WrittenMoves DEF WebStep, Start, Pause, Written
<1>2. CASE WriterCommits \/ WriterFails
  <2>1. /\ writer.state = "running" /\ writer'.state \in {"committed", "failed"}
        /\ incidents' = IF writer'.state = "committed" THEN incidents + 1 ELSE incidents
        /\ UNCHANGED <<tripped, task, session>>
    BY <1>0, <1>2 DEF WriterCommits, WriterFails, Writers
  <2> QED
    BY <2>1 DEF Written
<1>3. CASE FallbackBlocked
  BY <1>3, WrittenMoves DEF FallbackBlocked, Written
<1>4. CASE SessionStep
  <2>1. CASE Open
    BY <2>1 DEF Open, Written, NoWriter
  <2>2. CASE BeginStop
    <3>1. \A j \in Tasks : task'[j].phase = task[j].phase
      BY <1>0, <2>2 DEF BeginStop, TaskRecord
    <3> QED
      BY <2>2, <3>1, WrittenMoves DEF BeginStop
  <2>3. CASE RuntimeFails \/ Close \/ Tick \/ \E t \in Targets : RecoverRow(t)
    BY <2>3, WrittenMoves DEF RuntimeFails, Close, Tick, RecoverRow, Written
  <2> QED
    BY <1>4, <2>1, <2>2, <2>3 DEF SessionStep
<1>5. ASSUME NEW k \in Tasks, task[k].phase # "waits", session # "closed",
             UNCHANGED <<writer, tripped, incidents, session>>,
             \A j \in Tasks \ {k} : task'[j] = task[j]
      PROVE  Written'
  BY <1>5, WrittenMoves
<1>6. CASE \/ \E k \in Workers, t \in Targets : EnterScan(k, t)
           \/ \E k \in Maintenance : EnterMaintenance(k)
  <2>1. PICK k \in Tasks : \/ (k \in Workers /\ \E t \in Targets : EnterScan(k, t))
                           \/ EnterMaintenance(k)
    BY <1>0, <1>6
  <2>2. task[k].phase # "waits" /\ session # "closed"
    BY <2>1, IdleIsTask DEF EnterScan, EnterMaintenance
  <2>3. \A j \in Tasks \ {k} : task'[j] = task[j]
    BY <1>0, <2>1 DEF EnterScan, EnterMaintenance, Goto
  <2> QED
    BY <1>5, <2>1, <2>2, <2>3 DEF EnterScan, EnterMaintenance
<1>7. ASSUME NEW k \in Tasks,
             \/ (k \in Workers /\ (Claim(k) \/ FinishScan(k)))
             \/ FinishMaintenance(k) \/ SeeBlock(k) \/ Cancelled(k)
      PROVE  Written'
  <2>1. /\ task[k].phase \in {"admitted", "io", "leaving"}
        /\ UNCHANGED <<writer, tripped, incidents, session>>
    BY <1>7 DEF Claim, FinishScan, FinishMaintenance, SeeBlock, Cancelled, Registered
  <2>2. session # "closed"
    BY <2>1, IdleIsTask DEF Written
  <2>3. \A j \in Tasks \ {k} : task'[j] = task[j]
    BY <1>7, TaskMoves, TaskLeaves DEF Claim, FinishScan, FinishMaintenance, SeeBlock, Cancelled
  <2> QED
    BY <1>5, <2>1, <2>2, <2>3
<1>8. ASSUME NEW k \in Tasks, LeaveScanIncident(k) \/ LeaveMaintenanceIncident(k)
      PROVE  Written'
  <2>1. /\ task[k].phase = "waits" /\ writer.state # "running"
        /\ UNCHANGED <<writer, tripped, incidents, session>> /\ Leave(k)
    BY <1>8 DEF LeaveScanIncident, LeaveMaintenanceIncident, WriterEnded
  <2>2. session # "closed"
    BY <2>1, IdleIsTask DEF Written
  <2> QED
    BY <2>1, <2>2, WrittenMoves
<1>9. ASSUME NEW k \in Tasks, RecordBlock(k)
      PROVE  Written'
  <2>1. task[k].phase = "leaving" /\ UNCHANGED <<incidents, session>>
    BY <1>9 DEF RecordBlock
  <2>2. session # "closed"
    BY <2>1, IdleIsTask DEF Written
  <2>3. CASE tripped
    <3>1. Goto(k, "waits") /\ UNCHANGED <<tripped, writer>>
      BY <1>9, <2>3 DEF RecordBlock
    <3> QED
      BY <1>5, <2>1, <2>2, <3>1, TaskMoves
  <2>4. CASE ~tripped
    <3>1. /\ task' = CancelPeers(k) /\ tripped'
          /\ writer'.state = "running" /\ writer'.by = k
      BY <1>9, <2>4 DEF RecordBlock, Trip
    <3>2. task'[k].phase = "waits"
      BY <3>1, PeersCancelled
    <3>3. incidents = 0
      BY <2>4 DEF Written
    <3> QED
      BY <2>1, <2>2, <3>1, <3>2, <3>3 DEF Written
  <2> QED
    BY <2>3, <2>4
<1> QED
  BY <1>0, <1>1, <1>2, <1>3, <1>4, <1>6, <1>7, <1>8, <1>9
     DEF Next, ScanStep, MaintenanceStep, SessionStep

-----------------------------------------------------------------------------
(* Warnings and rows.                                                      *)

LEMMA ConfirmedStep ==
    ASSUME TypeOK, ActiveWasConfirmed, Next
    PROVE  ActiveWasConfirmed'
<1>1. CASE \E G \in SUBSET Targets \ {{}} : \E c \in BOOLEAN, g \in shown \cup {0} : Start(G, c, g)
  <2>1. PICK G \in SUBSET Targets \ {{}}, c \in BOOLEAN, g \in shown \cup {0} : Start(G, c, g)
    BY <1>1
  <2>2. UNCHANGED <<time, warning>>
    BY <2>1 DEF Start
  <2>3. CASE StartAllowed(c, g)
    <3>1. /\ active' = active \cup G
          /\ confirmed' = [t \in Targets |-> IF t \in G THEN g ELSE confirmed[t]]
      BY <2>1, <2>3 DEF Start
    <3>2. active \subseteq Targets
      BY DEF TypeOK
    <3> QED
      BY <2>2, <2>3, <3>1, <3>2 DEF StartAllowed, ActiveWasConfirmed, WarningActive
  <2>4. CASE ~StartAllowed(c, g)
    BY <2>1, <2>2, <2>4 DEF Start, ActiveWasConfirmed, WarningActive
  <2> QED
    BY <2>3, <2>4
<1>2. CASE WriterCommits \/ FallbackBlocked
  <2>1. active' = {}
    BY <1>2 DEF WriterCommits, FallbackBlocked, RecordIncident, PauseAll
  <2> QED
    BY <2>1 DEF ActiveWasConfirmed
<1>3. CASE \/ \E t \in Targets : Pause(t)
           \/ WriterFails
           \/ \E k \in Workers : ScanStep(k) \/ \E t \in Targets : EnterScan(k, t)
           \/ \E k \in Maintenance : MaintenanceStep(k) \/ EnterMaintenance(k)
           \/ SessionStep
  <2>1. UNCHANGED <<warning, confirmed>> /\ active' \subseteq active
    BY <1>3 DEF Pause, WriterFails, ScanStep, EnterScan, MaintenanceStep, EnterMaintenance,
       Claim, FinishScan, SeeBlock, RecordBlock, LeaveScanIncident, Cancelled,
       FinishMaintenance, LeaveMaintenanceIncident,
       SessionStep, RecoverRow, RuntimeFails, BeginStop, Close, Open, Tick
  <2>2. time' = time \/ time' = time + 1
    BY <1>3 DEF Pause, WriterFails, ScanStep, EnterScan, MaintenanceStep, EnterMaintenance,
       Claim, FinishScan, SeeBlock, RecordBlock, LeaveScanIncident, Cancelled,
       FinishMaintenance, LeaveMaintenanceIncident,
       SessionStep, RecoverRow, RuntimeFails, BeginStop, Close, Open, Tick
  <2>3. WarningActive' => WarningActive
    <3>1. time \in Nat /\ warning.until \in Nat
      BY DEF TypeOK, Warnings
    <3> QED
      BY <2>1, <2>2, <3>1 DEF WarningActive
  <2> QED
    BY <2>1, <2>3 DEF ActiveWasConfirmed
<1> QED
  BY <1>1, <1>2, <1>3 DEF Next, WebStep, SessionStep

(* Rows are given up, tasks move on, and no outcome is stored.             *)
LEMMA DisownedMoves ==
    ASSUME Disowned, UNCHANGED <<tainted, result>>,
           \A t \in Targets : owner'[t] \in {owner[t], Nobody},
           \A k \in tainted : task'[k].phase = "admitted" => task[k].phase = "admitted",
           tainted \subseteq Workers
    PROVE  Disowned'
BY TasksAssumption DEF Disowned, Tasks

LEMMA DisownedStep ==
    ASSUME TypeOK, Disowned, Next
    PROVE  Disowned'
<1>0. /\ Workers \subseteq Tasks /\ Maintenance \subseteq Tasks
      /\ task \in [Tasks -> TaskRecord] /\ owner \in [Targets -> Workers \cup {Nobody}]
      /\ tainted \subseteq Workers /\ result \in [Workers -> Results]
  BY DEF Tasks, TypeOK
<1>1. CASE WebStep \/ WriterFails \/ SessionStep
  <2>1. UNCHANGED <<tainted, result>>
    BY <1>1 DEF WebStep, Start, Pause, WriterFails, SessionStep, RecoverRow, RuntimeFails,
                BeginStop, Close, Open, Tick
  <2>2. \A t \in Targets : owner'[t] \in {owner[t], Nobody}
    BY <1>0, <1>1 DEF WebStep, Start, Pause, WriterFails, SessionStep, RecoverRow,
                RuntimeFails, BeginStop, Close, Open, Tick
  <2>3. \A k \in Tasks : task'[k].phase = task[k].phase
    <3>1. CASE BeginStop
      BY <1>0, <3>1 DEF BeginStop, TaskRecord
    <3>2. CASE ~BeginStop
      BY <1>1, <3>2 DEF WebStep, Start, Pause, WriterFails, SessionStep, RecoverRow,
                RuntimeFails, Close, Open, Tick
    <3> QED
      BY <3>1, <3>2
  <2> QED
    BY <1>0, <2>1, <2>2, <2>3, DisownedMoves
<1>2. CASE WriterCommits
  <2>1. /\ \A t \in Targets : owner'[t] = Nobody
        /\ tainted' = tainted \cup Scanning /\ UNCHANGED task
    BY <1>2 DEF WriterCommits, RecordIncident, PauseAll
  <2>2. \A k \in Workers : result'[k] \in {result[k], "blocked"}
    BY <1>0, <1>2 DEF WriterCommits
  <2>3. \A k \in Scanning : /\ k \in Workers /\ result[k] = "none"
                            /\ task[k].phase \in {"io", "leaving", "waits"}
    BY DEF Scanning
  <2> QED
    BY <1>0, <2>1, <2>2, <2>3, TasksAssumption DEF Disowned, Tasks
<1>3. CASE FallbackBlocked
  <2>1. UNCHANGED <<tainted, result, task>> /\ \A t \in Targets : owner'[t] = Nobody
    BY <1>3 DEF FallbackBlocked, RecordIncident, PauseAll
  <2> QED
    BY <1>0, <2>1, DisownedMoves
<1>4. CASE \E k \in Workers, t \in Targets : EnterScan(k, t)
  <2>1. PICK k \in Workers, t \in Targets : EnterScan(k, t)
    BY <1>4
  <2>2. /\ tainted' = tainted \ {k} /\ UNCHANGED owner
        /\ \A j \in Workers \ {k} : task'[j] = task[j] /\ result'[j] = result[j]
    BY <1>0, <2>1 DEF EnterScan
  <2> QED
    BY <1>0, <2>2 DEF Disowned
<1>5. CASE \E k \in Workers : Claim(k)
  <2>1. PICK k \in Workers : Claim(k)
    BY <1>5
  <2>2. k \notin tainted
    BY <2>1 DEF Claim, Disowned
  <2>3. /\ \A j \in Tasks \ {k} : task'[j] = task[j]
        /\ UNCHANGED <<tainted, result>>
    BY <1>0, <2>1, TaskMoves, TaskLeaves DEF Claim
  <2>4. \A t \in Targets : owner'[t] \in {owner[t], k}
    BY <1>0, <2>1 DEF Claim
  <2> QED
    BY <1>0, <2>2, <2>3, <2>4 DEF Disowned
<1>6. CASE \E k \in Workers : FinishScan(k)
  <2>1. PICK k \in Workers : FinishScan(k)
    BY <1>6
  <2>2. k \in tainted => ~CommitGuard(k)
    BY DEF CommitGuard, GuardMatches, Disowned
  <2>3. /\ tainted' = tainted
        /\ \A j \in tainted : result'[j] = result[j]
        /\ \A t \in Targets : owner'[t] \in {owner[t], Nobody}
        /\ \A j \in Tasks : task'[j].phase = "admitted" => task[j].phase = "admitted"
    BY <1>0, <2>1, <2>2, TaskLeaves, IdleIsTask DEF FinishScan
  <2> QED
    BY <1>0, <2>3, TasksAssumption DEF Disowned, Tasks
<1>7. ASSUME NEW k \in Tasks,
             \/ EnterMaintenance(k) \/ FinishMaintenance(k) \/ SeeBlock(k) \/ RecordBlock(k)
             \/ LeaveScanIncident(k) \/ LeaveMaintenanceIncident(k) \/ Cancelled(k)
      PROVE  Disowned'
  <2>1. UNCHANGED <<tainted, result>>
    BY <1>7 DEF EnterMaintenance, FinishMaintenance, SeeBlock, RecordBlock,
         LeaveScanIncident, LeaveMaintenanceIncident, Cancelled
  <2>2. \A t \in Targets : owner'[t] \in {owner[t], Nobody}
    BY <1>0, <1>7 DEF EnterMaintenance, FinishMaintenance, SeeBlock, RecordBlock,
         LeaveScanIncident, LeaveMaintenanceIncident, Cancelled
  <2>3. \A j \in Tasks : task'[j].phase = "admitted" => task[j].phase = "admitted"
    BY <1>7, TaskMoves, TaskLeaves, IdleIsTask, PeersCancelled
       DEF EnterMaintenance, FinishMaintenance, SeeBlock, RecordBlock, Trip,
           LeaveScanIncident, LeaveMaintenanceIncident, Cancelled
  <2> QED
    BY <1>0, <2>1, <2>2, <2>3, DisownedMoves
<1> QED
  BY <1>0, <1>1, <1>2, <1>3, <1>4, <1>5, <1>6, <1>7
     DEF Next, ScanStep, MaintenanceStep, SessionStep

-----------------------------------------------------------------------------
(* The invariant, and what follows from it.                                *)

LEMMA InvInit == Init => IInv
<1> SUFFICES ASSUME Init PROVE IInv
  OBVIOUS
<1>1. TypeOK
  <2>1. /\ warning \in Warnings /\ writer \in Writers /\ task \in [Tasks -> TaskRecord]
        /\ result \in [Workers -> Results]
    BY IdleIsTask DEF Init, Warnings, Writers, NoWriter, Results
  <2>2. /\ owner \in [Targets -> Workers \cup {Nobody}] /\ confirmed \in [Targets -> Nat]
        /\ time \in Nat /\ faults \in Nat /\ incidents \in Nat
    BY DEF Init
  <2>3. /\ active = {} /\ shown = {} /\ tainted = {} /\ session = "open"
        /\ tripped = FALSE /\ restart = FALSE /\ crashed = FALSE
    BY DEF Init
  <2> QED
    BY <2>1, <2>2, <2>3 DEF TypeOK
<1>2. PeersAreCancelled /\ ActiveWasConfirmed /\ Disowned
  BY DEF Init, PeersAreCancelled, ActiveWasConfirmed, Disowned
<1>3. Written
  BY DEF Init, Written, NoWriter
<1> QED
  BY <1>1, <1>2, <1>3 DEF IInv

LEMMA InvNext ==
    ASSUME IInv, [Next]_vars
    PROVE  IInv'
<1>0. TypeOK /\ PeersAreCancelled /\ Written /\ ActiveWasConfirmed /\ Disowned
  BY DEF IInv
<1>1. CASE Next
  <2>1. Workers \subseteq Tasks /\ Maintenance \subseteq Tasks
    BY DEF Tasks
  <2>2. TypeOK'
    BY <1>0, <1>1, <2>1, WebTypes, WriterTypes, ScanTypes, TaskTypes, SessionTypes
       DEF Next, ScanStep, MaintenanceStep, SessionStep
  <2> QED
    BY <1>0, <1>1, <2>2, PeersStep, WrittenStep, ConfirmedStep, DisownedStep DEF IInv
<1>2. CASE UNCHANGED vars
  <2> USE <1>0, <1>2 DEF vars
  <2>1. TypeOK'
    BY DEF TypeOK
  <2>2. PeersAreCancelled' /\ Written'
    BY DEF PeersAreCancelled, Registered, Written
  <2>3. ActiveWasConfirmed' /\ Disowned'
    BY DEF ActiveWasConfirmed, WarningActive, Disowned
  <2> QED
    BY <2>1, <2>2, <2>3 DEF IInv
<1> QED
  BY <1>1, <1>2

LEMMA InvHolds == Spec => []IInv
BY InvInit, InvNext, PTL DEF Spec

(* Every variable stays in its type.                                       *)
THEOREM BlockTypeCorrect == Spec => []TypeOK
BY InvHolds, PTL DEF IInv

(* After the trip every task inside facebook_work carries a cancellation,  *)
(* however many tasks there are (facebook_automation_runtime.py).          *)
THEOREM TripCancelsPeers == Spec => []PeersAreCancelled
BY InvHolds, PTL DEF IInv

(* One browser session records at most one incident.                       *)
THEOREM OneIncident == Spec => []OneIncidentPerSession
<1>1. IInv => OneIncidentPerSession
  BY DEF IInv, Written, OneIncidentPerSession
<1> QED
  BY <1>1, InvHolds, PTL

(* The profile is given up only after the incident has been written, or    *)
(* its writer has failed.                                                  *)
THEOREM IncidentIsWrittenFirst == Spec => []IncidentBeforeNextSession
<1>1. IInv => IncidentBeforeNextSession
  BY IdleIsTask DEF IInv, Written, IncidentBeforeNextSession
<1> QED
  BY <1>1, InvHolds, PTL

(* While a warning lasts nothing is monitored without a confirmation of    *)
(* that warning, whatever raced the incident.                              *)
THEOREM WarningIsConfirmed == Spec => []ActiveWasConfirmed
BY InvHolds, PTL DEF IInv

(* A scan that was under way at an incident never commits its result.      *)
THEOREM TaintedScanIsLost == Spec => []TaintedScanNeverCommits
<1>1. IInv => TaintedScanNeverCommits
  BY DEF IInv, Disowned, TaintedScanNeverCommits
<1> QED
  BY <1>1, InvHolds, PTL
=============================================================================
