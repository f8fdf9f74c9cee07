---------------------- MODULE TargetMaintenanceProofs ----------------------
(***************************************************************************)
(* Proofs about TargetMaintenance, for every set of images and names and   *)
(* every bound: a cover request is ended only by a worker that took it up  *)
(* itself, and succeeds only if its attempt was stored.                    *)
(*                                                                         *)
(* A worker with a cover request holds the time of one in `listed', from   *)
(* its attempt on also in `attempted', and ends a job only if the job      *)
(* carries that time; a new request always makes the job pending again.    *)
(***************************************************************************)
EXTENDS TargetMaintenance, TLAPS

Attempting == {"resolving", "compared", "fetched"}
Covering == Attempting \cup {"listed"}

(* A worker with a cover request has it recorded, from its attempt on also *)
(* the attempt, and a command under way has a kind.                        *)
WorkerRecorded ==
    /\ worker.phase \in Covering => worker.at \in listed
    /\ worker.phase \in Attempting => worker.at \in attempted
CommandNamed == cmd.kind = "none" => cmd = NoCommand

IInv == TypeOK /\ CommandNamed /\ WorkerRecorded /\ EndedRequestWasTaken

LEMMA CountIsNat == \A n \in Nat : n + 1 \in Nat
OBVIOUS

LEMMA InitInv == Init => IInv
<1> SUFFICES ASSUME Init PROVE IInv
  OBVIOUS
<1> USE DEF Init
<1>1. row \in Row
  BY DEF Row, Images
<1>2. worker \in Task
  BY DEF Free, NoRow, Row, Images, Task
<1>3. cmd \in WebCommand
  BY DEF NoCommand, NoRow, Row, Images, WebCommand
<1>5. job \in Job /\ report \in Report
  BY DEF Job, NoReport, Report, Images
<1>4. TypeOK
  BY <1>1, <1>2, <1>3, <1>5 DEF TypeOK
<1> QED
  BY <1>4 DEF IInv, CommandNamed, WorkerRecorded, EndedRequestWasTaken, Free,
              Covering, Attempting

(* What End does to the job: nothing, or the status of the worker's        *)
(* request.                                                                *)
LEMMA EndFacts ==
    ASSUME TypeOK, NEW s \in {"stale", "succeeded", "failed"}, End(s)
    PROVE  /\ job' \in Job
           /\ job' = job \/ (job'.status = s /\ job'.at = worker.at)
BY DEF TypeOK, End, Token, Job

(* Steps of the worker.                                                    *)
LEMMA MaintenanceStep ==
    ASSUME IInv, Maintenance \/ TickLooks \/ QuietTick \/ RuntimeFails \/ RefreshRaises
    PROVE  IInv'
<1> USE DEF IInv, reportVars, targetVars, taskVars
<1>0. Free \in Task
  BY DEF Free, NoRow, Row, Images, Task
<1>f. Free.phase = "free"
  BY DEF Free
<1>1. CASE ListPending
  <2>1. /\ worker' \in Task /\ worker'.phase = "listed" /\ worker'.at = job.at
        /\ job.at \in Nat /\ job.status = "pending"
    BY <1>1, <1>0 DEF ListPending, TakesUp, TypeOK, Task, Job
  <2>2. /\ listed' = listed \cup {job.at} /\ quiet' = FALSE
        /\ UNCHANGED <<reportVars, targetVars, attempted, cmd, edits, faults>>
    BY <1>1 DEF ListPending, TakesUp
  <2>3. TypeOK'
    BY <2>1, <2>2 DEF TypeOK
  <2>4. WorkerRecorded' /\ EndedRequestWasTaken' /\ CommandNamed'
    BY <2>1, <2>2 DEF CommandNamed, WorkerRecorded, Covering, Attempting,
                      EndedRequestWasTaken
  <2> QED
    BY <2>3, <2>4
<1>2. CASE AskMetadata \/ PassOver \/ QuietTick
  <2>1. /\ worker' \in Task /\ worker'.phase \in {"asking", "free"}
        /\ quiet' \in BOOLEAN
        /\ UNCHANGED <<reportVars, targetVars, listed, attempted, cmd, edits, faults>>
    BY <1>2, <1>0, <1>f DEF AskMetadata, PassOver, QuietTick, TakesUp, TypeOK, Task
  <2>2. TypeOK'
    BY <2>1 DEF TypeOK
  <2> QED
    BY <2>1, <2>2 DEF CommandNamed, WorkerRecorded, Covering, Attempting,
                      EndedRequestWasTaken
<1>r. CASE RefreshRaises
  <2>1. /\ End("failed") /\ worker' = Free /\ faults' = faults + 1
        /\ worker.phase \in Covering
        /\ UNCHANGED <<report, recent, requests, targetVars, quiet, listed, attempted, cmd,
                       edits>>
    BY <1>r DEF RefreshRaises, Covering, Attempting
  <2>2. faults' \in Nat
    BY <2>1, CountIsNat DEF TypeOK
  <2>3. TypeOK'
    BY <1>0, <2>1, <2>2, EndFacts DEF TypeOK
  <2>4. worker.at \in listed
    BY <2>1 DEF WorkerRecorded
  <2> QED
    BY <1>f, <2>1, <2>3, <2>4, EndFacts
       DEF CommandNamed, WorkerRecorded, Covering, Attempting, EndedRequestWasTaken
<1>3. CASE RuntimeFails
  <2>1. TypeOK'
    BY <1>3, <1>0 DEF RuntimeFails, TypeOK
  <2> QED
    BY <1>3, <1>f, <2>1 DEF RuntimeFails, CommandNamed, WorkerRecorded, Covering, Attempting,
                            EndedRequestWasTaken
<1>4. CASE BeginAttempt
  <2>1. CASE End("stale") /\ worker' = Free /\ UNCHANGED attempted
    <3>1. TypeOK'
      BY <1>4, <1>0, <2>1, EndFacts DEF BeginAttempt, TypeOK
    <3> QED
      BY <1>4, <1>f, <2>1, <3>1, EndFacts
         DEF BeginAttempt, CommandNamed, WorkerRecorded, Covering, Attempting, EndedRequestWasTaken
  <2>2. CASE /\ worker' = [worker EXCEPT !.phase = "resolving"]
             /\ attempted' = attempted \cup {worker.at}
             /\ UNCHANGED job
    <3>0. worker.at \in Nat /\ worker' \in Task
      BY <2>2 DEF TypeOK, Task
    <3>1. TypeOK'
      BY <1>4, <2>2, <3>0 DEF BeginAttempt, TypeOK
    <3>2. worker'.at \in attempted'
      BY <2>2 DEF TypeOK, Task
    <3> QED
      BY <1>4, <2>2, <3>1, <3>2
         DEF BeginAttempt, CommandNamed, WorkerRecorded, Covering, Attempting,
             EndedRequestWasTaken
  <2>3. CASE worker' = Free /\ UNCHANGED <<job, attempted>>
    <3>1. TypeOK'
      BY <1>4, <1>0, <2>3 DEF BeginAttempt, TypeOK
    <3> QED
      BY <1>4, <1>f, <2>3, <3>1
         DEF BeginAttempt, CommandNamed, WorkerRecorded, Covering, Attempting, EndedRequestWasTaken
  <2> QED
    BY <1>4, <2>1, <2>2, <2>3 DEF BeginAttempt
<1>5. CASE (\E u \in Urls \cup {Logo} : Resolve(u)) \/ ResolveFails
  <2>0. worker.phase = "resolving" /\ worker.at \in attempted
    BY <1>5 DEF Resolve, ResolveFails, WorkerRecorded, Covering, Attempting
  <2>1. PICK u \in Images :
          \/ (\E s \in {"stale", "failed"} : End(s)) /\ worker' = Free
          \/ worker' = Free /\ UNCHANGED job
          \/ worker' = [worker EXCEPT !.phase = "compared", !.found = u] /\ UNCHANGED job
    BY <1>5 DEF Resolve, ResolveFails, Images
  <2>2. UNCHANGED <<report, recent, requests, targetVars, quiet, listed, attempted, cmd,
                    edits, faults>>
    BY <1>5 DEF Resolve, ResolveFails
  <2>3. CASE (\E s \in {"stale", "failed"} : End(s)) /\ worker' = Free
    <3>1. TypeOK'
      BY <1>0, <2>2, <2>3, EndFacts DEF TypeOK
    <3> QED
      BY <1>f, <2>0, <2>2, <2>3, <3>1, EndFacts
         DEF CommandNamed, WorkerRecorded, Covering, Attempting, EndedRequestWasTaken
  <2>4. CASE worker' = Free /\ UNCHANGED job
    <3>1. TypeOK'
      BY <1>0, <2>2, <2>4 DEF TypeOK
    <3> QED
      BY <1>f, <2>2, <2>4, <3>1
         DEF CommandNamed, WorkerRecorded, Covering, Attempting, EndedRequestWasTaken
  <2>5. CASE worker' = [worker EXCEPT !.phase = "compared", !.found = u] /\ UNCHANGED job
    <3>1. TypeOK' /\ worker'.at = worker.at
      BY <2>2, <2>5 DEF TypeOK, Task
    <3> QED
      BY <2>0, <2>2, <2>5, <3>1
         DEF CommandNamed, WorkerRecorded, Covering, Attempting, EndedRequestWasTaken
  <2> QED
    BY <2>1, <2>3, <2>4, <2>5
<1>6. CASE FetchRow
  <2>1. TypeOK' /\ worker'.at = worker.at /\ worker.phase \in Attempting
    BY <1>6 DEF FetchRow, TypeOK, Attempting, Task
  <2> QED
    BY <1>6, <2>1
       DEF FetchRow, CommandNamed, WorkerRecorded, Covering, Attempting, EndedRequestWasTaken
<1>7. CASE SaveCover
  <2>1. row' \in Row
    BY <1>7 DEF SaveCover, TypeOK, Row, Task
  <2>2. TypeOK'
    BY <1>7, <1>0, <2>1, EndFacts DEF SaveCover, TypeOK
  <2>3. worker.at \in attempted
    BY <1>7 DEF SaveCover, WorkerRecorded, Covering, Attempting
  <2> QED
    BY <1>7, <1>f, <2>2, <2>3, EndFacts
       DEF SaveCover, CommandNamed, WorkerRecorded, Covering, Attempting, EndedRequestWasTaken
<1>8. CASE \E u \in Urls \cup {Logo, NoUrl} : FetchForMetadata(u)
  <2>1. TypeOK' /\ worker'.phase = "asked"
    BY <1>8 DEF FetchForMetadata, TypeOK, Task, Images
  <2> QED
    BY <1>8, <2>1 DEF FetchForMetadata, CommandNamed, WorkerRecorded, Covering, Attempting,
                      EndedRequestWasTaken
<1>9. CASE \E n \in Names : SaveMetadata(n)
  <2>1. PICK n \in Names : SaveMetadata(n)
    BY <1>9
  <2>2. row' \in Row
    BY <2>1 DEF SaveMetadata, TypeOK, Row, Task, Images
  <2>3. TypeOK'
    BY <1>0, <2>1, <2>2 DEF SaveMetadata, TypeOK
  <2> QED
    BY <1>f, <2>1, <2>3 DEF SaveMetadata, CommandNamed, WorkerRecorded, Covering, Attempting,
                            EndedRequestWasTaken
<1> QED
  BY <1>1, <1>2, <1>r, <1>3, <1>4, <1>5, <1>6, <1>7, <1>8, <1>9 DEF Maintenance, TickLooks

(* Steps of the users, of reports and of scans.                            *)
LEMMA OtherStep ==
    ASSUME IInv,
           \/ \E u \in Urls \cup {Logo} : RequestRefresh(u)
           \/ StoreRequest \/ IntervalPasses
           \/ \E n \in Names : Command("rename", n)
           \/ \E kind \in {"pause", "metadata"} : Command(kind, "")
           \/ SaveCommand \/ Start \/ ScanBegins \/ ScanEnds
    PROVE  IInv'
<1> USE DEF IInv, reportVars, targetVars, taskVars
<1>1. CASE \E u \in Urls \cup {Logo} : RequestRefresh(u)
  <2>1. PICK u \in Urls \cup {Logo} : RequestRefresh(u)
    BY <1>1
  <2>2. requests' \in Nat /\ requests' = requests + 1
    BY <2>1, CountIsNat DEF RequestRefresh, TypeOK
  <2>3. report' = [url |-> u, at |-> requests']
    BY <2>1, <2>2 DEF RequestRefresh
  <2>4. report' \in Report
    BY <2>2, <2>3 DEF Report, Images
  <2>5. UNCHANGED <<job, recent, targetVars, taskVars, cmd, edits, faults>>
    BY <2>1 DEF RequestRefresh
  <2>6. TypeOK'
    BY <2>2, <2>4, <2>5 DEF TypeOK
  <2> QED
    BY <2>5, <2>6 DEF CommandNamed, WorkerRecorded, EndedRequestWasTaken
<1>2. CASE StoreRequest
  <2>0. job' \in Job /\ job'.status = "pending" /\ report' \in Report
    BY <1>2 DEF StoreRequest, TypeOK, NoReport, Job, Report, Images
  <2>1. TypeOK'
    BY <1>2, <2>0 DEF StoreRequest, TypeOK
  <2> QED
    BY <1>2, <2>0, <2>1 DEF StoreRequest, CommandNamed, WorkerRecorded, EndedRequestWasTaken
<1>3. CASE IntervalPasses \/ ScanBegins \/ ScanEnds
  <2>1. TypeOK'
    BY <1>3 DEF IntervalPasses, ScanBegins, ScanEnds, TypeOK
  <2> QED
    BY <1>3, <2>1 DEF IntervalPasses, ScanBegins, ScanEnds, CommandNamed, WorkerRecorded,
                      EndedRequestWasTaken
<1>4. CASE \/ \E n \in Names : Command("rename", n)
           \/ \E kind \in {"pause", "metadata"} : Command(kind, "")
  <2>1. PICK kind \in {"pause", "rename", "metadata"}, v \in Names \cup {""} :
          Command(kind, v)
    BY <1>4
  <2>2. cmd' \in WebCommand /\ cmd'.kind # "none"
    BY <2>1 DEF Command, TypeOK, WebCommand
  <2>3. edits' \in Nat
    BY <2>1, CountIsNat DEF Command, TypeOK
  <2>4. UNCHANGED <<reportVars, targetVars, taskVars, faults>>
    BY <2>1 DEF Command
  <2>5. TypeOK'
    BY <2>2, <2>3, <2>4 DEF TypeOK
  <2> QED
    BY <2>2, <2>4, <2>5 DEF CommandNamed, WorkerRecorded, EndedRequestWasTaken
<1>5. CASE SaveCommand
  <2>1. cmd.kind \in {"pause", "rename", "metadata"}
    BY <1>5 DEF SaveCommand, TypeOK, CommandNamed, WebCommand
  <2>2. cmd.snap \in Row /\ cmd.value \in Names \cup {""}
    BY DEF TypeOK, WebCommand
  <2>3. row' \in Row
    BY <1>5, <2>1, <2>2 DEF SaveCommand, Row
  <2>4. cmd' = NoCommand
    BY <1>5 DEF SaveCommand
  <2>5. NoCommand \in WebCommand
    BY DEF NoCommand, NoRow, Row, Images, WebCommand
  <2>6. TypeOK'
    BY <1>5, <2>3, <2>4, <2>5 DEF SaveCommand, TypeOK
  <2> QED
    BY <1>5, <2>4, <2>6 DEF SaveCommand, CommandNamed, WorkerRecorded,
                            EndedRequestWasTaken
<1>6. CASE Start
  <2>1. row' \in Row
    BY <1>6 DEF Start, TypeOK, Row
  <2>a. edits \in Nat
    BY DEF TypeOK
  <2>b. edits' = edits + 1 /\ desired' = "active" /\ runtime' = "idle"
    BY <1>6 DEF Start
  <2>2. edits' \in Nat /\ desired' \in {"active", "stopped"} /\ runtime' \in {"idle", "busy", "error"}
    BY <2>a, <2>b, CountIsNat
  <2>3. UNCHANGED <<reportVars, taskVars, cmd, faults>>
    BY <1>6 DEF Start
  <2>4. TypeOK'
    BY <2>1, <2>2, <2>3 DEF TypeOK
  <2> QED
    BY <2>3, <2>4 DEF CommandNamed, WorkerRecorded, EndedRequestWasTaken
<1> QED
  BY <1>1, <1>2, <1>3, <1>4, <1>5, <1>6

LEMMA NextInv == IInv /\ [Next]_vars => IInv'
<1> SUFFICES ASSUME IInv, [Next]_vars PROVE IInv'
  OBVIOUS
<1>1. CASE UNCHANGED vars
  BY <1>1 DEF vars, reportVars, targetVars, taskVars, IInv, TypeOK, CommandNamed, WorkerRecorded, EndedRequestWasTaken,
              Token, NoCommand
<1>2. CASE Next
  BY <1>2, MaintenanceStep, OtherStep DEF Next
<1> QED
  BY <1>1, <1>2

LEMMA InvHolds == Spec => []IInv
BY InitInv, NextInv, PTL DEF Spec

(* Every reachable state of the target row, its cover job and the worker   *)
(* has its types.                                                          *)
THEOREM MaintenanceTypeCorrect == Spec => []TypeOK
BY InvHolds, PTL DEF IInv

(* A slow worker never ends a newer request for the same image, not even   *)
(* by failing: the worker that ends a request took it up itself, and one   *)
(* that succeeds had its attempt stored (the pending token).               *)
THEOREM EndedWasTaken == Spec => []EndedRequestWasTaken
BY InvHolds, PTL DEF IInv
=============================================================================
