----------------------- MODULE SchedulerSessionProofs -----------------------
(***************************************************************************)
(* Proofs about SchedulerSession, for any requests, windows and bounds:    *)
(* a living thread that the manager has lost, or that the next stop() does *)
(* not reach, was launched while another start() stood between its two     *)
(* lock sections.                                                          *)
(*                                                                         *)
(* start() checks for a running thread in one lock section and replaces    *)
(* event and generation in the next, so the argument follows what a start  *)
(* knows from section to section: at "begin" no thread but one launched in *)
(* its gap (Begun), and at "preflight" the same unless another start or a  *)
(* stop has taken a newer generation (Current).                            *)
(***************************************************************************)
EXTENDS SchedulerSession, FiniteSetTheorems, TLAPS

(* But for those launched in a gap the only living thread is the manager's, *)
(* with its current stop event.                                            *)
Alone ==
    \A i \in Threads :
        /\ ThreadAlive(i) => i \in crossed \/ (i = thread /\ threads[i].event \in {0, event})
        /\ threads[i].phase = "none" => threads[i].event = 0

(* The manager has no thread, or one that was launched in a gap.           *)
Vacant == Running => thread \in crossed

(* So a start that has passed the check finds it.                          *)
Begun == \A c \in Callers : caller[c].pc = "begin" => Vacant

(* And so does one after its preflight, unless it was superseded.          *)
Current ==
    /\ \A c \in Callers : caller[c].pc = "preflight" =>
          /\ caller[c].gen <= generation
          /\ caller[c].gen = generation => Vacant
    /\ \A c, d \in Callers :
          /\ caller[c].pc = "preflight" /\ caller[d].pc = "preflight"
          /\ caller[c].gen = caller[d].gen
          => c = d

IInv == TypeOK /\ Alone /\ Begun /\ Current

-----------------------------------------------------------------------------
(* Types.                                                                  *)

LEMMA Numbers ==
    /\ 0 \in Nat
    /\ Threads \subseteq Nat \ {0}
    /\ \A n \in Nat : n + 1 \in Nat
BY SessionAssumption DEF Threads

(* Where a caller may be left by an edit of its record.                    *)
LEMMA CallerEdit ==
    ASSUME NEW f \in [Callers -> CallerRecord], NEW c \in Callers, NEW x \in Pcs
    PROVE  /\ [f EXCEPT ![c].pc = x] \in [Callers -> CallerRecord]
           /\ \A t \in Thens :
                 [f EXCEPT ![c].pc = x, ![c].then = t] \in [Callers -> CallerRecord]
           /\ \A n \in Nat :
                 [f EXCEPT ![c].pc = x, ![c].gen = n] \in [Callers -> CallerRecord]
           /\ \A w \in Windows \cup {Free} :
                 [f EXCEPT ![c].pc = x, ![c].win = w] \in [Callers -> CallerRecord]
           /\ \A b \in BOOLEAN : [f EXCEPT ![c].was = b] \in [Callers -> CallerRecord]
BY DEF CallerRecord

(* What an edit leaves alone.                                              *)
LEMMA CallerRest ==
    ASSUME NEW f \in [Callers -> CallerRecord], NEW c \in Callers, NEW x
    PROVE  /\ [f EXCEPT ![c].pc = x][c].pc = x
           /\ \A d \in Callers \ {c} : [f EXCEPT ![c].pc = x][d] = f[d]
BY DEF CallerRecord

LEMMA IdleRecords ==
    /\ Idle \in CallerRecord
    /\ \A x \in Pcs : [Idle EXCEPT !.pc = x] \in CallerRecord
    /\ \A x \in Pcs, t \in Thens : [Idle EXCEPT !.pc = x, !.then = t, !.was = TRUE] \in CallerRecord
    /\ \A x \in Pcs, w \in Windows : [Idle EXCEPT !.pc = x, !.win = w] \in CallerRecord
BY DEF Idle, CallerRecord, Pcs, Awaiting, Thens

LEMMA GotoTypes ==
    ASSUME TypeOK, NEW c \in Callers, NEW x \in Pcs,
           Goto(c, x) \/ \E t \in Thens : GotoThen(c, x, t)
    PROVE  caller' \in [Callers -> CallerRecord]
<1>1. caller \in [Callers -> CallerRecord]
  BY DEF TypeOK
<1>2. [Idle EXCEPT !.was = caller[c].was] \in CallerRecord
  BY <1>1, IdleRecords DEF CallerRecord
<1> QED
  BY <1>1, <1>2 DEF Goto, GotoThen, CallerRecord

LEMMA ReturnTypes ==
    ASSUME TypeOK, NEW c \in Callers, Return(c) \/ Raise(c)
    PROVE  caller' \in [Callers -> CallerRecord]
<1>1. caller[c].then \in Pcs /\ "idle" \in Pcs
  BY DEF TypeOK, CallerRecord, Thens, Pcs, Awaiting
<1> QED
  BY <1>1, GotoTypes DEF Return, Raise

LEMMA StartStopTypes ==
    ASSUME TypeOK, NEW c \in Callers, StartOrStop(c)
    PROVE  TypeOK'
<1>1. CASE StartCheck(c)
  <2>1. caller' \in [Callers -> CallerRecord]
    BY <1>1, ReturnTypes, GotoTypes DEF StartCheck, Pcs
  <2> QED
    BY <1>1, <2>1 DEF StartCheck, TypeOK, managerVars, profileVars
<1>2. CASE StartBegin(c)
  <2>1. generation + 1 \in Nat
    BY Numbers DEF TypeOK
  <2>2. caller' \in [Callers -> CallerRecord]
    <3>1. CASE Raise(c)
      BY <3>1, ReturnTypes
    <3>2. CASE caller' = [caller EXCEPT ![c].pc = "preflight", ![c].gen = generation + 1]
      <4>1. caller \in [Callers -> CallerRecord] /\ "preflight" \in Pcs
        BY DEF TypeOK, Pcs
      <4> QED
        BY <2>1, <3>2, <4>1 DEF CallerRecord
    <3> QED
      BY <1>2, <3>1, <3>2 DEF StartBegin
  <2> QED
    BY <1>2, <2>1, <2>2 DEF StartBegin, TypeOK, profileVars, Lifecycles
<1>3. CASE Launch(c)
  <2>1. caller' \in [Callers -> CallerRecord]
    BY <1>3, ReturnTypes DEF Launch
  <2>2. thread' \in Threads \cup {None} /\ threads' \in [Threads -> ThreadRecord]
    BY <1>3 DEF Launch, TypeOK, ThreadRecord, Phases
  <2>3. crossed' \subseteq Threads
    BY <1>3 DEF Launch, TypeOK
  <2> QED
    BY <1>3, <2>1, <2>2, <2>3 DEF Launch, TypeOK, profileVars, Lifecycles
<1>4. CASE Block(c)
  <2>1. caller' \in [Callers -> CallerRecord]
    BY <1>4, ReturnTypes DEF Block
  <2>2. {calls', timeouts', faults'} \subseteq Nat
    BY <1>4, Numbers DEF Block, TypeOK
  <2> QED
    BY <1>4, <2>1, <2>2 DEF Block, TypeOK, profileVars, Lifecycles
<1>5. CASE StopMark(c)
  <2>1. generation + 1 \in Nat /\ thread \in Nat
    BY Numbers DEF TypeOK, None
  <2>2. caller' \in [Callers -> CallerRecord]
    BY <1>5, <2>1, CallerEdit DEF StopMark, Pcs, TypeOK
  <2> QED
    BY <1>5, <2>1, <2>2 DEF StopMark, TypeOK, profileVars, Lifecycles
<1>6. CASE StopJoin(c)
  <2>1. caller' \in [Callers -> CallerRecord]
    BY <1>6, GotoTypes DEF StopJoin, Pcs
  <2>2. {calls', timeouts', faults'} \subseteq Nat
    BY <1>6, Numbers DEF StopJoin, TypeOK
  <2> QED
    BY <1>6, <2>1, <2>2 DEF StopJoin, TypeOK, managerVars, profileVars
<1>7. CASE StopEnd(c)
  <2>1. caller' \in [Callers -> CallerRecord]
    BY <1>7, ReturnTypes DEF StopEnd
  <2> QED
    BY <1>7, <2>1 DEF StopEnd, TypeOK, profileVars, Lifecycles
<1>8. CASE Resume(c)
  <2>1. caller' \in [Callers -> CallerRecord]
    BY <1>8, GotoTypes DEF Resume, Pcs, Awaiting, Thens
  <2> QED
    BY <1>8, <2>1 DEF Resume, TypeOK, managerVars, profileVars
<1>9. CASE Unpause(c)
  <2>1. caller' \in [Callers -> CallerRecord]
    BY <1>9, GotoTypes DEF Unpause, Pcs, Awaiting
  <2> QED
    BY <1>9, <2>1 DEF Unpause, TypeOK, managerVars, profileVars
<1> QED
  BY <1>1, <1>2, <1>3, <1>4, <1>5, <1>6, <1>7, <1>8, <1>9 DEF StartOrStop

(* pause_scheduler_for_profile_use, for both of its users.                 *)
LEMMA PauseTypes ==
    ASSUME TypeOK, NEW r \in Requests, NEW t \in Thens \cap Pcs, Pause(r, t)
    PROVE  caller' \in [Callers -> CallerRecord] /\ paused' \in BOOLEAN
<1>1. caller \in [Callers -> CallerRecord] /\ r \in Callers /\ "stop" \in Pcs
  BY DEF TypeOK, Callers, Pcs
<1>2. /\ [Idle EXCEPT !.pc = "stop", !.then = t, !.was = TRUE] \in CallerRecord
      /\ [Idle EXCEPT !.pc = t] \in CallerRecord
  BY <1>1, IdleRecords
<1> QED
  BY <1>1, <1>2 DEF Pause, TypeOK

LEMMA ArrivalTypes ==
    ASSUME TypeOK, NEW r \in Requests,
           StartClick(r) \/ OpenClick(r) \/ CloseClick(r) \/ LookUpClick(r) \/ Shutdown(r)
    PROVE  TypeOK'
<1>0. /\ r \in Callers
      /\ {calls', timeouts', faults'} \subseteq Nat
  <2>1. calls' = calls + 1 /\ timeouts' = timeouts /\ faults' = faults
    BY DEF StartClick, OpenClick, CloseClick, LookUpClick, Shutdown, Arrives
  <2> QED
    BY <2>1, Numbers DEF TypeOK, Callers
<1>1. CASE StartClick(r)
  <2>1. caller' \in [Callers -> CallerRecord]
    BY <1>0, <1>1, GotoTypes DEF StartClick, Pcs
  <2> QED
    BY <1>0, <1>1, <2>1 DEF StartClick, Arrives, TypeOK, managerVars, profileVars
<1>2. CASE OpenClick(r)
  <2>1. caller' \in [Callers -> CallerRecord] /\ paused' \in BOOLEAN
    BY <1>2, PauseTypes DEF OpenClick, Pcs, Thens, Awaiting
  <2> QED
    BY <1>0, <1>2, <2>1 DEF OpenClick, Arrives, TypeOK, managerVars, profileVars
<1>3. CASE CloseClick(r)
  <2>1. caller' \in [Callers -> CallerRecord]
    <3>1. caller \in [Callers -> CallerRecord] /\ "join" \in Pcs /\ "resume" \in Pcs
      BY DEF TypeOK, Pcs, Awaiting
    <3>2. CASE Goto(r, "resume")
      BY <1>0, <3>1, <3>2, GotoTypes
    <3>3. CASE /\ window # Free
               /\ caller' = [caller EXCEPT ![r] = [Idle EXCEPT !.pc = "join", !.win = window]]
      <4>1. [Idle EXCEPT !.pc = "join", !.win = window] \in CallerRecord
        BY <3>1, <3>3, IdleRecords DEF TypeOK
      <4> QED
        BY <3>1, <3>3, <4>1
    <3> QED
      BY <1>3, <3>2, <3>3 DEF CloseClick
  <2> QED
    BY <1>0, <1>3, <2>1 DEF CloseClick, Arrives, TypeOK, managerVars
<1>4. CASE LookUpClick(r)
  <2>1. caller' \in [Callers -> CallerRecord] /\ paused' \in BOOLEAN
    BY <1>4, PauseTypes DEF LookUpClick, Pcs, Thens, Awaiting
  <2> QED
    BY <1>0, <1>4, <2>1 DEF LookUpClick, Arrives, TypeOK, managerVars, profileVars
<1>5. CASE Shutdown(r)
  <2>1. caller' \in [Callers -> CallerRecord]
    BY <1>0, <1>5, GotoTypes DEF Shutdown, Pcs, Thens
  <2> QED
    BY <1>0, <1>5, <2>1 DEF Shutdown, Arrives, TypeOK, managerVars, profileVars
<1> QED
  BY <1>1, <1>2, <1>3, <1>4, <1>5

LEMMA RequestTypes ==
    ASSUME TypeOK, NEW r \in Requests, RequestStep(r)
    PROVE  TypeOK'
<1>0. r \in Callers /\ caller \in [Callers -> CallerRecord]
  BY DEF Callers, TypeOK
<1>1. CASE DeferStart(r)
  <2>1. caller' \in [Callers -> CallerRecord]
    BY <1>0, <1>1, GotoTypes DEF DeferStart, Pcs, Awaiting, Thens
  <2> QED
    BY <1>1, <2>1 DEF DeferStart, TypeOK, managerVars, profileVars
<1>2. CASE EnsureStarted(r)
  <2>1. caller' \in [Callers -> CallerRecord]
    BY <1>0, <1>2, GotoTypes DEF EnsureStarted, Pcs, Thens
  <2> QED
    BY <1>2, <2>1 DEF EnsureStarted, TypeOK, managerVars, profileVars
<1>3. CASE OpenWindow(r)
  <2>1. caller' \in [Callers -> CallerRecord]
    <3>1. CASE Goto(r, "idle")
      BY <1>0, <3>1, GotoTypes DEF Pcs, Awaiting
    <3>2. CASE \E w \in Windows : caller' = [caller EXCEPT ![r].pc = "ready", ![r].win = w]
      <4>1. PICK w \in Windows : caller' = [caller EXCEPT ![r].pc = "ready", ![r].win = w]
        BY <3>2
      <4>2. "ready" \in Pcs
        BY DEF Pcs, Awaiting
      <4> QED
        BY <1>0, <4>1, <4>2 DEF CallerRecord
    <3> QED
      BY <1>3, <3>1, <3>2 DEF OpenWindow
  <2>2. window' \in Windows \cup {Free} /\ session' \in [Windows -> WindowPhases]
    BY <1>3 DEF OpenWindow, TypeOK, WindowPhases
  <2> QED
    BY <1>3, <2>1, <2>2 DEF OpenWindow, TypeOK, managerVars
<1>4. CASE WindowOpened(r)
  <2>1. caller' \in [Callers -> CallerRecord]
    BY <1>0, <1>4, GotoTypes DEF WindowOpened, Pcs, Awaiting
  <2> QED
    BY <1>4, <2>1 DEF WindowOpened, TypeOK, managerVars, profileVars
<1>5. CASE WindowRefused(r)
  <2>1. caller' \in [Callers -> CallerRecord]
    BY <1>0, <1>5, GotoTypes DEF WindowRefused, Pcs, Awaiting
  <2> QED
    BY <1>5, <2>1 DEF WindowRefused, TypeOK, managerVars
<1>6. CASE CloseJoin(r)
  <2>1. caller' \in [Callers -> CallerRecord]
    BY <1>0, <1>6, GotoTypes DEF CloseJoin, Pcs, Awaiting
  <2>2. {calls', timeouts', faults'} \subseteq Nat
    BY <1>6, Numbers DEF CloseJoin, TypeOK
  <2> QED
    BY <1>6, <2>1, <2>2 DEF CloseJoin, TypeOK, managerVars
<1>7. CASE ExitClose(r)
  <2>1. caller' \in [Callers -> CallerRecord]
    <3>1. window \in Windows \cup {Free} /\ "exitJoin" \in Pcs
      BY DEF TypeOK, Pcs
    <3>2. caller' = [caller EXCEPT ![r].pc = "exitJoin", ![r].win = window]
      BY <1>7 DEF ExitClose
    <3> QED
      BY <1>0, <3>1, <3>2 DEF CallerRecord
  <2> QED
    BY <1>7, <2>1 DEF ExitClose, TypeOK, managerVars
<1>8. CASE ExitJoin(r)
  <2>1. caller' \in [Callers -> CallerRecord]
    BY <1>0, <1>8, GotoTypes DEF ExitJoin, Pcs, Awaiting
  <2>2. {calls', timeouts', faults'} \subseteq Nat
    BY <1>8, Numbers DEF ExitJoin, TypeOK
  <2> QED
    BY <1>8, <2>1, <2>2 DEF ExitJoin, TypeOK, managerVars
<1>9. CASE LookUp(r)
  <2>1. caller' \in [Callers -> CallerRecord]
    BY <1>0, <1>9, GotoTypes DEF LookUp, Pcs, Awaiting
  <2> QED
    BY <1>0, <1>9, <2>1 DEF LookUp, TypeOK, managerVars, profileVars
<1>10. CASE \E ok \in BOOLEAN : LookedUp(r, ok)
  <2>1. PICK ok \in BOOLEAN : LookedUp(r, ok)
    BY <1>10
  <2>2. caller' \in [Callers -> CallerRecord]
    BY <1>0, <2>1, GotoTypes DEF LookedUp, Pcs, Awaiting, Thens
  <2>3. lease' \in {Free, Scheduler} \cup Callers /\ paused' \in BOOLEAN
    BY <2>1 DEF LookedUp, TypeOK
  <2> QED
    BY <2>1, <2>2, <2>3 DEF LookedUp, TypeOK, managerVars, profileVars
<1> QED
  BY <1>1, <1>2, <1>3, <1>4, <1>5, <1>6, <1>7, <1>8, <1>9, <1>10 DEF RequestStep

LEMMA ThreadTypes ==
    ASSUME TypeOK, NEW i \in Threads, ThreadStep(i) \/ Cycle(i) \/ RunnerFails(i)
    PROVE  TypeOK'
<1>1. threads' \in [Threads -> ThreadRecord]
  <2>1. threads \in [Threads -> ThreadRecord] /\ event \in Nat
    BY DEF TypeOK
  <2> QED
    BY <2>1 DEF ThreadStep, Cycle, RunnerFails, ThreadBegin, TakeProfile, ProfileBusy, Retry,
       RunnerReturns, RunnerRaises, Finally, ThreadEnds, Phase, ThreadRecord, Phases
<1>2. {calls', timeouts', faults'} \subseteq Nat
  BY Numbers DEF ThreadStep, Cycle, RunnerFails, ThreadBegin, TakeProfile, ProfileBusy, Retry,
     RunnerReturns, RunnerRaises, Finally, ThreadEnds, TypeOK
<1>3. lifecycle' \in Lifecycles /\ failed' \in BOOLEAN /\ lease' \in {Free, Scheduler} \cup Callers
  BY DEF ThreadStep, Cycle, RunnerFails, ThreadBegin, TakeProfile, ProfileBusy, Retry,
     RunnerReturns, RunnerRaises, Finally, ThreadEnds, TypeOK, Lifecycles
<1>4. UNCHANGED <<generation, event, set, thread, paused, profileVars, caller, over, crossed>>
  BY DEF ThreadStep, Cycle, RunnerFails, ThreadBegin, TakeProfile, ProfileBusy, Retry,
     RunnerReturns, RunnerRaises, Finally, ThreadEnds
<1> QED
  BY <1>1, <1>2, <1>3, <1>4 DEF TypeOK, profileVars

LEMMA WindowTypes ==
    ASSUME TypeOK, NEW w \in Windows, WindowStep(w) \/ WindowCloses(w)
    PROVE  TypeOK'
<1>0. w \in Callers /\ caller \in [Callers -> CallerRecord]
  BY DEF Callers, TypeOK
<1>1. session' \in [Windows -> WindowPhases]
  BY DEF WindowStep, WindowOpens, WindowFails, WindowCloses, WindowClears, WindowDies,
         TypeOK, WindowPhases
<1>2. caller' \in [Callers -> CallerRecord]
  <2>1. CASE WindowFails(w)
    <3>1. \A b \in BOOLEAN : [caller EXCEPT ![w].was = b] \in [Callers -> CallerRecord]
      BY <1>0 DEF CallerRecord
    <3> QED
      BY <2>1, <3>1 DEF WindowFails
  <2>2. CASE WindowClears(w)
    BY <1>0, <2>2, GotoTypes DEF WindowClears, Pcs, Awaiting
  <2>3. CASE UNCHANGED caller
    BY <1>0, <2>3
  <2> QED
    BY <2>1, <2>2, <2>3 DEF WindowStep, WindowOpens, WindowCloses, WindowDies
<1>3. /\ {calls', timeouts', faults'} \subseteq Nat
      /\ lease' \in {Free, Scheduler} \cup Callers
      /\ window' \in Windows \cup {Free}
  BY <1>0, Numbers DEF WindowStep, WindowOpens, WindowFails, WindowCloses, WindowClears,
     WindowDies, TypeOK
<1>4. UNCHANGED <<managerVars, paused, closing, over, crossed>>
  BY DEF WindowStep, WindowOpens, WindowFails, WindowCloses, WindowClears, WindowDies
<1> QED
  BY <1>1, <1>2, <1>3, <1>4 DEF TypeOK, managerVars

-----------------------------------------------------------------------------
(* One thread.                                                             *)

Safe == Alone /\ Begun /\ Current

(* Callers move, but none of them into start()'s two inner sections; stop()  *)
(* also takes a new generation.                                            *)
LEMMA CallersMove ==
    ASSUME TypeOK, Safe, UNCHANGED <<thread, threads, event, crossed>>,
           generation' \in {generation, generation + 1},
           \A d \in Callers : caller'[d].pc \in {"begin", "preflight"} =>
               caller'[d].pc = caller[d].pc /\ caller'[d].gen = caller[d].gen
    PROVE  Safe'
<1>1. Alone' /\ (Vacant' <=> Vacant)
  BY DEF Safe, Alone, ThreadAlive, Running, Vacant
<1>2. Begun'
  BY <1>1 DEF Safe, Begun
<1>3. ASSUME NEW c \in Callers, caller'[c].pc = "preflight"
      PROVE  /\ caller'[c].gen <= generation'
             /\ caller'[c].gen = generation' => Vacant'
  <2>1. caller[c].gen \in Nat /\ generation \in Nat
    BY DEF TypeOK, CallerRecord
  <2>2. /\ caller[c].pc = "preflight" /\ caller'[c].gen = caller[c].gen
        /\ caller[c].gen <= generation
        /\ caller[c].gen = generation => Vacant
    BY <1>3 DEF Safe, Current
  <2> QED
    BY <1>1, <2>1, <2>2
<1>4. \A c, d \in Callers :
         caller'[c].pc = "preflight" /\ caller'[d].pc = "preflight" /\ caller'[c].gen = caller'[d].gen
         => c = d
  BY DEF Safe, Current
<1> QED
  BY <1>1, <1>2, <1>3, <1>4 DEF Safe, Current

(* A caller that moves elsewhere, and the others not at all.               *)
LEMMA CallerMoves ==
    ASSUME TypeOK, NEW c \in Callers, NEW x, x \notin {"begin", "preflight"},
           Goto(c, x) \/ \E t \in Thens : GotoThen(c, x, t)
    PROVE  \A d \in Callers : caller'[d].pc \in {"begin", "preflight"} =>
               caller'[d].pc = caller[d].pc /\ caller'[d].gen = caller[d].gen
<1>1. caller \in [Callers -> CallerRecord]
  BY DEF TypeOK
<1> QED
  BY <1>1 DEF Goto, GotoThen, CallerRecord, Idle

LEMMA ReturnMoves ==
    ASSUME TypeOK, NEW c \in Callers, Return(c) \/ Raise(c)
    PROVE  \A d \in Callers : caller'[d].pc \in {"begin", "preflight"} =>
               caller'[d].pc = caller[d].pc /\ caller'[d].gen = caller[d].gen
<1>1. caller[c].then \notin {"begin", "preflight"}
  BY DEF TypeOK, CallerRecord, Thens
<1> QED
  BY <1>1, CallerMoves DEF Return, Raise

(* Threads only begin their work, take the current event or end.           *)
LEMMA ThreadsMove ==
    ASSUME Safe, UNCHANGED <<caller, thread, event, generation, crossed>>,
           \A j \in Threads :
              /\ threads'[j].phase \notin {"none", "ended"} =>
                    /\ threads[j].phase \notin {"none", "ended"}
                    /\ threads'[j].event \in {threads[j].event, event}
              /\ threads'[j].phase = "none" => threads'[j] = threads[j],
           thread \in Threads \cup {None}
    PROVE  Safe'
<1>1. \A j \in Threads : ThreadAlive(j)' => ThreadAlive(j)
  BY Numbers DEF ThreadAlive, None
<1>2. Vacant => Vacant'
  BY <1>1 DEF Vacant, Running, ThreadAlive, None
<1>3. Alone'
  BY <1>1 DEF Safe, Alone, ThreadAlive
<1>4. Begun' /\ Current'
  BY <1>2 DEF Safe, Begun, Current
<1> QED
  BY <1>3, <1>4 DEF Safe

LEMMA StartSafe ==
    ASSUME TypeOK, Safe, NEW c \in Callers,
           StartCheck(c) \/ StartBegin(c) \/ Launch(c)
    PROVE  Safe'
<1>0. /\ caller \in [Callers -> CallerRecord] /\ generation \in Nat
      /\ thread \in Threads \cup {None} /\ threads \in [Threads -> ThreadRecord]
      /\ \A d \in Callers : caller[d].gen \in Nat
  BY DEF TypeOK, CallerRecord
<1>1. CASE StartCheck(c)
  <2>1. UNCHANGED <<thread, threads, event, generation, crossed>>
    BY <1>1 DEF StartCheck, managerVars
  <2>2. CASE Return(c) \/ Raise(c)
    BY <2>1, <2>2, ReturnMoves, CallersMove
  <2>3. CASE ~Running /\ Goto(c, "begin")
    <3>1. /\ caller'[c].pc = "begin"
          /\ \A d \in Callers \ {c} : caller'[d] = caller[d]
      BY <1>0, <2>3 DEF Goto, CallerRecord
    <3>2. Alone' /\ Vacant' /\ (Vacant <=> Vacant')
      BY <2>1, <2>3 DEF Safe, Alone, ThreadAlive, Running, Vacant
    <3>3. Begun' /\ Current'
      BY <2>1, <3>1, <3>2 DEF Safe, Begun, Current
    <3> QED
      BY <3>2, <3>3 DEF Safe
  <2> QED
    BY <1>1, <2>2, <2>3 DEF StartCheck
<1>2. CASE StartBegin(c)
  <2>1. CASE Raise(c) /\ UNCHANGED <<generation, event>>
    BY <1>2, <2>1, ReturnMoves, CallersMove DEF StartBegin
  <2>2. CASE /\ generation' = generation + 1
             /\ event' = generation + 1
             /\ caller' = [caller EXCEPT ![c].pc = "preflight", ![c].gen = generation + 1]
    <3>1. Vacant /\ UNCHANGED <<thread, threads, crossed>>
      BY <1>2 DEF StartBegin, At, Safe, Begun
    <3>2. /\ caller'[c].pc = "preflight" /\ caller'[c].gen = generation + 1
          /\ \A d \in Callers \ {c} : caller'[d] = caller[d]
      BY <1>0, <2>2 DEF CallerRecord
    <3>3. \A i \in Threads : ThreadAlive(i) => i \in crossed
      BY <3>1 DEF Safe, Alone, Running, Vacant
    <3>4. Alone' /\ Vacant'
      BY <3>1, <3>3 DEF Safe, Alone, Running, ThreadAlive, Vacant
    <3>5. \A d \in Callers \ {c} : caller[d].pc = "preflight" =>
             caller[d].gen <= generation /\ caller[d].gen # generation + 1
      BY <1>0 DEF Safe, Current
    <3>6. Begun' /\ Current'
      <4>1. \A d \in Callers : caller'[d].pc = "preflight" => caller'[d].gen <= generation'
        BY <1>0, <2>2, <3>2, <3>5
      <4>2. \A b, d \in Callers :
               caller'[b].pc = "preflight" /\ caller'[d].pc = "preflight" /\ caller'[b].gen = caller'[d].gen
               => b = d
        BY <3>2, <3>5 DEF Safe, Current
      <4> QED
        BY <3>4, <4>1, <4>2 DEF Begun, Current
    <3> QED
      BY <3>4, <3>6 DEF Safe
  <2> QED
    BY <1>2, <2>1, <2>2 DEF StartBegin
<1>3. CASE Launch(c)
  <2>1. UNCHANGED <<event, generation>> /\ (Return(c) \/ Raise(c))
    BY <1>3 DEF Launch
  <2>2. CASE UNCHANGED <<thread, threads, crossed>>
    BY <2>1, <2>2, ReturnMoves, CallersMove
  <2>3. CASE ~Superseded(c) /\ \E i \in Threads :
                /\ \A j \in Threads : threads[j].phase = "none" <=> j >= i
                /\ thread' = i
                /\ threads' = [threads EXCEPT ![i].phase = "new"]
                /\ crossed' = IF InGap(c) THEN crossed \cup {i} ELSE crossed
    <3>1. PICK i \in Threads :
             /\ \A j \in Threads : threads[j].phase = "none" <=> j >= i
             /\ thread' = i
             /\ threads' = [threads EXCEPT ![i].phase = "new"]
             /\ crossed' = IF InGap(c) THEN crossed \cup {i} ELSE crossed
      BY <2>3
    <3>2. threads[i].phase = "none"
      BY <3>1, Numbers
    <3>3. /\ threads'[i].phase = "new" /\ threads'[i].event = threads[i].event
          /\ \A j \in Threads \ {i} : threads'[j] = threads[j]
      BY <1>0, <3>1 DEF ThreadRecord
    <3>4. caller[c].pc = "preflight" /\ caller[c].gen = generation
      BY <1>3, <2>3 DEF Launch, At, Superseded
    <3>5. \A j \in Threads : ThreadAlive(j) => j \in crossed
      BY <3>4 DEF Safe, Current, Alone, Running, Vacant
    <3>6. Alone'
      <4>1. crossed \subseteq crossed'
        BY <3>1
      <4>2. ASSUME NEW j \in Threads \ {i}
            PROVE  /\ ThreadAlive(j)' => j \in crossed'
                   /\ threads'[j].phase = "none" => threads'[j].event = 0
        BY <3>3, <3>5, <4>1 DEF Safe, Alone, ThreadAlive
      <4>3. /\ i = thread' /\ threads'[i].event \in {0, event'}
            /\ threads'[i].phase # "none"
        BY <3>1, <3>2, <3>3 DEF Safe, Alone
      <4> QED
        BY <4>2, <4>3 DEF Alone
    <3>7. \A d \in Callers : caller'[d].pc \in {"begin", "preflight"} =>
             d # c /\ caller'[d] = caller[d]
      <4>1. \A d \in Callers \ {c} : caller'[d] = caller[d]
        BY <1>0, <2>1 DEF Return, Raise, Goto, CallerRecord
      <4>2. caller'[c].pc \in Thens
        BY <1>0, <2>1 DEF Return, Raise, Goto, CallerRecord, Thens, Idle
      <4> QED
        BY <4>1, <4>2 DEF Thens
    <3>8. \A d \in Callers \ {c} : caller[d].pc = "preflight" =>
             caller[d].gen <= generation /\ caller[d].gen # generation
      BY <3>4 DEF Safe, Current
    <3>9. Begun'
      <4>1. ASSUME NEW d \in Callers, caller'[d].pc = "begin"
            PROVE  thread' \in crossed'
        BY <3>1, <3>7, <4>1 DEF InGap
      <4> QED
        BY <4>1 DEF Begun, Vacant
    <3>10. Current'
      <4>1. \A b, d \in Callers :
               caller'[b].pc = "preflight" /\ caller'[d].pc = "preflight" /\ caller'[b].gen = caller'[d].gen
               => b = d
        BY <3>7 DEF Safe, Current
      <4> QED
        BY <2>1, <3>4, <3>7, <3>8, <4>1 DEF Current
    <3> QED
      BY <3>6, <3>9, <3>10 DEF Safe
  <2> QED
    BY <1>3, <2>2, <2>3 DEF Launch
<1> QED
  BY <1>1, <1>2, <1>3

LEMMA StopSafe ==
    ASSUME TypeOK, Safe, NEW c \in Callers,
           Block(c) \/ StopMark(c) \/ StopJoin(c) \/ StopEnd(c) \/ Resume(c) \/ Unpause(c)
    PROVE  Safe'
<1>0. caller \in [Callers -> CallerRecord]
  BY DEF TypeOK
<1>1. CASE Block(c) \/ StopEnd(c)
  BY <1>1, ReturnMoves, CallersMove DEF Block, StopEnd
<1>2. CASE StopMark(c)
  <2>1. \A d \in Callers : caller'[d].pc \in {"begin", "preflight"} =>
               caller'[d].pc = caller[d].pc /\ caller'[d].gen = caller[d].gen
    BY <1>0, <1>2 DEF StopMark, CallerRecord
  <2> QED
    BY <1>2, <2>1, CallersMove DEF StopMark
<1>3. CASE StopJoin(c) \/ Resume(c) \/ Unpause(c)
  <2>1. PICK x \in {"stopEnd", "check", "idle"} : Goto(c, x) \/ \E t \in Thens : GotoThen(c, x, t)
    BY <1>3 DEF StopJoin, Resume, Unpause, Thens
  <2>2. UNCHANGED <<thread, threads, event, generation, crossed>>
    BY <1>3 DEF StopJoin, Resume, Unpause, managerVars
  <2> QED
    BY <2>1, <2>2, CallerMoves, CallersMove
<1> QED
  BY <1>1, <1>2, <1>3

LEMMA ArrivalSafe ==
    ASSUME TypeOK, Safe, NEW r \in Requests,
           StartClick(r) \/ OpenClick(r) \/ CloseClick(r) \/ LookUpClick(r) \/ Shutdown(r)
    PROVE  Safe'
<1>0. /\ r \in Callers /\ caller \in [Callers -> CallerRecord]
      /\ UNCHANGED <<thread, threads, event, generation, crossed>>
  BY DEF Callers, TypeOK, StartClick, OpenClick, CloseClick, LookUpClick, Shutdown, managerVars
<1>1. CASE StartClick(r) \/ Shutdown(r) \/ (CloseClick(r) /\ Goto(r, "resume"))
  <2>1. PICK x \in {"defer", "ensure", "stop", "resume"} :
           Goto(r, x) \/ \E t \in Thens : GotoThen(r, x, t)
    BY <1>1 DEF StartClick, Shutdown, Thens
  <2> QED
    BY <1>0, <2>1, CallerMoves, CallersMove
<1>2. CASE \/ OpenClick(r) \/ LookUpClick(r)
           \/ (CloseClick(r) /\ caller' = [caller EXCEPT ![r] = [Idle EXCEPT !.pc = "join", !.win = window]])
  <2>1. /\ caller'[r].pc \in {"stop", "open", "temp", "join"}
        /\ \A d \in Callers \ {r} : caller'[d] = caller[d]
    BY <1>0, <1>2 DEF OpenClick, LookUpClick, CloseClick, Pause, Idle
  <2>2. \A d \in Callers : caller'[d].pc \in {"begin", "preflight"} =>
               caller'[d].pc = caller[d].pc /\ caller'[d].gen = caller[d].gen
    BY <2>1
  <2> QED
    BY <1>0, <2>2, CallersMove
<1> QED
  BY <1>1, <1>2 DEF CloseClick

LEMMA RequestSafe ==
    ASSUME TypeOK, Safe, NEW r \in Requests, RequestStep(r)
    PROVE  Safe'
<1>0. /\ r \in Callers /\ caller \in [Callers -> CallerRecord]
      /\ UNCHANGED <<thread, threads, event, generation, crossed>>
  BY DEF Callers, TypeOK, RequestStep, DeferStart, EnsureStarted, OpenWindow, WindowOpened,
         WindowRefused, CloseJoin, ExitClose, ExitJoin, LookUp, LookedUp, managerVars
<1>1. CASE OpenWindow(r) \/ ExitClose(r)
  <2>1. \A d \in Callers : caller'[d].pc \in {"begin", "preflight"} =>
               caller'[d].pc = caller[d].pc /\ caller'[d].gen = caller[d].gen
    BY <1>0, <1>1 DEF OpenWindow, ExitClose, Goto, CallerRecord, Idle
  <2> QED
    BY <1>0, <2>1, CallersMove
<1>2. CASE \/ DeferStart(r) \/ EnsureStarted(r) \/ WindowOpened(r) \/ WindowRefused(r)
           \/ CloseJoin(r) \/ ExitJoin(r) \/ LookUp(r)
           \/ \E ok \in BOOLEAN : LookedUp(r, ok)
  <2>1. PICK x \in {"stop", "idle", "unpause", "check", "resume", "held"} :
           Goto(r, x) \/ \E t \in Thens : GotoThen(r, x, t)
    BY <1>2 DEF DeferStart, EnsureStarted, WindowOpened, WindowRefused, CloseJoin, ExitJoin,
                LookUp, LookedUp, Thens
  <2> QED
    BY <1>0, <2>1, CallerMoves, CallersMove
<1> QED
  BY <1>1, <1>2 DEF RequestStep

LEMMA ThreadSafe ==
    ASSUME TypeOK, Safe, NEW i \in Threads, ThreadStep(i) \/ Cycle(i) \/ RunnerFails(i)
    PROVE  Safe'
<1>1. UNCHANGED <<caller, thread, event, generation, crossed>> /\ thread \in Threads \cup {None}
  BY DEF ThreadStep, Cycle, RunnerFails, ThreadBegin, TakeProfile, ProfileBusy, Retry,
     RunnerReturns, RunnerRaises, Finally, ThreadEnds, TypeOK
<1>2. \A j \in Threads :
         /\ threads'[j].phase \notin {"none", "ended"} =>
               /\ threads[j].phase \notin {"none", "ended"}
               /\ threads'[j].event \in {threads[j].event, event}
         /\ threads'[j].phase = "none" => threads'[j] = threads[j]
  <2>1. threads \in [Threads -> ThreadRecord]
    BY DEF TypeOK
  <2> QED
    BY <2>1 DEF ThreadStep, Cycle, RunnerFails, ThreadBegin, TakeProfile, ProfileBusy, Retry,
       RunnerReturns, RunnerRaises, Finally, ThreadEnds, Phase, ThreadRecord
<1> QED
  BY <1>1, <1>2, ThreadsMove

LEMMA WindowSafe ==
    ASSUME TypeOK, Safe, NEW w \in Windows, WindowStep(w) \/ WindowCloses(w)
    PROVE  Safe'
<1>0. /\ w \in Callers /\ caller \in [Callers -> CallerRecord]
      /\ UNCHANGED <<thread, threads, event, generation, crossed>>
  BY DEF Callers, TypeOK, WindowStep, WindowOpens, WindowFails, WindowCloses, WindowClears,
         WindowDies, managerVars
<1>1. \A d \in Callers : caller'[d].pc \in {"begin", "preflight"} =>
               caller'[d].pc = caller[d].pc /\ caller'[d].gen = caller[d].gen
  BY <1>0 DEF WindowStep, WindowOpens, WindowFails, WindowCloses, WindowClears, WindowDies,
     Goto, CallerRecord
<1> QED
  BY <1>0, <1>1, CallersMove

-----------------------------------------------------------------------------
(* The invariant, and what follows from it.                                *)

LEMMA InvInit == Init => IInv
<1> SUFFICES ASSUME Init PROVE IInv
  OBVIOUS
<1>1. TypeOK
  <2>1. caller \in [Callers -> CallerRecord]
    BY IdleRecords DEF Init
  <2>2. threads \in [Threads -> ThreadRecord] /\ session \in [Windows -> WindowPhases]
    BY DEF Init, ThreadRecord, Phases, WindowPhases
  <2>3. lifecycle \in Lifecycles
    BY DEF Init, Lifecycles
  <2>4. /\ {calls, timeouts, faults} \subseteq Nat
        /\ generation \in Nat /\ event \in Nat /\ set \subseteq Nat
    BY DEF Init
  <2>5. /\ failed \in BOOLEAN /\ paused \in BOOLEAN /\ over \in BOOLEAN
        /\ thread = None /\ lease = Free /\ window = Free /\ closing = {} /\ crossed = {}
    BY DEF Init
  <2> QED
    BY <2>1, <2>2, <2>3, <2>4, <2>5 DEF TypeOK
<1>2. Alone
  BY DEF Init, Alone, ThreadAlive
<1>3. Begun /\ Current
  BY DEF Init, Begun, Current, Idle
<1> QED
  BY <1>1, <1>2, <1>3 DEF IInv

LEMMA InvNext ==
    ASSUME IInv, [Next]_vars
    PROVE  IInv'
<1>0. TypeOK /\ Safe
  BY DEF IInv, Safe
<1>1. TypeOK'
  <2>1. CASE Next
    BY <1>0, <2>1, ArrivalTypes, RequestTypes, StartStopTypes, ThreadTypes, WindowTypes DEF Next
  <2>2. CASE UNCHANGED vars
    BY <1>0, <2>2 DEF vars, managerVars, profileVars, TypeOK
  <2> QED
    BY <2>1, <2>2
<1>2. Safe'
  <2>1. CASE \E r \in Requests : \/ StartClick(r) \/ OpenClick(r) \/ CloseClick(r)
                                 \/ LookUpClick(r) \/ Shutdown(r) \/ RequestStep(r)
    BY <1>0, <2>1, ArrivalSafe, RequestSafe
  <2>2. CASE \E c \in Callers : StartOrStop(c)
    BY <1>0, <2>2, StartSafe, StopSafe DEF StartOrStop
  <2>3. CASE \E i \in Threads : ThreadStep(i) \/ Cycle(i) \/ RunnerFails(i)
    BY <1>0, <2>3, ThreadSafe
  <2>4. CASE \E w \in Windows : WindowStep(w) \/ WindowCloses(w)
    BY <1>0, <2>4, WindowSafe
  <2>5. CASE UNCHANGED vars
    BY <1>0, <2>5, CallersMove DEF vars, managerVars
  <2> QED
    BY <2>1, <2>2, <2>3, <2>4, <2>5 DEF Next
<1> QED
  BY <1>1, <1>2 DEF IInv, Safe

LEMMA InvHolds == Spec => []IInv
<1>1. IInv /\ [Next]_vars => IInv'
  BY InvNext
<1> QED
  BY <1>1, InvInit, PTL DEF Spec

(* The variables of the session keep their types.                          *)
THEOREM SessionTypeCorrect == Spec => []TypeOK
<1>1. IInv => TypeOK
  BY DEF IInv
<1> QED
  BY <1>1, InvHolds, PTL

(* The manager forgets a living thread only if it was launched while       *)
(* another start() stood between its two lock sections.                    *)
THEOREM LostThreadWasCrossed == Spec => []OnlyCrossedThreadsAreLost
<1>1. IInv => OnlyCrossedThreadsAreLost
  BY DEF IInv, Alone, OnlyCrossedThreadsAreLost
<1> QED
  BY <1>1, InvHolds, PTL

(* The next stop() reaches every other thread that was not told to stop.   *)
THEOREM StopReachesTheRest == Spec => []StopReachesUncrossedThread
<1>1. IInv => StopReachesUncrossedThread
  BY DEF IInv, Alone, StopReachesUncrossedThread, Unstopped
<1> QED
  BY <1>1, InvHolds, PTL

(* The manager runs one scheduler thread at a time, as its module          *)
(* docstring says, as long as no living thread was launched in a gap.      *)
THEOREM OneThreadWithoutCrossing ==
    Spec => []((\A i \in Threads : ThreadAlive(i) => i \notin crossed) => OneSchedulerThread)
<1> DEFINE Uncrossed == \A i \in Threads : ThreadAlive(i) => i \notin crossed
<1>1. IInv => (Uncrossed => OneSchedulerThread)
  <2> SUFFICES ASSUME IInv, Uncrossed PROVE OneSchedulerThread
    OBVIOUS
  <2> DEFINE Living == {i \in Threads : ThreadAlive(i)}
  <2>1. Living \subseteq {thread}
    BY DEF IInv, Alone
  <2>2. IsFiniteSet({thread}) /\ Cardinality({thread}) = 1
    BY FS_Singleton
  <2>3. Cardinality(Living) <= 1
    BY <2>1, <2>2, FS_Subset
  <2> QED
    BY <2>3 DEF OneSchedulerThread
<1> HIDE DEF Uncrossed
<1>2. Spec => [](Uncrossed => OneSchedulerThread)
  BY <1>1, InvHolds, PTL
<1> QED
  BY <1>2 DEF Uncrossed
=============================================================================
