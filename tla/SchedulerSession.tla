-------------------------- MODULE SchedulerSession --------------------------
(***************************************************************************)
(* The background scheduler thread of the Web UI (scheduler_session.py),   *)
(* the login window that borrows its browser profile (profile_session.py)  *)
(* and the requests that pause and resume the one for the other            *)
(* (dependencies.py, settings_use_cases.py).                               *)
(*                                                                         *)
(* Callers of start() and stop() are request handlers, which share the     *)
(* event loop and give it up only at an await, and the threads of login    *)
(* windows, whose on_close callback resumes the scheduler.  An action is a *)
(* stretch under BackgroundSchedulerManager._lock, or one read of another  *)
(* thread's state.  All callers pass the same options: app state never     *)
(* changes them.                                                           *)
(***************************************************************************)
EXTENDS Naturals, FiniteSets

CONSTANTS
    Requests, Windows,
    MaxCalls, MaxThreads, MaxTimeouts, MaxFaults     \* bounds of the model

ASSUME SessionAssumption ==
    /\ Requests \cap Windows = {}
    /\ {MaxCalls, MaxThreads, MaxTimeouts, MaxFaults} \subseteq Nat

Callers == Requests \cup Windows
Threads == 1..MaxThreads
None == 0
Free == "free"
Scheduler == "scheduler"

VARIABLES
    lifecycle,  \* lifecycle_state
    generation, \* _start_generation
    event,      \* the stop_event object, named by the generation that made it
    set,        \* stop events that are set
    thread,     \* self.thread
    threads,    \* phase and stop event of every thread made so far
    failed,     \* last_error is not empty
    lease,      \* holder of the automation profile
    paused,     \* app.state.scheduler_paused_for_profile
    window,     \* _active_session
    session,    \* phase of each login window
    closing,    \* windows whose stop_event is set
    caller,     \* where each caller is, and what it remembers
    over,       \* the program is shutting down
    calls, timeouts, faults,
    crossed     \* history: threads launched while another start() was in its gap

managerVars == <<lifecycle, generation, event, set, thread, threads, failed>>
profileVars == <<window, session, closing>>
vars == <<managerVars, lease, paused, profileVars, caller, over, calls, timeouts, faults,
          crossed>>

Idle == [pc |-> "idle", then |-> "idle", gen |-> 0, was |-> FALSE, win |-> Free]

Init ==
    /\ lifecycle = "stopped"
    /\ generation = 0 /\ event = 0 /\ set = {}
    /\ thread = None
    /\ threads = [i \in Threads |-> [phase |-> "none", event |-> 0]]
    /\ failed = FALSE
    /\ lease = Free
    /\ paused = FALSE
    /\ window = Free
    /\ session = [w \in Windows |-> "none"]
    /\ closing = {}
    /\ caller = [c \in Callers |-> Idle]
    /\ over = FALSE
    /\ calls = 0 /\ timeouts = 0 /\ faults = 0
    /\ crossed = {}

-----------------------------------------------------------------------------

ThreadAlive(i) == i # None /\ threads[i].phase \notin {"none", "ended"}
\* Mutant: the state stands for the thread.
RunningByState == lifecycle = "running"
\* _is_thread_alive_locked.
Running == ThreadAlive(thread)
WindowAlive(w) == w # Free /\ session[w] \notin {"none", "dead"}
ProfileActive == WindowAlive(window)

\* What open() waits for: the window reported an exception (Free has none).
Refused(w) == caller[w].was

\* A request holds the event loop while it does not await.
Awaiting == {"idle", "open", "ready", "join", "temp", "held", "resume"}
LoopHolders == {r \in Requests : caller[r].pc \notin Awaiting}
HasLoop(c) == c \in Windows \/ LoopHolders \subseteq {c}

At(c, pc) == caller[c].pc = pc /\ HasLoop(c)
\* What a caller remembers ends with its call; only a window's report outlives it.
Goto(c, pc) ==
    caller' = [caller EXCEPT ![c] = IF pc = "idle" THEN [Idle EXCEPT !.was = caller[c].was]
                                    ELSE [caller[c] EXCEPT !.pc = pc]]
GotoThen(c, pc, then) == caller' = [caller EXCEPT ![c].pc = pc, ![c].then = then]
\* start() or stop() returns, or start() raises: what its caller does next.
Return(c) == Goto(c, caller[c].then)
Raise(c) == Goto(c, "idle")

-----------------------------------------------------------------------------
(* start() *)

StartCheck(c) ==
    /\ At(c, "check")
    /\ IF lifecycle = "stopping" THEN Raise(c)
       ELSE IF lifecycle = "starting" \/ Running THEN Return(c)
       ELSE Goto(c, "begin")
    /\ UNCHANGED <<managerVars, lease, paused, profileVars, calls, timeouts, faults,
                   over, crossed>>

\* The second section asks again whether a stop goes on, not whether a thread runs.
StartBegin(c) ==
    /\ At(c, "begin")
    /\ IF lifecycle = "stopping"
       THEN Raise(c) /\ UNCHANGED <<lifecycle, generation, event, failed>>
       ELSE /\ generation' = generation + 1
            /\ event' = generation + 1
            /\ failed' = FALSE
            /\ lifecycle' = "starting"
            /\ caller' = [caller EXCEPT ![c].pc = "preflight",
                                        ![c].gen = generation + 1]
    /\ UNCHANGED <<set, thread, threads, lease, paused, profileVars, calls,
                   timeouts, faults, over, crossed>>

\* Mutant: only a stop that is still going on is noticed after the preflight.
SupersededWhileStopping(c) == lifecycle = "stopping"
\* Mutant: any stop event that is not set will do.
SupersededByEvent(c) == event \in set
Superseded(c) == generation # caller[c].gen \/ event \in set

\* Another start() has left its first section and not entered the second.
InGap(c) == \E d \in Callers \ {c} : caller[d].pc = "begin"

Launch(c) ==
    /\ At(c, "preflight")
    /\ IF Superseded(c)
       THEN Return(c) /\ UNCHANGED <<lifecycle, thread, threads, crossed>>
       ELSE IF lifecycle = "stopping"
       THEN Raise(c) /\ UNCHANGED <<lifecycle, thread, threads, crossed>>
       ELSE \E i \in Threads :
            /\ \A j \in Threads : threads[j].phase = "none" <=> j >= i
            /\ thread' = i
            /\ threads' = [threads EXCEPT ![i].phase = "new"]
            /\ lifecycle' = "starting"
            /\ crossed' = IF InGap(c) THEN crossed \cup {i} ELSE crossed
            /\ Return(c)
    /\ UNCHANGED <<generation, event, set, failed, lease, paused, profileVars, calls,
                   timeouts, faults, over>>

\* Mutant: a blocked start returns without leaving STARTING.
BlockSilently(c) ==
    /\ At(c, "preflight") /\ faults < MaxFaults
    /\ faults' = faults + 1
    /\ IF ~Superseded(c) /\ lifecycle = "stopping" THEN Raise(c) ELSE Return(c)
    /\ UNCHANGED <<managerVars, lease, paused, profileVars, calls, timeouts, over, crossed>>
\* _block_start_for_preflight_failure.
Block(c) ==
    /\ At(c, "preflight") /\ faults < MaxFaults
    /\ faults' = faults + 1
    /\ IF Superseded(c)
       THEN Return(c) /\ UNCHANGED <<lifecycle, failed>>
       ELSE IF lifecycle = "stopping"
       THEN Raise(c) /\ UNCHANGED <<lifecycle, failed>>
       ELSE /\ Return(c)
            /\ IF Running THEN UNCHANGED <<lifecycle, failed>>
               ELSE lifecycle' = "error" /\ failed' = TRUE
    /\ UNCHANGED <<generation, event, set, thread, threads, lease, paused, profileVars,
                   calls, timeouts, over, crossed>>

-----------------------------------------------------------------------------
(* stop() *)

StopMark(c) ==
    /\ At(c, "stop")
    /\ generation' = generation + 1
    /\ lifecycle' = "stopping"
    /\ set' = set \cup {event}
    /\ caller' = [caller EXCEPT ![c].pc = "stopJoin", ![c].gen = thread]
    /\ UNCHANGED <<event, thread, threads, failed, lease, paused, profileVars, calls,
                   timeouts, faults, over, crossed>>

\* thread.join(timeout): the thread that was there when stop() began.
StopJoin(c) ==
    /\ At(c, "stopJoin")
    /\ IF ThreadAlive(caller[c].gen)
       THEN timeouts < MaxTimeouts /\ timeouts' = timeouts + 1
       ELSE UNCHANGED timeouts
    /\ Goto(c, "stopEnd")
    /\ UNCHANGED <<managerVars, lease, paused, profileVars, calls, faults, over, crossed>>

StopEnd(c) ==
    /\ At(c, "stopEnd")
    /\ lifecycle' = IF Running THEN lifecycle ELSE "stopped"
    /\ Return(c)
    /\ UNCHANGED <<generation, event, set, thread, threads, failed, lease, paused,
                   profileVars, calls, timeouts, faults, over, crossed>>

-----------------------------------------------------------------------------
(* The scheduler thread: _run_loop and _run_resident_mode. *)

Phase(i, p) == threads' = [threads EXCEPT ![i].phase = p]

ThreadBegin(i) ==
    /\ threads[i].phase = "new"
    /\ lifecycle' = IF lifecycle = "starting" THEN "running" ELSE lifecycle
    /\ threads' = [threads EXCEPT ![i] = [phase |-> IF event \in set THEN "leaving"
                                                    ELSE "launching",
                                          event |-> event]]
    /\ UNCHANGED <<generation, event, set, thread, failed, lease, paused, profileVars,
                   caller, calls, timeouts, faults, over, crossed>>

\* The resident worker takes the profile lease and opens its browser.
TakeProfile(i) ==
    /\ threads[i].phase = "launching" /\ lease = Free
    /\ lease' = Scheduler
    /\ Phase(i, "scanning")
    /\ UNCHANGED <<lifecycle, generation, event, set, thread, failed, paused,
                   profileVars, caller, calls, timeouts, faults, over, crossed>>

Cycle(i) ==
    /\ threads[i].phase = "scanning"
    /\ failed' = FALSE
    /\ lifecycle' = IF lifecycle = "error" THEN "running" ELSE lifecycle
    /\ UNCHANGED <<generation, event, set, thread, threads, lease, paused, profileVars,
                   caller, calls, timeouts, faults, over, crossed>>

\* Mutant: the failure has a state of its own.
RunnerRaisesUnnamed(i) ==
    /\ failed' = TRUE
    /\ lifecycle' = "failed"
    /\ Phase(i, "waiting")
    /\ UNCHANGED <<generation, event, set, thread, paused, profileVars, caller, calls,
                   timeouts, over, crossed>>
RunnerRaises(i) ==
    /\ failed' = TRUE
    /\ lifecycle' = "error"
    /\ Phase(i, "waiting")
    /\ UNCHANGED <<generation, event, set, thread, paused, profileVars, caller, calls,
                   timeouts, over, crossed>>

ProfileBusy(i) ==
    /\ threads[i].phase = "launching" /\ lease # Free
    /\ RunnerRaises(i)
    /\ UNCHANGED <<lease, faults>>

RunnerFails(i) ==
    /\ threads[i].phase = "scanning" /\ faults < MaxFaults
    /\ faults' = faults + 1
    /\ lease' = Free
    /\ RunnerRaises(i)

\* The wait after a failure reads self.stop_event again.
Retry(i) ==
    /\ threads[i].phase = "waiting"
    /\ threads' = [threads EXCEPT ![i] = [phase |-> IF event \in set THEN "leaving"
                                                    ELSE "launching",
                                          event |-> event]]
    /\ UNCHANGED <<lifecycle, generation, event, set, thread, failed, lease, paused,
                   profileVars, caller, calls, timeouts, faults, over, crossed>>

RunnerReturns(i) ==
    /\ threads[i].phase = "scanning" /\ threads[i].event \in set
    /\ lease' = Free
    /\ Phase(i, "leaving")
    /\ UNCHANGED <<lifecycle, generation, event, set, thread, failed, paused,
                   profileVars, caller, calls, timeouts, faults, over, crossed>>

\* finally: a thread never finds itself dead, so STOPPING stays.
Finally(i) ==
    /\ threads[i].phase = "leaving"
    /\ lifecycle' = IF ~Running /\ event \in set THEN "stopped"
                    ELSE IF lifecycle = "stopping" THEN lifecycle
                    ELSE IF failed THEN "error" ELSE "stopped"
    /\ Phase(i, "exiting")
    /\ UNCHANGED <<generation, event, set, thread, failed, lease, paused, profileVars,
                   caller, calls, timeouts, faults, over, crossed>>

ThreadEnds(i) ==
    /\ threads[i].phase = "exiting"
    /\ Phase(i, "ended")
    /\ UNCHANGED <<lifecycle, generation, event, set, thread, failed, lease, paused,
                   profileVars, caller, calls, timeouts, faults, over, crossed>>

-----------------------------------------------------------------------------
(* Requests. *)

Arrives(r) ==
    /\ caller[r].pc = "idle" /\ ~over
    /\ HasLoop(r)
    /\ calls < MaxCalls
    /\ calls' = calls + 1

\* start_resident_scheduler_if_needed, after a Start: its answer depends on the window.
StartClick(r) ==
    /\ Arrives(r)
    /\ Goto(r, IF ProfileActive THEN "defer" ELSE "ensure")
    /\ UNCHANGED <<managerVars, lease, paused, profileVars, timeouts, faults, over,
                   crossed>>

DeferStart(r) ==
    /\ At(r, "defer")
    /\ paused' = TRUE
    /\ IF Running THEN GotoThen(r, "stop", "idle") ELSE Goto(r, "idle")
    /\ UNCHANGED <<managerVars, lease, profileVars, calls, timeouts, faults, over, crossed>>

EnsureStarted(r) ==
    /\ At(r, "ensure")
    /\ IF Running THEN Goto(r, "unpause") ELSE GotoThen(r, "check", "unpause")
    /\ UNCHANGED <<managerVars, lease, paused, profileVars, calls, timeouts, faults,
                   over, crossed>>

Unpause(c) ==
    /\ At(c, "unpause")
    /\ paused' = FALSE
    /\ Goto(c, "idle")
    /\ UNCHANGED <<managerVars, lease, profileVars, calls, timeouts, faults, over, crossed>>

\* pause_scheduler_for_profile_use, on the way to what needs the profile.
Pause(r, then) ==
    IF Running
    THEN paused' = TRUE /\ caller' = [caller EXCEPT ![r] = [Idle EXCEPT !.pc = "stop",
                                                  !.then = then, !.was = TRUE]]
    ELSE UNCHANGED paused /\ caller' = [caller EXCEPT ![r] = [Idle EXCEPT !.pc = then]]

OpenClick(r) ==
    /\ Arrives(r)
    /\ Pause(r, "open")
    /\ UNCHANGED <<managerVars, lease, profileVars, timeouts, faults, over, crossed>>

\* ProfileSessionManager.open, in a thread: one window at a time.
OpenWindow(r) ==
    /\ caller[r].pc = "open"
    /\ IF ProfileActive
       THEN Goto(r, "idle") /\ UNCHANGED <<window, session>>
       ELSE \E w \in Windows :
            /\ session[w] = "none"
            /\ window' = w
            /\ session' = [session EXCEPT ![w] = "starting"]
            /\ caller' = [caller EXCEPT ![r].pc = "ready", ![r].win = w]
    /\ UNCHANGED <<managerVars, lease, paused, closing, calls, timeouts, faults, over,
                   crossed>>

WindowOpened(r) ==
    /\ caller[r].pc = "ready" /\ session[caller[r].win] # "starting"
    /\ ~Refused(caller[r].win)
    /\ Goto(r, "idle")
    /\ UNCHANGED <<managerVars, lease, paused, profileVars, calls, timeouts, faults,
                   over, crossed>>

\* The window reported an exception: clear the record, whoever's it is by now.
WindowRefused(r) ==
    /\ caller[r].pc = "ready" /\ Refused(caller[r].win)
    /\ window' = Free
    /\ Goto(r, "resume")
    /\ UNCHANGED <<managerVars, lease, paused, session, closing, calls, timeouts, faults,
                   over, crossed>>

\* ProfileSessionManager.close, in a thread.
CloseClick(r) ==
    /\ Arrives(r)
    /\ IF window = Free
       THEN Goto(r, "resume") /\ UNCHANGED closing
       ELSE /\ closing' = closing \cup {window}
            /\ caller' = [caller EXCEPT ![r] = [Idle EXCEPT !.pc = "join", !.win = window]]
    /\ UNCHANGED <<managerVars, lease, paused, window, session, timeouts, faults, over,
                   crossed>>

CloseJoin(r) ==
    /\ caller[r].pc = "join"
    /\ IF WindowAlive(caller[r].win)
       THEN timeouts < MaxTimeouts /\ timeouts' = timeouts + 1
       ELSE UNCHANGED timeouts
    /\ window' = Free
    /\ Goto(r, "resume")
    /\ UNCHANGED <<managerVars, lease, paused, session, closing, calls, faults, over,
                   crossed>>

\* run_with_temporary_profile_access: a group name is looked up.
LookUpClick(r) ==
    /\ Arrives(r)
    /\ Pause(r, "temp")
    /\ UNCHANGED <<managerVars, lease, profileVars, timeouts, faults, over, crossed>>

LookUp(r) ==
    /\ caller[r].pc = "temp" /\ lease = Free
    /\ lease' = r
    /\ Goto(r, "held")
    /\ UNCHANGED <<managerVars, paused, profileVars, calls, timeouts, faults, over,
                   crossed>>

\* After the action, or because the profile was busy; ok: no incident was recorded.
LookedUp(r, ok) ==
    /\ \/ caller[r].pc = "held" /\ lease' = Free
       \/ caller[r].pc = "temp" /\ lease # Free /\ ok /\ UNCHANGED lease
    /\ HasLoop(r)
    /\ IF caller[r].was /\ ok
       THEN paused' = TRUE /\ IF ProfileActive THEN Goto(r, "idle")
                              ELSE GotoThen(r, "check", "unpause")
       ELSE UNCHANGED paused /\ Goto(r, "idle")
    /\ UNCHANGED <<managerVars, profileVars, calls, timeouts, faults, over, crossed>>

\* The shutdown of the program, once every request has been answered.
Shutdown(r) ==
    /\ Arrives(r)
    /\ \A q \in Requests : caller[q].pc = "idle"
    /\ over' = TRUE
    /\ GotoThen(r, "stop", "exit")
    /\ UNCHANGED <<managerVars, lease, paused, profileVars, timeouts, faults, crossed>>

ExitClose(r) ==
    /\ At(r, "exit")
    /\ closing' = closing \cup (IF window = Free THEN {} ELSE {window})
    /\ caller' = [caller EXCEPT ![r].pc = "exitJoin", ![r].win = window]
    /\ UNCHANGED <<managerVars, lease, paused, window, session, calls, timeouts, faults,
                   over, crossed>>

ExitJoin(r) ==
    /\ At(r, "exitJoin")
    /\ IF WindowAlive(caller[r].win)
       THEN timeouts < MaxTimeouts /\ timeouts' = timeouts + 1
       ELSE UNCHANGED timeouts
    /\ window' = Free
    /\ Goto(r, "idle")
    /\ UNCHANGED <<managerVars, lease, paused, session, closing, calls, faults, over,
                   crossed>>

\* _resume_scheduler_after_profile_use_state; a STOPPING scheduler is left to start().
Resume(c) ==
    /\ At(c, "resume")
    /\ IF paused /\ ~ProfileActive THEN GotoThen(c, "check", "unpause")
       ELSE Goto(c, "idle")
    /\ UNCHANGED <<managerVars, lease, paused, profileVars, calls, timeouts, faults,
                   over, crossed>>

-----------------------------------------------------------------------------
(* A login window: _run_worker. *)

WindowOpens(w) ==
    /\ session[w] = "starting" /\ lease = Free
    /\ lease' = w
    /\ session' = [session EXCEPT ![w] = "open"]
    /\ UNCHANGED <<managerVars, paused, window, closing, caller, calls, timeouts, faults,
                   over, crossed>>

\* The profile is busy, or the browser does not start: reported unless the user
\* closed it himself.
WindowFails(w) ==
    /\ session[w] = "starting"
    /\ IF lease = Free
       THEN /\ faults < MaxFaults /\ faults' = faults + 1
            /\ \E told \in BOOLEAN : caller' = [caller EXCEPT ![w].was = told]
       ELSE caller' = [caller EXCEPT ![w].was = TRUE] /\ UNCHANGED faults
    /\ session' = [session EXCEPT ![w] = "released"]
    /\ UNCHANGED <<managerVars, lease, paused, window, closing, calls, timeouts, over,
                   crossed>>

\* The user closes it, or close() asked for it: the lease goes back.
WindowCloses(w) ==
    /\ session[w] = "open"
    /\ session' = [session EXCEPT ![w] = "released"]
    /\ lease' = Free
    /\ UNCHANGED <<managerVars, paused, window, closing, caller, calls, timeouts, faults,
                   over, crossed>>

\* finally: _clear_active_session and on_close.
WindowClears(w) ==
    /\ session[w] = "released" /\ caller[w].pc = "idle"
    /\ window' = Free
    /\ session' = [session EXCEPT ![w] = "callback"]
    /\ Goto(w, "resume")
    /\ UNCHANGED <<managerVars, lease, paused, closing, calls, timeouts, faults, over,
                   crossed>>

WindowDies(w) ==
    /\ session[w] = "callback" /\ caller[w].pc = "idle"
    /\ session' = [session EXCEPT ![w] = "dead"]
    /\ UNCHANGED <<managerVars, lease, paused, window, closing, caller, calls, timeouts,
                   faults, over, crossed>>

-----------------------------------------------------------------------------

StartOrStop(c) ==
    \/ StartCheck(c) \/ StartBegin(c) \/ Launch(c) \/ Block(c)
    \/ StopMark(c) \/ StopJoin(c) \/ StopEnd(c)
    \/ Resume(c) \/ Unpause(c)

RequestStep(r) ==
    \/ DeferStart(r) \/ EnsureStarted(r)
    \/ OpenWindow(r) \/ WindowOpened(r) \/ WindowRefused(r)
    \/ CloseJoin(r) \/ ExitClose(r) \/ ExitJoin(r)
    \/ LookUp(r) \/ \E ok \in BOOLEAN : LookedUp(r, ok)

ThreadStep(i) ==
    \/ ThreadBegin(i) \/ TakeProfile(i) \/ ProfileBusy(i) \/ Retry(i)
    \/ RunnerReturns(i) \/ Finally(i) \/ ThreadEnds(i)

WindowStep(w) == WindowOpens(w) \/ WindowFails(w) \/ WindowClears(w) \/ WindowDies(w)

Next ==
    \/ \E r \in Requests : \/ StartClick(r) \/ OpenClick(r) \/ CloseClick(r)
                           \/ LookUpClick(r) \/ Shutdown(r) \/ RequestStep(r)
    \/ \E c \in Callers : StartOrStop(c)
    \/ \E i \in Threads : ThreadStep(i) \/ Cycle(i) \/ RunnerFails(i)
    \/ \E w \in Windows : WindowStep(w) \/ WindowCloses(w)

Spec == Init /\ [][Next]_vars

\* Threads and the event loop run on; a window that was asked to close does.
Fairness ==
    /\ \A c \in Callers : WF_vars(StartOrStop(c))
    /\ \A r \in Requests : WF_vars(RequestStep(r))
    /\ \A i \in Threads : WF_vars(ThreadStep(i))
    /\ \A w \in Windows : WF_vars(WindowStep(w)) /\ WF_vars(w \in closing /\ WindowCloses(w))

FairSpec == Spec /\ Fairness

-----------------------------------------------------------------------------
(* Properties. *)

Pcs == Awaiting \cup {"defer", "ensure", "unpause", "resume", "check", "begin",
                      "preflight", "stop", "stopJoin", "stopEnd", "exit", "exitJoin"}

Thens == {"idle", "unpause", "open", "temp", "exit"}
Lifecycles == {"stopped", "starting", "running", "stopping", "error"}
Phases == {"none", "new", "launching", "scanning", "waiting", "leaving", "exiting", "ended"}
ThreadRecord == [phase : Phases, event : Nat]
WindowPhases == {"none", "starting", "open", "released", "callback", "dead"}
CallerRecord == [pc : Pcs, then : Thens, gen : Nat, was : BOOLEAN, win : Windows \cup {Free}]

\* The variables stay in their types.
TypeOK ==
    /\ lifecycle \in Lifecycles
    /\ generation \in Nat /\ event \in Nat /\ set \subseteq Nat
    /\ thread \in Threads \cup {None}
    /\ threads \in [Threads -> ThreadRecord]
    /\ failed \in BOOLEAN /\ paused \in BOOLEAN /\ over \in BOOLEAN
    /\ lease \in {Free, Scheduler} \cup Callers
    /\ window \in Windows \cup {Free}
    /\ session \in [Windows -> WindowPhases]
    /\ closing \subseteq Windows
    /\ caller \in [Callers -> CallerRecord]
    /\ {calls, timeouts, faults} \subseteq Nat
    /\ crossed \subseteq Threads

\* A thread that has not been told to stop; a new one takes the current event.
Unstopped(i) ==
    /\ ThreadAlive(i)
    /\ (IF threads[i].phase = "new" THEN event ELSE threads[i].event) \notin set

\* The manager forgets a living thread only if that thread was launched while
\* another start() was between its two lock sections: neither an overlapping stop,
\* nor a join that timed out, nor a slow preflight makes it run a second one.
OnlyCrossedThreadsAreLost ==
    \A i \in Threads : ThreadAlive(i) /\ i # thread => i \in crossed

\* The next stop() reaches every thread that was not told to stop (it is the
\* manager's own and holds its current stop event), but for those launched in the gap.
StopReachesUncrossedThread ==
    \A i \in Threads :
        Unstopped(i) => i \in crossed \/ (i = thread /\ threads[i].event \in {0, event})

\* STARTING does not last: the preflight's answer, or the stop that came in
\* between, takes the manager out of it, unless a thread that was launched in the
\* gap of that start runs on for ever.
StartingEnds ==
    []<>~(Running /\ thread \in crossed) => []<>(lifecycle # "starting")

\* The manager runs one scheduler thread at a time (its module docstring).
OneSchedulerThread == Cardinality({i \in Threads : ThreadAlive(i)}) <= 1

\* The same two without the exception: the next stop() reaches every thread, and a
\* blocked start always leaves STARTING (_block_start_for_preflight_failure).
StopReachesThread ==
    \A i \in Threads : Unstopped(i) => i = thread /\ threads[i].event \in {0, event}
StartingAlwaysEnds == []<>(lifecycle # "starting")

\* `Scheduler is stopping; wait for it to finish before starting.' (start()):
\* STOPPING means that a thread, or a stop(), is still at work.
StoppingIsWork ==
    lifecycle = "stopping" =>
        \/ \E i \in Threads : ThreadAlive(i)
        \/ \E c \in Callers : caller[c].pc \in {"stop", "stopJoin", "stopEnd"}

\* is_active() answers whether a login window is open (its docstring).
OpenWindowIsActive == \A w \in Windows : session[w] = "open" => ProfileActive

\* The program waits for its background services to shut down (docs/USAGE.md:43):
\* afterwards no scheduler thread is left without a stop.
ShutdownIsFinal ==
    over /\ (\A r \in Requests : caller[r].pc = "idle") => \A i \in Threads : ~Unstopped(i)

=============================================================================
