------------------------- MODULE TargetMaintenance -------------------------
(***************************************************************************)
(* The row of one target (`targets') and its cover refresh job             *)
(* (`target_cover_image_refresh_state').  A tick of the resident worker    *)
(* that finds no target due refreshes either the Facebook name or the      *)
(* cover image of this one; the Web UI renames, stops and starts it and    *)
(* reports broken images.                                                  *)
(*                                                                         *)
(* Every service reads the whole target row with one SELECT and saves the  *)
(* whole row later.  Only Start does both under BEGIN IMMEDIATE, so every  *)
(* other read and save are two actions.                                    *)
(***************************************************************************)
EXTENDS Naturals

CONSTANTS
    Urls,        \* images that may serve as a cover
    Logo,        \* Facebook's generic picture, refused as a cover
    NoUrl,
    Names,
    MaxRequests, MaxEdits, MaxFaults    \* bounds of the model

ASSUME UrlsAssumption ==
    /\ Logo \notin Urls /\ NoUrl \notin Urls /\ Logo # NoUrl
    /\ {MaxRequests, MaxEdits, MaxFaults} \subseteq Nat

VARIABLES
    row,        \* url, name, paused, meta (metadata_status) of the target
    desired,    \* desired_state of its runtime row
    job,        \* status, url (last_reported_url) and at (requested_at)
    report,     \* a request_refresh that has read, and is about to write
    recent,     \* the last request lies within the throttle interval
    runtime,    \* runtime_status of that row: busy is QUEUED or RUNNING
    quiet,      \* a tick found no target due; its maintenance has yet to look
    worker,     \* the maintenance task: phase, job token, result, read row
    cmd,        \* a Web command between its read and its save
    requests, edits, faults,
    listed,     \* history: requests a worker has taken up
    attempted   \* history: requests whose attempt has been stored

reportVars == <<job, report, recent, requests>>
targetVars == <<row, desired, runtime>>
taskVars == <<worker, quiet, listed, attempted>>
vars == <<reportVars, targetVars, taskVars, cmd, edits, faults>>

NoRow == [url |-> NoUrl, name |-> "", paused |-> FALSE, meta |-> ""]
NoReport == [url |-> NoUrl, at |-> 0]
NoCommand == [kind |-> "none", value |-> "", snap |-> NoRow]
Free == [phase |-> "free", url |-> NoUrl, at |-> 0, found |-> NoUrl, snap |-> NoRow]

Init ==
    /\ row \in [url : Urls \cup {Logo, NoUrl}, name : Names, paused : BOOLEAN,
                meta : {"pending", "resolved"}]
    /\ desired = IF row.paused THEN "stopped" ELSE "active"
    /\ job = [status |-> "none", url |-> NoUrl, at |-> 0]
    /\ report = NoReport
    /\ recent = FALSE
    /\ runtime = "idle" /\ quiet = FALSE
    /\ worker = Free /\ cmd = NoCommand
    /\ requests = 0 /\ edits = 0 /\ faults = 0
    /\ listed = {} /\ attempted = {}

-----------------------------------------------------------------------------
(* Requests: the browser could not load the cover, or a tick found the Logo. *)

\* request_refresh asks for the same url once per interval, and not twice.
Wanted(u) == ~(job.url = u /\ (job.status = "pending" \/ recent))

RequestRefresh(u) ==
    /\ u = row.url /\ u # NoUrl
    /\ report = NoReport /\ requests < MaxRequests
    /\ Wanted(u)
    /\ requests' = requests + 1
    /\ report' = [url |-> u, at |-> requests + 1]
    /\ UNCHANGED <<job, recent, targetVars, taskVars, cmd, edits, faults>>

StoreRequest ==
    /\ report # NoReport
    /\ job' = [status |-> "pending", url |-> report.url, at |-> report.at]
    /\ recent' = TRUE
    /\ report' = NoReport
    /\ UNCHANGED <<requests, targetVars, taskVars, cmd, edits, faults>>

IntervalPasses ==
    /\ recent
    /\ recent' = FALSE
    /\ UNCHANGED <<job, report, requests, targetVars, taskVars, cmd, edits, faults>>

-----------------------------------------------------------------------------
(* The cover image attempt of a tick. *)

\* Mutant: the request is recognised by its url alone.
TokenByUrl == job.status = "pending" /\ job.url = worker.url
\* _target_pending_token_where: still the request the worker has taken.
Token == job.status = "pending" /\ job.url = worker.url /\ job.at = worker.at

\* Mutant: a request for an image no longer shown is skipped, not ended.
EndUnlessStale(outcome) ==
    job' = IF Token /\ outcome # "stale" THEN [job EXCEPT !.status = outcome] ELSE job
End(outcome) == job' = IF Token THEN [job EXCEPT !.status = outcome] ELSE job

\* QUEUED, RUNNING and ERROR targets are left alone.
Eligible == runtime = "idle"

\* A tick of the scheduler finds no target due, so that it has time for maintenance.
QuietTick ==
    /\ ~quiet /\ worker = Free
    /\ quiet' = TRUE
    /\ UNCHANGED <<reportVars, targetVars, worker, listed, attempted, cmd, edits, faults>>

TakesUp(task) == worker' = task /\ quiet' = FALSE

\* A quiet tick asks for a name first, and else lists the pending covers.
ListPending ==
    /\ quiet /\ worker = Free /\ Eligible
    /\ row.meta # "pending" /\ job.status = "pending"
    /\ TakesUp([Free EXCEPT !.phase = "listed", !.url = job.url, !.at = job.at])
    /\ listed' = listed \cup {job.at}
    /\ UNCHANGED <<reportVars, targetVars, attempted, cmd, edits, faults>>

\* Nothing is pending, or the target may not be touched.
PassOver ==
    /\ quiet /\ worker = Free
    /\ Eligible => row.meta # "pending" /\ job.status # "pending"
    /\ TakesUp(Free)
    /\ UNCHANGED <<reportVars, targetVars, listed, attempted, cmd, edits, faults>>

BeginAttempt ==
    /\ worker.phase = "listed"
    /\ IF row.url # worker.url
       THEN End("stale") /\ worker' = Free /\ UNCHANGED attempted
       ELSE IF Token
       THEN /\ worker' = [worker EXCEPT !.phase = "resolving"]
            /\ attempted' = attempted \cup {worker.at}
            /\ UNCHANGED job
       ELSE worker' = Free /\ UNCHANGED <<job, attempted>>
    /\ UNCHANGED <<report, recent, requests, targetVars, quiet, listed, cmd, edits, faults>>

\* The page has an image; the row must still show the reported one.
Resolve(u) ==
    /\ worker.phase = "resolving"
    /\ IF row.url # worker.url
       THEN End("stale") /\ worker' = Free
       ELSE IF u = Logo
       THEN End("failed") /\ worker' = Free
       ELSE /\ worker' = [worker EXCEPT !.phase = "compared", !.found = u]
            /\ UNCHANGED job
    /\ UNCHANGED <<report, recent, requests, targetVars, quiet, listed, attempted, cmd, edits,
                   faults>>

\* No image on the page: a Logo is cleared, any other cover is kept.
ResolveFails ==
    /\ worker.phase = "resolving"
    /\ IF row.url # worker.url
       THEN worker' = Free /\ UNCHANGED job
       ELSE IF row.url = Logo
       THEN /\ worker' = [worker EXCEPT !.phase = "compared", !.found = NoUrl]
            /\ UNCHANGED job
       ELSE End("failed") /\ worker' = Free
    /\ UNCHANGED <<report, recent, requests, targetVars, quiet, listed, attempted, cmd, edits,
                   faults>>

\* A runtime failure or a shutdown leaves the request pending.
RuntimeFails ==
    /\ worker.phase \in {"resolving", "asking"} /\ faults < MaxFaults
    /\ worker' = Free
    /\ faults' = faults + 1
    /\ UNCHANGED <<reportVars, targetVars, quiet, listed, attempted, cmd, edits>>

\* Any other exception of the refresh, the storing of its attempt included, which is
\* then undone: the request fails, whatever the row shows by now.
RefreshRaises ==
    /\ worker.phase \in {"listed", "resolving", "compared", "fetched"} /\ faults < MaxFaults
    /\ End("failed")
    /\ worker' = Free
    /\ faults' = faults + 1
    /\ UNCHANGED <<report, recent, requests, targetVars, quiet, listed, attempted, cmd,
                   edits>>

\* refresh_target_group_cover_image reads the row again, and saves all of it.
FetchRow ==
    /\ worker.phase = "compared"
    /\ worker' = [worker EXCEPT !.phase = "fetched", !.snap = row]
    /\ UNCHANGED <<reportVars, targetVars, quiet, listed, attempted, cmd, edits, faults>>

SaveCover ==
    /\ worker.phase = "fetched"
    /\ row' = IF worker.found = NoUrl /\ worker.snap.url # Logo THEN row
              ELSE [worker.snap EXCEPT !.url = worker.found]
    /\ End("succeeded")
    /\ worker' = Free
    /\ UNCHANGED <<report, recent, requests, desired, runtime, quiet, listed, attempted, cmd,
                   edits, faults>>

-----------------------------------------------------------------------------
(* The metadata attempt of a tick: name and cover of the group page. *)

AskMetadata ==
    /\ quiet /\ worker = Free /\ Eligible
    /\ row.meta = "pending"
    /\ TakesUp([Free EXCEPT !.phase = "asking"])
    /\ UNCHANGED <<reportVars, targetVars, listed, attempted, cmd, edits, faults>>

FetchForMetadata(u) ==
    /\ worker.phase = "asking"
    /\ worker' = [worker EXCEPT !.phase = "asked", !.found = u, !.snap = row]
    /\ UNCHANGED <<reportVars, targetVars, quiet, listed, attempted, cmd, edits, faults>>

\* refresh_target_group_metadata with overwrite_name; Logo: the page was refused.
SaveMetadata(n) ==
    /\ worker.phase = "asked"
    /\ row' = IF worker.found = Logo THEN [worker.snap EXCEPT !.meta = "failed"]
              ELSE [worker.snap EXCEPT !.name = n, !.meta = "resolved",
                                       !.url = IF worker.found # NoUrl THEN worker.found
                                               ELSE IF @ = Logo THEN NoUrl ELSE @]
    /\ worker' = Free
    /\ UNCHANGED <<reportVars, desired, runtime, quiet, listed, attempted, cmd, edits, faults>>

-----------------------------------------------------------------------------
(* Web commands. *)

Command(kind, value) ==
    /\ cmd = NoCommand /\ edits < MaxEdits
    /\ cmd' = [kind |-> kind, value |-> value, snap |-> row]
    /\ edits' = edits + 1
    /\ UNCHANGED <<reportVars, targetVars, taskVars, faults>>

\* update_target_status, update_target_name, mark_target_metadata_refresh_pending; a
\* stop writes a fresh runtime row with it.
SaveCommand ==
    /\ cmd # NoCommand
    /\ row' = CASE cmd.kind = "pause" -> [cmd.snap EXCEPT !.paused = TRUE]
                [] cmd.kind = "rename" -> [cmd.snap EXCEPT !.name = cmd.value,
                                                           !.meta = "resolved"]
                [] cmd.kind = "metadata" -> [cmd.snap EXCEPT !.meta = "pending"]
    /\ IF cmd.kind = "pause" THEN desired' = "stopped" /\ runtime' = "idle"
       ELSE UNCHANGED <<desired, runtime>>
    /\ cmd' = NoCommand
    /\ UNCHANGED <<reportVars, taskVars, edits, faults>>

\* restart_target_monitoring_action: read and save in one immediate transaction; it
\* is the user's way out of ERROR.
Start ==
    /\ edits < MaxEdits
    /\ row' = [row EXCEPT !.paused = FALSE]
    /\ desired' = "active" /\ runtime' = "idle"
    /\ edits' = edits + 1
    /\ UNCHANGED <<reportVars, taskVars, cmd, faults>>

\* Scans of the target come and go; one may leave it in ERROR.
ScanBegins ==
    /\ runtime = "idle" /\ desired = "active"
    /\ runtime' = "busy"
    /\ UNCHANGED <<reportVars, row, desired, taskVars, cmd, edits, faults>>

ScanEnds ==
    /\ runtime = "busy"
    /\ runtime' \in {"idle", "error"}
    /\ UNCHANGED <<reportVars, row, desired, taskVars, cmd, edits, faults>>

-----------------------------------------------------------------------------

TickLooks == AskMetadata \/ ListPending \/ PassOver

Maintenance ==
    \/ BeginAttempt \/ ResolveFails \/ FetchRow \/ SaveCover
    \/ \E u \in Urls \cup {Logo} : Resolve(u)
    \/ \E u \in Urls \cup {Logo, NoUrl} : FetchForMetadata(u)
    \/ \E n \in Names : SaveMetadata(n)

Next ==
    \/ \E u \in Urls \cup {Logo} : RequestRefresh(u)
    \/ StoreRequest \/ IntervalPasses
    \/ QuietTick \/ TickLooks \/ Maintenance \/ RuntimeFails \/ RefreshRaises
    \/ \E n \in Names : Command("rename", n)
    \/ \E kind \in {"pause", "metadata"} : Command(kind, "")
    \/ SaveCommand \/ Start
    \/ ScanBegins \/ ScanEnds

Spec == Init /\ [][Next]_vars

\* A quiet tick looks, a task that has begun goes on and a scan ends.  Nothing makes a
\* tick quiet: some target may always be due.
Fairness == WF_vars(TickLooks) /\ WF_vars(Maintenance) /\ WF_vars(ScanEnds)

FairSpec == Spec /\ Fairness

-----------------------------------------------------------------------------
(* Properties. *)

Images == Urls \cup {Logo, NoUrl}
Row == [url : Images, name : Names \cup {""}, paused : BOOLEAN,
        meta : {"", "pending", "resolved", "failed"}]
Job == [status : {"none", "pending", "stale", "succeeded", "failed"}, url : Images, at : Nat]
Report == [url : Images, at : Nat]
Task == [phase : {"free", "listed", "resolving", "compared", "fetched", "asking", "asked"},
         url : Images, at : Nat, found : Images, snap : Row]
WebCommand == [kind : {"none", "pause", "rename", "metadata"}, value : Names \cup {""},
               snap : Row]

TypeOK ==
    /\ row \in Row
    /\ desired \in {"active", "stopped"}
    /\ job \in Job
    /\ report \in Report
    /\ recent \in BOOLEAN /\ quiet \in BOOLEAN
    /\ runtime \in {"idle", "busy", "error"}
    /\ worker \in Task
    /\ cmd \in WebCommand
    /\ requests \in Nat /\ edits \in Nat /\ faults \in Nat
    /\ listed \subseteq Nat /\ attempted \subseteq Nat

\* A request ends only by a worker that took up that very request, and succeeds only
\* if its own attempt was stored: a slow worker that still holds an older request,
\* or fails at any point, cannot end a newer one for the same image (the pending
\* token of mark_succeeded, mark_stale_skipped and mark_failed).
EndedRequestWasTaken ==
    /\ job.status \in {"stale", "succeeded", "failed"} => job.at \in listed
    /\ job.status = "succeeded" => job.at \in attempted

Pending(n) == job.status = "pending" /\ job.at = n

\* If quiet ticks find the target idle again and again, every pending request ends,
\* or is replaced by a newer one.
PendingRequestEnds ==
    []<><<quiet /\ Eligible /\ ~quiet'>>_vars =>
        \A n \in 1..MaxRequests : Pending(n) ~> ~Pending(n)

\* docs/ARCHITECTURE.md:166: a stop is the target's `paused' together with the
\* desired state STOPPED.  The Web commands store the two in one transaction.
StopIsBoth == row.paused <=> desired = "stopped"

=============================================================================
