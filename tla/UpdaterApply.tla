---------------------------- MODULE UpdaterApply ----------------------------
(***************************************************************************)
(* The self-update: the settings page downloads a release and writes the   *)
(* handoff pending_update.json (update_flow.py, handoff.py), launches a    *)
(* temporary copy of the updater (updates/launcher.py), and that process   *)
(* replaces the app files once the app has exited (updates/apply.py).      *)
(*                                                                         *)
(* Several updaters may be launched from one app.  What keeps them and the *)
(* app apart are two file locks the operating system frees when a process  *)
(* dies: the update operation lock and the app instance lock.              *)
(* Every part of the app tree is copied in two steps, so that an error or  *)
(* a crash finds a half-written tree.                                      *)
(***************************************************************************)
EXTENDS Naturals, FiniteSets

CONSTANTS
    Updaters, Parts,
    Versions,                             \* versions of the app, numbers
    Absent, Torn,                         \* a part that is missing, or half-written
    MaxHandoffs, MaxFaults, MaxCrashes    \* bounds of the model

None == "none"
App == "app"

ASSUME UpdaterAssumption ==
    /\ None \notin Updaters /\ App \notin Updaters
    /\ Parts # {}
    /\ Versions \subseteq Nat \ {0}
    /\ Absent \notin Versions /\ Torn \notin Versions /\ Absent # Torn
    /\ MaxHandoffs \in Nat /\ MaxFaults \in Nat /\ MaxCrashes \in Nat

VARIABLES
    tree,      \* version of each part of the app tree
    pending,   \* pending_update.json: no file, or a handoff, perhaps overwritten by its marker
    marker,    \* pending_update.applied.json
    packages,  \* handoffs whose verified download set is on disk
    backup,    \* the backup directory each updater made
    opLock, appLock,
    running,   \* version the app loaded when it started, 0 when it is not up
    download,  \* what the app does under the operation lock
    fetched,   \* the verified download it has published
    pc, loaded, code, restarts,   \* an updater: its step, its handoff, its APP_VERSION, its --restart
    installed, \* version of the last successful replacement
    wreck,     \* a replacement was cut short and not undone
    applied,   \* how often each handoff was applied
    made, faults, crashes

locks == <<opLock, appLock>>
files == <<tree, pending, marker, packages, backup>>
app == <<running, download, fetched>>
history == <<installed, wreck, applied>>
vars == <<files, locks, app, pc, loaded, code, restarts, history, made, faults, crashes>>

Handoffs == [id : 1..MaxHandoffs, version : Versions]
Contents == Versions \cup {Absent, Torn}
NoHandoff == [id |-> 0, version |-> 0]
NoFile == [handoff |-> NoHandoff, consumed |-> FALSE]
Whole(t) == \E v \in Versions : t = [p \in Parts |-> v]
NoTree == [p \in Parts |-> Absent]

Init ==
    /\ \E v \in Versions : /\ tree = [p \in Parts |-> v]
                           /\ installed = v
    /\ pending = NoFile /\ marker = NoHandoff /\ packages = {}
    /\ backup = [u \in Updaters |-> NoTree]
    /\ opLock = None /\ appLock = None
    /\ running = 0 /\ download = "idle" /\ fetched = NoHandoff
    /\ pc = [u \in Updaters |-> "idle"]
    /\ loaded = [u \in Updaters |-> NoHandoff]
    /\ code = [u \in Updaters |-> 0]
    /\ restarts = [u \in Updaters |-> FALSE]
    /\ wreck = FALSE /\ applied = [h \in 1..MaxHandoffs |-> 0]
    /\ made = 0 /\ faults = 0 /\ crashes = 0

Fault == faults < MaxFaults /\ faults' = faults + 1
-----------------------------------------------------------------------------
(* The app and its settings page. *)

\* A process that finds the app lock taken hands over to the running instance and exits.
StartApp ==
    /\ appLock = None
    /\ \E v \in Versions : tree = [p \in Parts |-> v] /\ running' = v
    /\ appLock' = App
    /\ UNCHANGED <<files, opLock, download, fetched, pc, loaded, code, restarts, history, made, faults, crashes>>

\* The app stops, asked to or not; the system frees its locks.
AppExits ==
    /\ running # 0
    /\ running' = 0 /\ download' = "idle" /\ fetched' = NoHandoff
    /\ appLock' = None
    /\ opLock' = IF opLock = App THEN None ELSE opLock
    /\ UNCHANGED <<files, pc, loaded, code, restarts, history, made, faults, crashes>>

\* Download, or download and apply: both hold the operation lock until they end.
BeginDownload(kind) ==
    /\ running # 0
    /\ opLock = None
    /\ opLock' = App
    /\ download' = kind
    /\ UNCHANGED <<files, appLock, running, fetched, pc, loaded, code, restarts, history, made, faults, crashes>>

\* The check, the download, a verification or the handoff fails; what was published stays.
DownloadFails ==
    /\ download # "idle"
    /\ opLock' = None
    /\ download' = "idle" /\ fetched' = NoHandoff
    /\ UNCHANGED <<files, appLock, running, pc, loaded, code, restarts, history, made, faults, crashes>>

\* A newer release is verified and its download set published, in a directory of its own.
Publish ==
    /\ download \in {"download", "download-and-apply"}
    /\ fetched = NoHandoff
    /\ made < MaxHandoffs
    /\ made' = made + 1
    /\ \E v \in Versions : v > running /\ fetched' = [id |-> made + 1, version |-> v]
    /\ packages' = packages \cup {made + 1}
    /\ UNCHANGED <<tree, pending, marker, backup, locks, running, download, pc, loaded, code, restarts,
                   history, faults, crashes>>

\* write_pending_update: an atomic replacement of the pending file, whatever it held.
WriteHandoff ==
    /\ fetched # NoHandoff
    /\ pending' = [handoff |-> fetched, consumed |-> FALSE]
    /\ fetched' = NoHandoff
    /\ download' = IF download = "download" THEN "idle" ELSE "launch"
    /\ opLock' = IF download = "download" THEN None ELSE opLock
    /\ UNCHANGED <<tree, marker, packages, backup, appLock, running, pc, loaded, code, restarts, history,
                   made, faults, crashes>>

\* launch_temp_updater: any file at the pending path will do; the copy is of this app's version.
Launch(u) ==
    /\ running # 0
    /\ opLock = None \/ download = "launch"
    /\ pending # NoFile
    /\ pc[u] = "idle"
    /\ pc' = [pc EXCEPT ![u] = "start"]
    /\ code' = [code EXCEPT ![u] = running]
    /\ restarts' = [restarts EXCEPT ![u] = TRUE]
    /\ download' = "idle"
    /\ opLock' = None
    /\ UNCHANGED <<files, appLock, running, fetched, loaded, history, made, faults, crashes>>
-----------------------------------------------------------------------------
(* The updater: handoff and locks. *)

Readable == pending # NoFile /\ ~pending.consumed

\* updater.main: a handoff that cannot be read now is read once more, without the restart.
Load(u) ==
    /\ \/ /\ pc[u] \in {"start", "again"}
          /\ Readable
          /\ loaded' = [loaded EXCEPT ![u] = pending.handoff]
          /\ pc' = [pc EXCEPT ![u] = "waitOp"]
          /\ UNCHANGED restarts
       \/ /\ pc[u] = "start"
          /\ ~Readable
          /\ pc' = [pc EXCEPT ![u] = "again"]
          /\ restarts' = [restarts EXCEPT ![u] = FALSE]
          /\ UNCHANGED loaded
       \/ /\ pc[u] = "again"
          /\ ~Readable
          /\ pc' = [pc EXCEPT ![u] = "ended"]
          /\ UNCHANGED <<loaded, restarts>>
    /\ UNCHANGED <<files, locks, app, code, history, made, faults, crashes>>

\* The end of a run that applied nothing: leaving the contexts frees what it holds.
EndsUnapplied(u) ==
    /\ pc' = [pc EXCEPT ![u] = "ended"]
    /\ opLock' = IF opLock = u THEN None ELSE opLock
    /\ appLock' = IF appLock = u THEN None ELSE appLock

TakeOperationLock(u) ==
    /\ pc[u] = "waitOp"
    /\ opLock = None
    /\ opLock' = u
    /\ pc' = [pc EXCEPT ![u] = "check"]
    /\ UNCHANGED <<files, appLock, app, loaded, code, restarts, history, made, faults, crashes>>

\* Mutant: any readable handoff stands for the one that was loaded.
CurrentIfPresent(u) == Readable
\* Mutant: the marker of an applied handoff is not looked at.
CurrentIfUnchanged(u) == Readable /\ pending.handoff = loaded[u]
\* _validate_loaded_pending_update_file_is_current.
IsCurrent(u) ==
    /\ marker # loaded[u]
    /\ Readable
    /\ pending.handoff = loaded[u]

\* _apply_pending_update_locked up to the app lock: newer than this updater, package intact.
Accepts(u) ==
    /\ loaded[u].version > code[u]
    /\ loaded[u].id \in packages

CheckHandoff(u) ==
    /\ pc[u] = "check"
    /\ IF IsCurrent(u) /\ Accepts(u)
       THEN /\ pc' = [pc EXCEPT ![u] = "waitApp"]
            /\ UNCHANGED locks
       ELSE EndsUnapplied(u)
    /\ UNCHANGED <<files, app, loaded, code, restarts, history, made, faults, crashes>>

\* Mutant: the updater does not wait for the app to exit.
AppIsGoneSoon == appLock \in {None, App}
AppIsGone == appLock = None

TakeAppLock(u) ==
    /\ pc[u] = "waitApp"
    /\ AppIsGone
    /\ appLock' = u
    /\ pc' = [pc EXCEPT ![u] = "staged"]
    /\ UNCHANGED <<files, opLock, app, loaded, code, restarts, history, made, faults, crashes>>

\* Mutant: the wait for the app has no deadline.
OverdueForOperation(u) == pc[u] = "waitOp" /\ opLock # None
\* The deadline of either wait passes while another process holds the lock.
Overdue(u) ==
    \/ pc[u] = "waitOp" /\ opLock # None
    \/ pc[u] = "waitApp" /\ appLock # None

GiveUp(u) ==
    /\ Overdue(u)
    /\ EndsUnapplied(u)
    /\ UNCHANGED <<files, app, loaded, code, restarts, history, made, faults, crashes>>
-----------------------------------------------------------------------------
(* The updater: staging, backup, replacement and rollback, under both locks. *)

\* Mutant: the old backups go as soon as a new one is begun.
BackupAlone(u) == [v \in Updaters |-> NoTree]
\* A new, empty backup directory.
BackupBegun(u) == [backup EXCEPT ![u] = NoTree]

\* validate_current_app_root only looks at the names.
LooksComplete == \A p \in Parts : tree[p] # Absent

\* Staging is unpacked and validated; the app tree must have every required part.
BeginBackup(u) ==
    /\ pc[u] = "staged"
    /\ IF LooksComplete
       THEN /\ pc' = [pc EXCEPT ![u] = "saving"]
            /\ backup' = BackupBegun(u)
            /\ UNCHANGED locks
       ELSE /\ EndsUnapplied(u)
            /\ UNCHANGED backup
    /\ UNCHANGED <<tree, pending, marker, packages, app, loaded, code, restarts, history, made, faults, crashes>>

SavePart(u, p) ==
    /\ pc[u] = "saving"
    /\ backup[u][p] # tree[p]
    /\ backup' = [backup EXCEPT ![u][p] = tree[p]]
    /\ UNCHANGED <<tree, pending, marker, packages, locks, app, pc, loaded, code, restarts, history, made,
                   faults, crashes>>

Saved(u) ==
    /\ pc[u] = "saving"
    /\ backup[u] = tree
    /\ pc' = [pc EXCEPT ![u] = "removing"]
    /\ UNCHANGED <<files, locks, app, loaded, code, restarts, history, made, faults, crashes>>

\* replace_app_files and restore_backup both empty the tree before they copy.
RemovePart(u, p) ==
    /\ pc[u] \in {"removing", "unwinding"}
    /\ tree[p] # Absent
    /\ tree' = [tree EXCEPT ![p] = Absent]
    /\ UNCHANGED <<pending, marker, packages, backup, locks, app, pc, loaded, code, restarts, history, made,
                   faults, crashes>>

Removed(u) ==
    /\ pc[u] \in {"removing", "unwinding"}
    /\ tree = NoTree
    /\ pc' = [pc EXCEPT ![u] = IF @ = "removing" THEN "copying" ELSE "restoring"]
    /\ UNCHANGED <<files, locks, app, loaded, code, restarts, history, made, faults, crashes>>

\* What the copy writes: the staged version, or the backup.
Source(u) ==
    CASE pc[u] = "copying" -> [p \in Parts |-> loaded[u].version]
      [] OTHER -> backup[u]

CopyPart(u, p) ==
    /\ pc[u] \in {"copying", "restoring"}
    /\ tree[p] # Source(u)[p]
    /\ tree' = [tree EXCEPT ![p] = IF @ = Absent THEN Torn ELSE Source(u)[p]]
    /\ UNCHANGED <<pending, marker, packages, backup, locks, app, pc, loaded, code, restarts, history, made,
                   faults, crashes>>

\* The app lock is freed; the operation lock is kept for the cleanup.
Replaced(u) ==
    /\ pc[u] = "copying"
    /\ tree = Source(u)
    /\ pc' = [pc EXCEPT ![u] = "mark"]
    /\ appLock' = None
    /\ installed' = loaded[u].version
    /\ wreck' = FALSE
    /\ applied' = [applied EXCEPT ![loaded[u].id] = @ + 1]
    /\ UNCHANGED <<files, opLock, app, loaded, code, restarts, made, faults, crashes>>

Restored(u) ==
    /\ pc[u] = "restoring"
    /\ tree = Source(u)
    /\ EndsUnapplied(u)
    /\ UNCHANGED <<files, app, loaded, code, restarts, history, made, faults, crashes>>

\* Mutant: only an error before the first copy is undone.
UndoneIfRemoving == {"removing"}
\* Errors inside replace_app_files are undone by restore_backup.
Undone == {"removing", "copying"}

Touching(u) == pc[u] \in {"removing", "copying", "unwinding", "restoring"}

\* An error of the file system: it may leave a part half-removed.
Fails(u) ==
    /\ Fault
    /\ pc[u] \in {"staged", "saving"} \/ Touching(u)
    /\ tree' \in {tree} \cup
         {[tree EXCEPT ![p] = Torn] : p \in {q \in Parts : Touching(u) /\ tree[q] # Absent}}
    /\ IF pc[u] \in Undone
       THEN /\ pc' = [pc EXCEPT ![u] = "unwinding"]
            /\ UNCHANGED <<locks, wreck>>
       ELSE /\ EndsUnapplied(u)
            /\ wreck' = (wreck \/ pc[u] \in {"unwinding", "restoring"})
    /\ UNCHANGED <<pending, marker, packages, backup, app, loaded, code, restarts, installed, applied, made,
                   crashes>>
-----------------------------------------------------------------------------
(* The updater: cleanup, still under the operation lock, then the restart. *)

\* Mutant: the marker leaves out the version.
MarkUnversioned(u) == [loaded[u] EXCEPT !.version = 0]
Mark(u) == loaded[u]

\* _overwrite_pending_update_with_consumed_marker.
Overwritten(u) == [handoff |-> loaded[u], consumed |-> TRUE]

\* _write_consumed_pending_update_marker; the second error is that of the fallback.
WriteMarker(u) ==
    /\ pc[u] = "mark"
    /\ pc' = [pc EXCEPT ![u] = "package"]
    /\ \/ marker' = Mark(u) /\ UNCHANGED <<pending, faults>>
       \/ Fault /\ pending' = Overwritten(u) /\ UNCHANGED marker
       \/ faults + 1 < MaxFaults /\ faults' = faults + 2 /\ UNCHANGED <<pending, marker>>
    /\ UNCHANGED <<tree, packages, backup, locks, app, loaded, code, restarts, history, made, crashes>>

\* _cleanup_applied_update: the download set, then the handoff; an error is only a warning.
DropPackage(u) ==
    /\ pc[u] = "package"
    /\ pc' = [pc EXCEPT ![u] = "handoff"]
    /\ \/ packages' = packages \ {loaded[u].id} /\ UNCHANGED faults
       \/ Fault /\ UNCHANGED packages
    /\ UNCHANGED <<tree, pending, marker, backup, locks, app, loaded, code, restarts, history, made, crashes>>

DropHandoff(u) ==
    /\ pc[u] = "handoff"
    /\ pc' = [pc EXCEPT ![u] = "prune"]
    /\ \/ pending' = NoFile /\ UNCHANGED faults
       \/ Fault /\ UNCHANGED pending
    /\ UNCHANGED <<tree, marker, packages, backup, locks, app, loaded, code, restarts, history, made, crashes>>

\* _selected_backup_keep_set: the backup of this run alone fills the keep count.
Kept(u) == {u}

\* _cleanup_old_backup_dirs; the operation lock is freed.
Prune(u) ==
    /\ pc[u] = "prune"
    /\ pc' = [pc EXCEPT ![u] = "restart"]
    /\ \/ /\ backup' = [v \in Updaters |-> IF v \in Kept(u) THEN backup[v] ELSE NoTree]
          /\ UNCHANGED faults
       \/ Fault /\ UNCHANGED backup
    /\ opLock' = None
    /\ UNCHANGED <<tree, pending, marker, packages, appLock, app, loaded, code, restarts, history, made, crashes>>

\* launch_restarted_app: the new process takes the app lock, or exits if another has it.
Restart(u) ==
    /\ pc[u] = "restart"
    /\ pc' = [pc EXCEPT ![u] = "ended"]
    /\ \/ /\ restarts[u] /\ appLock = None
          /\ \E v \in Versions : tree = [p \in Parts |-> v] /\ running' = v
          /\ appLock' = App
       \/ UNCHANGED <<running, appLock>>
    /\ UNCHANGED <<files, opLock, download, fetched, loaded, code, restarts, history, made, faults, crashes>>

\* The updater is killed, or the machine goes down: only the files stay.
Crash(u) ==
    /\ crashes < MaxCrashes
    /\ crashes' = crashes + 1
    /\ pc[u] \notin {"idle", "ended"}
    /\ EndsUnapplied(u)
    /\ wreck' = (wreck \/ Touching(u))
    /\ UNCHANGED <<files, app, loaded, code, restarts, installed, applied, made, faults>>
-----------------------------------------------------------------------------
UpdaterStep(u) ==
    \/ Load(u) \/ TakeOperationLock(u) \/ CheckHandoff(u) \/ TakeAppLock(u) \/ GiveUp(u)
    \/ BeginBackup(u) \/ Saved(u) \/ Removed(u) \/ Replaced(u) \/ Restored(u)
    \/ \E p \in Parts : SavePart(u, p) \/ RemovePart(u, p) \/ CopyPart(u, p)
    \/ WriteMarker(u) \/ DropPackage(u) \/ DropHandoff(u) \/ Prune(u) \/ Restart(u)

AppStep ==
    \/ StartApp \/ AppExits \/ DownloadFails \/ Publish \/ WriteHandoff
    \/ \E kind \in {"download", "download-and-apply"} : BeginDownload(kind)
    \/ \E u \in Updaters : Launch(u)

Next == AppStep \/ \E u \in Updaters : UpdaterStep(u) \/ Fails(u) \/ Crash(u)

\* A download ends by its network timeouts, a wait for a lock by its deadline.
Fairness ==
    /\ WF_vars(DownloadFails)
    /\ \A u \in Updaters : WF_vars(UpdaterStep(u))

Spec == Init /\ [][Next]_vars /\ Fairness
-----------------------------------------------------------------------------
Pcs == {"idle", "start", "again", "waitOp", "check", "waitApp", "staged", "saving", "removing", "copying",
        "unwinding", "restoring", "mark", "package", "handoff", "prune", "restart", "ended"}

Pending == [handoff : Handoffs \cup {NoHandoff}, consumed : BOOLEAN]
Trees == [Parts -> Contents]

\* The variables stay in their types.
TypeOK ==
    /\ tree \in Trees
    /\ pending \in Pending
    /\ marker \in Handoffs \cup {NoHandoff}
    /\ packages \subseteq 1..MaxHandoffs
    /\ backup \in [Updaters -> Trees]
    /\ opLock \in Updaters \cup {None, App}
    /\ appLock \in Updaters \cup {None, App}
    /\ running \in Versions \cup {0}
    /\ download \in {"idle", "download", "download-and-apply", "launch"}
    /\ fetched \in Handoffs \cup {NoHandoff}
    /\ pc \in [Updaters -> Pcs]
    /\ loaded \in [Updaters -> Handoffs \cup {NoHandoff}]
    /\ code \in [Updaters -> Versions \cup {0}]
    /\ restarts \in [Updaters -> BOOLEAN]
    /\ installed \in Versions
    /\ wreck \in BOOLEAN
    /\ applied \in [1..MaxHandoffs -> Nat]
    /\ made \in 0..MaxHandoffs
    /\ faults \in 0..MaxFaults
    /\ crashes \in 0..MaxCrashes

\* While the app runs (it holds the app lock) its files are the version it loaded, whole: no updater
\* replaces them under it, and two updaters never work on them at once.
AppIsUntouched ==
    /\ running # 0 => appLock = App /\ tree = [p \in Parts |-> running]
    /\ \A u, v \in Updaters : Touching(u) /\ Touching(v) => u = v

\* Outside a replacement the app tree is one whole version, the one installed last: a failed
\* replacement has been rolled back, unless a crash or a second error cut it short.
TreeIsInstalled ==
    \/ wreck \/ \E u \in Updaters : Touching(u)
    \/ tree = [p \in Parts |-> installed]

\* A stale handoff, or an updater launched by an older app, never puts an older version back.
NeverDowngrades == [][installed' >= installed]_vars

\* Unless the machine crashed, and with at most two file errors, no handoff is applied twice: the
\* marker, the overwritten handoff or the missing package stops every later updater.
AppliedOnce == crashes = 0 => \A h \in 1..MaxHandoffs : applied[h] <= 1

\* Whenever the app tree is torn, also after a crash, some backup directory still holds a whole version.
TornTreeHasBackup == Whole(tree) \/ \E u \in Updaters : Whole(backup[u])

\* The backup kept after an applied update is one to roll back to.
KeptBackupIsWhole ==
    \A u \in Updaters : pc[u] = "restart" => \E v \in Updaters : Whole(backup[v])

\* The updaters implement AppInstall: no version is put in place while the app runs, none is older
\* than the one before, and the app that starts is the one installed last, or, after a replacement
\* was cut short and not undone, a newer one.
Promise == INSTANCE AppInstall WITH up <- running, version <- installed, broken <- wreck
ImplementsAppInstall == Promise!Spec

\* The operation lock never stays taken: every settings operation and every updater lets it go.
LockIsFreed == \A u \in Updaters \cup {App} : opLock = u ~> opLock # u

\* A launched updater comes to an end, whatever the app and the other updaters do.
UpdaterEnds == \A u \in Updaters : pc[u] = "start" ~> pc[u] = "ended"
=============================================================================
