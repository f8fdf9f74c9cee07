------------------------- MODULE UpdaterApplyProofs -------------------------
(***************************************************************************)
(* Proofs about UpdaterApply, for every set of updaters, parts and         *)
(* versions and every bound on handoffs, errors and crashes.               *)
(*                                                                         *)
(* The argument has two halves.  The two file locks exclude: only the      *)
(* holder of both touches the tree, and while it holds the operation lock  *)
(* nobody writes a handoff (Locks).  What the holder then does to tree and *)
(* backup is followed phase by phase (Files for which whole tree is where, *)
(* Order for the versions).  A second invariant, ReplayInv, says what      *)
(* stops an applied handoff from being applied again.                      *)
(***************************************************************************)
EXTENDS UpdaterApply, TLAPS

Inside == {"staged", "saving", "removing", "copying", "unwinding", "restoring"}
Replacing == {"removing", "copying", "unwinding", "restoring"}
Cleaning == {"mark", "package", "handoff", "prune"}
Holding == {"check", "waitApp"} \cup Inside \cup Cleaning
Before == {"idle", "start", "again", "waitOp", "check", "waitApp", "staged"}

(* Who holds which lock.                                                   *)
Locks ==
    /\ running # 0 <=> appLock = App
    /\ download # "idle" => opLock = App
    /\ fetched # NoHandoff => download \in {"download", "download-and-apply"}
    /\ \A u \in Updaters : /\ pc[u] \in Holding => opLock = u
                           /\ pc[u] \in Inside => appLock = u

(* Handoffs are real where they are used, and the holder of the operation  *)
(* lock works on the pending one.                                          *)
HandoffsHeld ==
    /\ pending # NoFile => pending.handoff \in Handoffs
    /\ \A u \in Updaters :
          /\ pc[u] \in Holding \cup {"waitOp"} => loaded[u] \in Handoffs
          /\ pc[u] \in Inside \cup {"waitApp"} =>
                pending # NoFile /\ pending.handoff = loaded[u]

(* Where a whole tree is, as far as updater u is concerned.                *)
FilesOf(u) ==
    /\ pc[u] \in Before => backup[u] = NoTree
    /\ pc[u] = "saving" => \A p \in Parts : backup[u][p] \in {Absent, tree[p]}
    /\ pc[u] \in Replacing => wreck \/ backup[u] = [p \in Parts |-> installed]
    /\ pc[u] \in Replacing => \E v \in Updaters : Whole(backup[v])
    /\ pc[u] \in Cleaning => Whole(tree)

Files ==
    /\ running # 0 => tree = [p \in Parts |-> running]
    /\ TreeIsInstalled
    /\ TornTreeHasBackup
    /\ \A u \in Updaters : FilesOf(u)

(* No version on its way into the app tree is older than what is there.    *)
OrderOf(u) ==
    /\ pc[u] \in {"saving"} \cup Replacing =>
          \A p \in Parts : backup[u][p] \in Versions => backup[u][p] >= installed
    /\ pc[u] \in Cleaning => loaded[u].version >= installed

Order ==
    /\ running # 0 => running >= installed
    /\ download # "idle" => running # 0
    /\ fetched # NoHandoff => fetched.version >= installed
    /\ pending # NoFile => pending.handoff.version >= installed
    /\ \A p \in Parts : tree[p] \in Versions => tree[p] >= installed
    /\ \A u \in Updaters : OrderOf(u)

IInv == TypeOK /\ Locks /\ HandoffsHeld /\ Files /\ Order

-----------------------------------------------------------------------------
(* Types.                                                                  *)

LEMMA CountIsNat == \A n \in Nat : n + 1 \in Nat /\ n + 2 \in Nat
OBVIOUS

LEMMA ValueTypes ==
    /\ NoHandoff \notin Handoffs
    /\ NoFile \in Pending /\ NoFile.handoff = NoHandoff
    /\ NoTree \in Trees
    /\ \A v \in Versions : [p \in Parts |-> v] \in Trees
    /\ \A h \in Handoffs : h.id \in 1..MaxHandoffs /\ h.version \in Versions
BY UpdaterAssumption DEF NoHandoff, Handoffs, NoFile, Pending, NoTree, Trees, Contents

LEMMA TreeEdit ==
    ASSUME NEW t \in Trees, NEW p \in Parts, NEW c \in Contents
    PROVE  [t EXCEPT ![p] = c] \in Trees
BY DEF Trees

LEMMA BackupEdit ==
    ASSUME NEW b \in [Updaters -> Trees], NEW u \in Updaters, NEW t \in Trees
    PROVE  [b EXCEPT ![u] = t] \in [Updaters -> Trees]
OBVIOUS

LEMMA PcEdit ==
    ASSUME NEW f \in [Updaters -> Pcs], NEW u \in Updaters, NEW x \in Pcs
    PROVE  [f EXCEPT ![u] = x] \in [Updaters -> Pcs]
OBVIOUS

(* A run that ends frees only what it holds.                               *)
LEMMA EndsTypes ==
    ASSUME TypeOK, NEW u \in Updaters, EndsUnapplied(u)
    PROVE  /\ pc' \in [Updaters -> Pcs]
           /\ opLock' \in Updaters \cup {None, App}
           /\ appLock' \in Updaters \cup {None, App}
BY DEF TypeOK, EndsUnapplied, Pcs

LEMMA AppTypes ==
    ASSUME TypeOK, AppStep
    PROVE  TypeOK'
<1> USE UpdaterAssumption
<1>1. CASE StartApp
  BY <1>1 DEF StartApp, TypeOK, files, history
<1>2. CASE AppExits
  BY <1>2 DEF AppExits, TypeOK, files, history
<1>3. CASE DownloadFails
  BY <1>3 DEF DownloadFails, TypeOK, files, history
<1>4. CASE Publish
  <2>1. made' \in 1..MaxHandoffs /\ made' = made + 1
    BY <1>4 DEF Publish, TypeOK
  <2>2. fetched' \in Handoffs
    BY <1>4, <2>1 DEF Publish, Handoffs
  <2>3. packages' \subseteq 1..MaxHandoffs
    BY <1>4, <2>1 DEF Publish, TypeOK
  <2>4. made' \in 0..MaxHandoffs
    BY <2>1
  <2> HIDE UpdaterAssumption
  <2> QED
    BY <1>4, <2>2, <2>3, <2>4 DEF Publish, TypeOK, locks, history
<1>5. CASE WriteHandoff
  <2>1. pending' \in Pending
    BY <1>5 DEF WriteHandoff, TypeOK, Pending
  <2> QED
    BY <1>5, <2>1 DEF WriteHandoff, TypeOK, history
<1>6. CASE \E kind \in {"download", "download-and-apply"} : BeginDownload(kind)
  BY <1>6 DEF BeginDownload, TypeOK, files, history
<1>7. CASE \E u \in Updaters : Launch(u)
  <2>1. PICK u \in Updaters : Launch(u)
    BY <1>7
  <2>2. pc' \in [Updaters -> Pcs]
    BY <2>1 DEF Launch, TypeOK, Pcs
  <2>3. /\ code' \in [Updaters -> Versions \cup {0}]
        /\ restarts' \in [Updaters -> BOOLEAN]
    BY <2>1 DEF Launch, TypeOK
  <2> QED
    BY <2>1, <2>2, <2>3 DEF Launch, TypeOK, files, history
<1> QED
  BY <1>1, <1>2, <1>3, <1>4, <1>5, <1>6, <1>7 DEF AppStep

LEMMA UpdaterTypes ==
    ASSUME TypeOK, HandoffsHeld, NEW u \in Updaters, UpdaterStep(u)
    PROVE  TypeOK'
<1>0. pc \in [Updaters -> Pcs]
  BY DEF TypeOK
<1>1. CASE Load(u)
  <2>1. pc' \in [Updaters -> Pcs]
    BY <1>1 DEF Load, TypeOK, Pcs
  <2>2. /\ loaded' \in [Updaters -> Handoffs \cup {NoHandoff}]
        /\ restarts' \in [Updaters -> BOOLEAN]
    BY <1>1 DEF Load, TypeOK, Pending
  <2> QED
    BY <1>1, <2>1, <2>2 DEF Load, TypeOK, files, locks, app, history
<1>2. CASE TakeOperationLock(u)
  <2>1. pc' \in [Updaters -> Pcs]
    BY <1>0, <1>2 DEF TakeOperationLock, Pcs
  <2> QED
    BY <1>2, <2>1 DEF TakeOperationLock, TypeOK, files, app, history
<1>3. CASE CheckHandoff(u)
  <2>1. /\ pc' \in [Updaters -> Pcs]
        /\ opLock' \in Updaters \cup {None, App}
        /\ appLock' \in Updaters \cup {None, App}
    BY <1>0, <1>3, EndsTypes DEF CheckHandoff, Pcs, locks, TypeOK
  <2> QED
    BY <1>3, <2>1 DEF CheckHandoff, TypeOK, files, app, history
<1>4. CASE TakeAppLock(u)
  <2>1. pc' \in [Updaters -> Pcs]
    BY <1>0, <1>4 DEF TakeAppLock, Pcs
  <2> QED
    BY <1>4, <2>1 DEF TakeAppLock, TypeOK, files, app, history
<1>5. CASE GiveUp(u)
  BY <1>5, EndsTypes DEF GiveUp, TypeOK, files, app, history
<1>6. CASE BeginBackup(u)
  <2>1. /\ pc' \in [Updaters -> Pcs]
        /\ opLock' \in Updaters \cup {None, App}
        /\ appLock' \in Updaters \cup {None, App}
    BY <1>0, <1>6, EndsTypes DEF BeginBackup, Pcs, locks, TypeOK
  <2>2. backup' \in [Updaters -> Trees]
    BY <1>6, ValueTypes, BackupEdit DEF BeginBackup, BackupBegun, TypeOK
  <2> QED
    BY <1>6, <2>1, <2>2 DEF BeginBackup, TypeOK, app, history
<1>7. CASE Saved(u)
  <2>1. pc' \in [Updaters -> Pcs]
    BY <1>0, <1>7 DEF Saved, Pcs
  <2> QED
    BY <1>7, <2>1 DEF Saved, TypeOK, files, locks, app, history
<1>8. CASE Removed(u)
  <2>1. pc' \in [Updaters -> Pcs]
    BY <1>0, <1>8 DEF Removed, Pcs
  <2> QED
    BY <1>8, <2>1 DEF Removed, TypeOK, files, locks, app, history
<1>9. CASE Replaced(u)
  <2>1. loaded[u] \in Handoffs
    BY <1>9 DEF Replaced, HandoffsHeld, Holding, Inside
  <2>2. pc' \in [Updaters -> Pcs]
    BY <1>0, <1>9 DEF Replaced, Pcs
  <2>3. installed' \in Versions
    BY <1>9, <2>1, ValueTypes DEF Replaced
  <2>4. applied' \in [1..MaxHandoffs -> Nat]
    <3>1. loaded[u].id \in 1..MaxHandoffs
      BY <2>1, ValueTypes
    <3> DEFINE h == loaded[u].id
    <3>2. applied' = [applied EXCEPT ![h] = applied[h] + 1]
      BY <1>9 DEF Replaced
    <3>3. applied[h] + 1 \in Nat
      BY <3>1, CountIsNat DEF TypeOK
    <3> HIDE DEF h
    <3> QED
      BY <3>2, <3>3 DEF TypeOK
  <2>5. UNCHANGED <<files, opLock, app, loaded, code, restarts, made, faults, crashes>>
    BY <1>9 DEF Replaced
  <2>6. appLock' = None /\ wreck' = FALSE
    BY <1>9 DEF Replaced
  <2> QED
    BY <2>2, <2>3, <2>4, <2>5, <2>6 DEF TypeOK, files, app
<1>10. CASE Restored(u)
  BY <1>10, EndsTypes DEF Restored, TypeOK, files, app, history
<1>11. CASE \E p \in Parts : SavePart(u, p)
  <2>1. PICK p \in Parts : SavePart(u, p)
    BY <1>11
  <2>2. tree[p] \in Contents /\ backup[u] \in Trees
    BY DEF TypeOK, Trees
  <2>3. backup' = [backup EXCEPT ![u] = [backup[u] EXCEPT ![p] = tree[p]]]
    BY <2>1 DEF SavePart
  <2>4. backup' \in [Updaters -> Trees]
    BY <2>2, <2>3, TreeEdit, BackupEdit DEF TypeOK
  <2> QED
    BY <2>1, <2>4 DEF SavePart, TypeOK, locks, app, history
<1>12. CASE \E p \in Parts : RemovePart(u, p)
  <2>1. PICK p \in Parts : RemovePart(u, p)
    BY <1>12
  <2>2. tree' \in Trees
    BY <2>1, TreeEdit DEF RemovePart, TypeOK, Contents
  <2> QED
    BY <2>1, <2>2 DEF RemovePart, TypeOK, locks, app, history
<1>13. CASE \E p \in Parts : CopyPart(u, p)
  <2>1. PICK p \in Parts : CopyPart(u, p)
    BY <1>13
  <2>2. Source(u) \in Trees
    <3>1. CASE pc[u] = "copying"
      BY <3>1, ValueTypes DEF HandoffsHeld, Holding, Inside, Source
    <3>2. CASE pc[u] = "restoring"
      BY <3>2 DEF Source, TypeOK
    <3> QED
      BY <2>1, <3>1, <3>2 DEF CopyPart
  <2>3. Source(u)[p] \in Contents /\ Torn \in Contents
    BY <2>2 DEF Trees, Contents
  <2>4. tree' \in Trees
    BY <2>1, <2>3, TreeEdit DEF CopyPart, TypeOK
  <2> QED
    BY <2>1, <2>4 DEF CopyPart, TypeOK, locks, app, history
<1>14. CASE WriteMarker(u)
  <2>1. pc' \in [Updaters -> Pcs]
    BY <1>0, <1>14 DEF WriteMarker, Pcs
  <2>2. marker' \in Handoffs \cup {NoHandoff} /\ pending' \in Pending
    <3>1. loaded[u] \in Handoffs \cup {NoHandoff}
      BY DEF TypeOK
    <3>2. Overwritten(u) \in Pending
      BY <3>1 DEF Overwritten, Pending
    <3> QED
      BY <1>14, <3>1, <3>2 DEF WriteMarker, Mark, TypeOK
  <2>3. faults' \in 0..MaxFaults
    BY <1>14, UpdaterAssumption DEF WriteMarker, Fault, TypeOK
  <2> QED
    BY <1>14, <2>1, <2>2, <2>3 DEF WriteMarker, TypeOK, locks, app, history
<1>15. CASE DropPackage(u)
  <2>1. pc' \in [Updaters -> Pcs]
    BY <1>0, <1>15 DEF DropPackage, Pcs
  <2>2. packages' \subseteq 1..MaxHandoffs
    BY <1>15 DEF DropPackage, TypeOK
  <2>3. faults' \in 0..MaxFaults
    BY <1>15, UpdaterAssumption DEF DropPackage, Fault, TypeOK
  <2> QED
    BY <1>15, <2>1, <2>2, <2>3 DEF DropPackage, TypeOK, locks, app, history
<1>16. CASE DropHandoff(u)
  <2>1. pc' \in [Updaters -> Pcs]
    BY <1>0, <1>16 DEF DropHandoff, Pcs
  <2>2. pending' \in Pending
    BY <1>16, ValueTypes DEF DropHandoff, TypeOK
  <2>3. faults' \in 0..MaxFaults
    BY <1>16, UpdaterAssumption DEF DropHandoff, Fault, TypeOK
  <2> QED
    BY <1>16, <2>1, <2>2, <2>3 DEF DropHandoff, TypeOK, locks, app, history
<1>17. CASE Prune(u)
  <2>1. pc' \in [Updaters -> Pcs]
    BY <1>0, <1>17 DEF Prune, Pcs
  <2>2. backup' \in [Updaters -> Trees]
    BY <1>17, ValueTypes DEF Prune, TypeOK
  <2>3. faults' \in 0..MaxFaults
    BY <1>17, UpdaterAssumption DEF Prune, Fault, TypeOK
  <2> QED
    BY <1>17, <2>1, <2>2, <2>3 DEF Prune, TypeOK, app, history
<1>18. CASE Restart(u)
  <2>1. pc' \in [Updaters -> Pcs]
    BY <1>0, <1>18 DEF Restart, Pcs
  <2> QED
    BY <1>18, <2>1 DEF Restart, TypeOK, files, history
<1> QED
  BY <1>1, <1>2, <1>3, <1>4, <1>5, <1>6, <1>7, <1>8, <1>9, <1>10, <1>11, <1>12, <1>13,
     <1>14, <1>15, <1>16, <1>17, <1>18 DEF UpdaterStep

LEMMA MishapTypes ==
    ASSUME TypeOK, NEW u \in Updaters, Fails(u) \/ Crash(u)
    PROVE  TypeOK'
<1>1. CASE Fails(u)
  <2>1. tree' \in Trees
    <3>1. Torn \in Contents /\ tree \in Trees
      BY DEF Contents, TypeOK
    <3> QED
      BY <1>1, <3>1, TreeEdit DEF Fails
  <2>2. /\ pc' \in [Updaters -> Pcs]
        /\ opLock' \in Updaters \cup {None, App}
        /\ appLock' \in Updaters \cup {None, App}
    BY <1>1, EndsTypes, PcEdit DEF Fails, TypeOK, locks, Pcs
  <2>3. faults' \in 0..MaxFaults
    BY <1>1, UpdaterAssumption DEF Fails, Fault, TypeOK
  <2>4. wreck' \in BOOLEAN
    BY <1>1 DEF Fails, TypeOK
  <2> QED
    BY <1>1, <2>1, <2>2, <2>3, <2>4 DEF Fails, TypeOK, app
<1>2. CASE Crash(u)
  <2>1. crashes' \in 0..MaxCrashes
    BY <1>2, UpdaterAssumption DEF Crash, TypeOK
  <2>2. wreck' \in BOOLEAN
    BY <1>2 DEF Crash, TypeOK
  <2> QED
    BY <1>2, <2>1, <2>2, EndsTypes DEF Crash, TypeOK, files, app
<1> QED
  BY <1>1, <1>2

-----------------------------------------------------------------------------
(* The locks.                                                              *)

(* What an updater that moves from phase to phase must respect.            *)
LockFacts == /\ pc \in [Updaters -> Pcs]
             /\ running \in Versions \cup {0}

LEMMA PhasesDiffer ==
    /\ Inside \subseteq Holding /\ Cleaning \subseteq Holding /\ Replacing \subseteq Inside
    /\ Inside \cap Cleaning = {}
BY DEF Inside, Cleaning, Holding, Replacing

LEMMA EndsLocks ==
    ASSUME LockFacts, Locks, NEW u \in Updaters, EndsUnapplied(u),
           UNCHANGED <<running, download, fetched>>
    PROVE  Locks'
<1>1. /\ pc'[u] \notin Holding /\ pc'[u] \notin Inside
      /\ \A w \in Updaters \ {u} : pc'[w] = pc[w]
  BY DEF EndsUnapplied, LockFacts, Holding, Inside, Cleaning
<1>2. /\ \A w \in Updaters \ {u} : opLock = w => opLock' = w
      /\ \A w \in Updaters \ {u} : appLock = w => appLock' = w
  BY DEF EndsUnapplied
<1>3. /\ opLock = App => opLock' = App
      /\ appLock = App <=> appLock' = App
  BY UpdaterAssumption DEF EndsUnapplied, None, App
<1> QED
  BY <1>1, <1>2, <1>3 DEF Locks

(* A step that gives updater u the phase x and leaves the locks alone.     *)
LEMMA PhaseLocks ==
    ASSUME LockFacts, Locks, NEW u \in Updaters, NEW x,
           pc' = [pc EXCEPT ![u] = x],
           x \in Holding => pc[u] \in Holding,
           x \in Inside => pc[u] \in Inside,
           UNCHANGED <<running, download, fetched, opLock, appLock>>
    PROVE  Locks'
BY DEF Locks, LockFacts

LEMMA QuietLocks ==
    ASSUME Locks, UNCHANGED <<pc, running, download, fetched, opLock, appLock>>
    PROVE  Locks'
BY DEF Locks

LEMMA AppLocks ==
    ASSUME LockFacts, Locks, AppStep
    PROVE  Locks'
<1> USE UpdaterAssumption
<1>1. CASE StartApp
  BY <1>1 DEF StartApp, Locks, LockFacts, None, App, Inside
<1>2. CASE AppExits
  BY <1>2 DEF AppExits, Locks, LockFacts, None, App
<1>3. CASE DownloadFails
  BY <1>3 DEF DownloadFails, Locks, LockFacts, None, App
<1>4. CASE Publish
  BY <1>4 DEF Publish, Locks, LockFacts, locks
<1>5. CASE WriteHandoff
  BY <1>5 DEF WriteHandoff, Locks, LockFacts, None, App
<1>6. CASE \E kind \in {"download", "download-and-apply"} : BeginDownload(kind)
  BY <1>6 DEF BeginDownload, Locks, LockFacts, None, App
<1>7. CASE \E u \in Updaters : Launch(u)
  <2>1. PICK u \in Updaters : Launch(u)
    BY <1>7
  <2>2. /\ pc'[u] \notin Holding /\ pc'[u] \notin Inside
        /\ \A w \in Updaters \ {u} : pc'[w] = pc[w]
    BY <2>1 DEF Launch, LockFacts, Holding, Inside, Cleaning
  <2>3. opLock \in {None, App} /\ fetched = NoHandoff
    BY <2>1 DEF Launch, Locks, None, App
  <2>4. \A w \in Updaters : pc[w] \notin Holding
    BY <2>3 DEF Locks, None, App
  <2>5. \A w \in Updaters : pc'[w] \notin Holding
    BY <2>2, <2>4
  <2> QED
    BY <2>1, <2>3, <2>5, PhasesDiffer DEF Launch, Locks
<1> QED
  BY <1>1, <1>2, <1>3, <1>4, <1>5, <1>6, <1>7 DEF AppStep

LEMMA UpdaterLocks ==
    ASSUME LockFacts, Locks, NEW u \in Updaters, UpdaterStep(u) \/ Fails(u) \/ Crash(u)
    PROVE  Locks'
<1> DEFINE Quiet == UNCHANGED <<running, download, fetched, opLock, appLock>>
<1>1. CASE Load(u)
  <2>1. pc[u] \notin Holding /\ Quiet
    BY <1>1 DEF Load, app, locks, Holding, Inside, Cleaning
  <2>2. PICK x \in {"waitOp", "again", "ended"} : pc' = [pc EXCEPT ![u] = x]
    BY <1>1 DEF Load
  <2> QED
    BY <2>1, <2>2, PhaseLocks DEF Holding, Inside, Cleaning
<1>2. CASE TakeOperationLock(u)
  <2>1. /\ opLock = None /\ opLock' = u
        /\ pc'[u] = "check" /\ \A w \in Updaters \ {u} : pc'[w] = pc[w]
    BY <1>2 DEF TakeOperationLock, LockFacts
  <2>2. \A w \in Updaters : pc[w] \notin Holding
    BY <2>1, UpdaterAssumption DEF Locks, None
  <2>3. download = "idle"
    BY <2>1 DEF Locks, None, App
  <2>4. \A w \in Updaters : pc'[w] \in Holding => w = u
    BY <2>1, <2>2
  <2>5. \A w \in Updaters : pc'[w] \notin Inside
    BY <2>1, <2>4, PhasesDiffer DEF Inside
  <2> QED
    BY <1>2, <2>1, <2>3, <2>4, <2>5 DEF TakeOperationLock, Locks, app
<1>3. CASE CheckHandoff(u)
  <2>1. CASE pc' = [pc EXCEPT ![u] = "waitApp"] /\ UNCHANGED locks
    <3>1. Quiet /\ pc[u] \in Holding
      BY <1>3, <2>1 DEF CheckHandoff, locks, app, Holding
    <3> QED
      BY <2>1, <3>1, PhaseLocks DEF Inside
  <2>2. CASE EndsUnapplied(u)
    BY <1>3, <2>2, EndsLocks DEF CheckHandoff, app
  <2> QED
    BY <1>3, <2>1, <2>2 DEF CheckHandoff
<1>4. CASE TakeAppLock(u)
  <2>1. /\ appLock = None /\ appLock' = u
        /\ pc'[u] = "staged" /\ \A w \in Updaters \ {u} : pc'[w] = pc[w]
        /\ pc[u] \in Holding
    BY <1>4 DEF TakeAppLock, AppIsGone, LockFacts, Holding
  <2>2. \A w \in Updaters : pc[w] \notin Inside
    BY <2>1, UpdaterAssumption DEF Locks, None
  <2>3. running = 0 /\ u # App
    BY <2>1, UpdaterAssumption DEF Locks, None, App
  <2>4. opLock' = u /\ opLock = u
    BY <1>4, <2>1 DEF TakeAppLock, Locks
  <2>5. \A w \in Updaters : /\ pc'[w] \in Holding => opLock' = w
                            /\ pc'[w] \in Inside => w = u
    BY <2>1, <2>2, <2>4 DEF Locks
  <2> QED
    BY <1>4, <2>1, <2>3, <2>4, <2>5 DEF TakeAppLock, Locks, app
<1>5. CASE GiveUp(u) \/ Restored(u) \/ Crash(u)
  BY <1>5, EndsLocks DEF GiveUp, Restored, Crash, app
<1>6. CASE BeginBackup(u)
  <2>1. CASE pc' = [pc EXCEPT ![u] = "saving"] /\ UNCHANGED locks
    <3>1. Quiet /\ pc[u] \in Inside
      BY <1>6, <2>1 DEF BeginBackup, locks, app, Inside
    <3> QED
      BY <2>1, <3>1, PhaseLocks, PhasesDiffer
  <2>2. CASE EndsUnapplied(u)
    BY <1>6, <2>2, EndsLocks DEF BeginBackup, app
  <2> QED
    BY <1>6, <2>1, <2>2 DEF BeginBackup
<1>7. CASE Saved(u) \/ Removed(u)
  <2>1. Quiet /\ pc[u] \in Inside
    BY <1>7 DEF Saved, Removed, locks, app, Inside
  <2>2. \E x : pc' = [pc EXCEPT ![u] = x]
    BY <1>7 DEF Saved, Removed
  <2> QED
    BY <2>1, <2>2, PhaseLocks, PhasesDiffer
<1>8. CASE Replaced(u)
  <2>1. /\ appLock' = None /\ pc'[u] = "mark" /\ pc[u] \in Inside
        /\ \A w \in Updaters \ {u} : pc'[w] = pc[w]
        /\ UNCHANGED <<running, download, fetched, opLock>>
    BY <1>8 DEF Replaced, LockFacts, app, Inside
  <2>2. opLock = u /\ appLock = u
    BY <2>1, PhasesDiffer DEF Locks
  <2>3. running = 0
    BY <2>2, UpdaterAssumption DEF Locks
  <2>4. \A w \in Updaters : pc'[w] \in Holding => w = u
    BY <2>1, <2>2 DEF Locks
  <2>5. \A w \in Updaters : pc'[w] \notin Inside
    BY <2>1, <2>4, PhasesDiffer DEF Inside
  <2> QED
    BY <2>1, <2>2, <2>3, <2>4, <2>5 DEF Locks, None, App
<1>9. CASE \E p \in Parts : SavePart(u, p) \/ RemovePart(u, p) \/ CopyPart(u, p)
  BY <1>9, QuietLocks DEF SavePart, RemovePart, CopyPart, locks, app
<1>10. CASE WriteMarker(u) \/ DropPackage(u) \/ DropHandoff(u)
  <2>1. Quiet /\ pc[u] \in Holding
    BY <1>10 DEF WriteMarker, DropPackage, DropHandoff, locks, app, Holding, Cleaning
  <2>2. PICK x \in Cleaning : pc' = [pc EXCEPT ![u] = x]
    BY <1>10 DEF WriteMarker, DropPackage, DropHandoff, Cleaning
  <2> QED
    BY <2>1, <2>2, PhaseLocks, PhasesDiffer
<1>11. CASE Prune(u)
  <2>1. /\ opLock' = None /\ pc'[u] = "restart" /\ pc[u] \in Holding
        /\ \A w \in Updaters \ {u} : pc'[w] = pc[w]
        /\ UNCHANGED <<running, download, fetched, appLock>>
    BY <1>11 DEF Prune, LockFacts, app, Holding, Cleaning
  <2>2. opLock = u
    BY <2>1 DEF Locks
  <2>3. download = "idle"
    BY <2>2, UpdaterAssumption DEF Locks
  <2>4. \A w \in Updaters : pc'[w] \notin Holding
    BY <2>1, <2>2 DEF Locks, Holding, Inside, Cleaning
  <2> QED
    BY <2>1, <2>3, <2>4, PhasesDiffer DEF Locks
<1>12. CASE Restart(u)
  <2>1. /\ pc'[u] = "ended" /\ \A w \in Updaters \ {u} : pc'[w] = pc[w]
        /\ UNCHANGED <<download, fetched, opLock>>
    BY <1>12 DEF Restart, LockFacts
  <2>2. CASE UNCHANGED <<running, appLock>>
    <3>1. \A w \in Updaters : /\ pc'[w] \in Holding => pc[w] \in Holding
                              /\ pc'[w] \in Inside => pc[w] \in Inside
      BY <2>1 DEF Holding, Inside, Cleaning
    <3> QED
      BY <2>1, <2>2, <3>1 DEF Locks
  <2>3. CASE appLock = None /\ running' \in Versions /\ appLock' = App
    <3>1. \A w \in Updaters : pc[w] \notin Inside
      BY <2>3, UpdaterAssumption DEF Locks, None
    <3>2. \A w \in Updaters : /\ pc'[w] \in Holding => pc[w] \in Holding
                              /\ pc'[w] \notin Inside
      BY <2>1, <3>1 DEF Holding, Inside, Cleaning
    <3>3. running' # 0
      BY <2>3, UpdaterAssumption
    <3> QED
      BY <2>1, <2>3, <3>2, <3>3 DEF Locks
  <2> QED
    BY <1>12, <2>2, <2>3 DEF Restart
<1>13. CASE Fails(u)
  <2>1. CASE EndsUnapplied(u)
    BY <1>13, <2>1, EndsLocks DEF Fails, app
  <2>2. CASE pc[u] \in Undone /\ pc' = [pc EXCEPT ![u] = "unwinding"] /\ UNCHANGED locks
    <3>1. Quiet /\ pc[u] \in Inside
      BY <1>13, <2>2 DEF Fails, locks, app, Inside, Undone
    <3> QED
      BY <2>2, <3>1, PhaseLocks, PhasesDiffer
  <2> QED
    BY <1>13, <2>1, <2>2 DEF Fails
<1> QED
  BY <1>1, <1>2, <1>3, <1>4, <1>5, <1>6, <1>7, <1>8, <1>9, <1>10, <1>11, <1>12, <1>13
     DEF UpdaterStep

-----------------------------------------------------------------------------
(* The handoff the lock holder works on.                                   *)

LEMMA PhaseHandoffs ==
    ASSUME LockFacts, HandoffsHeld, NEW u \in Updaters, NEW x,
           pc' = [pc EXCEPT ![u] = x],
           x \in Holding \cup {"waitOp"} => pc[u] \in Holding \cup {"waitOp"},
           x \in Inside \cup {"waitApp"} => pc[u] \in Inside \cup {"waitApp"},
           UNCHANGED <<pending, loaded>>
    PROVE  HandoffsHeld'
BY DEF HandoffsHeld, LockFacts

LEMMA EndsHandoffs ==
    ASSUME LockFacts, HandoffsHeld, NEW u \in Updaters, EndsUnapplied(u),
           UNCHANGED <<pending, loaded>>
    PROVE  HandoffsHeld'
<1>1. pc' = [pc EXCEPT ![u] = "ended"]
  BY DEF EndsUnapplied
<1> QED
  BY <1>1, PhaseHandoffs DEF Holding, Inside, Cleaning

(* While an updater cleans up, or a download holds the operation lock, no  *)
(* updater relies on the pending file.                                     *)
LEMMA PendingIsFree ==
    ASSUME LockFacts, Locks, HandoffsHeld,
           fetched # NoHandoff \/ \E u \in Updaters : pc[u] \in Cleaning,
           UNCHANGED loaded,
           \A w \in Updaters : pc'[w] = pc[w] \/ (pc[w] \in Cleaning /\ pc'[w] \in Cleaning),
           pending' # NoFile => pending'.handoff \in Handoffs
    PROVE  HandoffsHeld'
<1>1. \A w \in Updaters : pc[w] \notin Inside \cup {"waitApp"}
  <2>1. CASE fetched # NoHandoff
    BY <2>1, UpdaterAssumption, PhasesDiffer DEF Locks, Holding, App
  <2>2. CASE \E u \in Updaters : pc[u] \in Cleaning
    <3>1. PICK u \in Updaters : pc[u] \in Cleaning
      BY <2>2
    <3>2. \A w \in Updaters : pc[w] \in Holding => w = u
      BY <3>1, PhasesDiffer DEF Locks
    <3> QED
      BY <3>1, <3>2, PhasesDiffer DEF Holding, Cleaning
  <2> QED
    BY <2>1, <2>2
<1>2. \A w \in Updaters : pc'[w] \notin Inside \cup {"waitApp"}
  BY <1>1, PhasesDiffer DEF Cleaning
<1>3. \A w \in Updaters : pc'[w] \in Holding \cup {"waitOp"} =>
                          pc[w] \in Holding \cup {"waitOp"}
  BY PhasesDiffer
<1> QED
  BY <1>2, <1>3 DEF HandoffsHeld

LEMMA HandoffStep ==
    ASSUME TypeOK, LockFacts, Locks, HandoffsHeld, Next
    PROVE  HandoffsHeld'
<1>1. CASE \/ StartApp \/ AppExits \/ DownloadFails \/ Publish
           \/ \E kind \in {"download", "download-and-apply"} : BeginDownload(kind)
  BY <1>1 DEF StartApp, AppExits, DownloadFails, Publish, BeginDownload, HandoffsHeld, files
<1>2. CASE WriteHandoff
  <2>1. fetched \in Handoffs /\ pending'.handoff = fetched
    BY <1>2 DEF WriteHandoff, TypeOK
  <2> QED
    BY <1>2, <2>1, PendingIsFree DEF WriteHandoff
<1>3. CASE \E u \in Updaters : Launch(u)
  BY <1>3, PhaseHandoffs DEF Launch, files, Holding, Inside, Cleaning
<1>4. SUFFICES ASSUME NEW u \in Updaters, UpdaterStep(u) \/ Fails(u) \/ Crash(u)
               PROVE  HandoffsHeld'
  BY <1>1, <1>2, <1>3 DEF Next, AppStep
<1>5. CASE Load(u)
  <2>1. CASE Readable /\ loaded' = [loaded EXCEPT ![u] = pending.handoff]
             /\ pc' = [pc EXCEPT ![u] = "waitOp"]
    <3>1. pending.handoff \in Handoffs
      BY <2>1 DEF Readable, HandoffsHeld
    <3>2. loaded'[u] = pending.handoff /\ \A w \in Updaters \ {u} : loaded'[w] = loaded[w]
      BY <2>1 DEF TypeOK
    <3>3. pc'[u] = "waitOp" /\ \A w \in Updaters \ {u} : pc'[w] = pc[w]
      BY <2>1 DEF LockFacts
    <3>4. UNCHANGED pending
      BY <1>5 DEF Load, files
    <3> QED
      BY <3>1, <3>2, <3>3, <3>4 DEF HandoffsHeld, Inside
  <2>2. CASE (\E x \in {"again", "ended"} : pc' = [pc EXCEPT ![u] = x]) /\ UNCHANGED loaded
    <3>1. UNCHANGED <<pending, loaded>>
      BY <1>5, <2>2 DEF Load, files
    <3>2. PICK x \in {"again", "ended"} : pc' = [pc EXCEPT ![u] = x]
      BY <2>2
    <3> QED
      BY <3>1, <3>2, PhaseHandoffs DEF Holding, Inside, Cleaning
  <2> QED
    BY <1>5, <2>1, <2>2 DEF Load
<1>6. CASE TakeOperationLock(u)
  BY <1>6, PhaseHandoffs DEF TakeOperationLock, files, Inside
<1>7. CASE CheckHandoff(u)
  <2>1. UNCHANGED <<pending, loaded>>
    BY <1>7 DEF CheckHandoff, files
  <2>2. CASE IsCurrent(u) /\ pc' = [pc EXCEPT ![u] = "waitApp"]
    <3>1. /\ pc'[u] = "waitApp" /\ pc[u] \in Holding
          /\ \A w \in Updaters \ {u} : pc'[w] = pc[w]
      BY <1>7, <2>2 DEF CheckHandoff, LockFacts, Holding
    <3>2. pending # NoFile /\ pending.handoff = loaded[u]
      BY <2>2 DEF IsCurrent, Readable
    <3> QED
      BY <2>1, <3>1, <3>2 DEF HandoffsHeld
  <2>3. CASE EndsUnapplied(u)
    BY <2>1, <2>3, EndsHandoffs
  <2> QED
    BY <1>7, <2>2, <2>3 DEF CheckHandoff
<1>8. CASE TakeAppLock(u)
  <2>1. /\ pc' = [pc EXCEPT ![u] = "staged"] /\ UNCHANGED <<pending, loaded>>
        /\ pc[u] = "waitApp"
    BY <1>8 DEF TakeAppLock, files
  <2> QED
    BY <2>1, PhaseHandoffs DEF Holding
<1>9. CASE GiveUp(u) \/ Restored(u) \/ Crash(u)
  BY <1>9, EndsHandoffs DEF GiveUp, Restored, Crash, files
<1>10. CASE BeginBackup(u)
  <2>1. pc[u] = "staged" /\ UNCHANGED <<pending, loaded>>
    BY <1>10 DEF BeginBackup
  <2>2. CASE pc' = [pc EXCEPT ![u] = "saving"]
    BY <2>1, <2>2, PhaseHandoffs DEF Inside, Holding
  <2>3. CASE EndsUnapplied(u)
    BY <2>1, <2>3, EndsHandoffs
  <2> QED
    BY <1>10, <2>2, <2>3 DEF BeginBackup
<1>11. CASE Saved(u) \/ Removed(u) \/ Replaced(u)
  <2>1. pc[u] \in Inside /\ UNCHANGED <<pending, loaded>>
    BY <1>11 DEF Saved, Removed, Replaced, files, Inside
  <2>2. \E x : pc' = [pc EXCEPT ![u] = x]
    BY <1>11 DEF Saved, Removed, Replaced
  <2> QED
    BY <2>1, <2>2, PhaseHandoffs, PhasesDiffer
<1>12. CASE \E p \in Parts : SavePart(u, p) \/ RemovePart(u, p) \/ CopyPart(u, p)
  BY <1>12 DEF SavePart, RemovePart, CopyPart, HandoffsHeld
<1>13. CASE WriteMarker(u) \/ DropHandoff(u)
  <2>1. loaded[u] \in Handoffs /\ pc[u] \in Cleaning
    BY <1>13 DEF WriteMarker, DropHandoff, HandoffsHeld, Holding, Cleaning
  <2>2. UNCHANGED loaded
    BY <1>13 DEF WriteMarker, DropHandoff
  <2>3. \A w \in Updaters : pc'[w] = pc[w] \/ (pc[w] \in Cleaning /\ pc'[w] \in Cleaning)
    BY <1>13, <2>1 DEF WriteMarker, DropHandoff, LockFacts, Cleaning
  <2>4. pending' # NoFile => pending'.handoff \in Handoffs
    <3>1. pending' = pending \/ pending' = Overwritten(u) \/ pending' = NoFile
      BY <1>13 DEF WriteMarker, DropHandoff
    <3>2. Overwritten(u).handoff = loaded[u]
      BY DEF Overwritten
    <3> QED
      BY <2>1, <3>1, <3>2 DEF HandoffsHeld
  <2> QED
    BY <2>1, <2>2, <2>3, <2>4, PendingIsFree
<1>14. CASE DropPackage(u) \/ Prune(u) \/ Restart(u)
  <2>1. UNCHANGED <<pending, loaded>> /\ pc[u] \in Cleaning \cup {"restart"}
    BY <1>14 DEF DropPackage, Prune, Restart, files, Cleaning
  <2>2. CASE pc' = [pc EXCEPT ![u] = "handoff"] /\ pc[u] = "package"
    BY <2>1, <2>2, PhaseHandoffs DEF Holding, Inside, Cleaning
  <2>3. CASE \E x \in {"restart", "ended"} : pc' = [pc EXCEPT ![u] = x]
    <3>1. PICK x \in {"restart", "ended"} : pc' = [pc EXCEPT ![u] = x]
      BY <2>3
    <3> QED
      BY <2>1, <3>1, PhaseHandoffs DEF Holding, Inside, Cleaning
  <2> QED
    BY <1>14, <2>2, <2>3 DEF DropPackage, Prune, Restart
<1>15. CASE Fails(u)
  <2>1. UNCHANGED <<pending, loaded>>
    BY <1>15 DEF Fails
  <2>2. CASE pc[u] \in Undone /\ pc' = [pc EXCEPT ![u] = "unwinding"]
    BY <2>1, <2>2, PhaseHandoffs DEF Undone, Holding, Inside
  <2>3. CASE EndsUnapplied(u)
    BY <2>1, <2>3, EndsHandoffs
  <2> QED
    BY <1>15, <2>2, <2>3 DEF Fails
<1> QED
  BY <1>4, <1>5, <1>6, <1>7, <1>8, <1>9, <1>10, <1>11, <1>12, <1>13, <1>14, <1>15
     DEF UpdaterStep

-----------------------------------------------------------------------------
(* Trees and backups.                                                      *)

(* The holder of the operation lock is alone.                              *)
LEMMA HolderIsAlone ==
    ASSUME Locks, NEW u \in Updaters, pc[u] \in Holding
    PROVE  /\ \A w \in Updaters \ {u} : pc[w] \notin Holding
           /\ pc[u] \in Inside => running = 0
BY UpdaterAssumption, PhasesDiffer DEF Locks

LEMMA TouchingIsReplacing == \A u : Touching(u) <=> pc[u] \in Replacing
BY DEF Touching, Replacing

(* A step that moves u without changing a file, to a phase that claims     *)
(* nothing new.                                                            *)
LEMMA QuietFiles ==
    ASSUME LockFacts, Files, NEW u \in Updaters, NEW x,
           pc' = [pc EXCEPT ![u] = x],
           x \in Before => pc[u] \in Before,
           x = "saving" => pc[u] = "saving",
           x \in Replacing <=> pc[u] \in Replacing,
           x \in Cleaning => pc[u] \in Cleaning,
           UNCHANGED <<tree, backup, installed, wreck>>,
           running' # 0 => tree = [p \in Parts |-> running']
    PROVE  Files'
<1>1. pc'[u] = x /\ \A w \in Updaters \ {u} : pc'[w] = pc[w]
  BY DEF LockFacts
<1>2. \A w \in Updaters : FilesOf(w)'
  BY <1>1 DEF Files, FilesOf, Whole
<1>3. TreeIsInstalled'
  BY <1>1, TouchingIsReplacing DEF Files, TreeIsInstalled, Touching, Replacing
<1>4. TornTreeHasBackup'
  BY DEF Files, TornTreeHasBackup, Whole
<1> QED
  BY <1>2, <1>3, <1>4 DEF Files

(* Likewise when no updater moves.                                         *)
LEMMA StillFiles ==
    ASSUME Files, UNCHANGED <<pc, tree, backup, installed, wreck>>,
           running' # 0 => tree = [p \in Parts |-> running']
    PROVE  Files'
BY DEF Files, FilesOf, TreeIsInstalled, TornTreeHasBackup, Touching, Whole

(* A step of the holder of the operation lock.                             *)
LEMMA HolderFiles ==
    ASSUME LockFacts, Locks, Files, NEW u \in Updaters, pc[u] \in Holding,
           \A w \in Updaters \ {u} :
              pc'[w] = pc[w] /\ backup'[w] \in {backup[w], NoTree},
           running' # 0 => tree' = [p \in Parts |-> running'],
           TreeIsInstalled', TornTreeHasBackup', FilesOf(u)'
    PROVE  Files'
<1>1. ASSUME NEW w \in Updaters \ {u} PROVE FilesOf(w)'
  <2>1. pc'[w] \notin Holding
    BY HolderIsAlone
  <2>2. pc'[w] \in Before => backup'[w] = NoTree
    BY DEF Files, FilesOf
  <2> QED
    BY <2>1, <2>2, PhasesDiffer DEF FilesOf, Inside
<1> QED
  BY <1>1 DEF Files

(* The run of an updater that is not replacing ends.                       *)
LEMMA EndsFiles ==
    ASSUME LockFacts, Files, NEW u \in Updaters, EndsUnapplied(u),
           pc[u] \notin Replacing,
           UNCHANGED <<tree, backup, installed, wreck, running>>
    PROVE  Files'
<1>1. pc' = [pc EXCEPT ![u] = "ended"]
  BY DEF EndsUnapplied
<1>2. running' # 0 => tree = [p \in Parts |-> running']
  BY DEF Files
<1> QED
  BY <1>1, <1>2, QuietFiles DEF Before, Replacing, Cleaning

LEMMA AppFiles ==
    ASSUME LockFacts, Locks, Files, AppStep
    PROVE  Files'
<1>1. CASE \/ StartApp \/ AppExits \/ DownloadFails \/ Publish \/ WriteHandoff
           \/ \E kind \in {"download", "download-and-apply"} : BeginDownload(kind)
  <2>1. UNCHANGED <<pc, tree, backup, installed, wreck>>
    BY <1>1 DEF StartApp, AppExits, DownloadFails, Publish, WriteHandoff, BeginDownload,
                files, history
  <2>2. running' # 0 => tree = [p \in Parts |-> running']
    BY <1>1 DEF StartApp, AppExits, DownloadFails, Publish, WriteHandoff, BeginDownload,
                Files
  <2> QED
    BY <2>1, <2>2, StillFiles
<1>2. CASE \E u \in Updaters : Launch(u)
  <2>1. PICK u \in Updaters : Launch(u)
    BY <1>2
  <2>2. /\ pc' = [pc EXCEPT ![u] = "start"] /\ pc[u] = "idle"
        /\ UNCHANGED <<tree, backup, installed, wreck, running>>
    BY <2>1 DEF Launch, files, history
  <2>3. running' # 0 => tree = [p \in Parts |-> running']
    BY <2>2 DEF Files
  <2> QED
    BY <2>2, <2>3, QuietFiles DEF Before, Replacing, Cleaning
<1> QED
  BY <1>1, <1>2 DEF AppStep

LEMMA WholeVersions == \A v \in Versions : Whole([p \in Parts |-> v])
BY DEF Whole

LEMMA UpdaterFiles ==
    ASSUME TypeOK, LockFacts, Locks, HandoffsHeld, Files, NEW u \in Updaters, UpdaterStep(u)
    PROVE  Files'
<1>0. running # 0 => tree = [p \in Parts |-> running]
  BY DEF Files
<1>1. CASE Load(u)
  <2>1. PICK x \in {"waitOp", "again", "ended"} : pc' = [pc EXCEPT ![u] = x]
    BY <1>1 DEF Load
  <2>2. pc[u] \in Before /\ UNCHANGED <<tree, backup, installed, wreck, running>>
    BY <1>1 DEF Load, files, app, history, Before
  <2> QED
    BY <1>0, <2>1, <2>2, QuietFiles DEF Before, Replacing, Cleaning
<1>2. CASE TakeOperationLock(u) \/ TakeAppLock(u)
  <2>1. PICK x \in {"check", "staged"} : pc' = [pc EXCEPT ![u] = x]
    BY <1>2 DEF TakeOperationLock, TakeAppLock
  <2>2. pc[u] \in Before /\ UNCHANGED <<tree, backup, installed, wreck, running>>
    BY <1>2 DEF TakeOperationLock, TakeAppLock, files, app, history, Before
  <2> QED
    BY <1>0, <2>1, <2>2, QuietFiles DEF Before, Replacing, Cleaning
<1>3. CASE CheckHandoff(u)
  <2>1. pc[u] \in Before /\ UNCHANGED <<tree, backup, installed, wreck, running>>
    BY <1>3 DEF CheckHandoff, files, app, history, Before
  <2>2. CASE pc' = [pc EXCEPT ![u] = "waitApp"]
    BY <1>0, <2>1, <2>2, QuietFiles DEF Before, Replacing, Cleaning
  <2>3. CASE EndsUnapplied(u)
    BY <2>1, <2>3, EndsFiles DEF Before, Replacing
  <2> QED
    BY <1>3, <2>2, <2>3 DEF CheckHandoff
<1>4. CASE GiveUp(u)
  <2>1. pc[u] \notin Replacing /\ UNCHANGED <<tree, backup, installed, wreck, running>>
    BY <1>4 DEF GiveUp, Overdue, files, app, history, Replacing
  <2> QED
    BY <1>4, <2>1, EndsFiles DEF GiveUp
<1>5. CASE BeginBackup(u)
  <2>1. /\ pc[u] = "staged" /\ UNCHANGED <<tree, installed, wreck, running>>
        /\ backup[u] = NoTree
    BY <1>5 DEF BeginBackup, app, history, Files, FilesOf, Before
  <2>2. CASE EndsUnapplied(u) /\ UNCHANGED backup
    BY <2>1, <2>2, EndsFiles DEF Replacing
  <2>3. CASE pc' = [pc EXCEPT ![u] = "saving"] /\ backup' = BackupBegun(u)
    <3>1. backup' = backup
      BY <2>1, <2>3 DEF BackupBegun, TypeOK
    <3>2. pc'[u] = "saving" /\ \A w \in Updaters \ {u} : pc'[w] = pc[w]
      BY <2>3 DEF LockFacts
    <3>3. \A p \in Parts : backup'[u][p] = Absent
      BY <2>1, <3>1 DEF NoTree
    <3>4. FilesOf(u)'
      BY <3>2, <3>3 DEF FilesOf, Before, Replacing, Cleaning
    <3>5. TreeIsInstalled'
      BY <2>1, <3>2 DEF Files, TreeIsInstalled, Touching
    <3>6. TornTreeHasBackup'
      BY <2>1, <3>1 DEF Files, TornTreeHasBackup, Whole
    <3> QED
      BY <1>0, <2>1, <3>1, <3>2, <3>4, <3>5, <3>6, HolderFiles DEF Holding, Inside
  <2> QED
    BY <1>5, <2>2, <2>3 DEF BeginBackup
<1>6. CASE \E p \in Parts : SavePart(u, p)
  <2>1. PICK p \in Parts : SavePart(u, p)
    BY <1>6
  <2>2. /\ pc[u] = "saving" /\ UNCHANGED <<pc, tree, installed, wreck, running>>
        /\ backup[u] \in Trees
    BY <2>1 DEF SavePart, app, history, TypeOK
  <2>3. /\ backup[u][p] # tree[p] /\ backup[u][p] = Absent
        /\ \A q \in Parts : backup[u][q] \in {Absent, tree[q]}
    BY <2>1, <2>2 DEF SavePart, Files, FilesOf
  <2>4. /\ backup'[u] = [backup[u] EXCEPT ![p] = tree[p]]
        /\ \A w \in Updaters \ {u} : backup'[w] = backup[w]
    BY <2>1 DEF SavePart, TypeOK
  <2>5. \A q \in Parts : backup'[u][q] \in {Absent, tree[q]}
    BY <2>2, <2>3, <2>4 DEF Trees
  <2>6. ~Whole(backup[u])
    BY <2>3, UpdaterAssumption DEF Whole
  <2>7. TornTreeHasBackup'
    BY <2>2, <2>4, <2>6 DEF Files, TornTreeHasBackup, Whole
  <2>8. TreeIsInstalled'
    BY <2>2 DEF Files, TreeIsInstalled, Touching
  <2>9. FilesOf(u)'
    BY <2>2, <2>5 DEF FilesOf, Before, Replacing, Cleaning
  <2> QED
    BY <1>0, <2>2, <2>4, <2>7, <2>8, <2>9, HolderFiles DEF Holding, Inside
<1>7. CASE Saved(u)
  <2>1. /\ pc[u] = "saving" /\ backup[u] = tree
        /\ UNCHANGED <<tree, backup, installed, wreck, running>>
        /\ pc'[u] = "removing" /\ \A w \in Updaters \ {u} : pc'[w] = pc[w]
    BY <1>7 DEF Saved, files, app, history, LockFacts
  <2>2. \A w \in Updaters : ~Touching(w)
    BY <2>1, HolderIsAlone, TouchingIsReplacing, PhasesDiffer
       DEF Holding, Inside, Replacing
  <2>3. wreck \/ backup[u] = [p \in Parts |-> installed]
    BY <2>1, <2>2 DEF Files, TreeIsInstalled
  <2>4. \E v \in Updaters : Whole(backup[v])
    BY <2>1 DEF Files, TornTreeHasBackup
  <2>5. FilesOf(u)'
    BY <2>1, <2>3, <2>4 DEF FilesOf, Before, Cleaning, Whole
  <2>6. TreeIsInstalled'
    BY <2>1 DEF TreeIsInstalled, Touching
  <2>7. TornTreeHasBackup'
    BY <2>1, <2>4 DEF TornTreeHasBackup, Whole
  <2> QED
    BY <1>0, <2>1, <2>5, <2>6, <2>7, HolderFiles DEF Holding, Inside
<1>8. CASE Removed(u) \/ \E p \in Parts : RemovePart(u, p) \/ CopyPart(u, p)
  <2>1. /\ pc[u] \in Replacing /\ pc'[u] \in Replacing
        /\ \A w \in Updaters \ {u} : pc'[w] = pc[w]
        /\ UNCHANGED <<backup, installed, wreck, running>>
    BY <1>8 DEF Removed, RemovePart, CopyPart, files, app, history, LockFacts, Replacing
  <2>2. running' = 0
    BY <2>1, HolderIsAlone, PhasesDiffer
  <2>3. /\ wreck \/ backup[u] = [p \in Parts |-> installed]
        /\ \E v \in Updaters : Whole(backup[v])
    BY <2>1 DEF Files, FilesOf
  <2>4. FilesOf(u)'
    BY <2>1, <2>3, PhasesDiffer DEF FilesOf, Before, Replacing, Cleaning, Whole
  <2>5. TreeIsInstalled' /\ TornTreeHasBackup'
    BY <2>1, <2>3, TouchingIsReplacing
       DEF TreeIsInstalled, TornTreeHasBackup, Touching, Replacing, Whole
  <2> QED
    BY <2>1, <2>2, <2>4, <2>5, HolderFiles, PhasesDiffer
<1>9. CASE Replaced(u)
  <2>1. /\ pc[u] = "copying" /\ tree = [p \in Parts |-> loaded[u].version]
        /\ pc'[u] = "mark" /\ \A w \in Updaters \ {u} : pc'[w] = pc[w]
        /\ UNCHANGED <<tree, backup, running>> /\ installed' = loaded[u].version
    BY <1>9 DEF Replaced, Source, files, app, LockFacts
  <2>2. loaded[u].version \in Versions
    BY <2>1, ValueTypes DEF HandoffsHeld, Holding, Inside
  <2>3. Whole(tree')
    BY <2>1, <2>2 DEF Whole
  <2>4. running' = 0
    BY <2>1, HolderIsAlone DEF Holding, Inside
  <2>5. FilesOf(u)'
    BY <2>1, <2>3 DEF FilesOf, Before, Replacing
  <2>6. TreeIsInstalled' /\ TornTreeHasBackup'
    BY <2>1, <2>3 DEF TreeIsInstalled, TornTreeHasBackup
  <2> QED
    BY <2>1, <2>4, <2>5, <2>6, HolderFiles DEF Holding, Inside
<1>10. CASE Restored(u)
  <2>1. /\ pc[u] = "restoring" /\ tree = backup[u]
        /\ pc'[u] = "ended" /\ \A w \in Updaters \ {u} : pc'[w] = pc[w]
        /\ UNCHANGED <<tree, backup, installed, wreck, running>>
    BY <1>10 DEF Restored, Source, EndsUnapplied, files, app, history, LockFacts
  <2>2. /\ wreck \/ backup[u] = [p \in Parts |-> installed]
        /\ \E v \in Updaters : Whole(backup[v])
    BY <2>1 DEF Files, FilesOf, Replacing
  <2>3. FilesOf(u)'
    BY <2>1 DEF FilesOf, Before, Replacing, Cleaning
  <2>4. TreeIsInstalled' /\ TornTreeHasBackup'
    BY <2>1, <2>2 DEF TreeIsInstalled, TornTreeHasBackup, Whole
  <2> QED
    BY <1>0, <2>1, <2>3, <2>4, HolderFiles DEF Holding, Inside
<1>11. CASE WriteMarker(u) \/ DropPackage(u) \/ DropHandoff(u)
  <2>1. PICK x \in Cleaning : pc' = [pc EXCEPT ![u] = x]
    BY <1>11 DEF WriteMarker, DropPackage, DropHandoff, Cleaning
  <2>2. pc[u] \in Cleaning /\ UNCHANGED <<tree, backup, installed, wreck, running>>
    BY <1>11 DEF WriteMarker, DropPackage, DropHandoff, app, history, Cleaning
  <2> QED
    BY <1>0, <2>1, <2>2, QuietFiles DEF Before, Replacing, Cleaning
<1>12. CASE Prune(u)
  <2>1. /\ pc[u] = "prune" /\ UNCHANGED <<tree, installed, wreck, running>>
        /\ pc'[u] = "restart" /\ \A w \in Updaters \ {u} : pc'[w] = pc[w]
    BY <1>12 DEF Prune, app, history, LockFacts
  <2>2. \A w \in Updaters : backup'[w] \in {backup[w], NoTree}
    BY <1>12 DEF Prune, TypeOK
  <2>3. Whole(tree) /\ \A w \in Updaters : ~Touching(w)
    BY <2>1, HolderIsAlone, TouchingIsReplacing, PhasesDiffer
       DEF Files, FilesOf, Cleaning, Holding, Replacing
  <2>4. FilesOf(u)'
    BY <2>1 DEF FilesOf, Before, Replacing, Cleaning
  <2>5. TreeIsInstalled' /\ TornTreeHasBackup'
    BY <2>1, <2>3 DEF Files, TreeIsInstalled, TornTreeHasBackup, Whole
  <2> QED
    BY <1>0, <2>1, <2>2, <2>4, <2>5, HolderFiles DEF Holding, Cleaning
<1>13. CASE Restart(u)
  <2>1. /\ pc[u] = "restart" /\ pc' = [pc EXCEPT ![u] = "ended"]
        /\ UNCHANGED <<tree, backup, installed, wreck>>
    BY <1>13 DEF Restart, files, history
  <2>2. running' # 0 => tree = [p \in Parts |-> running']
    BY <1>0, <1>13 DEF Restart
  <2> QED
    BY <2>1, <2>2, QuietFiles DEF Before, Replacing, Cleaning
<1> QED
  BY <1>1, <1>2, <1>3, <1>4, <1>5, <1>6, <1>7, <1>8, <1>9, <1>10, <1>11, <1>12, <1>13
     DEF UpdaterStep

LEMMA MishapFiles ==
    ASSUME TypeOK, LockFacts, Locks, Files, NEW u \in Updaters, Fails(u) \/ Crash(u)
    PROVE  Files'
<1>1. CASE pc[u] \in Replacing
  <2>1. /\ pc'[u] \in {"unwinding", "ended"} /\ \A w \in Updaters \ {u} : pc'[w] = pc[w]
        /\ UNCHANGED <<backup, installed, running>>
        /\ pc'[u] = "ended" => wreck'
        /\ wreck => wreck'
    BY <1>1 DEF Fails, Crash, EndsUnapplied, LockFacts, app, Undone, Replacing, Touching, files
  <2>2. running' = 0
    BY <1>1, <2>1, HolderIsAlone, PhasesDiffer
  <2>3. /\ wreck \/ backup[u] = [p \in Parts |-> installed]
        /\ \E v \in Updaters : Whole(backup[v])
    BY <1>1 DEF Files, FilesOf
  <2>4. FilesOf(u)'
    BY <2>1, <2>3 DEF FilesOf, Before, Replacing, Cleaning, Whole
  <2>5. TreeIsInstalled' /\ TornTreeHasBackup'
    BY <2>1, <2>3 DEF TreeIsInstalled, TornTreeHasBackup, Touching, Whole
  <2> QED
    BY <1>1, <2>1, <2>2, <2>4, <2>5, HolderFiles, PhasesDiffer
<1>2. CASE pc[u] \notin Replacing
  <2>1. ~Touching(u)
    BY <1>2, TouchingIsReplacing
  <2>2. EndsUnapplied(u)
    BY <1>2 DEF Fails, Crash, Undone, Replacing
  <2>3. UNCHANGED <<tree, backup, installed, wreck, running>>
    BY <1>2, <2>1 DEF Fails, Crash, Undone, Replacing, app, files, TypeOK
  <2> QED
    BY <1>2, <2>2, <2>3, EndsFiles
<1> QED
  BY <1>1, <1>2

-----------------------------------------------------------------------------
(* Versions.                                                               *)

LEMMA VersionsAreNumbers ==
    ASSUME TypeOK
    PROVE  /\ installed \in Nat
           /\ \A v \in Versions : v \in Nat /\ v # 0
BY UpdaterAssumption DEF TypeOK

(* A step of updater u that installs nothing and leaves the app alone.     *)
LEMMA HolderOrder ==
    ASSUME Order, NEW u \in Updaters,
           UNCHANGED <<installed, running, download, fetched>>,
           \A w \in Updaters \ {u} : /\ pc'[w] = pc[w] /\ loaded'[w] = loaded[w]
                                     /\ backup'[w] \in {backup[w], NoTree},
           pending' # NoFile => pending'.handoff.version >= installed,
           \A p \in Parts : tree'[p] \in Versions => tree'[p] >= installed,
           OrderOf(u)'
    PROVE  Order'
<1>1. ASSUME NEW w \in Updaters \ {u} PROVE OrderOf(w)'
  <2>1. OrderOf(w)
    BY DEF Order
  <2>2. \A p \in Parts : NoTree[p] \notin Versions
    BY UpdaterAssumption DEF NoTree
  <2> QED
    BY <2>1, <2>2 DEF OrderOf
<1> QED
  BY <1>1 DEF Order

(* A step that moves u to phase x, and perhaps clears the pending file.    *)
LEMMA QuietOrder ==
    ASSUME LockFacts, Order, NEW u \in Updaters, NEW x,
           pc' = [pc EXCEPT ![u] = x],
           x \in {"saving"} \cup Replacing => pc[u] \in {"saving"} \cup Replacing,
           x \in Cleaning => pc[u] \in Cleaning,
           UNCHANGED <<installed, running, download, fetched, tree, loaded>>,
           \A w \in Updaters : backup'[w] \in {backup[w], NoTree},
           pending' \in {pending, NoFile}
    PROVE  Order'
<1>1. pc'[u] = x /\ \A w \in Updaters \ {u} : pc'[w] = pc[w]
  BY DEF LockFacts
<1>2. OrderOf(u)'
  <2>1. OrderOf(u)
    BY DEF Order
  <2>2. \A p \in Parts : NoTree[p] \notin Versions
    BY UpdaterAssumption DEF NoTree
  <2> QED
    BY <1>1, <2>1, <2>2 DEF OrderOf
<1> QED
  BY <1>1, <1>2, HolderOrder DEF Order

(* A whole tree the app can start from is not older than the installed one. *)
LEMMA StartedOrder ==
    ASSUME Order, NEW v \in Versions, tree = [p \in Parts |-> v]
    PROVE  v >= installed
BY UpdaterAssumption DEF Order

LEMMA AppOrder ==
    ASSUME TypeOK, Locks, Order, AppStep
    PROVE  Order'
<1>1. UNCHANGED <<installed, tree, backup, loaded>>
  BY DEF AppStep, StartApp, AppExits, DownloadFails, Publish, WriteHandoff, BeginDownload,
         Launch, files, history
<1>2. \A w \in Updaters : pc'[w] = pc[w] \/ pc'[w] = "start"
  BY DEF AppStep, StartApp, AppExits, DownloadFails, Publish, WriteHandoff, BeginDownload,
         Launch, TypeOK
<1>3. \A w \in Updaters : OrderOf(w)'
  BY <1>1, <1>2 DEF Order, OrderOf, Replacing, Cleaning
<1>4. CASE StartApp
  <2>1. running' >= installed /\ UNCHANGED <<download, fetched, pending>> /\ running' # 0
    BY <1>4, StartedOrder, VersionsAreNumbers DEF StartApp, files
  <2> QED
    BY <1>1, <1>3, <2>1 DEF Order
<1>5. CASE AppExits
  BY <1>1, <1>3, <1>5 DEF AppExits, Order, files
<1>6. CASE DownloadFails
  BY <1>1, <1>3, <1>6 DEF DownloadFails, Order, files
<1>7. CASE Publish
  <2>1. /\ running # 0 /\ running >= installed
        /\ UNCHANGED <<running, download, pending>>
    BY <1>7 DEF Publish, Order
  <2>2. fetched'.version >= installed
    <3>1. PICK v \in Versions : v > running /\ fetched' = [id |-> made + 1, version |-> v]
      BY <1>7 DEF Publish
    <3>2. fetched'.version = v
      BY <3>1
    <3>3. v \in Nat /\ running \in Nat /\ installed \in Nat
      BY VersionsAreNumbers DEF TypeOK
    <3> QED
      BY <2>1, <3>1, <3>2, <3>3
  <2> QED
    BY <1>1, <1>3, <2>1, <2>2 DEF Order
<1>8. CASE WriteHandoff
  <2>1. pending'.handoff = fetched /\ fetched # NoHandoff /\ fetched' = NoHandoff
    BY <1>8 DEF WriteHandoff
  <2>2. running' = running /\ download # "idle"
    BY <1>8 DEF WriteHandoff, Locks
  <2> QED
    BY <1>1, <1>3, <2>1, <2>2 DEF Order
<1>9. CASE \E kind \in {"download", "download-and-apply"} : BeginDownload(kind)
  BY <1>1, <1>3, <1>9 DEF BeginDownload, Order, files
<1>10. CASE \E u \in Updaters : Launch(u)
  BY <1>1, <1>3, <1>10 DEF Launch, Order, files
<1> QED
  BY <1>4, <1>5, <1>6, <1>7, <1>8, <1>9, <1>10 DEF AppStep

LEMMA UpdaterOrder ==
    ASSUME TypeOK, LockFacts, Locks, HandoffsHeld, Order, NEW u \in Updaters, UpdaterStep(u)
    PROVE  Order'
<1>0. OrderOf(u)
  BY DEF Order
<1>1. CASE Load(u)
  <2>1. PICK x \in {"waitOp", "again", "ended"} : pc' = [pc EXCEPT ![u] = x]
    BY <1>1 DEF Load
  <2>2. UNCHANGED <<installed, running, download, fetched, tree, backup, pending>>
    BY <1>1 DEF Load, files, app, history
  <2>3. \A w \in Updaters \ {u} : pc'[w] = pc[w] /\ loaded'[w] = loaded[w]
    BY <1>1 DEF Load, TypeOK
  <2>4. OrderOf(u)'
    BY <2>1 DEF OrderOf, Replacing, Cleaning, LockFacts
  <2> QED
    BY <2>2, <2>3, <2>4, HolderOrder DEF Order
<1>2. CASE TakeOperationLock(u) \/ TakeAppLock(u) \/ GiveUp(u) \/ Restored(u) \/ CheckHandoff(u)
  <2>1. PICK x \in {"check", "staged", "ended", "waitApp"} : pc' = [pc EXCEPT ![u] = x]
    BY <1>2 DEF TakeOperationLock, TakeAppLock, GiveUp, Restored, CheckHandoff, EndsUnapplied
  <2>2. UNCHANGED <<installed, running, download, fetched, tree, loaded, pending, backup>>
    BY <1>2 DEF TakeOperationLock, TakeAppLock, GiveUp, Restored, CheckHandoff, files, app, history
  <2> QED
    BY <2>1, <2>2, QuietOrder DEF Replacing, Cleaning
<1>3. CASE BeginBackup(u)
  <2>1. /\ pc[u] = "staged"
        /\ UNCHANGED <<installed, running, download, fetched, tree, loaded, pending>>
    BY <1>3 DEF BeginBackup, app, history
  <2>2. /\ \A w \in Updaters : backup'[w] \in {backup[w], NoTree}
        /\ \A w \in Updaters \ {u} : pc'[w] = pc[w]
        /\ pc'[u] = "ended" \/ (pc'[u] = "saving" /\ backup'[u] = NoTree)
    BY <1>3 DEF BeginBackup, BackupBegun, EndsUnapplied, TypeOK
  <2>3. OrderOf(u)'
    BY <2>2, UpdaterAssumption DEF OrderOf, NoTree, Replacing, Cleaning
  <2> QED
    BY <2>1, <2>2, <2>3, HolderOrder DEF Order
<1>4. CASE \E p \in Parts : SavePart(u, p)
  <2>1. PICK p \in Parts : SavePart(u, p)
    BY <1>4
  <2>2. /\ pc[u] = "saving"
        /\ UNCHANGED <<pc, installed, running, download, fetched, tree, loaded, pending>>
        /\ backup'[u] = [backup[u] EXCEPT ![p] = tree[p]]
        /\ \A w \in Updaters \ {u} : backup'[w] = backup[w]
    BY <2>1 DEF SavePart, app, history, TypeOK
  <2>3. \A q \in Parts : backup'[u][q] \in {backup[u][q], tree[q]}
    BY <2>2 DEF TypeOK, Trees
  <2>4. OrderOf(u)'
    BY <1>0, <2>2, <2>3 DEF OrderOf, Order, Cleaning
  <2> QED
    BY <2>2, <2>4, HolderOrder DEF Order
<1>5. CASE Saved(u) \/ Removed(u)
  <2>1. PICK x \in Replacing : pc' = [pc EXCEPT ![u] = x]
    BY <1>5 DEF Saved, Removed, Replacing
  <2>2. /\ pc[u] \in {"saving"} \cup Replacing
        /\ UNCHANGED <<installed, running, download, fetched, tree, loaded, pending, backup>>
    BY <1>5 DEF Saved, Removed, files, app, history, Replacing
  <2> QED
    BY <2>1, <2>2, QuietOrder DEF Replacing, Cleaning
<1>6. CASE \E p \in Parts : RemovePart(u, p) \/ CopyPart(u, p)
  <2>1. PICK p \in Parts : RemovePart(u, p) \/ CopyPart(u, p)
    BY <1>6
  <2>2. UNCHANGED <<pc, installed, running, download, fetched, loaded, pending, backup>>
    BY <2>1 DEF RemovePart, CopyPart, app, history
  <2>3. pc[u] \in {"copying", "restoring"} =>
          \A q \in Parts : Source(u)[q] \in Versions => Source(u)[q] >= installed
    <3>1. CASE pc[u] = "copying"
      BY <3>1 DEF Source, HandoffsHeld, Order, Inside
    <3>2. CASE pc[u] = "restoring"
      BY <1>0, <3>2 DEF Source, OrderOf, Replacing
    <3> QED
      BY <3>1, <3>2
  <2>4. \A q \in Parts : tree'[q] \in {tree[q], Absent, Torn}
                         \/ (pc[u] \in {"copying", "restoring"} /\ tree'[q] = Source(u)[q])
    BY <2>1 DEF RemovePart, CopyPart, TypeOK, Trees
  <2>5. \A q \in Parts : tree'[q] \in Versions => tree'[q] >= installed
    BY <2>3, <2>4, UpdaterAssumption DEF Order
  <2>6. OrderOf(u)'
    BY <1>0, <2>2 DEF OrderOf
  <2> QED
    BY <2>2, <2>5, <2>6, HolderOrder DEF Order
<1>7. CASE Replaced(u)
  <2>1. /\ pc[u] = "copying" /\ tree = [p \in Parts |-> loaded[u].version]
        /\ pc'[u] = "mark" /\ \A w \in Updaters \ {u} : pc'[w] = pc[w]
        /\ UNCHANGED <<tree, pending, running, download, fetched, loaded>>
        /\ installed' = loaded[u].version
    BY <1>7 DEF Replaced, Source, files, app, LockFacts
  <2>2. loaded[u].version \in Nat
    BY <2>1, ValueTypes, VersionsAreNumbers DEF HandoffsHeld, Holding, Inside
  <2>3. /\ running = 0
        /\ \A w \in Updaters \ {u} : pc[w] \notin Holding
    BY <2>1, HolderIsAlone DEF Holding, Inside
  <2>4. opLock = u /\ download = "idle" /\ fetched = NoHandoff
    BY <2>1, UpdaterAssumption DEF Locks, Holding, Inside
  <2>5. pending.handoff = loaded[u]
    BY <2>1 DEF HandoffsHeld, Inside
  <2>6. \A w \in Updaters \ {u} : OrderOf(w)'
    BY <2>1, <2>3 DEF OrderOf, Holding, Inside, Replacing
  <2>7. OrderOf(u)'
    BY <2>1, <2>2 DEF OrderOf, Replacing
  <2> QED
    BY <2>1, <2>2, <2>3, <2>4, <2>5, <2>6, <2>7 DEF Order
<1>8. CASE WriteMarker(u)
  <2>1. /\ pc[u] = "mark" /\ pc'[u] = "package" /\ \A w \in Updaters \ {u} : pc'[w] = pc[w]
        /\ UNCHANGED <<installed, running, download, fetched, tree, loaded, backup>>
        /\ pending' \in {pending, Overwritten(u)}
    BY <1>8 DEF WriteMarker, app, history, LockFacts
  <2>2. loaded[u].version >= installed
    BY <1>0, <2>1 DEF OrderOf, Cleaning
  <2>3. pending' # NoFile => pending'.handoff.version >= installed
    BY <2>1, <2>2 DEF Overwritten, Order
  <2>4. OrderOf(u)'
    BY <2>1, <2>2 DEF OrderOf, Replacing
  <2> QED
    BY <2>1, <2>3, <2>4, HolderOrder DEF Order
<1>9. CASE DropPackage(u) \/ DropHandoff(u) \/ Prune(u)
  <2>1. PICK x \in {"handoff", "prune", "restart"} : pc' = [pc EXCEPT ![u] = x]
    BY <1>9 DEF DropPackage, DropHandoff, Prune
  <2>2. /\ pc[u] \in Cleaning
        /\ UNCHANGED <<installed, running, download, fetched, tree, loaded>>
        /\ \A w \in Updaters : backup'[w] \in {backup[w], NoTree}
        /\ pending' \in {pending, NoFile}
    BY <1>9 DEF DropPackage, DropHandoff, Prune, app, history, Cleaning, TypeOK
  <2> QED
    BY <2>1, <2>2, QuietOrder DEF Replacing
<1>10. CASE Restart(u)
  <2>1. /\ pc'[u] = "ended" /\ \A w \in Updaters \ {u} : pc'[w] = pc[w]
        /\ UNCHANGED <<installed, download, fetched, tree, loaded, pending, backup>>
    BY <1>10 DEF Restart, files, history, LockFacts
  <2>2. running' = running \/ (running' # 0 /\ running' >= installed)
    BY <1>10, StartedOrder, VersionsAreNumbers DEF Restart
  <2>3. \A w \in Updaters : OrderOf(w)'
    BY <2>1 DEF Order, OrderOf, Replacing, Cleaning
  <2> QED
    BY <2>1, <2>2, <2>3 DEF Order
<1> QED
  BY <1>1, <1>2, <1>3, <1>4, <1>5, <1>6, <1>7, <1>8, <1>9, <1>10 DEF UpdaterStep

LEMMA MishapOrder ==
    ASSUME TypeOK, LockFacts, Order, NEW u \in Updaters, Fails(u) \/ Crash(u)
    PROVE  Order'
<1>1. /\ \A w \in Updaters \ {u} : pc'[w] = pc[w]
      /\ pc'[u] = "ended" \/ (pc[u] \in Replacing /\ pc'[u] = "unwinding")
      /\ UNCHANGED <<installed, running, download, fetched, loaded, pending, backup>>
  BY DEF Fails, Crash, EndsUnapplied, app, files, LockFacts, Undone, Replacing
<1>2. \A p \in Parts : tree'[p] \in {tree[p], Torn}
  BY DEF Fails, Crash, files, TypeOK, Trees
<1>3. \A p \in Parts : tree'[p] \in Versions => tree'[p] >= installed
  BY <1>2, UpdaterAssumption DEF Order
<1>4. OrderOf(u)'
  BY <1>1 DEF Order, OrderOf, Replacing, Cleaning
<1> QED
  BY <1>1, <1>3, <1>4, HolderOrder DEF Order

-----------------------------------------------------------------------------
(* The invariant.                                                          *)

LEMMA InvInit == Init => IInv
<1> SUFFICES ASSUME Init PROVE IInv
  OBVIOUS
<1> USE UpdaterAssumption
<1>0. PICK v \in Versions : tree = [p \in Parts |-> v] /\ installed = v
  BY DEF Init
<1>1. TypeOK
  <2>1. tree \in Trees /\ backup \in [Updaters -> Trees] /\ pending \in Pending
    BY <1>0, ValueTypes DEF Init
  <2>2. pc \in [Updaters -> Pcs]
    BY DEF Init, Pcs
  <2>3. loaded \in [Updaters -> Handoffs \cup {NoHandoff}] /\ applied \in [1..MaxHandoffs -> Nat]
    BY DEF Init
  <2>4. 0 \in 0..MaxHandoffs /\ 0 \in 0..MaxFaults /\ 0 \in 0..MaxCrashes
    OBVIOUS
  <2> QED
    BY <1>0, <2>1, <2>2, <2>3, <2>4 DEF Init, TypeOK
<1>2. Locks
  BY DEF Init, Locks, Holding, Inside, Cleaning, App, None
<1>3. HandoffsHeld
  BY DEF Init, HandoffsHeld, Holding, Inside, Cleaning
<1>4. Files
  BY <1>0 DEF Init, Files, FilesOf, TreeIsInstalled, TornTreeHasBackup, Whole, Before,
              Replacing, Cleaning
<1>5. Order
  <2>1. \A p \in Parts : tree[p] >= installed
    BY <1>0
  <2> QED
    BY <2>1 DEF Init, Order, OrderOf, Replacing, Cleaning
<1> QED
  BY <1>1, <1>2, <1>3, <1>4, <1>5 DEF IInv

LEMMA InvNext ==
    ASSUME IInv, [Next]_vars
    PROVE  IInv'
<1>0. TypeOK /\ LockFacts /\ Locks /\ HandoffsHeld /\ Files /\ Order
  BY DEF IInv, TypeOK, LockFacts
<1>1. CASE AppStep
  <2>1. HandoffsHeld'
    BY <1>0, <1>1, HandoffStep DEF Next
  <2> QED
    BY <1>0, <1>1, <2>1, AppTypes, AppLocks, AppFiles, AppOrder DEF IInv
<1>2. CASE \E u \in Updaters : UpdaterStep(u)
  <2>1. HandoffsHeld'
    BY <1>0, <1>2, HandoffStep DEF Next
  <2> QED
    BY <1>0, <1>2, <2>1, UpdaterTypes, UpdaterLocks, UpdaterFiles, UpdaterOrder DEF IInv
<1>3. CASE \E u \in Updaters : Fails(u) \/ Crash(u)
  <2>1. HandoffsHeld'
    BY <1>0, <1>3, HandoffStep DEF Next
  <2> QED
    BY <1>0, <1>3, <2>1, MishapTypes, UpdaterLocks, MishapFiles, MishapOrder DEF IInv
<1>4. CASE UNCHANGED vars
  <2> USE <1>0, <1>4 DEF vars, files, locks, app, history
  <2>1. TypeOK'
    BY DEF TypeOK
  <2>2. Locks' /\ HandoffsHeld'
    BY DEF Locks, HandoffsHeld
  <2>3. Files'
    BY StillFiles DEF Files
  <2>4. Order'
    BY DEF Order, OrderOf
  <2> QED
    BY <2>1, <2>2, <2>3, <2>4 DEF IInv
<1> QED
  BY <1>1, <1>2, <1>3, <1>4 DEF Next

LEMMA InvHolds == Spec => []IInv
BY InvInit, InvNext, PTL DEF Spec

(* Every variable stays in its type.                                       *)
THEOREM UpdaterTypeCorrect == Spec => []TypeOK
BY InvHolds, PTL DEF IInv

(* No updater touches the files of a running app, and no two work on the   *)
(* app tree at once: the two file locks exclude (apply.py, instance_lock). *)
THEOREM RunningAppIsUntouched == Spec => []AppIsUntouched
<1>1. IInv => AppIsUntouched
  <2> SUFFICES ASSUME IInv PROVE AppIsUntouched
    OBVIOUS
  <2>1. running # 0 => appLock = App /\ tree = [p \in Parts |-> running]
    BY DEF IInv, Locks, Files
  <2>2. ASSUME NEW u \in Updaters, NEW v \in Updaters, Touching(u), Touching(v)
        PROVE  u = v
    BY <2>2, TouchingIsReplacing, PhasesDiffer DEF IInv, Locks
  <2> QED
    BY <2>1, <2>2 DEF AppIsUntouched
<1> QED
  BY <1>1, InvHolds, PTL

(* Outside a replacement the tree is the version installed last, unless a  *)
(* replacement was cut short: replace_app_files undoes its own failure.    *)
THEOREM TreeStaysInstalled == Spec => []TreeIsInstalled
<1>1. IInv => TreeIsInstalled
  BY DEF IInv, Files
<1> QED
  BY <1>1, InvHolds, PTL

(* A torn tree can always be put right by hand: pruning the backups never  *)
(* removes the last whole copy while the tree is not whole.                *)
THEOREM TornTreeIsBackedUp == Spec => []TornTreeHasBackup
<1>1. IInv => TornTreeHasBackup
  BY DEF IInv, Files
<1> QED
  BY <1>1, InvHolds, PTL

(* How a step moves what AppInstall sees.                                  *)
LEMMA StepsOfInstalled ==
    ASSUME IInv, [Next]_vars, ~\E u \in Updaters : Replaced(u)
    PROVE  installed' = installed
BY DEF Next, AppStep, StartApp, AppExits, DownloadFails, Publish, WriteHandoff, BeginDownload,
       Launch, UpdaterStep, Load, TakeOperationLock, CheckHandoff, TakeAppLock, GiveUp,
       BeginBackup, Saved, Removed, Restored, SavePart, RemovePart, CopyPart, WriteMarker,
       DropPackage, DropHandoff, Prune, Restart, Fails, Crash, history, vars

LEMMA StepsOfRunning ==
    ASSUME IInv, [Next]_vars,
           ~StartApp, ~AppExits, ~\E u \in Updaters : Restart(u)
    PROVE  running' = running
BY DEF Next, AppStep, DownloadFails, Publish, WriteHandoff, BeginDownload,
       Launch, UpdaterStep, Load, TakeOperationLock, CheckHandoff, TakeAppLock, GiveUp,
       BeginBackup, Saved, Removed, Replaced, Restored, SavePart, RemovePart, CopyPart, WriteMarker,
       DropPackage, DropHandoff, Prune, Fails, Crash, app, vars

LEMMA StepsOfWreck ==
    ASSUME IInv, [Next]_vars, wreck' # wreck
    PROVE  \E u \in Updaters : Replaced(u) \/ (Touching(u) /\ wreck' = TRUE /\ (Fails(u) \/ Crash(u)))
<1>1. CASE \E u \in Updaters : Fails(u) \/ Crash(u)
  <2>1. PICK u \in Updaters : Fails(u) \/ Crash(u)
    BY <1>1
  <2>2. wreck \in BOOLEAN
    BY DEF IInv, TypeOK
  <2>3. Touching(u) /\ wreck' = TRUE
    BY <2>1, <2>2 DEF Fails, Crash, Touching
  <2> QED
    BY <2>1, <2>3
<1>2. CASE ~\E u \in Updaters : Fails(u) \/ Crash(u)
  BY <1>2 DEF Next, AppStep, StartApp, AppExits, DownloadFails, Publish, WriteHandoff, BeginDownload,
       Launch, UpdaterStep, Load, TakeOperationLock, CheckHandoff, TakeAppLock, GiveUp,
       BeginBackup, Saved, Removed, Restored, SavePart, RemovePart, CopyPart, WriteMarker,
       DropPackage, DropHandoff, Prune, Restart, history, vars
<1> QED
  BY <1>1, <1>2

LEMMA ReplacedInstalls ==
    ASSUME IInv, NEW u \in Updaters, Replaced(u)
    PROVE  /\ running = 0 /\ running' = running
           /\ installed' \in Versions /\ installed' >= installed
           /\ wreck' = FALSE
<1>1. pc[u] = "copying" /\ installed' = loaded[u].version /\ wreck' = FALSE /\ running' = running
  BY DEF Replaced, app
<1>2. loaded[u] \in Handoffs /\ pending # NoFile /\ pending.handoff = loaded[u]
  BY <1>1 DEF IInv, HandoffsHeld, Holding, Inside
<1>3. running = 0
  BY <1>1, HolderIsAlone DEF IInv, Holding, Inside
<1> QED
  BY <1>1, <1>2, <1>3, ValueTypes DEF IInv, Order

(* No stale handoff and no updater of an older app installs an older       *)
(* version: the updater applies what is pending, and that is newer.        *)
THEOREM UpdatesNeverDowngrade == Spec => NeverDowngrades
<1>1. ASSUME IInv, [Next]_vars PROVE [installed' >= installed]_vars
  <2>1. installed \in Nat
    BY <1>1, VersionsAreNumbers DEF IInv
  <2>2. CASE \E u \in Updaters : Replaced(u)
    BY <1>1, <2>2, ReplacedInstalls
  <2>3. CASE ~\E u \in Updaters : Replaced(u)
    <3>1. installed' = installed
      BY <1>1, <2>3, StepsOfInstalled
    <3> QED
      BY <2>1, <3>1
  <2> QED
    BY <2>2, <2>3
<1> QED
  BY <1>1, InvHolds, PTL DEF Spec, NeverDowngrades

(* Every step of the app, the updaters, an error and a crash is a step of  *)
(* AppInstall or leaves what it sees alone.                                *)
THEOREM InstallRefinement == Spec => ImplementsAppInstall
<1>1. Init => Promise!Init
  BY DEF Init, Promise!Init, Promise!Down
<1>2. ASSUME IInv, [Next]_vars PROVE [Promise!Next]_(Promise!vars)
  <2>0. wreck \in BOOLEAN /\ installed \in Versions
    BY <1>2 DEF IInv, TypeOK
  <2>1. CASE \E u \in Updaters : Replaced(u)
    <3>1. Promise!Install
      BY <1>2, <2>1, ReplacedInstalls DEF Promise!Install, Promise!Down
    <3> QED
      BY <3>1 DEF Promise!Next
  <2>2. CASE StartApp \/ \E u \in Updaters : Restart(u)
    <3>1. UNCHANGED <<installed, wreck>>
      BY <2>2 DEF StartApp, Restart, history
    <3>2. CASE running' = running
      BY <3>1, <3>2 DEF Promise!vars
    <3>3. CASE running' # running
      <4>1. /\ appLock = None
            /\ \E v \in Versions : tree = [p \in Parts |-> v] /\ running' = v
        BY <2>2, <3>3 DEF StartApp, Restart
      <4>2. PICK v \in Versions : tree = [p \in Parts |-> v] /\ running' = v
        BY <4>1
      <4>3. running = 0
        BY <1>2, <4>1, UpdaterAssumption DEF IInv, Locks, None, App
      <4>4. v >= installed
        BY <1>2, <4>2, StartedOrder DEF IInv
      <4>5. \A u \in Updaters : ~Touching(u)
        BY <1>2, <4>1, UpdaterAssumption, TouchingIsReplacing, PhasesDiffer DEF IInv, Locks
      <4>6. wreck \/ v = installed
        <5>1. CASE tree = [p \in Parts |-> installed]
          <6>1. PICK p \in Parts : TRUE
            BY UpdaterAssumption
          <6>2. tree[p] = v /\ tree[p] = installed
            BY <4>2, <5>1
          <6> QED
            BY <6>2
        <5>2. wreck \/ tree = [p \in Parts |-> installed]
          BY <1>2, <4>5 DEF IInv, Files, TreeIsInstalled
        <5> QED
          BY <5>1, <5>2
      <4>7. Promise!Start
        BY <3>1, <4>2, <4>3, <4>4, <4>6 DEF Promise!Start, Promise!Down
      <4> QED
        BY <4>7 DEF Promise!Next
    <3> QED
      BY <3>2, <3>3
  <2>3. CASE AppExits
    <3>1. Promise!Stop
      BY <2>3 DEF AppExits, history, Promise!Stop, Promise!Down
    <3> QED
      BY <3>1 DEF Promise!Next
  <2>4. CASE /\ ~\E u \in Updaters : Replaced(u) \/ Restart(u)
             /\ ~StartApp /\ ~AppExits
    <3>1. running' = running /\ installed' = installed
      BY <1>2, <2>4, StepsOfInstalled, StepsOfRunning
    <3>2. CASE wreck' = wreck
      BY <3>1, <3>2 DEF Promise!vars
    <3>3. CASE wreck' # wreck
      <4>1. PICK u \in Updaters : Touching(u) /\ wreck' = TRUE
        BY <1>2, <2>4, <3>3, StepsOfWreck
      <4>2. running = 0
        BY <1>2, <4>1, TouchingIsReplacing, PhasesDiffer, HolderIsAlone DEF IInv
      <4>3. Promise!CutShort
        BY <3>1, <4>1, <4>2 DEF Promise!CutShort, Promise!Down
      <4> QED
        BY <4>3 DEF Promise!Next
    <3> QED
      BY <3>2, <3>3
  <2> QED
    BY <2>1, <2>2, <2>3, <2>4
<1> QED
  BY <1>1, <1>2, InvHolds, PTL DEF Spec, ImplementsAppInstall, Promise!Spec
-----------------------------------------------------------------------------
(* A handoff is applied once.                                              *)

Fresh == {"waitApp", "staged", "saving", "removing", "copying"}

(* No crash, and at most two errors of the file system.                    *)
Calm == crashes = 0 /\ faults <= 2

(* Ids are given once, and the one just fetched is nowhere else yet.       *)
IdsOK ==
    /\ pending.handoff.id <= made
    /\ \A u \in Updaters : loaded[u].id <= made
    /\ \A h \in 1..MaxHandoffs : h > made => applied[h] = 0
    /\ fetched # NoHandoff =>
          /\ fetched.id = made /\ applied[made] = 0
          /\ pending.handoff.id # made
          /\ \A u \in Updaters : loaded[u].id # made

(* What u was allowed to apply still is what it was when u checked it.     *)
FreshOK ==
    \A u \in Updaters :
        /\ pc[u] \in Fresh =>
              marker # loaded[u] /\ ~pending.consumed /\ loaded[u].id \in packages
        /\ pc[u] = "mark" => pending.handoff = loaded[u]

(* The pending file no longer passes for handoff h.                        *)
Spent(h) ==
    \/ pending.handoff.id # h \/ pending.consumed
    \/ marker = pending.handoff
    \/ h \notin packages

(* u has applied h and is about to leave the trace that says so.           *)
Marking(u, h) ==
    /\ loaded[u].id = h
    /\ pc[u] = "mark" \/ (pc[u] = "package" /\ faults = 2)

AppliedOK ==
    Calm => \A h \in 1..MaxHandoffs :
        /\ applied[h] <= 1
        /\ applied[h] = 1 => Spent(h) \/ \E u \in Updaters : Marking(u, h)

ReplayInv == IdsOK /\ FreshOK /\ AppliedOK

LEMMA CalmLasts ==
    ASSUME TypeOK, TypeOK', crashes' >= crashes, faults' >= faults, Calm'
    PROVE  Calm /\ (faults = 2 => faults' = 2)
BY UpdaterAssumption DEF Calm, TypeOK

(* A step after which no more updaters are cleared to apply, and those     *)
(* that have applied but not said so still are.                            *)
LEMMA QuietReplay ==
    ASSUME TypeOK, TypeOK', ReplayInv,
           UNCHANGED <<pending, marker, packages, made, applied, loaded>>,
           fetched' \in {fetched, NoHandoff},
           crashes' >= crashes, faults' >= faults,
           \A v \in Updaters :
               /\ pc'[v] \in Fresh => pc[v] \in Fresh
               /\ pc'[v] = "mark" => pc[v] = "mark"
               /\ Calm' /\ pc[v] \in {"mark", "package"} => pc'[v] = pc[v]
    PROVE  ReplayInv'
<1>1. IdsOK'
  BY DEF ReplayInv, IdsOK
<1>2. FreshOK'
  BY DEF ReplayInv, FreshOK
<1>3. AppliedOK'
  <2> SUFFICES ASSUME Calm', NEW h \in 1..MaxHandoffs
               PROVE  /\ applied[h] <= 1
                      /\ applied[h] = 1 => Spent(h)' \/ \E v \in Updaters : Marking(v, h)'
    BY DEF AppliedOK
  <2>1. Calm /\ (faults = 2 => faults' = 2)
    BY CalmLasts
  <2>2. applied[h] <= 1 /\ (applied[h] = 1 => Spent(h) \/ \E v \in Updaters : Marking(v, h))
    BY <2>1 DEF ReplayInv, AppliedOK
  <2>3. Spent(h)' = Spent(h)
    BY DEF Spent
  <2>4. ASSUME NEW v \in Updaters, Marking(v, h) PROVE Marking(v, h)'
    BY <2>1, <2>4 DEF Marking
  <2> QED
    BY <2>2, <2>3, <2>4
<1> QED
  BY <1>1, <1>2, <1>3 DEF ReplayInv

LEMMA InitReplay == Init => ReplayInv
<1> SUFFICES ASSUME Init PROVE ReplayInv
  OBVIOUS
<1>1. IdsOK
  BY DEF Init, IdsOK, NoFile, NoHandoff
<1>2. FreshOK
  BY DEF Init, FreshOK, Fresh
<1>3. AppliedOK
  BY DEF Init, AppliedOK
<1> QED
  BY <1>1, <1>2, <1>3 DEF ReplayInv

LEMMA AppReplay ==
    ASSUME IInv, TypeOK', ReplayInv, AppStep
    PROVE  ReplayInv'
<1>0. TypeOK /\ Locks /\ HandoffsHeld /\ pc \in [Updaters -> Pcs]
  BY DEF IInv, TypeOK
<1>0a. faults \in Nat /\ crashes \in Nat
  BY <1>0, UpdaterAssumption DEF TypeOK
<1>1. CASE \/ StartApp \/ AppExits \/ DownloadFails
           \/ \E kind \in {"download", "download-and-apply"} : BeginDownload(kind)
  <2>1. /\ UNCHANGED <<pending, marker, packages, made, applied, loaded, pc, faults, crashes>>
        /\ fetched' \in {fetched, NoHandoff}
    BY <1>1 DEF StartApp, AppExits, DownloadFails, BeginDownload, files, history
  <2> QED
    BY <1>0, <1>0a, <2>1, QuietReplay
<1>2. CASE Publish
  <2>1. /\ UNCHANGED <<pending, marker, applied, loaded, pc, faults, crashes>>
        /\ made' = made + 1 /\ packages' = packages \cup {made + 1}
        /\ fetched'.id = made + 1
        /\ made \in Nat /\ made + 1 \in 1..MaxHandoffs
    BY <1>0, <1>2, UpdaterAssumption DEF Publish, history, TypeOK
  <2>2. /\ pending.handoff.id <= made
        /\ \A u \in Updaters : loaded[u].id <= made
        /\ \A h \in 1..MaxHandoffs : h > made => applied[h] = 0
    BY DEF ReplayInv, IdsOK
  <2>3. pending.handoff.id \in Nat /\ \A u \in Updaters : loaded[u].id \in Nat
    <3>1. \A h \in Handoffs \cup {NoHandoff} : h.id \in Nat
      BY ValueTypes DEF NoHandoff
    <3> QED
      BY <1>0, <3>1 DEF TypeOK, Pending
  <2>4. IdsOK'
    BY <2>1, <2>2, <2>3 DEF IdsOK
  <2>5. FreshOK'
    BY <2>1 DEF ReplayInv, FreshOK
  <2>6. AppliedOK'
    <3> SUFFICES ASSUME Calm', NEW h \in 1..MaxHandoffs
                 PROVE  /\ applied[h] <= 1
                        /\ applied[h] = 1 => Spent(h)' \/ \E v \in Updaters : Marking(v, h)'
      BY <2>1 DEF AppliedOK
    <3>1. applied[h] <= 1 /\ (applied[h] = 1 => Spent(h) \/ \E v \in Updaters : Marking(v, h))
      BY <2>1 DEF ReplayInv, AppliedOK, Calm
    <3>2. applied[h] = 1 => h # made + 1
      BY <2>1, <2>2
    <3>3. h # made + 1 /\ Spent(h) => Spent(h)'
      BY <2>1 DEF Spent
    <3>4. \A v \in Updaters : Marking(v, h) => Marking(v, h)'
      BY <2>1 DEF Marking
    <3> QED
      BY <3>1, <3>2, <3>3, <3>4
  <2> QED
    BY <2>4, <2>5, <2>6 DEF ReplayInv
<1>3. CASE WriteHandoff
  <2>1. /\ UNCHANGED <<marker, packages, applied, loaded, pc, faults, crashes, made>>
        /\ fetched # NoHandoff
        /\ pending' = [handoff |-> fetched, consumed |-> FALSE]
        /\ fetched' = NoHandoff
    BY <1>3 DEF WriteHandoff, history
  <2>2. fetched.id = made /\ applied[made] = 0
    BY <2>1 DEF ReplayInv, IdsOK
  <2>3. \A u \in Updaters : pc[u] \notin Holding
    BY <1>0, <2>1, UpdaterAssumption DEF Locks, App
  <2>4. \A u \in Updaters : pc[u] \notin Fresh /\ pc[u] # "mark" /\ pc[u] # "package"
    BY <2>3 DEF Holding, Inside, Cleaning, Fresh
  <2>5. made \in Nat
    BY <1>0, UpdaterAssumption DEF TypeOK
  <2>6. IdsOK'
    BY <2>1, <2>2, <2>5 DEF ReplayInv, IdsOK
  <2>7. FreshOK'
    BY <2>1, <2>4 DEF FreshOK
  <2>8. AppliedOK'
    <3> SUFFICES ASSUME Calm', NEW h \in 1..MaxHandoffs
                 PROVE  applied[h] <= 1 /\ (applied[h] = 1 => Spent(h)')
      BY <2>1 DEF AppliedOK
    <3>1. applied[h] <= 1
      BY <2>1 DEF ReplayInv, AppliedOK, Calm
    <3>2. applied[h] = 1 => h # made
      BY <2>2
    <3>3. h # made => Spent(h)'
      BY <2>1, <2>2 DEF Spent
    <3> QED
      BY <3>1, <3>2, <3>3
  <2> QED
    BY <2>6, <2>7, <2>8 DEF ReplayInv
<1>4. CASE \E u \in Updaters : Launch(u)
  <2>1. PICK u \in Updaters : Launch(u)
    BY <1>4
  <2>2. /\ UNCHANGED <<pending, marker, packages, made, applied, loaded, faults, crashes, fetched>>
        /\ pc[u] = "idle" /\ pc' = [pc EXCEPT ![u] = "start"]
    BY <2>1 DEF Launch, files, history
  <2>3. \A v \in Updaters : pc'[v] = pc[v] \/ (pc[v] = "idle" /\ pc'[v] = "start")
    BY <1>0, <2>2
  <2> QED
    BY <1>0, <1>0a, <2>2, <2>3, QuietReplay DEF Fresh
<1> QED
  BY <1>1, <1>2, <1>3, <1>4 DEF AppStep

LEMMA EndsReplay ==
    ASSUME IInv, TypeOK', ReplayInv, NEW u \in Updaters, EndsUnapplied(u),
           UNCHANGED <<pending, marker, packages, made, applied, loaded, fetched>>,
           crashes' >= crashes, faults' >= faults,
           Calm' => pc[u] \notin {"mark", "package"}
    PROVE  ReplayInv'
<1>0. TypeOK /\ pc \in [Updaters -> Pcs]
  BY DEF IInv, TypeOK
<1>1. pc'[u] = "ended" /\ \A v \in Updaters \ {u} : pc'[v] = pc[v]
  BY <1>0 DEF EndsUnapplied
<1> QED
  BY <1>0, <1>1, QuietReplay DEF Fresh

(* A step of u to another phase that neither clears nor applies.           *)
LEMMA PhaseReplay ==
    ASSUME IInv, TypeOK', ReplayInv, NEW u \in Updaters,
           \A v \in Updaters \ {u} : pc'[v] = pc[v],
           pc'[u] \in Fresh => pc[u] \in Fresh,
           pc'[u] # "mark",
           pc[u] \notin {"mark", "package"},
           UNCHANGED <<pending, marker, packages, made, applied, loaded, fetched>>,
           crashes' >= crashes, faults' >= faults
    PROVE  ReplayInv'
<1>0. TypeOK
  BY DEF IInv
<1> QED
  BY <1>0, QuietReplay

(* What u was cleared for has not been applied before.                     *)
LEMMA ClearedIsNew ==
    ASSUME IInv, ReplayInv, Calm, NEW u \in Updaters, pc[u] = "copying"
    PROVE  /\ loaded[u].id \in 1..MaxHandoffs
           /\ applied[loaded[u].id] = 0
<1>0. TypeOK /\ Locks /\ HandoffsHeld
  BY DEF IInv
<1>1. loaded[u] \in Handoffs /\ pending.handoff = loaded[u]
  BY <1>0 DEF HandoffsHeld, Holding, Inside
<1>2. loaded[u].id \in 1..MaxHandoffs
  BY <1>1, ValueTypes
<1>3. ~Spent(loaded[u].id)
  BY <1>1 DEF ReplayInv, FreshOK, Fresh, Spent
<1>4. \A v \in Updaters : ~Marking(v, loaded[u].id)
  BY <1>0, HolderIsAlone DEF Marking, Holding, Inside, Cleaning
<1>5. applied[loaded[u].id] \in Nat
  BY <1>0, <1>2 DEF TypeOK
<1> QED
  BY <1>2, <1>3, <1>4, <1>5 DEF ReplayInv, AppliedOK

LEMMA UpdaterReplay ==
    ASSUME IInv, TypeOK', ReplayInv, NEW u \in Updaters, UpdaterStep(u)
    PROVE  ReplayInv'
<1>0. TypeOK /\ Locks /\ HandoffsHeld /\ pc \in [Updaters -> Pcs]
  BY DEF IInv, TypeOK
<1>0a. faults \in Nat /\ crashes \in Nat /\ made \in Nat
  BY <1>0, UpdaterAssumption DEF TypeOK
<1>1. CASE Load(u)
  <2>1. UNCHANGED <<pending, marker, packages, made, applied, fetched, faults, crashes>>
    BY <1>1 DEF Load, files, app, history
  <2>2. CASE UNCHANGED loaded
    <3>1. PICK x \in {"waitOp", "again", "ended"} : pc' = [pc EXCEPT ![u] = x]
      BY <1>1 DEF Load
    <3>2. pc[u] \notin {"mark", "package"}
      BY <1>1 DEF Load
    <3> QED
      BY <1>0, <1>0a, <2>1, <2>2, <3>1, <3>2, PhaseReplay DEF Fresh
  <2>3. CASE Readable /\ loaded' = [loaded EXCEPT ![u] = pending.handoff]
             /\ pc' = [pc EXCEPT ![u] = "waitOp"] /\ pc[u] \in {"start", "again"}
    <3>1. /\ loaded'[u] = pending.handoff /\ \A v \in Updaters \ {u} : loaded'[v] = loaded[v]
          /\ pc'[u] = "waitOp" /\ \A v \in Updaters \ {u} : pc'[v] = pc[v]
      BY <1>0, <2>3 DEF TypeOK
    <3>2. IdsOK'
      BY <2>1, <3>1 DEF ReplayInv, IdsOK
    <3>3. FreshOK'
      BY <2>1, <3>1 DEF ReplayInv, FreshOK, Fresh
    <3>4. \A h \in 1..MaxHandoffs : Spent(h)' = Spent(h)
      BY <2>1 DEF Spent
    <3>5. \A h \in 1..MaxHandoffs, v \in Updaters : Marking(v, h) => Marking(v, h)'
      BY <2>1, <2>3, <3>1 DEF Marking
    <3>6. AppliedOK'
      BY <2>1, <3>4, <3>5 DEF ReplayInv, AppliedOK, Calm
    <3> QED
      BY <3>2, <3>3, <3>6 DEF ReplayInv
  <2> QED
    BY <1>1, <2>2, <2>3 DEF Load
<1>2. CASE TakeOperationLock(u)
  BY <1>0, <1>0a, <1>2, PhaseReplay DEF TakeOperationLock, files, app, history, Fresh
<1>3. CASE CheckHandoff(u)
  <2>1. UNCHANGED <<pending, marker, packages, made, applied, loaded, fetched, faults, crashes>>
    BY <1>3 DEF CheckHandoff, files, app, history
  <2>2. CASE IsCurrent(u) /\ Accepts(u) /\ pc' = [pc EXCEPT ![u] = "waitApp"]
    <3>1. pc[u] = "check" /\ pc'[u] = "waitApp" /\ \A v \in Updaters \ {u} : pc'[v] = pc[v]
      BY <1>0, <1>3, <2>2 DEF CheckHandoff
    <3>2. IdsOK'
      BY <2>1 DEF ReplayInv, IdsOK
    <3>3. FreshOK'
      BY <2>1, <2>2, <3>1 DEF ReplayInv, FreshOK, IsCurrent, Accepts, Readable
    <3>4. \A h \in 1..MaxHandoffs : Spent(h)' = Spent(h)
      BY <2>1 DEF Spent
    <3>5. \A h \in 1..MaxHandoffs, v \in Updaters : Marking(v, h) => Marking(v, h)'
      BY <2>1, <3>1 DEF Marking
    <3>6. AppliedOK'
      BY <2>1, <3>4, <3>5 DEF ReplayInv, AppliedOK, Calm
    <3> QED
      BY <3>2, <3>3, <3>6 DEF ReplayInv
  <2>3. CASE EndsUnapplied(u)
    BY <1>0a, <1>3, <2>1, <2>3, EndsReplay DEF CheckHandoff
  <2> QED
    BY <1>3, <2>2, <2>3 DEF CheckHandoff
<1>4. CASE TakeAppLock(u)
  BY <1>0, <1>0a, <1>4, PhaseReplay DEF TakeAppLock, files, app, history, Fresh
<1>5. CASE GiveUp(u) \/ Restored(u)
  BY <1>0a, <1>5, EndsReplay DEF GiveUp, Overdue, Restored, files, app, history
<1>6. CASE BeginBackup(u)
  <2>1. /\ UNCHANGED <<pending, marker, packages, made, applied, loaded, fetched, faults, crashes>>
        /\ pc[u] = "staged"
    BY <1>6 DEF BeginBackup, app, history
  <2>2. CASE pc' = [pc EXCEPT ![u] = "saving"]
    BY <1>0, <1>0a, <2>1, <2>2, PhaseReplay DEF Fresh
  <2>3. CASE EndsUnapplied(u)
    BY <1>0a, <2>1, <2>3, EndsReplay
  <2> QED
    BY <1>6, <2>2, <2>3 DEF BeginBackup
<1>7. CASE Saved(u) \/ Removed(u)
  <2>1. /\ UNCHANGED <<pending, marker, packages, made, applied, loaded, fetched, faults, crashes>>
        /\ pc[u] \in {"saving", "removing", "unwinding"}
    BY <1>7 DEF Saved, Removed, files, app, history
  <2>2. PICK x : /\ pc' = [pc EXCEPT ![u] = x]
                 /\ x \in {"removing", "copying", "restoring"}
                 /\ x = "copying" => pc[u] = "removing"
                 /\ x = "removing" => pc[u] = "saving"
    BY <1>7 DEF Saved, Removed
  <2> QED
    BY <1>0, <1>0a, <2>1, <2>2, PhaseReplay DEF Fresh
<1>8. CASE \E p \in Parts : SavePart(u, p) \/ RemovePart(u, p) \/ CopyPart(u, p)
  <2>1. UNCHANGED <<pending, marker, packages, made, applied, loaded, fetched, faults, crashes, pc>>
    BY <1>8 DEF SavePart, RemovePart, CopyPart, app, history
  <2> QED
    BY <1>0, <1>0a, <2>1, QuietReplay
<1>9. CASE Replaced(u)
  <2> DEFINE g == loaded[u].id
  <2>1. /\ pc[u] = "copying" /\ pc'[u] = "mark" /\ \A v \in Updaters \ {u} : pc'[v] = pc[v]
        /\ UNCHANGED <<pending, marker, packages, made, loaded, fetched, faults, crashes>>
        /\ applied' = [applied EXCEPT ![g] = @ + 1]
    BY <1>0, <1>9 DEF Replaced, files, app
  <2>2. loaded[u] \in Handoffs /\ pending.handoff = loaded[u] /\ g \in 1..MaxHandoffs
    BY <1>0, <2>1, ValueTypes DEF HandoffsHeld, Holding, Inside
  <2>3. \A h \in 1..MaxHandoffs : h # g => applied'[h] = applied[h]
    BY <1>0, <2>1 DEF TypeOK
  <2>4. IdsOK'
    <3>1. fetched = NoHandoff
      BY <1>0, <2>1, UpdaterAssumption DEF Locks, Holding, Inside
    <3>2. g <= made
      BY DEF ReplayInv, IdsOK
    <3>3. \A h \in 1..MaxHandoffs : h > made => applied'[h] = 0
      BY <1>0a, <2>2, <2>3, <3>2 DEF ReplayInv, IdsOK
    <3> QED
      BY <2>1, <3>1, <3>3 DEF ReplayInv, IdsOK
  <2>5. FreshOK'
    BY <2>1, <2>2 DEF ReplayInv, FreshOK, Fresh
  <2>6. AppliedOK'
    <3> SUFFICES ASSUME Calm', NEW h \in 1..MaxHandoffs
                 PROVE  /\ applied'[h] <= 1
                        /\ applied'[h] = 1 => Spent(h)' \/ \E v \in Updaters : Marking(v, h)'
      BY DEF AppliedOK
    <3>1. Calm
      BY <2>1 DEF Calm
    <3>2. CASE h = g
      <4>1. applied[g] = 0
        BY <2>1, <3>1, ClearedIsNew
      <4>2. applied'[g] = 1
        BY <1>0, <2>1, <2>2, <4>1 DEF TypeOK
      <4>3. Marking(u, h)'
        BY <2>1, <3>2 DEF Marking
      <4> HIDE DEF g
      <4> QED
        BY <3>2, <4>2, <4>3
    <3>3. CASE h # g
      <4>1. applied[h] <= 1 /\ (applied[h] = 1 => Spent(h) \/ \E v \in Updaters : Marking(v, h))
        BY <3>1 DEF ReplayInv, AppliedOK
      <4>2. Spent(h)' = Spent(h)
        BY <2>1 DEF Spent
      <4>3. \A v \in Updaters : Marking(v, h) => Marking(v, h)'
        BY <2>1 DEF Marking
      <4> QED
        BY <2>3, <3>3, <4>1, <4>2, <4>3
    <3> QED
      BY <3>2, <3>3
  <2> QED
    BY <2>4, <2>5, <2>6 DEF ReplayInv
<1>10. CASE WriteMarker(u)
  <2>1. /\ pc[u] = "mark" /\ pc'[u] = "package" /\ \A v \in Updaters \ {u} : pc'[v] = pc[v]
        /\ UNCHANGED <<packages, made, applied, loaded, fetched, crashes>>
    BY <1>0, <1>10 DEF WriteMarker, app, history
  <2>2. pending.handoff = loaded[u]
    BY <2>1 DEF ReplayInv, FreshOK
  <2>3. \A v \in Updaters \ {u} : pc[v] \notin Fresh /\ pc[v] # "mark" /\ pc[v] # "package"
    BY <1>0, <2>1, HolderIsAlone DEF Holding, Inside, Cleaning, Fresh
  <2>4. FreshOK'
    BY <2>1, <2>3 DEF FreshOK, Fresh
  <2>5. pending'.handoff = pending.handoff
    BY <1>10, <2>2 DEF WriteMarker, Overwritten
  <2>6. IdsOK'
    BY <2>1, <2>5 DEF ReplayInv, IdsOK
  <2>7. AppliedOK'
    <3> SUFFICES ASSUME Calm', NEW h \in 1..MaxHandoffs
                 PROVE  /\ applied[h] <= 1
                        /\ applied[h] = 1 => Spent(h)' \/ \E v \in Updaters : Marking(v, h)'
      BY <2>1 DEF AppliedOK
    <3>1. faults' >= faults
      BY <1>0a, <1>10 DEF WriteMarker, Fault
    <3>2. Calm
      BY <1>0, <1>0a, <2>1, <3>1, CalmLasts
    <3>3. applied[h] <= 1 /\ (applied[h] = 1 => Spent(h) \/ \E v \in Updaters : Marking(v, h))
      BY <3>2 DEF ReplayInv, AppliedOK
    <3>4. CASE marker' = Mark(u) /\ UNCHANGED <<pending, faults>>
      BY <2>2, <3>3, <3>4 DEF Spent, Mark
    <3>5. CASE pending' = Overwritten(u) /\ UNCHANGED marker
      BY <3>3, <3>5 DEF Spent, Overwritten
    <3>6. CASE faults' = faults + 2 /\ UNCHANGED <<pending, marker>>
      <4>1. faults' = 2
        BY <1>0a, <3>6 DEF Calm
      <4>2. Spent(h) => Spent(h)'
        BY <2>1, <3>6 DEF Spent
      <4>3. \A v \in Updaters : Marking(v, h) => Marking(v, h)'
        BY <2>1, <4>1 DEF Marking
      <4> QED
        BY <3>3, <4>2, <4>3
    <3> QED
      BY <1>10, <3>4, <3>5, <3>6 DEF WriteMarker
  <2> QED
    BY <2>4, <2>6, <2>7 DEF ReplayInv
<1>11. CASE DropPackage(u) \/ DropHandoff(u)
  <2>1. /\ pc[u] \in {"package", "handoff"} /\ pc'[u] \in {"handoff", "prune"}
        /\ \A v \in Updaters \ {u} : pc'[v] = pc[v]
        /\ UNCHANGED <<marker, made, applied, loaded, fetched, crashes>>
        /\ pending' \in {pending, NoFile}
        /\ packages' \in {packages, packages \ {loaded[u].id}}
    BY <1>0, <1>11 DEF DropPackage, DropHandoff, app, history
  <2>2. \A v \in Updaters \ {u} : pc[v] \notin Fresh /\ pc[v] # "mark" /\ pc[v] # "package"
    BY <1>0, <2>1, HolderIsAlone DEF Holding, Inside, Cleaning, Fresh
  <2>3. FreshOK'
    BY <2>1, <2>2 DEF FreshOK, Fresh
  <2>4. IdsOK'
    <3>1. pending'.handoff.id \in {pending.handoff.id, 0}
      BY <2>1 DEF NoFile, NoHandoff
    <3>2. fetched = NoHandoff
      BY <1>0, <2>1, UpdaterAssumption DEF Locks, Holding, Cleaning
    <3> QED
      BY <1>0a, <2>1, <3>1, <3>2 DEF ReplayInv, IdsOK
  <2>5. AppliedOK'
    <3> SUFFICES ASSUME Calm', NEW h \in 1..MaxHandoffs
                 PROVE  applied[h] <= 1 /\ (applied[h] = 1 => Spent(h)')
      BY <2>1 DEF AppliedOK
    <3>1. faults' >= faults /\ (UNCHANGED faults \/ faults' = faults + 1)
      BY <1>0a, <1>11 DEF DropPackage, DropHandoff, Fault
    <3>2. Calm /\ (faults = 2 => faults' = 2)
      BY <1>0, <1>0a, <2>1, <3>1, CalmLasts
    <3>3. applied[h] <= 1 /\ (applied[h] = 1 => Spent(h) \/ \E v \in Updaters : Marking(v, h))
      BY <3>2 DEF ReplayInv, AppliedOK
    <3>4. Spent(h) => Spent(h)'
      <4>1. NoFile.handoff.id # h
        BY DEF NoFile, NoHandoff
      <4> QED
        BY <2>1, <4>1 DEF Spent
    <3>5. (\E v \in Updaters : Marking(v, h)) => Spent(h)'
      <4> SUFFICES ASSUME NEW v \in Updaters, Marking(v, h) PROVE Spent(h)'
        OBVIOUS
      <4>1. v = u /\ pc[u] = "package" /\ faults = 2 /\ loaded[u].id = h
        BY <2>1, <2>2 DEF Marking
      <4>2. packages' = packages \ {h}
        BY <1>0a, <1>11, <3>2, <4>1 DEF DropPackage, DropHandoff, Fault
      <4> QED
        BY <4>2 DEF Spent
    <3> QED
      BY <3>3, <3>4, <3>5
  <2> QED
    BY <2>3, <2>4, <2>5 DEF ReplayInv
<1>12. CASE Prune(u)
  <2>1. /\ UNCHANGED <<pending, marker, packages, made, applied, loaded, fetched, crashes>>
        /\ pc[u] = "prune" /\ pc' = [pc EXCEPT ![u] = "restart"]
        /\ faults' >= faults
    BY <1>0a, <1>12 DEF Prune, app, history, Fault
  <2> QED
    BY <1>0, <1>0a, <2>1, PhaseReplay DEF Fresh
<1>13. CASE Restart(u)
  <2>1. /\ UNCHANGED <<pending, marker, packages, made, applied, loaded, fetched, crashes, faults>>
        /\ pc[u] = "restart" /\ pc' = [pc EXCEPT ![u] = "ended"]
    BY <1>13 DEF Restart, files, history
  <2> QED
    BY <1>0, <1>0a, <2>1, PhaseReplay DEF Fresh
<1> QED
  BY <1>1, <1>2, <1>3, <1>4, <1>5, <1>6, <1>7, <1>8, <1>9, <1>10, <1>11, <1>12, <1>13
  DEF UpdaterStep

LEMMA MishapReplay ==
    ASSUME IInv, TypeOK', ReplayInv, NEW u \in Updaters, Fails(u) \/ Crash(u)
    PROVE  ReplayInv'
<1>0. faults \in Nat /\ crashes \in Nat /\ pc \in [Updaters -> Pcs]
  BY UpdaterAssumption DEF IInv, TypeOK
<1>1. CASE Fails(u)
  <2>1. /\ UNCHANGED <<pending, marker, packages, made, applied, loaded, fetched, crashes>>
        /\ faults' >= faults
        /\ pc[u] \notin {"mark", "package"}
    BY <1>0, <1>1 DEF Fails, Fault, Touching, app
  <2>2. CASE pc' = [pc EXCEPT ![u] = "unwinding"]
    BY <1>0, <2>1, <2>2, PhaseReplay DEF Fresh
  <2>3. CASE EndsUnapplied(u)
    BY <1>0, <2>1, <2>3, EndsReplay
  <2> QED
    BY <1>1, <2>2, <2>3 DEF Fails
<1>2. CASE Crash(u)
  <2>1. /\ UNCHANGED <<pending, marker, packages, made, applied, loaded, fetched, faults>>
        /\ crashes' = crashes + 1 /\ EndsUnapplied(u)
    BY <1>2 DEF Crash, files, app
  <2>2. crashes' >= crashes /\ ~Calm'
    BY <1>0, <2>1 DEF Calm
  <2> QED
    BY <1>0, <2>1, <2>2, EndsReplay
<1> QED
  BY <1>1, <1>2

LEMMA ReplayNext ==
    ASSUME IInv, ReplayInv, [Next]_vars
    PROVE  ReplayInv'
<1>0. TypeOK /\ TypeOK'
  BY InvNext DEF IInv
<1>1. CASE AppStep
  BY <1>0, <1>1, AppReplay
<1>2. CASE \E u \in Updaters : UpdaterStep(u)
  BY <1>0, <1>2, UpdaterReplay
<1>3. CASE \E u \in Updaters : Fails(u) \/ Crash(u)
  BY <1>0, <1>3, MishapReplay
<1>4. CASE UNCHANGED vars
  <2>1. UNCHANGED <<pending, marker, packages, made, applied, loaded, fetched, faults, crashes, pc>>
    BY <1>4 DEF vars, files, app, history
  <2>2. faults \in Nat /\ crashes \in Nat
    BY <1>0, UpdaterAssumption DEF TypeOK
  <2> QED
    BY <1>0, <2>1, <2>2, QuietReplay
<1> QED
  BY <1>1, <1>2, <1>3, <1>4 DEF Next

(* While no process has crashed and the file system has failed at most     *)
(* twice, no handoff has been applied twice, however many updaters were    *)
(* launched for it and however many handoffs followed: its marker, the     *)
(* overwritten pending file or its missing package stops the next one.     *)
THEOREM HandoffAppliedOnce == Spec => [](faults <= 2 => AppliedOnce)
<1>1. Init => ReplayInv
  BY InitReplay
<1>2. IInv /\ ReplayInv /\ [Next]_vars => ReplayInv'
  BY ReplayNext
<1>3. ReplayInv => (faults <= 2 => AppliedOnce)
  BY DEF ReplayInv, AppliedOK, AppliedOnce, Calm
<1> QED
  BY <1>1, <1>2, <1>3, InvHolds, PTL DEF Spec
=============================================================================
