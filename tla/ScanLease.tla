------------------------------ MODULE ScanLease ------------------------------
(***************************************************************************)
(* What the runtime row promises about scan admissions, with no row, queue *)
(* or worker in sight: a target grants at most one admission at a time, an *)
(* admission has one fate, and the fate never changes.  In particular an   *)
(* admission that was revoked by Stop or Start, or taken away by recovery, *)
(* can never commit a scan afterwards.                                     *)
(***************************************************************************)
EXTENDS Naturals

VARIABLE fate           \* admission token -> what became of the admission

Fates == {"open",       \* the admission may still commit
          "committed",  \* success, protective skip or failure was recorded
          "released",   \* given back without an outcome
          "revoked",    \* Stop, Start or a new program start ended it
          "expired"}    \* recovery took it from a silent owner

Open == {t \in DOMAIN fate : fate[t] = "open"}

Init == fate = [t \in {} |-> "open"]

Grant(t) ==
    /\ Open = {}
    /\ t \notin DOMAIN fate
    /\ fate' = [u \in DOMAIN fate \cup {t} |-> IF u = t THEN "open" ELSE fate[u]]

Resolve(t, f) ==
    /\ t \in Open
    /\ fate' = [fate EXCEPT ![t] = f]

Next == \/ \E t \in DOMAIN fate' : Grant(t)
        \/ \E t \in Open, f \in Fates \ {"open"} : Resolve(t, f)

Spec == Init /\ [][Next]_fate
=============================================================================
