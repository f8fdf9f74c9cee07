----------------------------- MODULE AppInstall -----------------------------
(***************************************************************************)
(* What the self-update promises, with no file, lock, handoff or updater   *)
(* in sight: versions only go up and only while the app is down, and       *)
(* unless a replacement was cut short the app that starts is the version   *)
(* installed last.                                                         *)
(***************************************************************************)
EXTENDS Naturals

CONSTANT Versions

VARIABLES
    up,       \* version of the running app, 0 when it is down
    version,  \* version of the last successful installation
    broken    \* an installation was cut short since then

vars == <<up, version, broken>>

Down == up = 0

Init == Down /\ version \in Versions /\ broken = FALSE

\* After a cut-short installation the files may be whole and newer all the same.
Start ==
    /\ Down
    /\ up' \in {v \in Versions : v = version \/ (broken /\ v >= version)}
    /\ UNCHANGED <<version, broken>>

Stop == ~Down /\ up' = 0 /\ UNCHANGED <<version, broken>>

Install ==
    /\ Down
    /\ version' \in {v \in Versions : v >= version}
    /\ broken' = FALSE
    /\ UNCHANGED up

CutShort == Down /\ broken' = TRUE /\ UNCHANGED <<up, version>>

Next == Start \/ Stop \/ Install \/ CutShort

Spec == Init /\ [][Next]_vars
=============================================================================
