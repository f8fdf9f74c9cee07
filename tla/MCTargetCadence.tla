--------------------------- MODULE MCTargetCadence ---------------------------
(* Two targets, each scanned every two units, one worker; the scans of one  *)
(* target run into a page that is gone, a closed browser and a locked      *)
(* database.                                                               *)
EXTENDS TargetCadence, TLC

CONSTANTS feed, comments

MCTargets == {feed, comments}
MCRefresh == [t \in MCTargets |-> {2}]

Gone == [heading |-> "outside", detail |-> "absent", local |-> FALSE, feed |-> FALSE]
Unavailable ==
    [place |-> "facebook", markers |-> {"unavailable"}, first |-> Gone, second |-> Gone]
MCMishaps == comments :> {} @@ feed :>
    {[kind |-> "page", page |-> Unavailable],
     [kind |-> "error", error |-> [class |-> "playwright", text |-> "closed"]],
     [kind |-> "error", error |-> [class |-> "sqlite", text |-> "locked"]]}
=============================================================================
