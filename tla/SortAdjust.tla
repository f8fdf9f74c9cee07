----------------------------- MODULE SortAdjust -----------------------------
(* facebook/sort_*.py: bringing the page into the newest-first order before *)
(* a scan.  A page shows                                                    *)
(*   [order : "newest" or "other", control : "shown", "hidden" or "foreign"] *)
(* "hidden" is a page of the right kind without a sort control, "foreign" a *)
(* page the scripts do not take for a scan target.  An attempt leads to one *)
(* of several results and may leave the page in another order.              *)
Labels == {"newest", "other", "none"}
NoResult == [reason |-> "none", attempted |-> FALSE, after |-> "none"]

\* The label both scripts read, empty when there is no control to read.
CurrentLabel(view) == IF view.control = "shown" THEN view.order ELSE "none"

Sorted(view) == [view EXCEPT !.order = "newest"]
Outcome(view, reason, attempted, after) ==
    [view |-> view, result |-> [reason |-> reason, attempted |-> attempted, after |-> after]]
Handed(view) == [view |-> view, result |-> NoResult]

Disabled(view) == {Outcome(view, "auto_adjust_sort_disabled", FALSE, "none")}

\* Trusted clicks.  Whatever goes wrong - the label cannot be read or is no
\* sort label, the control or the option cannot be clicked, the label does not
\* change in time - the attempt has no result and the script takes over, the
\* page already resorted or not.
NativeAttempts(view) ==
    IF CurrentLabel(view) = "newest"
    THEN {Outcome(view, "already_preferred_sort", FALSE, "newest"), Handed(view)}
    ELSE {Handed(view)} \cup
         IF CurrentLabel(view) = "none" THEN {}
         ELSE {Handed(Sorted(view)),
               Outcome(Sorted(view), "updated_to_preferred_sort", TRUE, "newest")}

\* The script that clicks inside the page; an unreadable answer is a result
\* without a label.
ScriptResults(view) ==
    {Outcome(view, "sort_adjust_result_invalid", FALSE, "none")} \cup
    CASE view.control = "foreign" ->
            {Outcome(view, "unsupported_scan_target", FALSE, "none")}
      [] view.control = "hidden" ->
            {Outcome(view, "sort_control_not_found", FALSE, "none")}
      [] CurrentLabel(view) = "newest" ->
            {Outcome(view, "already_preferred_sort", FALSE, "newest")}
      [] OTHER ->
            {Outcome(Sorted(view), "updated_to_preferred_sort", TRUE, "newest")} \cup
            {Outcome(left, "sort_update_unconfirmed", TRUE, after) :
                left \in {view, Sorted(view)}, after \in {"other", "none"}} \cup
            {Outcome(view, "preferred_sort_option_not_found", TRUE, after) :
                after \in {"other", "none"}}

\* ensure_preferred_feed_sort and ensure_preferred_comment_sort.
EnsurePreferred(view, enabled) ==
    IF ~enabled THEN Disabled(view)
    ELSE LET native == NativeAttempts(view)
         IN  {o \in native : o.result # NoResult} \cup
             UNION {ScriptResults(o.view) : o \in {p \in native : p.result = NoResult}}

ControlAbsent(result) ==
    result.reason = "sort_control_not_found" /\ ~result.attempted /\ result.after = "none"

\* The protective skip: an order that was asked for and not confirmed.
SkipsScan(kind, enabled, result) ==
    /\ enabled
    /\ result.after # "newest"
    /\ ~(kind = "posts" /\ ControlAbsent(result))

\* The orders a scan of posts may stop early on.
Trusted(result) == result.after = "newest" \/ ControlAbsent(result)
=============================================================================
