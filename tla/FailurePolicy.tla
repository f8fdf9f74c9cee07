---------------------------- MODULE FailurePolicy ----------------------------
(***************************************************************************)
(* What ends a scan badly, and what the program makes of it: the page      *)
(* guard that looks at a Facebook page twice before it believes a block,   *)
(* the taxonomy of the exceptions an attempt may end with, and the policy  *)
(* that turns a reason and the target's streak into "idle", "try again" or *)
(* "error".  Pure operators; TargetCadence calls them.                     *)
(***************************************************************************)
EXTENDS Naturals

CONSTANTS
    FailureLimit,   \* failures in a row, for one reason, that end in error
    RetryDelay      \* wait before a page that was unavailable is tried again

ASSUME PolicyAssumption ==
    /\ FailureLimit \in Nat \ {0}
    /\ RetryDelay \in Nat \ {0}

-----------------------------------------------------------------------------
(* The page guard.  A page is the place the browser ended up, the markers  *)
(* its text contains, and what two looks at its structure find; a look     *)
(* that fails finds nothing.                                               *)

Look == [heading : {"absent", "inside", "outside"},
         detail  : {"absent", "inside", "outside"},
         local   : BOOLEAN,      \* heading and detail belong together
         feed    : BOOLEAN]      \* posts are visible
Blind == [heading |-> "absent", detail |-> "absent", local |-> FALSE, feed |-> FALSE]

InsideFeed(look) == look.heading = "inside" \/ look.detail = "inside"

\* Only a suspected block is looked at a second time; it is then the block's
\* heading that was searched for, and no other.
Evidence(page) ==
    IF {"block", "unavailable"} \cap page.markers = {} THEN Blind
    ELSE IF "block" \notin page.markers \/ InsideFeed(page.first) THEN page.first
    ELSE page.second

Stable(page) == page.first = page.second

\* A finding, or "" to go on with the next test.
BlockFinding(page) ==
    LET e == Evidence(page)
    IN  IF page.place # "facebook" \/ "block" \notin page.markers \/ InsideFeed(e) THEN ""
        ELSE IF /\ e.heading = "outside" /\ e.detail = "outside" /\ e.local
                /\ Stable(page)
             THEN "facebook_temporary_block"
        ELSE IF e.feed THEN "" ELSE "facebook_page_guard_inconclusive"

UnavailableFinding(page) ==
    LET e == Evidence(page)
    IN  IF \/ page.place # "facebook" \/ "unavailable" \notin page.markers
           \/ e.heading = "inside" \/ e.feed
        THEN ""
        ELSE IF e.heading = "outside" /\ "block" \notin page.markers
             THEN "content_unavailable"
        ELSE "facebook_page_guard_inconclusive"

SessionFinding(page) ==
    CASE page.place = "checkpoint" \/ "checkpoint" \in page.markers -> "checkpoint_required"
      [] page.place = "recover" \/ "session" \in page.markers       -> "session_invalid"
      [] page.place = "login"                                       -> "login_required"
      [] OTHER -> ""

Finding(page) ==
    CASE SessionFinding(page) # "" -> SessionFinding(page)
      [] BlockFinding(page) # ""   -> BlockFinding(page)
      [] "login" \in page.markers  -> "login_required"
      [] OTHER -> UnavailableFinding(page)

-----------------------------------------------------------------------------
(* Exceptions of an attempt.                                               *)

\* What a Playwright message is about.
PlaywrightReason(message) ==
    CASE message = "profile in use"                        -> "profile_locked"
      [] message = "closed"                                -> "scheduler_runtime"
      [] message \in {"body timeout", "navigation", "timeout"} -> "page_load_timeout"
      [] message = "evaluation"                            -> "extractor_runtime"
      [] OTHER                                             -> "unknown"

\* An ordinary exception counts as Playwright's only if its text says so.
WrappedReason(message) ==
    IF message \in {"closed", "evaluation", "navigation"} THEN PlaywrightReason(message)
    ELSE "unknown"

Recorded(reason, source) == [path |-> "record", reason |-> reason, source |-> source]
Path(path) == [path |-> path, reason |-> "", source |-> ""]

\* guarded: the running claim was made; restarting: the browser session is
\* being rebuilt.
ExceptionPath(error, guarded, restarting) ==
    CASE error.class = "worker"    -> Recorded(error.text, "worker_failure")
      [] error.class = "cancelled" ->
            IF restarting THEN Recorded("scheduler_runtime", "unknown_exception")
            ELSE IF guarded THEN Path("scheduler_stopping") ELSE Path("before_claim")
      [] error.class = "sqlite"    ->
            IF error.text = "locked" THEN Path("lock_retry") ELSE Path("propagate")
      [] error.class = "playwright" -> Recorded(PlaywrightReason(error.text), "playwright")
      [] OTHER -> Recorded(WrappedReason(error.text),
                           IF WrappedReason(error.text) = "unknown"
                           THEN "unknown_exception" ELSE "playwright")

-----------------------------------------------------------------------------
(* The decision.                                                           *)

TerminalReasons ==
    {"checkpoint_required", "facebook_temporary_block", "login_required",
     "profile_locked", "profile_missing", "session_invalid",
     "target_argument_conflict", "target_invalid", "target_kind_unsupported",
     "target_missing", "unsupported_in_fallback"}

DelayOf(reason) == IF reason = "content_unavailable" THEN RetryDelay ELSE 0

DiscardsPage(reason, source) ==
    \/ source \in {"playwright", "unknown_exception", "runtime_recovery"}
    \/ reason \in {"content_unavailable", "facebook_page_guard_inconclusive",
                   "facebook_temporary_block"}

\* Mutant: every failure adds to the streak, whatever its reason.
NextStreakOfAny(reason, failure, failures) == failures + 1

NextStreak(reason, failure, failures) == IF failure = reason THEN failures + 1 ELSE 1

Decision(action, reason, streak, discard) ==
    [action  |-> action, reason |-> reason, streak |-> streak,
     now     |-> action = "retry" /\ DelayOf(reason) = 0,
     rebuild |-> streak > 0 /\ reason = "scheduler_runtime",
     discard |-> discard]

\* A streak of 0 says that the failure does not count towards one.
Decide(reason, source, failure, failures) ==
    LET streak  == NextStreak(reason, failure, failures)
        discard == DiscardsPage(reason, source)
    IN  IF \/ reason = "scheduler_stopping" /\ source = "scheduler_cancel"
           \/ reason = "target_stopped"
        THEN Decision("idle", reason, 0, discard)
        ELSE IF reason \in TerminalReasons THEN Decision("error", reason, 0, discard)
        ELSE Decision(IF streak < FailureLimit THEN "retry" ELSE "error", reason, streak,
                      discard \/ reason # "scheduler_runtime")
=============================================================================
