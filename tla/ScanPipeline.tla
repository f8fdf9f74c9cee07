---------------------------- MODULE ScanPipeline ----------------------------
(* One target's scans, from the opened page to the committed snapshot:      *)
(* sorting the page, collecting items window by window, stopping at items   *)
(* already known, matching keywords and writing seen items, history and     *)
(* the latest snapshot (worker/posts_pipeline.py, comments_pipeline.py,     *)
(* scan_finalize.py, facebook/collection_runner.py).  Whether the commit is *)
(* allowed at all is ResidentScan's subject, what becomes of a notification *)
(* NotificationOutbox's.                                                    *)
EXTENDS SortAdjust, KeywordRules, PageReading, Integers, Sequences, FiniteSets, SequencesExt

CONSTANTS
    Posts,        \* number of items that ever appear, in order of their age
    MaxPins,      \* how many posts of the group may be pinned at once
    Window,       \* how many items the page shows at a time
    Steps,        \* how far a scroll may move it; 0 when it does not move
    LooksOf,      \* kind -> item -> the elements it may be shown as
    CommentPage,  \* [target, route, roots, holds]: where comments are looked for
    TextOf,       \* item -> its words
    Configs,      \* [target, rounds, more, sort, keywords]
    SeenStop,     \* FEED_SEEN_STOP_CONSECUTIVE_SEEN_THRESHOLD
    StagnantStop, \* CONSECUTIVE_STAGNANT_WINDOW_STOP_COUNT
    HistoryLimit, \* MATCH_HISTORY_TARGET_LIMIT
    MaxScans,     \* bound: attempts
    MaxEvents     \* bound: configurations changed, resets, failures

Kinds == {"posts", "comments"}
Orders == {"newest", "other"}
Controls == {"shown", "hidden", "foreign"}

\* What an element is read as, and what that is known by.
Read(k, look) == IF k = "posts" THEN ReadPost(look) ELSE ReadComment(look, CommentPage)
Keys(item) == ItemKeys(item)
KeySet(item) == Range(Keys(item))
Primary(item) == Keys(item)[1]
Overlap(a, b) == KeySet(a) \cap KeySet(b) # {}

Item == [post : 1..Posts, link : 0..Posts, author : BOOLEAN, comment : 0..Posts]
Forms(k, p) == {Read(k, l) : l \in LooksOf[k][p]} \ {NoItem}

\* What the page is taken to show.  An item is read with its own links or with
\* none, a comment with its own number, and an item that can be read in two ways
\* is known by one key in both.
ASSUME FormsAreOwn ==
    \A k \in Kinds : \A p \in 1..Posts : \A form \in Forms(k, p) :
        /\ form \in Item /\ form.post = p /\ form.link \in {0, p}
        /\ form.comment = IF k = "comments" THEN p ELSE 0
ASSUME FormsOverlap ==
    \A k \in Kinds : \A p \in 1..Posts : \A a, b \in Forms(k, p) : Overlap(a, b)
\* Texts and phrases are sequences of words, and a masked place is not a word.
Words(text) == text \in Seq(Range(text) \ {Blank})
ASSUME PhrasesAreWords ==
    /\ \A p \in 1..Posts : Words(TextOf[p])
    /\ \A c \in Configs :
           \A phrase \in c.keywords.ignore \cup UNION c.keywords.exclude : Words(phrase)
\* A scroll does not move the page past what it showed.
ASSUME StepsShort == Steps \subseteq 0..Window
ASSUME Bounds ==
    /\ {Posts, Window, SeenStop, StagnantStop, HistoryLimit, MaxScans, MaxEvents} \subseteq Nat
    /\ Posts >= 2
    /\ \A c \in Configs : {c.target, c.rounds} \subseteq Nat /\ {c.more, c.sort} \subseteq BOOLEAN

VARIABLES
    kind,    \* "posts" or "comments"
    feed,    \* [born, pins]: what the group holds
    config,  \* the target's configuration row
    page,    \* [view, items, pos, saved]: the opened page
    scan,    \* the attempt
    db,      \* [aliases, items, latest, history]: this target's rows
    scans,   \* attempts so far
    events

vars == <<kind, feed, config, page, scan, db, scans, events>>

Blank0 == [phase |-> "idle", config |-> CHOOSE c \in Configs : TRUE, trusted |-> FALSE,
           round |-> 0, got |-> <<>>, added |-> 0, stagnant |-> 0, known |-> {},
           streak |-> 0, triggered |-> FALSE, dropped |-> {}, stop |-> "none"]
NoPage == [view |-> [order |-> "newest", control |-> "shown"], items |-> <<>>,
           pos |-> 1, saved |-> 0]

Init ==
    /\ kind \in Kinds
    /\ feed = [born |-> 2, pins |-> {}]
    /\ config \in Configs
    /\ page = NoPage
    /\ scan = Blank0
    /\ db = [aliases |-> <<>>, items |-> <<>>, latest |-> <<>>, history |-> <<>>]
    /\ scans = 0 /\ events = 0

Event == events < MaxEvents /\ events' = events + 1
-----------------------------------------------------------------------------
(* The group and the user. *)

\* What appears while a page is read is not on it, so the group only needs to
\* change before the attempt loads its list.
Changing == scan.phase \in {"idle", "opened"}

Arrive ==
    /\ Changing
    /\ feed.born < Posts
    /\ feed' = [feed EXCEPT !.born = @ + 1]
    /\ UNCHANGED <<kind, config, page, scan, db, scans, events>>

Pin(p) ==
    /\ Changing
    /\ kind = "posts" /\ p <= feed.born /\ p \notin feed.pins
    /\ Cardinality(feed.pins) < MaxPins
    /\ feed' = [feed EXCEPT !.pins = @ \cup {p}]
    /\ UNCHANGED <<kind, config, page, scan, db, scans, events>>

SetConfig(c) ==
    /\ c # config
    /\ config' = c
    /\ Event
    /\ UNCHANGED <<kind, feed, page, scan, db, scans>>

\* Reset of the target: the seen rows go and the dedupe epoch moves on; the
\* snapshot and the history stay.
ResetSeen ==
    /\ db' = [db EXCEPT !.aliases = <<>>, !.items = <<>>]
    /\ Event
    /\ UNCHANGED <<kind, feed, config, page, scan, scans>>
-----------------------------------------------------------------------------
(* The page. *)

\* Newest first, below the pinned posts; any other order is shown by age.
Before(order, p, q) ==
    IF {p, q} \cap feed.pins # {} THEN p \in feed.pins /\ (q \in feed.pins => p > q)
    ELSE IF order = "newest" THEN p > q ELSE p < q
\* The one list of the group's posts that is in that order.
Listed(order) ==
    {list \in [1..feed.born -> 1..feed.born] :
        \A i, j \in 1..feed.born : i < j => Before(order, list[i], list[j])}

Last1(a, b) == IF a < b THEN a ELSE b
Shown == SubSeq(page.items, page.pos, Last1(page.pos + Window - 1, Len(page.items)))

\* goto or reload, and a page guard that finds nothing.
OpenPage(order, control) ==
    /\ scan.phase = "idle"
    /\ scans < MaxScans /\ scans' = scans + 1
    /\ \E list \in Listed(order) :
           page' = [view |-> [order |-> order, control |-> control],
                    items |-> list, pos |-> 1, saved |-> 0]
    /\ scan' = [Blank0 EXCEPT !.phase = "opened", !.config = config]
    /\ UNCHANGED <<kind, feed, config, db, events>>

\* A new order is a new list of what the group holds now.
AdjustSort(outcome) ==
    /\ scan.phase = "opened"
    /\ outcome \in EnsurePreferred(page.view, scan.config.sort)
    /\ \E list \in IF outcome.view.order = page.view.order
                   THEN {page.items} ELSE Listed(outcome.view.order) :
           page' = [page EXCEPT !.view = outcome.view, !.items = list]
    /\ scan' = [scan EXCEPT !.trusted = Trusted(outcome.result),
                            !.phase = IF SkipsScan(kind, scan.config.sort, outcome.result)
                                      THEN "skipped" ELSE "sorted"]
    /\ UNCHANGED <<kind, feed, config, db, scans, events>>
-----------------------------------------------------------------------------
(* Collection. *)

\* get_effective_scroll_rounds
Rounds(c) ==
    IF ~c.more \/ c.rounds = 0 THEN 0
    ELSE IF c.rounds > 2 * c.target - 1 THEN c.rounds ELSE 2 * c.target - 1

KnownRow(item) == \E i \in 1..Len(db.aliases) : db.aliases[i].key \in KeySet(item)
SeenStopOn == kind = "posts" /\ Rounds(scan.config) > 0 /\ scan.trusted

StartCollection ==
    /\ scan.phase = "sorted"
    /\ scan' = [scan EXCEPT !.phase = "collecting"]
    /\ page' = [page EXCEPT !.saved = IF Rounds(scan.config) > 0 THEN page.pos ELSE 0]
    /\ UNCHANGED <<kind, feed, config, db, scans, events>>

Fits(got) == kind = "posts" \/ Len(got) < scan.config.target

\* Mutant: the stop comes one known item early.
ObserveEarly(s, item) ==
    IF ~SeenStopOn THEN s
    ELSE LET streak == IF KnownRow(item) THEN s.streak + 1 ELSE 0
         IN  [s EXCEPT !.known = IF KnownRow(item) THEN @ \cup {item.post} ELSE @,
                       !.streak = streak, !.triggered = streak + 1 >= SeenStop]

\* observe_seen_stop_item
Observe(s, item) ==
    IF ~SeenStopOn THEN s
    ELSE LET streak == IF KnownRow(item) THEN s.streak + 1 ELSE 0
         IN  [s EXCEPT !.known = IF KnownRow(item) THEN @ \cup {item.post} ELSE @,
                       !.streak = streak, !.triggered = streak >= SeenStop]

\* An item that shares no alias with the collected ones is taken; the feed stops
\* in the middle of a window, comments at the number wanted.
Take(s, item) ==
    IF \/ item = NoItem \/ s.triggered \/ ~Fits(s.got)
       \/ \E i \in 1..Len(s.got) : Overlap(s.got[i], item)
    THEN s
    ELSE [Observe(s, item) EXCEPT !.got = Append(@, item), !.added = @ + 1]

TakeAll(s, items) == FoldLeft(Take, s, items)

\* The loop ends before, or after, it scrolls.
Enough(s) == s.triggered \/ s.round >= Rounds(s.config) \/ Len(s.got) >= s.config.target
StopReason(s, stuck) ==
    IF s.triggered THEN "seen_stop_consecutive_seen"
    ELSE IF Len(s.got) >= s.config.target THEN "target_count_reached"
    ELSE IF stuck THEN "scroll_stalled"
    ELSE IF s.stagnant >= StagnantStop THEN "stagnant_windows"
    ELSE "scroll_rounds_completed"

\* One window: the elements shown are read and merged; then the page scrolls, or
\* does not move any more.
Round(looks, step) ==
    LET shown == Shown
        read == [i \in 1..Len(shown) |-> Read(kind, looks[i])]
        merged == TakeAll(scan, read)
        s == [merged EXCEPT !.stagnant = IF merged.added = 0 THEN @ + 1 ELSE 0, !.added = 0,
                            !.dropped = @ \cup {shown[i] : i \in {j \in 1..Len(shown) : read[j] = NoItem}}]
        scrolls == ~Enough(s)
        stuck == scrolls /\ step = 0
        ends == ~scrolls \/ stuck \/ s.stagnant >= StagnantStop
    IN  /\ scan.phase = "collecting"
        /\ \A i \in 1..Len(shown) : looks[i] \in LooksOf[kind][shown[i]]
        /\ step > 0 => scrolls /\ page.pos + step <= Len(page.items)
        /\ scan' = IF ends
                   THEN [s EXCEPT !.phase = "collected", !.stop = StopReason(s, stuck)]
                   ELSE [s EXCEPT !.round = @ + 1]
        \* restore_snapshot in the finally block
        /\ page' = [page EXCEPT !.pos = IF ends /\ page.saved > 0 THEN page.saved ELSE @ + step,
                                !.saved = IF ends THEN 0 ELSE @]
        /\ UNCHANGED <<kind, feed, config, db, scans, events>>

\* An exception of the page, anywhere: the place is restored, the attempt fails.
PageFails ==
    /\ scan.phase \in {"opened", "sorted", "collecting"}
    /\ scan' = [scan EXCEPT !.phase = "failed"]
    /\ page' = [page EXCEPT !.pos = IF page.saved > 0 THEN page.saved ELSE @, !.saved = 0]
    /\ Event
    /\ UNCHANGED <<kind, feed, config, db, scans>>
-----------------------------------------------------------------------------
(* The commit. *)

\* logical_items.mark_seen_aliases.  Hits are ranked by their earliest matching
\* row; a comment without a hit is looked up by its comment id; an alias that
\* another item owns stays with it.
HitRows(d, item) == {i \in 1..Len(d.aliases) : d.aliases[i].key \in KeySet(item)}
SameComment(d, item) ==
    {i \in 1..Len(d.items) : item.comment # 0 /\ d.items[i].comment = item.comment}

Lowest(S) == CHOOSE n \in S : \A m \in S : n <= m
OwnerId(d, item) ==
    IF HitRows(d, item) # {} THEN d.aliases[Lowest(HitRows(d, item))].id
    ELSE IF SameComment(d, item) # {} THEN Lowest(SameComment(d, item)) ELSE 0

\* Mutant: only the primary key is kept.
PrimaryOnly(item) == <<Primary(item)>>
AliasRows(item) == Keys(item)

AddAlias(rows, key, id) ==
    IF \E i \in 1..Len(rows) : rows[i].key = key THEN rows
    ELSE Append(rows, [key |-> key, id |-> id])

AddAliases(rows, keys, id) == FoldLeft(LAMBDA a, k : AddAlias(a, k, id), rows, keys)

MarkSeen(d, item) ==
    LET hit == OwnerId(d, item)
        id == IF hit = 0 THEN Len(d.items) + 1 ELSE hit
    IN  [d EXCEPT !.items = IF hit = 0
                            THEN Append(@, [key |-> Primary(item), comment |-> item.comment])
                            ELSE [@ EXCEPT ![id].comment = item.comment],
                  !.aliases = AddAliases(@, AliasRows(item), id)]

\* match_history.add: the item's earlier entry goes, the newest entries stay.
Without(history, key) ==
    FoldLeft(LAMBDA rows, k : IF k = key THEN rows ELSE Append(rows, k), <<>>, history)
AddHistory(history, key) ==
    LET kept == Append(Without(history, key), key)
    IN  SubSeq(kept, IF Len(kept) > HistoryLimit THEN Len(kept) - HistoryLimit + 1 ELSE 1,
               Len(kept))

Classify(d, item) ==
    LET new == OwnerId(d, item) = 0
        announced == new /\ Eligible(scan.config.keywords, TextOf[item.post])
    IN  [MarkSeen(d, item) EXCEPT
            !.history = IF announced THEN AddHistory(@, Primary(item)) ELSE @]

ClassifyAll(d, items) == FoldLeft(Classify, d, items)

Rows(items) == [i \in 1..Len(items) |-> Primary(items[i])]
\* Mutant: rows of the last snapshot are added whether or not they are there.
CarriedOverTwice(latest, previous, limit) ==
    FoldLeft(LAMBDA rows, k : IF Len(rows) >= limit THEN rows ELSE Append(rows, k),
             latest, previous)
CarriedOver(latest, previous, limit) ==
    FoldLeft(LAMBDA rows, k : IF Len(rows) >= limit \/ Contains(rows, k)
                              THEN rows ELSE Append(rows, k),
             latest, previous)

LatestItems(items) ==
    LET wanted == scan.config.target
        previous == SubSeq(db.latest, 1, Last1(wanted, Len(db.latest)))
    IN  IF scan.stop = "seen_stop_consecutive_seen"
        THEN CarriedOver(Rows(items), previous,
                         IF wanted > Len(items) THEN wanted ELSE Len(items))
        ELSE Rows(items)

\* The next attempt reloads the page, so nothing of this one matters any more.
EndAttempt == scan' = Blank0 /\ page' = NoPage

Collected == SubSeq(scan.got, 1, Last1(scan.config.target, Len(scan.got)))

Commit ==
    /\ scan.phase = "collected" /\ scan.got # <<>>
    /\ db' = [ClassifyAll(db, Collected) EXCEPT !.latest = LatestItems(Collected)]
    /\ EndAttempt
    /\ UNCHANGED <<kind, feed, config, scans, events>>

\* A protective skip is a successful run without items; the snapshot is cleared.
CommitSkip ==
    /\ scan.phase = "skipped"
    /\ db' = [db EXCEPT !.latest = <<>>]
    /\ EndAttempt
    /\ UNCHANGED <<kind, feed, config, scans, events>>

\* A failed run, an empty extraction and a commit that is no longer allowed
\* leave these rows alone.
GiveUp ==
    /\ \/ scan.phase = "failed"
       \/ scan.phase = "collected" /\ scan.got = <<>>
    /\ EndAttempt
    /\ UNCHANGED <<kind, feed, config, db, scans, events>>

Refused ==
    /\ scan.phase \in {"collected", "skipped"}
    /\ EndAttempt
    /\ Event
    /\ UNCHANGED <<kind, feed, config, db, scans>>

Next ==
    \/ Arrive \/ ResetSeen \/ StartCollection \/ PageFails
    \/ Commit \/ CommitSkip \/ GiveUp \/ Refused
    \/ \E p \in 1..Posts : Pin(p)
    \/ \E c \in Configs : SetConfig(c)
    \/ \E o \in Orders, c \in Controls : OpenPage(o, c)
    \/ \E o \in EnsurePreferred(page.view, scan.config.sort) : AdjustSort(o)
    \/ \E looks \in [1..Len(Shown) -> UNION Range(LooksOf[kind])], step \in Steps :
           Round(looks, step)

Spec == Init /\ [][Next]_vars
-----------------------------------------------------------------------------
(* Properties. *)

Phases == {"idle", "opened", "sorted", "skipped", "collecting", "collected", "failed"}
Stops == {"none", "seen_stop_consecutive_seen", "target_count_reached", "scroll_stalled",
          "stagnant_windows", "scroll_rounds_completed"}
Key == {"id", "url", "author-text", "text", "fingerprint", "comment", "comment-url"}
           \X (0..Posts)
Page == [view : [order : Orders, control : Controls], items : Seq(1..Posts),
         pos : Nat, saved : Nat]
Attempt ==
    [phase : Phases, config : Configs, trusted : BOOLEAN, round : Nat, got : Seq(Item),
     added : Nat, stagnant : Nat, known : SUBSET (1..Posts), streak : Nat,
     triggered : BOOLEAN, dropped : SUBSET (1..Posts), stop : Stops]
TargetRows ==
    [aliases : Seq([key : Key, id : Nat]), items : Seq([key : Key, comment : 0..Posts]),
     latest : Seq(Key), history : Seq(Key)]

TypeOK ==
    /\ kind \in Kinds
    /\ feed \in [born : 1..Posts, pins : SUBSET (1..Posts)]
    /\ config \in Configs
    /\ page \in Page
    /\ scan \in Attempt
    /\ db \in TargetRows
    /\ \A i \in 1..Len(db.aliases) : db.aliases[i].id \in 1..Len(db.items)
    /\ scans \in 0..MaxScans /\ events \in 0..MaxEvents

\* Stopping at known posts hides nothing new: on a page in the newest-first order
\* with fewer pinned posts than the stop asks for, every readable post that an
\* early stop leaves out is older than an unpinned post the database knows
\* (feed_extractor.py, observe_seen_stop_item; posts_pipeline.py,
\* build_feed_seen_stop_predicate).  The pinned posts are those the page shows
\* above the others.
Above == {i \in 1..Len(page.items) : \E j \in (i + 1)..Len(page.items) :
              page.items[j] > page.items[i]}
NewestNotHidden ==
    scan.phase = "collected" /\ scan.triggered /\ page.view.order = "newest"
        /\ Cardinality(Above) < SeenStop =>
        \A p \in Range(page.items) :
            \/ p \in scan.dropped \/ \E i \in 1..Len(scan.got) : scan.got[i].post = p
            \/ \E q \in scan.known : q > p /\ \A i \in Above : page.items[i] # q

\* What observe_seen_stop_item's docstring says of an early stop: it "conservatively
\* requires that a new item was seen first".  The code does not, see the README.
NewSeenFirst ==
    scan.triggered => \E i \in 1..Len(scan.got) : scan.got[i].post \notin scan.known

\* However often an item is seen and in whatever forms, as long as the forms
\* share aliases two by two it has one logical item, so it is new, and can be
\* announced, once between two resets (logical_items.py, mark_seen_aliases;
\* dedupe.py, aliases_overlap).
AnnouncedOnce ==
    \A i, j \in 1..Len(db.items) :
        i # j => db.items[i].key[2] # db.items[j].key[2]

\* The rows of the latest snapshot have different keys, so replace_for_target
\* meets no primary-key conflict that would undo the whole commit: the items of
\* a scan are different after the merge, and rows carried over from the last
\* snapshot are not among them (scan_latest_snapshot.py,
\* _append_carried_over_previous_items).
SnapshotKeysDiffer == IsInjective(db.latest)

\* The rule the matcher is meant to compute: every include group that has a rule
\* has one that occurs, and every exclude rule has a phrase that occurs nowhere
\* without a word of an ignored phrase.
Ignored(i, text, ignore) ==
    \E p \in ignore : \E x \in Occurrences(p, text) : x[1] <= i /\ i < x[2]
OccursOutside(phrase, text, ignore) ==
    \E r \in Occurrences(phrase, text) : \A i \in r[1]..(r[2] - 1) : ~Ignored(i, text, ignore)
Wanted(words, text) ==
    /\ UNION words.groups # {}
    /\ \A g \in words.groups : g = {} \/ \E r \in g : \A t \in r : Found(t, text)
    /\ \A r \in words.exclude : \E t \in r : ~OccursOutside(t, text, words.ignore)

\* A commit announces exactly the new items that the configuration its attempt
\* started with wants, in their order, whatever was saved meanwhile and however
\* the ignored phrases overlap (scan_finalize.py,
\* _process_scan_items_for_finalize; keyword_rules.py).
Announce(history, item) ==
    IF ~KnownRow(item) /\ Wanted(scan.config.keywords, TextOf[item.post])
    THEN AddHistory(history, Primary(item)) ELSE history
AnnounceAll(history, items) == FoldLeft(Announce, history, items)

MatchesAsConfigured == [][Commit => db'.history = AnnounceAll(db.history, Collected)]_vars
=============================================================================
