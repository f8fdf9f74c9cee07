------------------------ MODULE TargetCadenceProofs ------------------------
(***************************************************************************)
(* Proofs about TargetCadence, for every set of targets and workers, every *)
(* choice of refresh intervals, retry delay, limits and mishaps: an error  *)
(* is earned by a streak, and no scan that nobody asked for comes early.   *)
(*                                                                         *)
(* The first argument compares the streak in the row with the history of   *)
(* failures.  The second follows an item from the planner to its claim:    *)
(* when it is planned its time has come (DueOK), and until a worker takes  *)
(* it the target is not scanned, so its row only changes by a command,     *)
(* which is asking (UnaskedOK, RipeOK).                                    *)
(***************************************************************************)
EXTENDS TargetCadence, FiniteSetTheorems, SequenceTheorems, TLAPS

Waits(t) == row[t].failures > 0 /\ DelayOf(row[t].failure) > 0

(* A target is in one place: an entry of the queue or a worker; the row of *)
(* a scan that owns it says running, and an entry's row is not in error.   *)
(* A target that is not wanted carries no streak.                          *)
PlacesOK ==
    /\ \A i, j \in DOMAIN queue : queue[i].target = queue[j].target => i = j
    /\ \A w \in Workers : work[w] # NoWork =>
          /\ ~Queued(work[w].item.target)
          /\ \A v \in Workers : work[v].item.target = work[w].item.target => v = w
    /\ \A w \in Workers : Scanning(w) =>
          row[work[w].item.target].status = "running" /\ row[work[w].item.target].wanted
    /\ \A t \in Targets : Queued(t) => row[t].status # "error"
    /\ \A t \in Targets : ~row[t].wanted => row[t].failures = 0

(* The streak of a row is the tail of the history of its failures.         *)
StreakOK ==
    \A t \in Targets :
        LET n == row[t].failures
            h == failed[t]
        IN  /\ n <= Len(h) /\ Len(h) <= FailureLimit
            /\ n = 0 => h = <<>>
            /\ n > 0 => /\ \A i \in (Len(h) - n + 1)..Len(h) : h[i] = row[t].failure
                        /\ Len(h) > n => h[Len(h) - n] # row[t].failure
            /\ n = FailureLimit <=> row[t].status = "error" /\ n > 0

(* What the planner took without being asked is not taken already, and a   *)
(* target that is taken but free again was asked for.                      *)
UnaskedOK ==
    /\ \A i, j \in DOMAIN batch : batch[i].target = batch[j].target => i = j
    /\ \A i \in DOMAIN batch : ~batch[i].manual => ~Taken(batch[i].target)
    /\ \A t \in Targets :
          Taken(t) /\ row[t].wanted /\ row[t].status = "idle" => row[t].request # "no"

(* The target may be scanned now: it has waited for its page, or for one   *)
(* of its refresh intervals.                                               *)
Ripe(t) ==
    /\ Waits(t) => age[t] # Never /\ age[t] >= RetryDelay
    /\ Waits(t) \/ \E i \in Refresh[t] : since[t] >= i

(* An item nobody asked for is ripe from its planning on.                  *)
RipeOK ==
    LET Due(item) ==
            ~item.manual /\ row[item.target].wanted /\ row[item.target].request = "no"
            => Ripe(item.target)
    IN  /\ \A i \in DOMAIN batch : Due(batch[i])
        /\ \A i \in DOMAIN queue : Due(queue[i])

(* The planner's due time is an interval after the last start, or later.   *)
DueOK ==
    \A t \in Targets :
        /\ due[t] <= Never
        /\ row[t].failures > 0 => age[t] # Never
        /\ /\ row[t].wanted
           /\ \/ row[t].status = "running"
              \/ row[t].status = "idle" /\ row[t].request = "no" /\ ~Waits(t)
           /\ since[t] # Never
           => /\ due[t] # Never
              /\ \E i \in Refresh[t] : since[t] >= i \/ due[t] + since[t] >= i

IInv == TypeOK /\ PlacesOK /\ StreakOK /\ UnaskedOK /\ RipeOK /\ DueOK

-----------------------------------------------------------------------------
(* Times, items and rows.                                                  *)

LEMMA HorizonFacts ==
    /\ Horizon \in Nat \ {0} /\ Never \in Nat /\ Never = Horizon + 1
    /\ RetryDelay \in 1..Horizon
    /\ \A t \in Targets : \A i \in Refresh[t] : i \in 1..Horizon
    /\ 0 # Never
<1>1. PICK n \in Delays : \A m \in Delays : m <= n
  BY CadenceAssumption
<1>2. Horizon \in Delays /\ \A m \in Delays : m <= Horizon
  BY <1>1 DEF Horizon
<1>3. Delays \subseteq Nat \ {0}
  <2>1. \A t \in Targets : Refresh[t] \subseteq Nat \ {0}
    BY CadenceAssumption
  <2> QED
    BY <2>1, PolicyAssumption DEF Delays
<1>4. RetryDelay \in Delays /\ \A t \in Targets : \A i \in Refresh[t] : i \in Delays
  BY DEF Delays
<1>5. Horizon \in Nat \ {0}
  BY <1>2, <1>3
<1> HIDE DEF Horizon
<1>6. \A d \in Delays : d \in 1..Horizon
  BY <1>2, <1>3, <1>5
<1>7. Never = Horizon + 1
  BY DEF Never
<1> QED
  BY <1>4, <1>5, <1>6, <1>7

LEMMA AgeFacts ==
    /\ \A a \in Ages \cup {Never} : a \in Nat /\ a <= Never /\ Older(a) \in Ages \cup {Never}
    /\ \A a \in Ages \cup {Never} : Older(a) >= a /\ (a = Never <=> Older(a) = Never)
    /\ \A a \in Ages : Older(a) = a + 1 \/ (a = Horizon /\ Older(a) = a)
    /\ 0 \in Ages /\ Ages \subseteq Nat
BY HorizonFacts DEF Ages, Older

LEMMA NoWorkIsNoItem ==
    /\ NoWork.item.target = Nobody /\ NoWork.owns = FALSE
    /\ \A i \in Items : i.target \in Targets /\ i.target # Nobody /\ i.interval \in Refresh[i.target]
                        /\ i.manual \in BOOLEAN
BY CadenceAssumption DEF NoWork, Item, Items

LEMMA WorkFacts ==
    ASSUME TypeOK, NEW w \in Workers
    PROVE  /\ work[w] # NoWork <=> work[w].item.target \in Targets
           /\ work[w] # NoWork => work[w].item \in Items /\ work[w].owns \in BOOLEAN
           /\ Scanning(w) <=> work[w].owns
BY NoWorkIsNoItem, CadenceAssumption DEF TypeOK, Scanning

LEMMA EndTypes ==
    ASSUME TypeOK, NEW w \in Workers, EndAttempt(w)
    PROVE  /\ work' \in [Workers -> [item : Items, owns : BOOLEAN] \cup {NoWork}]
           /\ work'[w] = NoWork /\ \A v \in Workers \ {w} : work'[v] = work[v]
BY DEF TypeOK, EndAttempt

LEMMA DisownTypes ==
    ASSUME TypeOK, NEW t \in Targets, Disowned(t)
    PROVE  /\ work' \in [Workers -> [item : Items, owns : BOOLEAN] \cup {NoWork}]
           /\ \A w \in Workers : work'[w].item.target = work[w].item.target
           /\ \A w \in Workers : work'[w] # NoWork <=> work[w] # NoWork
           /\ \A w \in Workers : work[w].item.target = t => work'[w].owns = FALSE
           /\ \A w \in Workers : work'[w].owns => work[w].owns
<1>1. \A w \in Workers : work'[w] = IF work[w].item.target = t THEN [work[w] EXCEPT !.owns = FALSE]
                                    ELSE work[w]
  BY DEF Disowned
<1>2. SUFFICES ASSUME NEW w \in Workers
               PROVE  /\ work'[w] \in [item : Items, owns : BOOLEAN] \cup {NoWork}
                      /\ work'[w].item.target = work[w].item.target
                      /\ work'[w] # NoWork <=> work[w] # NoWork
                      /\ work[w].item.target = t => work'[w].owns = FALSE
                      /\ work'[w].owns => work[w].owns
  BY DEF Disowned
<1>3. CASE work[w] = NoWork
  BY <1>1, <1>3, NoWorkIsNoItem, CadenceAssumption
<1>4. CASE work[w] # NoWork
  <2>1. work[w] \in [item : Items, owns : BOOLEAN] /\ work[w].item.target # Nobody
    BY <1>4, NoWorkIsNoItem DEF TypeOK
  <2>2. CASE work[w].item.target = t
    <3>1. work'[w] = [work[w] EXCEPT !.owns = FALSE]
      BY <1>1, <2>2
    <3>2. /\ work'[w] \in [item : Items, owns : BOOLEAN]
          /\ work'[w].item = work[w].item /\ work'[w].owns = FALSE
      BY <2>1, <3>1
    <3> QED
      BY <2>1, <3>2, <1>4, NoWorkIsNoItem
  <2>3. CASE work[w].item.target # t
    BY <1>1, <2>1, <2>3
  <2> QED
    BY <2>2, <2>3
<1> QED
  BY <1>3, <1>4

LEMMA LimitsAreNumbers ==
    FailureLimit \in Nat \ {0} /\ SkipLimit \in Nat \ {0} /\ MaxEvents \in Nat
BY PolicyAssumption, CadenceAssumption

LEMMA CleanType ==
    \A wanted \in BOOLEAN, request \in Requests :
        /\ Clean(wanted, request) \in Rows
        /\ Clean(wanted, request).wanted = wanted /\ Clean(wanted, request).request = request
        /\ Clean(wanted, request).status = "idle" /\ Clean(wanted, request).failures = 0
        /\ Clean(wanted, request).failure = NoReason
BY LimitsAreNumbers DEF Clean, Rows

(* A row from its parts.                                                   *)
RowOf(wanted, status, request, failure, failures, skips) ==
    [wanted |-> wanted, status |-> status, request |-> request, failure |-> failure,
     failures |-> failures, skips |-> skips]

LEMMA RowParts ==
    ASSUME NEW r \in Rows
    PROVE  /\ r.wanted \in BOOLEAN /\ r.request \in Requests
           /\ r.status \in {"idle", "queued", "running", "error"}
           /\ r.failure \in Reasons \cup {NoReason} /\ r.failures \in 0..FailureLimit
           /\ r.skips \in 0..SkipLimit
           /\ r = RowOf(r.wanted, r.status, r.request, r.failure, r.failures, r.skips)
BY DEF Rows, RowOf

LEMMA PartsRow ==
    ASSUME NEW wanted \in BOOLEAN, NEW status \in {"idle", "queued", "running", "error"},
           NEW request \in Requests, NEW failure \in Reasons \cup {NoReason},
           NEW failures \in 0..FailureLimit, NEW skips \in 0..SkipLimit
    PROVE  LET r == RowOf(wanted, status, request, failure, failures, skips)
           IN  /\ r \in Rows /\ r.wanted = wanted /\ r.status = status /\ r.request = request
               /\ r.failure = failure /\ r.failures = failures /\ r.skips = skips
BY DEF Rows, RowOf

LEMMA KeptType == \A r : Kept(r) \in {"before", "no"} /\ Kept(r) \in Requests
BY DEF Kept, Requests

LEMMA IdledRow ==
    ASSUME NEW r \in Rows
    PROVE  /\ Idled(r) \in Rows /\ Idled(r).wanted = r.wanted /\ Idled(r).status = "idle"
           /\ Idled(r).failures = 0
<1>1. Idled(r) = RowOf(r.wanted, "idle", Kept(r), NoReason, 0, 0)
  BY DEF Idled, Clean, RowOf
<1>2. /\ Kept(r) \in Requests /\ r.wanted \in BOOLEAN
      /\ 0 \in 0..FailureLimit /\ 0 \in 0..SkipLimit
  BY RowParts, KeptType, LimitsAreNumbers
<1> QED
  BY <1>1, <1>2, PartsRow

LEMMA ReleasedRow ==
    ASSUME NEW r \in Rows
    PROVE  /\ Released(r) \in Rows /\ Released(r).wanted = r.wanted
           /\ Released(r).status = "idle"
           /\ Released(r).failures = r.failures /\ Released(r).failure = r.failure
BY DEF Released, Rows, Requests

LEMMA RetriedRow ==
    ASSUME NEW r \in Rows
    PROVE  /\ Retried(r) \in Rows /\ Retried(r).wanted = r.wanted /\ Retried(r).status = "idle"
           /\ Retried(r).failures = r.failures /\ Retried(r).failure = r.failure
           /\ Retried(r).request = "before"
BY DEF Retried, Rows, Requests

LEMMA SkippedRow ==
    ASSUME NEW r \in Rows, r.skips + 1 < SkipLimit
    PROVE  /\ Skipped(r) \in Rows /\ Skipped(r).wanted = r.wanted /\ Skipped(r).status = "idle"
           /\ Skipped(r).failures = r.failures /\ Skipped(r).failure = r.failure
<1>1. r.skips + 1 \in 0..SkipLimit
  BY RowParts, LimitsAreNumbers
<1> QED
  BY <1>1, KeptType DEF Skipped, Rows

(* What the policy may decide about a row whose streak is not complete.    *)
VerdictOn(d, r) ==
    /\ d.action \in {"idle", "retry", "error"} /\ d.reason \in Reasons
    /\ d.streak \in 0..FailureLimit /\ d.now \in BOOLEAN /\ d.rebuild \in BOOLEAN
    /\ d.streak > 0 => d.streak = (IF r.failure = d.reason THEN r.failures + 1 ELSE 1)
    /\ d.action = "idle" => d.streak = 0
    /\ d.action = "retry" => d.streak \in 1..FailureLimit /\ d.streak # FailureLimit
    /\ d.action = "error" => d.streak \in {0, FailureLimit}

LEMMA DecideVerdict ==
    ASSUME NEW r \in Rows, r.failures # FailureLimit, NEW reason \in Reasons, NEW source
    PROVE  VerdictOn(Decide(reason, source, r.failure, r.failures), r)
<1> DEFINE d == Decide(reason, source, r.failure, r.failures)
           n == NextStreak(reason, r.failure, r.failures)
<1>1. n \in 1..FailureLimit /\ n = (IF r.failure = reason THEN r.failures + 1 ELSE 1)
  <2>1. r.failures \in 0..FailureLimit
    BY RowParts
  <2> QED
    BY <2>1, LimitsAreNumbers DEF NextStreak
<1>2. \/ d.action \in {"idle", "error"} /\ d.streak = 0
      \/ d.action = "retry" /\ d.streak = n /\ n < FailureLimit
      \/ d.action = "error" /\ d.streak = n /\ ~(n < FailureLimit)
  BY DEF Decide, Decision
<1>3. d.reason = reason
  BY DEF Decide, Decision
<1>4. d.now \in BOOLEAN /\ d.rebuild \in BOOLEAN
  BY DEF Decide, Decision
<1> HIDE DEF n
<1>5. d.streak \in 0..FailureLimit
  BY <1>1, <1>2, LimitsAreNumbers
<1>6. SUFFICES VerdictOn(d, r)
  OBVIOUS
<1> HIDE DEF d
<1> QED
  BY <1>1, <1>2, <1>3, <1>4, <1>5, LimitsAreNumbers DEF VerdictOn

LEMMA FailedType ==
    ASSUME NEW r \in Rows, NEW d, VerdictOn(d, r)
    PROVE  /\ Failed(r, d) \in Rows /\ Failed(r, d).wanted = r.wanted
           /\ Failed(r, d).status \in {"idle", "error"}
           /\ Failed(r, d).failures = d.streak
           /\ d.streak > 0 => Failed(r, d).failure = d.reason
           /\ Failed(r, d).status = "error" /\ d.streak > 0 <=> d.streak = FailureLimit
<1>0. /\ r.wanted \in BOOLEAN /\ Kept(r) \in Requests /\ "before" \in Requests /\ "no" \in Requests
      /\ r.request \in Requests
  BY RowParts, KeptType DEF Requests
<1>1. CASE d.action = "idle"
  <2>1. Failed(r, d) = Idled(r) /\ d.streak = 0
    BY <1>1 DEF Failed, VerdictOn
  <2> QED
    BY <2>1, IdledRow, LimitsAreNumbers
<1>2. CASE d.action = "retry"
  <2>1. PICK q \in Requests : q = IF d.now THEN "before" ELSE Kept(r)
    BY <1>0
  <2>2. Failed(r, d) = [Clean(r.wanted, q) EXCEPT !.failure = d.reason, !.failures = d.streak]
    BY <1>2, <2>1 DEF Failed
  <2>3. Failed(r, d) = RowOf(r.wanted, "idle", q, d.reason, d.streak, 0)
    BY <2>2 DEF Clean, RowOf
  <2>4. d.reason \in Reasons \cup {NoReason} /\ d.streak \in 1..FailureLimit /\ d.streak # FailureLimit
    BY <1>2 DEF VerdictOn
  <2>5. d.streak \in 0..FailureLimit /\ 0 \in 0..SkipLimit
    BY <2>4, LimitsAreNumbers
  <2> QED
    BY <1>0, <2>3, <2>4, <2>5, PartsRow
<1>3. CASE d.action = "error"
  <2>1. PICK q \in Requests : q = Newer(r, "no")
    BY <1>0 DEF Newer
  <2>2. PICK f \in Reasons \cup {NoReason} : f = IF d.streak > 0 THEN d.reason ELSE NoReason
    BY DEF VerdictOn
  <2>3. Failed(r, d) = RowOf(r.wanted, "error", q, f, d.streak, 0)
    BY <1>3, <2>1, <2>2 DEF Failed, Clean, RowOf
  <2>4. d.streak \in {0, FailureLimit} /\ d.streak \in 0..FailureLimit /\ 0 \in 0..SkipLimit
    BY <1>3, LimitsAreNumbers DEF VerdictOn
  <2>5. /\ Failed(r, d) \in Rows /\ Failed(r, d).wanted = r.wanted
        /\ Failed(r, d).status = "error" /\ Failed(r, d).failures = d.streak
        /\ Failed(r, d).failure = f
    BY <1>0, <2>2, <2>3, <2>4, PartsRow
  <2> QED
    BY <2>2, <2>4, <2>5, LimitsAreNumbers
<1> QED
  BY <1>1, <1>2, <1>3 DEF VerdictOn

-----------------------------------------------------------------------------
(* The streak and the history of failures.                                 *)

(* What a step may do to the streak of t: leave it, end it, or record a    *)
(* failure of a row whose streak is not complete.                          *)
Notes(t, d) ==
    /\ row[t].failures # FailureLimit
    /\ VerdictOn(d, row[t])
    /\ row'[t].failures = d.streak
    /\ d.streak > 0 => row'[t].failure = d.reason
    /\ row'[t].status = "error" /\ d.streak > 0 <=> d.streak = FailureLimit
    /\ failed'[t] = Noted(t, d)

StreakMove(t) ==
    \/ /\ row'[t].failures = row[t].failures /\ row'[t].failure = row[t].failure
       /\ failed'[t] = failed[t]
       /\ row'[t].status = "error" <=> row[t].status = "error"
    \/ row'[t].failures = 0 /\ failed'[t] = <<>>
    \/ \E d : Notes(t, d)

StreakOf(r, h) ==
    LET n == r.failures
    IN  /\ n <= Len(h) /\ Len(h) <= FailureLimit
        /\ n = 0 => h = <<>>
        /\ n > 0 => /\ \A i \in (Len(h) - n + 1)..Len(h) : h[i] = r.failure
                    /\ Len(h) > n => h[Len(h) - n] # r.failure
        /\ n = FailureLimit <=> r.status = "error" /\ n > 0

LEMMA StreakByTarget == StreakOK <=> \A t \in Targets : StreakOf(row[t], failed[t])
BY DEF StreakOK, StreakOf

(* Appending a reason to a history that ends in n times f.                 *)
LEMMA AppendedStreak ==
    ASSUME NEW h \in Seq(Reasons), NEW n \in Nat, NEW f, NEW reason \in Reasons,
           n <= Len(h), n = 0 => h = <<>>,
           n > 0 => /\ \A i \in (Len(h) - n + 1)..Len(h) : h[i] = f
                    /\ Len(h) > n => h[Len(h) - n] # f,
           NEW m \in Nat, m > 0, m = IF f = reason THEN n + 1 ELSE 1
    PROVE  LET a == Append(h, reason)
           IN  /\ a \in Seq(Reasons) /\ Len(a) = Len(h) + 1 /\ m <= Len(a)
               /\ \A i \in (Len(a) - m + 1)..Len(a) : a[i] = reason
               /\ Len(a) > m => a[Len(a) - m] # reason
<1> DEFINE a == Append(h, reason)
<1>1. /\ a \in Seq(Reasons) /\ Len(a) = Len(h) + 1
      /\ \A i \in 1..Len(h) : a[i] = h[i]
      /\ a[Len(h) + 1] = reason
  BY AppendProperties
<1>2. Len(h) \in Nat
  BY LenProperties
<1>3. n = 0 => Len(h) = 0
  BY EmptySeq
<1> HIDE DEF a
<1>4. CASE f = reason /\ n > 0
  <2>1. m = n + 1
    BY <1>4
  <2>2. \A i \in (Len(a) - m + 1)..Len(a) : a[i] = reason
    <3> SUFFICES ASSUME NEW i \in (Len(h) + 1 - (n + 1) + 1)..(Len(h) + 1) PROVE a[i] = reason
      BY <1>1, <2>1
    <3>1. CASE i = Len(h) + 1
      BY <1>1, <3>1
    <3>2. CASE i # Len(h) + 1
      <4>1. i \in (Len(h) - n + 1)..Len(h) /\ i \in 1..Len(h)
        BY <1>2, <3>2
      <4> QED
        BY <1>1, <1>4, <4>1
    <3> QED
      BY <3>1, <3>2
  <2>3. Len(a) > m => a[Len(a) - m] # reason
    <3> SUFFICES ASSUME Len(h) + 1 > n + 1 PROVE a[Len(a) - m] # reason
      BY <1>1, <2>1
    <3>1. Len(a) - m = Len(h) - n /\ Len(h) - n \in 1..Len(h)
      BY <1>1, <1>2, <1>4, <2>1
    <3>2. h[Len(h) - n] # f
      BY <1>2, <1>4
    <3> QED
      BY <1>1, <1>4, <3>1, <3>2
  <2>4. m <= Len(a)
    BY <1>1, <1>2, <2>1
  <2> QED
    BY <1>1, <2>2, <2>3, <2>4 DEF a
<1>5. CASE ~(f = reason /\ n > 0)
  <2>1. m = 1
    BY <1>5
  <2>2. Len(a) > 1 => a[Len(a) - 1] # reason
    <3> SUFFICES ASSUME Len(h) > 0 PROVE a[Len(h)] # reason
      BY <1>1, <1>2
    <3>1. n > 0 /\ f # reason
      BY <1>3, <1>5
    <3>2. Len(h) \in (Len(h) - n + 1)..Len(h) /\ Len(h) \in 1..Len(h)
      BY <1>2, <3>1
    <3>3. a[Len(h)] = h[Len(h)] /\ h[Len(h)] = f
      BY <1>1, <3>1, <3>2
    <3> QED
      BY <3>1, <3>3
  <2>3. \A i \in (Len(a) - m + 1)..Len(a) : a[i] = reason
    <3> SUFFICES ASSUME NEW i \in (Len(h) + 1 - 1 + 1)..(Len(h) + 1) PROVE a[i] = reason
      BY <1>1, <2>1
    <3>1. i = Len(h) + 1
      BY <1>2
    <3> QED
      BY <1>1, <3>1
  <2>4. m <= Len(a)
    BY <1>1, <1>2, <2>1
  <2>5. Len(a) > m => a[Len(a) - m] # reason
    BY <2>1, <2>2
  <2> QED
    BY <1>1, <2>3, <2>4, <2>5 DEF a
<1> QED
  BY <1>4, <1>5

LEMMA NotedStreak ==
    ASSUME TypeOK, NEW t \in Targets, StreakOf(row[t], failed[t]),
           NEW d, VerdictOn(d, row[t])
    PROVE  /\ Noted(t, d) \in Seq(Reasons)
           /\ \A r : /\ r.failures = d.streak
                     /\ d.streak > 0 => r.failure = d.reason
                     /\ r.status = "error" /\ d.streak > 0 <=> d.streak = FailureLimit
                     => StreakOf(r, Noted(t, d))
<1> DEFINE h == failed[t]
           n == row[t].failures
           f == row[t].failure
           m == d.streak
           a == Append(h, d.reason)
<1>0. /\ h \in Seq(Reasons) /\ n \in Nat /\ m \in Nat /\ m <= FailureLimit /\ d.reason \in Reasons
      /\ FailureLimit \in Nat \ {0}
  BY RowParts, LimitsAreNumbers DEF TypeOK, VerdictOn
<1>1. CASE m = 0
  <2>1. Noted(t, d) = <<>>
    BY <1>1 DEF Noted
  <2> QED
    BY <1>0, <1>1, <2>1, EmptySeq DEF StreakOf
<1>2. CASE m > 0
  <2>1. /\ n <= Len(h) /\ Len(h) <= FailureLimit /\ (n = 0 => h = <<>>)
        /\ n > 0 => /\ \A i \in (Len(h) - n + 1)..Len(h) : h[i] = f
                    /\ Len(h) > n => h[Len(h) - n] # f
    BY DEF StreakOf
  <2>2. m = IF f = d.reason THEN n + 1 ELSE 1
    BY <1>2 DEF VerdictOn
  <2>3. /\ a \in Seq(Reasons) /\ Len(a) = Len(h) + 1 /\ m <= Len(a)
        /\ \A i \in (Len(a) - m + 1)..Len(a) : a[i] = d.reason
        /\ Len(a) > m => a[Len(a) - m] # d.reason
    <3> DEFINE g == d.reason
    <3>1. /\ h \in Seq(Reasons) /\ n \in Nat /\ g \in Reasons /\ m \in Nat /\ m > 0
          /\ n <= Len(h) /\ (n = 0 => h = <<>>)
      BY <1>0, <1>2, <2>1
    <3>2. n > 0 => /\ \A i \in (Len(h) - n + 1)..Len(h) : h[i] = f
                   /\ Len(h) > n => h[Len(h) - n] # f
      BY <2>1
    <3>3. m = IF f = g THEN n + 1 ELSE 1
      BY <2>2
    <3>4. a = Append(h, g)
      OBVIOUS
    <3> HIDE DEF h, n, f, m, g, a
    <3>5. LET e == Append(h, g)
          IN  /\ e \in Seq(Reasons) /\ Len(e) = Len(h) + 1 /\ m <= Len(e)
              /\ \A i \in (Len(e) - m + 1)..Len(e) : e[i] = g
              /\ Len(e) > m => e[Len(e) - m] # g
      BY <3>1, <3>2, <3>3, AppendedStreak
    <3>6. /\ a \in Seq(Reasons) /\ Len(a) = Len(h) + 1 /\ m <= Len(a)
          /\ \A i \in (Len(a) - m + 1)..Len(a) : a[i] = g
          /\ Len(a) > m => a[Len(a) - m] # g
      BY <3>4, <3>5
    <3> QED
      BY <3>6 DEF g
  <2>4. Noted(t, d) = IF Len(a) > FailureLimit THEN Tail(a) ELSE a
    BY <1>0, <1>2 DEF Noted
  <2>5. Len(h) \in Nat /\ a # <<>>
    BY <1>0, <2>3, LenProperties, EmptySeq
  <2> DEFINE b == Noted(t, d)
  <2>6. /\ b \in Seq(Reasons) /\ m <= Len(b) /\ Len(b) <= FailureLimit
        /\ \A i \in (Len(b) - m + 1)..Len(b) : b[i] = d.reason
        /\ Len(b) > m => b[Len(b) - m] # d.reason
    <3>1. CASE Len(a) > FailureLimit
      <4>0. b = Tail(a)
        BY <2>4, <3>1
      <4>1. b = Tail(a) /\ Len(a) = FailureLimit + 1
        <5>1. Len(a) = Len(h) + 1 /\ Len(h) <= FailureLimit /\ Len(a) > FailureLimit
          BY <2>1, <2>3, <3>1
        <5> HIDE DEF a, b, h
        <5> QED
          BY <1>0, <2>5, <4>0, <5>1
      <4>2. /\ b \in Seq(Reasons) /\ Len(b) = FailureLimit
            /\ \A i \in 1..FailureLimit : b[i] = a[i + 1]
        <5> HIDE DEF a, b
        <5>1. /\ Tail(a) \in Seq(Reasons) /\ Len(Tail(a)) = Len(a) - 1
              /\ \A i \in 1..Len(Tail(a)) : Tail(a)[i] = a[i + 1]
          BY <2>3, <2>5, HeadTailProperties
        <5> QED
          BY <1>0, <4>1, <5>1
      <4> HIDE DEF a, b, m
      <4>3. \A i \in (Len(b) - m + 1)..Len(b) : b[i] = d.reason
        <5> SUFFICES ASSUME NEW i \in (FailureLimit - m + 1)..FailureLimit PROVE b[i] = d.reason
          BY <4>2
        <5>1. i \in 1..FailureLimit /\ i + 1 \in (Len(a) - m + 1)..Len(a)
          BY <1>0, <1>2, <4>1
        <5> QED
          BY <2>3, <4>2, <5>1
      <4>4. Len(b) > m => b[Len(b) - m] # d.reason
        <5> SUFFICES ASSUME FailureLimit > m PROVE b[FailureLimit - m] # d.reason
          BY <4>2
        <5>1. FailureLimit - m \in 1..FailureLimit /\ FailureLimit - m + 1 = Len(a) - m
          BY <1>0, <1>2, <4>1
        <5>2. Len(a) > m
          BY <1>0, <4>1
        <5> QED
          BY <2>3, <4>2, <5>1, <5>2
      <4> QED
        BY <1>0, <4>2, <4>3, <4>4
    <3>2. CASE ~(Len(a) > FailureLimit)
      <4>1. b = a
        BY <2>4, <3>2
      <4>2. Len(a) \in Nat
        BY <2>3, <2>5
      <4> QED
        BY <1>0, <2>3, <3>2, <4>1, <4>2
    <3> QED
      BY <3>1, <3>2
  <2> HIDE DEF b, h, n, f, a
  <2>7. Len(b) \in Nat
    BY <2>6, LenProperties
  <2>8. ASSUME NEW r, r.failures = m, m > 0 => r.failure = d.reason,
               r.status = "error" /\ m > 0 <=> m = FailureLimit
        PROVE  StreakOf(r, b)
    BY <1>0, <1>2, <2>6, <2>7, <2>8 DEF StreakOf
  <2> QED
    BY <2>6, <2>8 DEF b
<1> QED
  BY <1>0, <1>1, <1>2

LEMMA StreakMoves ==
    ASSUME TypeOK, StreakOK, \A t \in Targets : StreakMove(t)
    PROVE  StreakOK'
<1> SUFFICES ASSUME NEW t \in Targets PROVE StreakOf(row[t], failed[t])'
  BY StreakByTarget DEF StreakOK, StreakOf
<1>0. StreakOf(row[t], failed[t])
  BY StreakByTarget
<1>1. CASE /\ row'[t].failures = row[t].failures /\ row'[t].failure = row[t].failure
           /\ failed'[t] = failed[t]
           /\ row'[t].status = "error" <=> row[t].status = "error"
  BY <1>0, <1>1 DEF StreakOf
<1>2. CASE row'[t].failures = 0 /\ failed'[t] = <<>>
  BY <1>2, EmptySeq, LimitsAreNumbers DEF StreakOf
<1>3. CASE \E d : Notes(t, d)
  <2>1. PICK d : Notes(t, d)
    BY <1>3
  <2> QED
    BY <1>0, <2>1, NotedStreak DEF Notes
<1> QED
  BY <1>1, <1>2, <1>3 DEF StreakMove


-----------------------------------------------------------------------------
(* A step that ends the attempt of w with an outcome.                      *)

LEMMA StreakNotFull ==
    ASSUME TypeOK, StreakOK, NEW t \in Targets, row[t].status # "error"
    PROVE  row[t].failures # FailureLimit
BY LimitsAreNumbers DEF StreakOK

LEMMA FailureIsRecorded ==
    ASSUME TypeOK, StreakOK, NEW t \in Targets, row[t].status # "error",
           NEW reason \in Reasons, NEW source,
           RecordFailure(t, DecisionFor(t, reason, source))
    PROVE  /\ row' \in [Targets -> Rows] /\ age' \in [Targets -> Ages \cup {Never}]
           /\ failed' \in [Targets -> Seq(Reasons)]
           /\ row'[t].wanted = row[t].wanted /\ row'[t].status \in {"idle", "error"}
           /\ age'[t] = 0
           /\ StreakMove(t)
           /\ \A u \in Targets \ {t} :
                 row'[u] = row[u] /\ age'[u] = age[u] /\ failed'[u] = failed[u]
<1> DEFINE d == DecisionFor(t, reason, source)
<1>1. row \in [Targets -> Rows] /\ age \in [Targets -> Ages \cup {Never}]
      /\ failed \in [Targets -> Seq(Reasons)] /\ row[t] \in Rows
  BY DEF TypeOK
<1>2. row[t].failures # FailureLimit
  BY StreakNotFull
<1>3. VerdictOn(d, row[t])
  BY <1>1, <1>2, DecideVerdict DEF DecisionFor
<1>4. Noted(t, d) \in Seq(Reasons)
  BY <1>3, NotedStreak, StreakByTarget
<1>5. /\ row' = [row EXCEPT ![t] = Failed(row[t], d)]
      /\ failed' = [failed EXCEPT ![t] = Noted(t, d)]
      /\ age' = [age EXCEPT ![t] = 0]
  BY DEF RecordFailure
<1> HIDE DEF d
<1>6. /\ Failed(row[t], d) \in Rows /\ Failed(row[t], d).wanted = row[t].wanted
      /\ Failed(row[t], d).status \in {"idle", "error"}
      /\ Failed(row[t], d).failures = d.streak
      /\ d.streak > 0 => Failed(row[t], d).failure = d.reason
      /\ Failed(row[t], d).status = "error" /\ d.streak > 0 <=> d.streak = FailureLimit
  BY <1>1, <1>3, FailedType
<1>7. row'[t] = Failed(row[t], d) /\ failed'[t] = Noted(t, d) /\ age'[t] = 0
  BY <1>1, <1>5
<1>8. Notes(t, d)
  BY <1>2, <1>3, <1>6, <1>7 DEF Notes
<1>9. StreakMove(t)
  BY <1>8 DEF StreakMove
<1>10. row' \in [Targets -> Rows] /\ failed' \in [Targets -> Seq(Reasons)]
       /\ age' \in [Targets -> Ages \cup {Never}]
  BY <1>1, <1>4, <1>5, <1>6, AgeFacts
<1>11. \A u \in Targets \ {t} :
          row'[u] = row[u] /\ age'[u] = age[u] /\ failed'[u] = failed[u]
  BY <1>1, <1>5
<1> QED
  BY <1>6, <1>7, <1>9, <1>10, <1>11

(* The row of the item was running; it is idle or in error, with a failure *)
(* on record only next to a finished scan run; nothing else moves.         *)
OutcomeOn(w, t) ==
    /\ Scanning(w) /\ work[w].item.target = t /\ EndAttempt(w)
    /\ UNCHANGED <<due, batch, queue, since, ticked>>
    /\ rebuild' \in BOOLEAN /\ events' \in 0..MaxEvents
    /\ row' \in [Targets -> Rows] /\ age' \in [Targets -> Ages \cup {Never}]
    /\ failed' \in [Targets -> Seq(Reasons)]
    /\ row'[t].wanted = row[t].wanted /\ row'[t].status \in {"idle", "error"}
    /\ row'[t].failures > 0 => age'[t] # Never
    /\ StreakMove(t)
    /\ \A u \in Targets \ {t} :
          row'[u] = row[u] /\ age'[u] = age[u] /\ failed'[u] = failed[u]

LEMMA ScanningRow ==
    ASSUME IInv, NEW w \in Workers, Scanning(w)
    PROVE  LET t == work[w].item.target
           IN  /\ t \in Targets /\ row[t] \in Rows /\ row[t].wanted /\ row[t].status = "running"
               /\ row[t].failures # FailureLimit
               /\ ~Queued(t) /\ Taken(t)
               /\ \A v \in Workers : work[v].item.target = t => v = w
<1>1. work[w] # NoWork /\ work[w].item.target \in Targets
  BY WorkFacts DEF Scanning, IInv
<1>2. row[work[w].item.target] \in Rows
  BY <1>1 DEF IInv, TypeOK
<1>3. row[work[w].item.target].wanted /\ row[work[w].item.target].status = "running"
  BY DEF IInv, PlacesOK
<1>4. row[work[w].item.target].failures # FailureLimit
  BY <1>1, <1>3, StreakNotFull DEF IInv
<1> QED
  BY <1>1, <1>2, <1>3, <1>4 DEF IInv, PlacesOK, Taken

LEMMA SucceedIsOutcome ==
    ASSUME IInv, NEW w \in Workers, Succeed(w)
    PROVE  OutcomeOn(w, work[w].item.target)
<1> DEFINE t == work[w].item.target
<1>1. t \in Targets /\ row[t] \in Rows /\ row[t].wanted /\ Scanning(w)
  BY ScanningRow DEF Succeed
<1> HIDE DEF t
<1>2. /\ row' = [row EXCEPT ![t] = Idled(row[t])] /\ age' = [age EXCEPT ![t] = 0]
      /\ failed' = [failed EXCEPT ![t] = <<>>]
  BY DEF Succeed, t
<1>3. /\ row \in [Targets -> Rows] /\ age \in [Targets -> Ages \cup {Never}]
      /\ failed \in [Targets -> Seq(Reasons)] /\ rebuild \in BOOLEAN /\ events \in 0..MaxEvents
  BY DEF IInv, TypeOK
<1>4. Idled(row[t]) \in Rows /\ Idled(row[t]).wanted = row[t].wanted
      /\ Idled(row[t]).status = "idle" /\ Idled(row[t]).failures = 0
  BY <1>1, IdledRow
<1>5. row'[t] = Idled(row[t]) /\ failed'[t] = <<>> /\ age'[t] = 0
  BY <1>1, <1>2, <1>3
<1>6. StreakMove(t)
  BY <1>4, <1>5 DEF StreakMove
<1>7. row' \in [Targets -> Rows] /\ age' \in [Targets -> Ages \cup {Never}]
  BY <1>2, <1>3, <1>4, AgeFacts
<1>8. failed' \in [Targets -> Seq(Reasons)]
  BY <1>2, <1>3, EmptySeq
<1>9. \A u \in Targets \ {t} : row'[u] = row[u] /\ age'[u] = age[u] /\ failed'[u] = failed[u]
  BY <1>2, <1>3
<1>10. /\ EndAttempt(w) /\ UNCHANGED <<due, batch, queue, since, ticked>>
       /\ rebuild' = rebuild /\ events' = events
  BY DEF Succeed
<1> QED
  BY <1>1, <1>3, <1>4, <1>5, <1>6, <1>7, <1>8, <1>9, <1>10, LimitsAreNumbers, HorizonFacts DEF OutcomeOn, t

LEMMA EventType == ASSUME IInv, Event PROVE events' \in 0..MaxEvents
BY LimitsAreNumbers DEF IInv, TypeOK, Event

LEMMA SkipIsOutcome ==
    ASSUME IInv, NEW w \in Workers, SkipScan(w)
    PROVE  OutcomeOn(w, work[w].item.target)
<1> DEFINE t == work[w].item.target
<1>1. t \in Targets /\ row[t] \in Rows /\ row[t].wanted /\ Scanning(w) /\ row[t].status = "running"
  BY ScanningRow DEF SkipScan
<1> HIDE DEF t
<1>2. /\ row \in [Targets -> Rows] /\ age \in [Targets -> Ages \cup {Never}]
      /\ failed \in [Targets -> Seq(Reasons)] /\ rebuild \in BOOLEAN
  BY DEF IInv, TypeOK
<1>3. /\ EndAttempt(w) /\ UNCHANGED <<due, batch, queue, since, ticked>>
      /\ rebuild' = rebuild /\ Event
  BY DEF SkipScan
<1>4. events' \in 0..MaxEvents
  BY <1>3, EventType
<1>5. CASE row[t].skips + 1 < SkipLimit
  <2>1. /\ row' = [row EXCEPT ![t] = Skipped(row[t])] /\ age' = [age EXCEPT ![t] = 0]
        /\ failed' = failed
    BY <1>5 DEF SkipScan, t
  <2>2. /\ Skipped(row[t]) \in Rows /\ Skipped(row[t]).wanted = row[t].wanted
        /\ Skipped(row[t]).status = "idle"
        /\ Skipped(row[t]).failures = row[t].failures /\ Skipped(row[t]).failure = row[t].failure
    BY <1>1, <1>5, SkippedRow
  <2>3. row'[t] = Skipped(row[t]) /\ age'[t] = 0 /\ failed'[t] = failed[t]
    BY <1>1, <1>2, <2>1
  <2>4. StreakMove(t)
    BY <1>1, <2>2, <2>3 DEF StreakMove
  <2>5. row' \in [Targets -> Rows] /\ age' \in [Targets -> Ages \cup {Never}]
    BY <1>2, <2>1, <2>2, AgeFacts
  <2>6. \A u \in Targets \ {t} : row'[u] = row[u] /\ age'[u] = age[u] /\ failed'[u] = failed[u]
    BY <1>2, <2>1
  <2> QED
    BY <1>1, <1>2, <1>3, <1>4, <2>1, <2>2, <2>3, <2>4, <2>5, <2>6, HorizonFacts DEF OutcomeOn, t
<1>6. CASE ~(row[t].skips + 1 < SkipLimit)
  <2>1. RecordFailure(t, DecisionFor(t, "sort_adjust_unconfirmed", "worker_failure"))
    BY <1>6 DEF SkipScan, t
  <2>2. "sort_adjust_unconfirmed" \in Reasons
    BY DEF Reasons
  <2>3. TypeOK /\ StreakOK /\ row[t].status # "error"
    BY <1>1 DEF IInv
  <2>4. /\ row' \in [Targets -> Rows] /\ age' \in [Targets -> Ages \cup {Never}]
        /\ failed' \in [Targets -> Seq(Reasons)]
        /\ row'[t].wanted = row[t].wanted /\ row'[t].status \in {"idle", "error"}
        /\ age'[t] = 0
        /\ StreakMove(t)
        /\ \A u \in Targets \ {t} :
              row'[u] = row[u] /\ age'[u] = age[u] /\ failed'[u] = failed[u]
    BY <1>1, <2>1, <2>2, <2>3, FailureIsRecorded
  <2> QED
    BY <1>1, <1>2, <1>3, <1>4, <2>4, HorizonFacts DEF OutcomeOn, t
<1> QED
  BY <1>5, <1>6

LEMMA FailIsOutcome ==
    ASSUME IInv, NEW w \in Workers, Scanning(w),
           NEW mishap \in Mishaps[work[w].item.target], FailScan(w, mishap)
    PROVE  OutcomeOn(w, work[w].item.target)
<1> DEFINE t == work[w].item.target
           path == PathOf(mishap)
           d == DecisionFor(t, path.reason, path.source)
<1>1. t \in Targets /\ row[t] \in Rows /\ row[t].wanted /\ row[t].status = "running"
      /\ row[t].failures # FailureLimit
  BY ScanningRow
<1>2. /\ row \in [Targets -> Rows] /\ age \in [Targets -> Ages \cup {Never}]
      /\ failed \in [Targets -> Seq(Reasons)] /\ rebuild \in BOOLEAN /\ events \in 0..MaxEvents
      /\ row[t].failures > 0 => age[t] # Never
  BY <1>1 DEF IInv, TypeOK, DueOK
<1>3. EndAttempt(w) /\ UNCHANGED <<due, batch, queue, since, ticked>>
  BY DEF FailScan
<1>4. path.reason \in Reasons
  BY <1>1 DEF Reasons
<1>5. \/ RecordFailure(t, d) /\ rebuild' = (rebuild \/ d.rebuild) /\ events' = events
      \/ Event /\ row' = [row EXCEPT ![t] = Retried(row[t])] /\ UNCHANGED <<age, failed, rebuild>>
  BY DEF FailScan
<1>6. CASE RecordFailure(t, d) /\ rebuild' = (rebuild \/ d.rebuild) /\ events' = events
  <2>1. d.rebuild \in BOOLEAN
    BY <1>1, <1>4, DecideVerdict DEF DecisionFor, VerdictOn
  <2>2. rebuild' \in BOOLEAN
    BY <1>2, <1>6, <2>1
  <2>3. TypeOK /\ StreakOK /\ row[t].status # "error"
    BY <1>1 DEF IInv
  <2> HIDE DEF t, path
  <2>4. /\ row' \in [Targets -> Rows] /\ age' \in [Targets -> Ages \cup {Never}]
        /\ failed' \in [Targets -> Seq(Reasons)]
        /\ row'[t].wanted = row[t].wanted /\ row'[t].status \in {"idle", "error"}
        /\ age'[t] = 0
        /\ StreakMove(t)
        /\ \A u \in Targets \ {t} :
              row'[u] = row[u] /\ age'[u] = age[u] /\ failed'[u] = failed[u]
    BY <1>1, <1>4, <1>6, <2>3, FailureIsRecorded
  <2> QED
    BY <1>1, <1>2, <1>3, <1>6, <2>2, <2>4, HorizonFacts DEF OutcomeOn, t
<1>7. CASE Event /\ row' = [row EXCEPT ![t] = Retried(row[t])] /\ UNCHANGED <<age, failed, rebuild>>
  <2> HIDE DEF t
  <2>1. /\ Retried(row[t]) \in Rows /\ Retried(row[t]).wanted = row[t].wanted
        /\ Retried(row[t]).status = "idle"
        /\ Retried(row[t]).failures = row[t].failures /\ Retried(row[t]).failure = row[t].failure
    BY <1>1, RetriedRow
  <2>2. row'[t] = Retried(row[t])
    BY <1>1, <1>2, <1>7
  <2>3. StreakMove(t)
    BY <1>1, <1>7, <2>1, <2>2 DEF StreakMove
  <2>4. row' \in [Targets -> Rows] /\ \A u \in Targets \ {t} : row'[u] = row[u]
    BY <1>2, <1>7, <2>1
  <2>5. events' \in 0..MaxEvents
    BY <1>7, EventType
  <2> QED
    BY <1>1, <1>2, <1>3, <1>7, <2>1, <2>2, <2>3, <2>4, <2>5 DEF OutcomeOn, t
<1> QED
  BY <1>5, <1>6, <1>7

LEMMA RecoveryIsOutcome ==
    ASSUME IInv, NEW t \in Targets, RecoverRunning(t)
    PROVE  \E w \in Workers : OutcomeOn(w, t)
<1>1. PICK w \in Workers : Scanning(w) /\ work[w].item.target = t
  BY DEF RecoverRunning, Busy
<1>2. row[t].wanted /\ row[t].status = "running" /\ \A v \in Workers : work[v].item.target = t => v = w
  BY <1>1, ScanningRow
<1>3. /\ RecordFailure(t, DecisionFor(t, "stale_running", "runtime_recovery")) /\ Event
      /\ UNCHANGED <<due, batch, queue, rebuild, since, ticked>>
      /\ work' = [v \in Workers |-> IF work[v].item.target = t THEN NoWork ELSE work[v]]
  BY DEF RecoverRunning
<1>4. EndAttempt(w)
  <2>1. DOMAIN work = Workers /\ work = [v \in Workers |-> work[v]]
    BY DEF IInv, TypeOK
  <2>2. work' = [v \in Workers |-> IF v = w THEN NoWork ELSE work[v]]
    BY <1>1, <1>2, <1>3
  <2> QED
    BY <2>1, <2>2 DEF EndAttempt
<1>5. "stale_running" \in Reasons /\ rebuild \in BOOLEAN
  BY DEF Reasons, IInv, TypeOK
<1>6. events' \in 0..MaxEvents
  BY <1>3, EventType
<1>7. TypeOK /\ StreakOK /\ row[t].status # "error"
  BY <1>2 DEF IInv
<1>8. /\ row' \in [Targets -> Rows] /\ age' \in [Targets -> Ages \cup {Never}]
      /\ failed' \in [Targets -> Seq(Reasons)]
      /\ row'[t].wanted = row[t].wanted /\ row'[t].status \in {"idle", "error"}
      /\ age'[t] = 0
      /\ StreakMove(t)
      /\ \A u \in Targets \ {t} :
            row'[u] = row[u] /\ age'[u] = age[u] /\ failed'[u] = failed[u]
  BY <1>3, <1>5, <1>7, FailureIsRecorded
<1> QED
  BY <1>1, <1>3, <1>4, <1>5, <1>6, <1>8, HorizonFacts DEF OutcomeOn

LEMMA OutcomeKeeps ==
    ASSUME IInv, NEW w \in Workers, NEW t \in Targets, OutcomeOn(w, t)
    PROVE  IInv'
<1>1. /\ row[t].wanted /\ row[t].status = "running" /\ ~Queued(t) /\ Taken(t)
      /\ work[w] # NoWork
      /\ \A v \in Workers : work[v].item.target = t => v = w
  BY ScanningRow DEF OutcomeOn, Scanning
<1>2. /\ work' \in [Workers -> [item : Items, owns : BOOLEAN] \cup {NoWork}]
      /\ work'[w] = NoWork /\ \A v \in Workers \ {w} : work'[v] = work[v]
  BY EndTypes DEF OutcomeOn, IInv
<1>3. /\ due' = due /\ batch' = batch /\ queue' = queue /\ since' = since /\ ticked' = ticked
      /\ \A u \in Targets \ {t} :
            row'[u] = row[u] /\ age'[u] = age[u] /\ failed'[u] = failed[u]
      /\ row'[t].wanted /\ row'[t].status \in {"idle", "error"}
      /\ row'[t].failures > 0 => age'[t] # Never
  BY <1>1 DEF OutcomeOn
<1>4. TypeOK'
  BY <1>2 DEF IInv, TypeOK, OutcomeOn
<1>5. \A u : Queued(u)' <=> Queued(u)
  BY <1>3 DEF Queued
<1>6. \A u \in Targets : Taken(u)' => u # t /\ Taken(u)
  <2> SUFFICES ASSUME NEW u \in Targets, Taken(u)' PROVE u # t /\ Taken(u)
    OBVIOUS
  <2>1. CASE \E i \in DOMAIN queue' : queue'[i].target = u
    BY <1>1, <1>3, <2>1 DEF Taken, Queued
  <2>2. CASE \E v \in Workers : work'[v].item.target = u
    <3>1. PICK v \in Workers : work'[v].item.target = u
      BY <2>2
    <3>2. v # w
      BY <1>2, <3>1, NoWorkIsNoItem, CadenceAssumption
    <3> QED
      BY <1>1, <1>2, <3>1, <3>2 DEF Taken
  <2> QED
    BY <2>1, <2>2 DEF Taken
<1>7. PlacesOK'
  <2>1. (\A i, j \in DOMAIN queue : queue[i].target = queue[j].target => i = j)'
    BY <1>3 DEF IInv, PlacesOK
  <2>2. ASSUME NEW v \in Workers, work'[v] # NoWork
        PROVE  /\ ~Queued(work[v].item.target)'
               /\ \A x \in Workers : work'[x].item.target = work'[v].item.target => x = v
    <3>1. v # w /\ work'[v] = work[v]
      BY <1>2, <2>2
    <3>2. ~Queued(work[v].item.target)
      BY <2>2, <3>1 DEF IInv, PlacesOK
    <3>3. work[v].item.target \in Targets
      BY <2>2, <3>1, WorkFacts DEF IInv
    <3>4. ASSUME NEW x \in Workers, work'[x].item.target = work'[v].item.target PROVE x = v
      <4>1. x # w
        BY <1>2, <3>1, <3>3, <3>4, NoWorkIsNoItem, CadenceAssumption
      <4> QED
        BY <1>2, <2>2, <3>1, <3>4, <4>1 DEF IInv, PlacesOK
    <3> QED
      BY <1>5, <3>1, <3>2, <3>4
  <2>3. ASSUME NEW v \in Workers, Scanning(v)'
        PROVE  row'[work'[v].item.target].status = "running" /\ row'[work'[v].item.target].wanted
    <3>1. v # w /\ work'[v] = work[v]
      BY <1>2, <2>3 DEF Scanning
    <3>2. Scanning(v)
      BY <2>3, <3>1 DEF Scanning
    <3>3. work[v].item.target \in Targets \ {t}
      BY <1>1, <3>1, <3>2, ScanningRow
    <3> QED
      BY <1>3, <3>1, <3>2, <3>3 DEF IInv, PlacesOK
  <2>4. (\A u \in Targets : Queued(u) => row[u].status # "error")'
    BY <1>1, <1>3, <1>5 DEF IInv, PlacesOK
  <2>5. (\A u \in Targets : ~row[u].wanted => row[u].failures = 0)'
    BY <1>3 DEF IInv, PlacesOK
  <2> QED
    BY <2>1, <2>2, <2>3, <2>4, <2>5 DEF PlacesOK
<1>8. StreakOK'
  <2>1. \A u \in Targets : StreakMove(u)
    BY <1>3 DEF OutcomeOn, StreakMove
  <2> QED
    BY <2>1, StreakMoves DEF IInv
<1>9. \A i \in DOMAIN batch : batch[i].target \in Targets
      /\ (~batch[i].manual => batch[i].target # t)
  <2>1. \A i \in DOMAIN batch : batch[i] \in Items
    BY ElementOfSeq DEF IInv, TypeOK
  <2> QED
    BY <1>1, <2>1, NoWorkIsNoItem DEF IInv, UnaskedOK
<1>10. \A i \in DOMAIN queue : queue[i].target \in Targets \ {t}
  <2>1. \A i \in DOMAIN queue : queue[i] \in Items
    BY ElementOfSeq DEF IInv, TypeOK
  <2> QED
    BY <1>1, <2>1, NoWorkIsNoItem DEF Queued
<1>11. UnaskedOK'
  <2>1. (\A i, j \in DOMAIN batch : batch[i].target = batch[j].target => i = j)'
    BY <1>3 DEF IInv, UnaskedOK
  <2>2. (\A i \in DOMAIN batch : ~batch[i].manual => ~Taken(batch[i].target))'
    BY <1>3, <1>6, <1>9 DEF IInv, UnaskedOK
  <2>3. ASSUME NEW u \in Targets, Taken(u)', row'[u].wanted, row'[u].status = "idle"
        PROVE  row'[u].request # "no"
    BY <1>3, <1>6, <2>3 DEF IInv, UnaskedOK
  <2> QED
    BY <2>1, <2>2, <2>3 DEF UnaskedOK
<1>12. \A u \in Targets \ {t} : Ripe(u)' <=> Ripe(u)
  BY <1>3 DEF Ripe, Waits
<1>13. RipeOK'
  <2>1. ASSUME NEW i \in DOMAIN batch, ~batch[i].manual, row'[batch[i].target].wanted,
               row'[batch[i].target].request = "no"
        PROVE  Ripe(batch[i].target)'
    BY <1>3, <1>9, <1>12, <2>1 DEF IInv, RipeOK
  <2>2. ASSUME NEW i \in DOMAIN queue, ~queue[i].manual, row'[queue[i].target].wanted,
               row'[queue[i].target].request = "no"
        PROVE  Ripe(queue[i].target)'
    BY <1>3, <1>10, <1>12, <2>2 DEF IInv, RipeOK
  <2> QED
    BY <1>3, <2>1, <2>2 DEF RipeOK
<1>14. DueOK'
  <2> SUFFICES ASSUME NEW u \in Targets
               PROVE  /\ due'[u] <= Never
                      /\ row'[u].failures > 0 => age'[u] # Never
                      /\ /\ row'[u].wanted
                         /\ \/ row'[u].status = "running"
                            \/ row'[u].status = "idle" /\ row'[u].request = "no" /\ ~Waits(u)'
                         /\ since'[u] # Never
                         => /\ due'[u] # Never
                            /\ \E i \in Refresh[u] : since'[u] >= i \/ due'[u] + since'[u] >= i
    BY DEF DueOK
  <2>1. CASE u = t
    BY <1>1, <1>3, <2>1 DEF IInv, DueOK
  <2>2. CASE u # t
    <3>1. Waits(u)' <=> Waits(u)
      BY <1>3, <2>2 DEF Waits
    <3> QED
      BY <1>3, <2>2, <3>1 DEF IInv, DueOK
  <2> QED
    BY <2>1, <2>2
<1> QED
  BY <1>4, <1>7, <1>8, <1>11, <1>13, <1>14 DEF IInv

-----------------------------------------------------------------------------
(* The ends of a session: nothing is planned, queued or worked on after.   *)

EmptyAfter ==
    /\ batch' = <<>> /\ queue' = <<>> /\ work' = [w \in Workers |-> NoWork]
    /\ rebuild' \in BOOLEAN /\ events' \in 0..MaxEvents /\ ticked' \in BOOLEAN
    /\ row' \in [Targets -> Rows] /\ age' \in [Targets -> Ages \cup {Never}]
    /\ since' \in [Targets -> Ages \cup {Never}] /\ due' \in [Targets -> Int]
    /\ failed' \in [Targets -> Seq(Reasons)]
    /\ \A t \in Targets :
          /\ StreakMove(t)
          /\ ~row'[t].wanted => row'[t].failures = 0
          /\ due'[t] <= Never
          /\ row'[t].failures > 0 => age'[t] # Never
          /\ /\ row'[t].wanted
             /\ \/ row'[t].status = "running"
                \/ row'[t].status = "idle" /\ row'[t].request = "no" /\ ~Waits(t)'
             /\ since'[t] # Never
             => /\ due'[t] # Never
                /\ \E i \in Refresh[t] : since'[t] >= i \/ due'[t] + since'[t] >= i

LEMMA EmptyKeeps ==
    ASSUME IInv, EmptyAfter
    PROVE  IInv'
<1>1. TypeOK'
  <2>1. batch' \in Seq(Items) /\ queue' \in Seq(Items)
    BY EmptySeq DEF EmptyAfter
  <2>2. work' \in [Workers -> [item : Items, owns : BOOLEAN] \cup {NoWork}]
    BY DEF EmptyAfter
  <2> QED
    BY <2>1, <2>2 DEF TypeOK, EmptyAfter
<1>2. /\ DOMAIN batch' = {} /\ DOMAIN queue' = {}
      /\ \A w \in Workers : work'[w] = NoWork
  BY DEF EmptyAfter
<1>3. \A w \in Workers : ~Scanning(w)'
  BY <1>2 DEF Scanning
<1>4. PlacesOK'
  BY <1>2, <1>3 DEF PlacesOK, Queued, EmptyAfter
<1>5. StreakOK'
  BY StreakMoves DEF EmptyAfter, IInv
<1>6. \A t \in Targets : ~Taken(t)'
  BY <1>2, NoWorkIsNoItem, CadenceAssumption DEF Taken
<1>7. UnaskedOK' /\ RipeOK'
  BY <1>2, <1>6 DEF UnaskedOK, RipeOK
<1>8. DueOK'
  BY DEF DueOK, EmptyAfter
<1> QED
  BY <1>1, <1>4, <1>5, <1>7, <1>8 DEF IInv

(* What a failure makes of a row that is not in error.                     *)
LEMMA FailedRow ==
    ASSUME TypeOK, StreakOK, NEW t \in Targets, row[t].status # "error",
           NEW reason \in Reasons, NEW source, NEW r \in {row[t], Released(row[t])},
           row'[t] = Failed(r, DecisionFor(t, reason, source)),
           failed'[t] = Noted(t, DecisionFor(t, reason, source))
    PROVE  /\ row'[t] \in Rows /\ row'[t].wanted = row[t].wanted
           /\ row'[t].status \in {"idle", "error"}
           /\ failed'[t] \in Seq(Reasons)
           /\ StreakMove(t)
<1> DEFINE d == DecisionFor(t, reason, source)
<1>1. row[t] \in Rows
  BY DEF TypeOK
<1>2. row[t].failures # FailureLimit
  BY StreakNotFull
<1>3. VerdictOn(d, row[t])
  BY <1>1, <1>2, DecideVerdict DEF DecisionFor
<1>4. Noted(t, d) \in Seq(Reasons)
  BY <1>3, NotedStreak, StreakByTarget
<1>5. row'[t] = Failed(r, d) /\ failed'[t] = Noted(t, d)
  OBVIOUS
<1> HIDE DEF d
<1>6. /\ r \in Rows /\ r.wanted = row[t].wanted
      /\ r.failures = row[t].failures /\ r.failure = row[t].failure
  BY <1>1, ReleasedRow
<1>7. VerdictOn(d, r)
  BY <1>3, <1>6 DEF VerdictOn
<1>8. /\ Failed(r, d) \in Rows /\ Failed(r, d).wanted = r.wanted
      /\ Failed(r, d).status \in {"idle", "error"}
      /\ Failed(r, d).failures = d.streak
      /\ d.streak > 0 => Failed(r, d).failure = d.reason
      /\ Failed(r, d).status = "error" /\ d.streak > 0 <=> d.streak = FailureLimit
  BY <1>6, <1>7, FailedType
<1>9. Notes(t, d)
  BY <1>2, <1>3, <1>5, <1>8 DEF Notes
<1> QED
  BY <1>4, <1>5, <1>6, <1>8, <1>9 DEF StreakMove

LEMMA BusyRow ==
    ASSUME IInv, NEW t \in Targets, Busy(t)
    PROVE  row[t].wanted /\ row[t].status = "running"
BY ScanningRow DEF Busy

LEMMA RebuildKeeps ==
    ASSUME IInv, RebuildSession
    PROVE  IInv'
<1>1. /\ \A t \in Targets : row[t] \in Rows /\ failed[t] \in Seq(Reasons)
      /\ \A t \in Targets : age[t] \in Ages \cup {Never}
      /\ since \in [Targets -> Ages \cup {Never}] /\ due \in [Targets -> Int]
      /\ events \in 0..MaxEvents /\ ticked \in BOOLEAN /\ batch = <<>>
  BY DEF IInv, TypeOK, RebuildSession
<1>2. "scheduler_runtime" \in Reasons
  BY DEF Reasons
<1> DEFINE d(t) == DecisionFor(t, "scheduler_runtime", "unknown_exception")
<1>3. /\ row' = [t \in Targets |-> IF Busy(t) THEN Failed(row[t], d(t))
                                   ELSE IF Queued(t) THEN Retried(row[t]) ELSE row[t]]
      /\ failed' = [t \in Targets |-> IF Busy(t) THEN Noted(t, d(t)) ELSE failed[t]]
      /\ age' = [t \in Targets |-> IF Busy(t) THEN 0 ELSE age[t]]
      /\ work' = [w \in Workers |-> NoWork]
      /\ queue' = <<>> /\ rebuild' = FALSE
      /\ UNCHANGED <<due, batch, events, since, ticked>>
  BY DEF RebuildSession
<1>4. ASSUME NEW t \in Targets
      PROVE  /\ row'[t] \in Rows /\ failed'[t] \in Seq(Reasons) /\ age'[t] \in Ages \cup {Never}
             /\ StreakMove(t)
             /\ ~row'[t].wanted => row'[t].failures = 0
             /\ row'[t].failures > 0 => age'[t] # Never
             /\ \/ row'[t] = row[t] /\ age'[t] = age[t]
                \/ row[t].wanted /\ row[t].status = "running"
                \/ row'[t].request = "before" /\ row'[t].status = "idle"
  <2>1. CASE Busy(t)
    <3>1. row[t].wanted /\ row[t].status = "running"
      BY <2>1, BusyRow
    <3>2. row'[t] = Failed(row[t], d(t)) /\ failed'[t] = Noted(t, d(t)) /\ age'[t] = 0
      BY <1>3, <2>1
    <3>3. /\ row'[t] \in Rows /\ row'[t].wanted = row[t].wanted
          /\ row'[t].status \in {"idle", "error"}
          /\ failed'[t] \in Seq(Reasons)
          /\ StreakMove(t)
      BY <1>2, <3>1, <3>2, FailedRow DEF IInv
    <3> QED
      BY <3>1, <3>2, <3>3, AgeFacts, HorizonFacts
  <2>2. CASE ~Busy(t) /\ Queued(t)
    <3>1. row'[t] = Retried(row[t]) /\ failed'[t] = failed[t] /\ age'[t] = age[t]
      BY <1>3, <2>2
    <3>2. /\ Retried(row[t]) \in Rows /\ Retried(row[t]).wanted = row[t].wanted
          /\ Retried(row[t]).status = "idle"
          /\ Retried(row[t]).failures = row[t].failures /\ Retried(row[t]).failure = row[t].failure
          /\ Retried(row[t]).request = "before"
      BY <1>1, RetriedRow
    <3>3. row[t].status # "error" /\ (~row[t].wanted => row[t].failures = 0)
      BY <2>2 DEF IInv, PlacesOK
    <3>4. row[t].failures > 0 => age[t] # Never
      BY DEF IInv, DueOK
    <3> QED
      BY <1>1, <3>1, <3>2, <3>3, <3>4 DEF StreakMove
  <2>3. CASE ~Busy(t) /\ ~Queued(t)
    <3>1. row'[t] = row[t] /\ failed'[t] = failed[t] /\ age'[t] = age[t]
      BY <1>3, <2>3
    <3> QED
      BY <1>1, <3>1 DEF IInv, PlacesOK, DueOK, StreakMove
  <2> QED
    BY <2>1, <2>2, <2>3
<1>5. /\ row' \in [Targets -> Rows] /\ age' \in [Targets -> Ages \cup {Never}]
      /\ failed' \in [Targets -> Seq(Reasons)]
  BY <1>3, <1>4
<1>6. ASSUME NEW t \in Targets
      PROVE  /\ due'[t] <= Never
             /\ /\ row'[t].wanted
                /\ \/ row'[t].status = "running"
                   \/ row'[t].status = "idle" /\ row'[t].request = "no" /\ ~Waits(t)'
                /\ since'[t] # Never
                => /\ due'[t] # Never
                   /\ \E i \in Refresh[t] : since'[t] >= i \/ due'[t] + since'[t] >= i
  <2>1. due' = due /\ since' = since
    BY <1>3
  <2>2. CASE row'[t] = row[t]
    <3>1. Waits(t)' <=> Waits(t)
      BY <2>2 DEF Waits
    <3> QED
      BY <2>1, <2>2, <3>1 DEF IInv, DueOK
  <2>3. CASE row[t].wanted /\ row[t].status = "running"
    BY <2>1, <2>3 DEF IInv, DueOK
  <2>4. CASE row'[t].request = "before" /\ row'[t].status = "idle"
    BY <2>1, <2>4 DEF IInv, DueOK
  <2> QED
    BY <1>4, <2>2, <2>3, <2>4
<1>7. EmptyAfter
  BY <1>1, <1>3, <1>4, <1>5, <1>6 DEF EmptyAfter
<1> QED
  BY <1>7, EmptyKeeps

LEMMA NewSchedulerKeeps ==
    ASSUME IInv, NewScheduler
    PROVE  IInv'
<1>1. /\ \A t \in Targets : row[t] \in Rows
      /\ age \in [Targets -> Ages \cup {Never}] /\ failed \in [Targets -> Seq(Reasons)]
      /\ ticked \in BOOLEAN
  BY DEF IInv, TypeOK
<1> DEFINE given(t) == Busy(t) \/ (Queued(t) /\ row[t].status = "queued")
<1>2. /\ row' = [t \in Targets |-> IF given(t) THEN Released(row[t]) ELSE row[t]]
      /\ due' = [t \in Targets |-> Never] /\ since' = [t \in Targets |-> Never]
      /\ work' = [w \in Workers |-> NoWork]
      /\ queue' = <<>> /\ rebuild' = FALSE /\ batch' = <<>> /\ Event
      /\ UNCHANGED <<age, failed, ticked>>
  BY DEF NewScheduler
<1>3. events' \in 0..MaxEvents
  BY <1>2, EventType
<1>4. ASSUME NEW t \in Targets
      PROVE  /\ row'[t] \in Rows /\ StreakMove(t)
             /\ ~row'[t].wanted => row'[t].failures = 0
             /\ row'[t].failures > 0 => age'[t] # Never
  <2>1. /\ ~row[t].wanted => row[t].failures = 0
        /\ row[t].failures > 0 => age[t] # Never
    BY DEF IInv, PlacesOK, DueOK
  <2>2. CASE given(t)
    <3>1. row[t].status # "error"
      BY <2>2, BusyRow
    <3>2. row'[t] = Released(row[t])
      BY <1>2, <2>2
    <3>3. /\ Released(row[t]) \in Rows /\ Released(row[t]).wanted = row[t].wanted
          /\ Released(row[t]).status = "idle"
          /\ Released(row[t]).failures = row[t].failures
          /\ Released(row[t]).failure = row[t].failure
      BY <1>1, ReleasedRow
    <3> QED
      BY <1>2, <2>1, <3>1, <3>2, <3>3 DEF StreakMove
  <2>3. CASE ~given(t)
    <3>1. row'[t] = row[t]
      BY <1>2, <2>3
    <3> QED
      BY <1>1, <1>2, <2>1, <3>1 DEF StreakMove
  <2> QED
    BY <2>2, <2>3
<1>5. row' \in [Targets -> Rows]
  BY <1>2, <1>4
<1>6. /\ since' \in [Targets -> Ages \cup {Never}] /\ due' \in [Targets -> Int]
      /\ \A t \in Targets : due'[t] = Never /\ since'[t] = Never /\ due'[t] <= Never
  BY <1>2, HorizonFacts
<1>7. EmptyAfter
  BY <1>1, <1>2, <1>3, <1>4, <1>5, <1>6 DEF EmptyAfter
<1> QED
  BY <1>7, EmptyKeeps

LEMMA SessionFailureKeeps ==
    ASSUME IInv, NEW reason \in {"profile_locked", "scheduler_runtime"}, SessionFailure(reason)
    PROVE  IInv'
<1>1. /\ \A t \in Targets : row[t] \in Rows /\ failed[t] \in Seq(Reasons)
      /\ \A t \in Targets : age[t] \in Ages \cup {Never}
      /\ ticked \in BOOLEAN
  BY DEF IInv, TypeOK
<1>2. reason \in Reasons
  BY DEF Reasons
<1> DEFINE d(t) == DecisionFor(t, reason, "unknown_exception")
<1>3. /\ row' = [t \in Targets |-> IF t \in {u \in Targets : Plannable(u)}
                                   THEN Failed(Released(row[t]), d(t)) ELSE row[t]]
      /\ failed' = [t \in Targets |-> IF t \in {u \in Targets : Plannable(u)}
                                      THEN Noted(t, d(t)) ELSE failed[t]]
      /\ age' = [t \in Targets |-> IF t \in {u \in Targets : Plannable(u)} THEN 0 ELSE age[t]]
      /\ due' = [t \in Targets |-> Never] /\ since' = [t \in Targets |-> Never]
      /\ work' = [w \in Workers |-> NoWork]
      /\ queue' = <<>> /\ rebuild' = FALSE /\ batch' = <<>> /\ Event
      /\ UNCHANGED <<ticked>>
  BY DEF SessionFailure
<1>4. events' \in 0..MaxEvents
  BY <1>3, EventType
<1>5. ASSUME NEW t \in Targets
      PROVE  /\ row'[t] \in Rows /\ failed'[t] \in Seq(Reasons) /\ age'[t] \in Ages \cup {Never}
             /\ StreakMove(t)
             /\ ~row'[t].wanted => row'[t].failures = 0
             /\ row'[t].failures > 0 => age'[t] # Never
  <2>1. CASE Plannable(t)
    <3>1. row'[t] = Failed(Released(row[t]), d(t)) /\ failed'[t] = Noted(t, d(t)) /\ age'[t] = 0
      BY <1>3, <2>1
    <3>2. /\ row'[t] \in Rows /\ row'[t].wanted = row[t].wanted
          /\ row'[t].status \in {"idle", "error"}
          /\ failed'[t] \in Seq(Reasons)
          /\ StreakMove(t)
      BY <1>2, <2>1, <3>1, FailedRow DEF IInv, Plannable
    <3> QED
      BY <2>1, <3>1, <3>2, AgeFacts, HorizonFacts DEF Plannable
  <2>2. CASE ~Plannable(t)
    <3>1. row'[t] = row[t] /\ failed'[t] = failed[t] /\ age'[t] = age[t]
      BY <1>3, <2>2
    <3> QED
      BY <1>1, <3>1 DEF IInv, PlacesOK, DueOK, StreakMove
  <2> QED
    BY <2>1, <2>2
<1>6. /\ row' \in [Targets -> Rows] /\ age' \in [Targets -> Ages \cup {Never}]
      /\ failed' \in [Targets -> Seq(Reasons)]
  BY <1>3, <1>5
<1>7. /\ since' \in [Targets -> Ages \cup {Never}] /\ due' \in [Targets -> Int]
      /\ \A t \in Targets : due'[t] = Never /\ since'[t] = Never /\ due'[t] <= Never
  BY <1>3, HorizonFacts
<1>8. EmptyAfter
  BY <1>1, <1>3, <1>4, <1>5, <1>6, <1>7 DEF EmptyAfter
<1> QED
  BY <1>8, EmptyKeeps

-----------------------------------------------------------------------------
(* Commands.                                                               *)

(* A command leaves the row of t unwanted or asks for a scan; a worker may *)
(* lose the row, and nothing else moves.                                   *)
CommandOn(t) ==
    /\ UNCHANGED <<age, due, batch, queue, rebuild, since, ticked>>
    /\ events' \in 0..MaxEvents
    /\ row' \in [Targets -> Rows] /\ failed' \in [Targets -> Seq(Reasons)]
    /\ work' \in [Workers -> [item : Items, owns : BOOLEAN] \cup {NoWork}]
    /\ \A w \in Workers : /\ work'[w].item.target = work[w].item.target
                          /\ work'[w] # NoWork <=> work[w] # NoWork
                          /\ work'[w].owns => work[w].owns
                          /\ work'[w].owns /\ work[w].item.target = t =>
                                row'[t].status = row[t].status /\ row'[t].wanted
    /\ ~row'[t].wanted \/ row'[t].request # "no"
    /\ row'[t].status \in {"idle", row[t].status}
    /\ row'[t].status # "idle" => row[t].wanted
    /\ ~row'[t].wanted => row'[t].failures = 0
    /\ row'[t].failures \in {0, row[t].failures}
    /\ StreakMove(t)
    /\ \A u \in Targets \ {t} : row'[u] = row[u] /\ failed'[u] = failed[u]

LEMMA CleanCommand ==
    ASSUME IInv, NEW t \in Targets, NEW wanted \in BOOLEAN, NEW request \in Requests,
           ~wanted \/ request # "no",
           row' = [row EXCEPT ![t] = Clean(wanted, request)],
           failed' = [failed EXCEPT ![t] = <<>>], Disowned(t),
           UNCHANGED <<age, due, batch, queue, rebuild, since, ticked>>,
           events' \in 0..MaxEvents
    PROVE  CommandOn(t)
<1>1. row \in [Targets -> Rows] /\ failed \in [Targets -> Seq(Reasons)]
  BY DEF IInv, TypeOK
<1>2. /\ Clean(wanted, request) \in Rows
      /\ Clean(wanted, request).wanted = wanted /\ Clean(wanted, request).request = request
      /\ Clean(wanted, request).status = "idle" /\ Clean(wanted, request).failures = 0
  BY CleanType
<1>3. /\ work' \in [Workers -> [item : Items, owns : BOOLEAN] \cup {NoWork}]
      /\ \A w \in Workers : work'[w].item.target = work[w].item.target
      /\ \A w \in Workers : work'[w] # NoWork <=> work[w] # NoWork
      /\ \A w \in Workers : work[w].item.target = t => work'[w].owns = FALSE
      /\ \A w \in Workers : work'[w].owns => work[w].owns
  BY DisownTypes DEF IInv
<1>4. row'[t] = Clean(wanted, request) /\ failed'[t] = <<>>
  BY <1>1
<1>5. row' \in [Targets -> Rows] /\ failed' \in [Targets -> Seq(Reasons)]
  BY <1>1, <1>2, EmptySeq
<1>6. \A u \in Targets \ {t} : row'[u] = row[u] /\ failed'[u] = failed[u]
  BY <1>1
<1>7. StreakMove(t)
  BY <1>2, <1>4 DEF StreakMove
<1> QED
  BY <1>2, <1>3, <1>4, <1>5, <1>6, <1>7 DEF CommandOn

LEMMA CommandsAre ==
    ASSUME IInv, NEW t \in Targets, Start(t) \/ Stop(t) \/ ScanOnce(t)
    PROVE  CommandOn(t)
<1>1. CASE Start(t)
  <2>1. PICK q \in Requests \ {"no"} : q = IF InBatch(t) THEN "planned" ELSE "before"
    BY DEF Requests
  <2>2. events' \in 0..MaxEvents
    BY <1>1, EventType DEF Start
  <2>3. /\ row' = [row EXCEPT ![t] = Clean(TRUE, q)]
        /\ failed' = [failed EXCEPT ![t] = <<>>] /\ Disowned(t)
        /\ UNCHANGED <<age, due, batch, queue, rebuild, since, ticked>>
    BY <1>1, <2>1 DEF Start
  <2> QED
    BY <2>1, <2>2, <2>3, CleanCommand
<1>2. CASE Stop(t)
  <2>1. events' \in 0..MaxEvents
    BY <1>2 DEF Stop, IInv, TypeOK
  <2>2. /\ row' = [row EXCEPT ![t] = Clean(FALSE, "no")]
        /\ failed' = [failed EXCEPT ![t] = <<>>] /\ Disowned(t)
        /\ UNCHANGED <<age, due, batch, queue, rebuild, since, ticked>>
    BY <1>2 DEF Stop
  <2>3. "no" \in Requests
    BY DEF Requests
  <2> QED
    BY <2>1, <2>2, <2>3, CleanCommand
<1>3. CASE ScanOnce(t)
  <2>1. /\ row \in [Targets -> Rows] /\ row[t] \in Rows /\ failed \in [Targets -> Seq(Reasons)]
        /\ work \in [Workers -> [item : Items, owns : BOOLEAN] \cup {NoWork}]
    BY DEF IInv, TypeOK
  <2>2. PICK q \in Requests \ {"no"} : q = RequestNow(t)
    BY DEF Requests, RequestNow
  <2>3. /\ row[t].wanted /\ row' = [row EXCEPT ![t].request = q] /\ failed' = failed /\ work' = work
        /\ UNCHANGED <<age, due, batch, queue, rebuild, since, ticked>> /\ Event
    BY <1>3, <2>2 DEF ScanOnce
  <2>4. events' \in 0..MaxEvents
    BY <2>3, EventType
  <2>5. row' = [row EXCEPT ![t] = [row[t] EXCEPT !.request = q]]
    BY <2>1, <2>3
  <2>6. /\ [row[t] EXCEPT !.request = q] \in Rows
        /\ row'[t] = [row[t] EXCEPT !.request = q]
    BY <2>1, <2>2, <2>5 DEF Rows
  <2>7. /\ row'[t].wanted = row[t].wanted /\ row'[t].status = row[t].status
        /\ row'[t].request = q /\ row'[t].failures = row[t].failures
        /\ row'[t].failure = row[t].failure
    BY <2>1, <2>6 DEF Rows
  <2>8. StreakMove(t)
    BY <2>3, <2>7 DEF StreakMove
  <2>9. row' \in [Targets -> Rows] /\ \A u \in Targets \ {t} : row'[u] = row[u]
    BY <2>1, <2>5, <2>6
  <2> QED
    BY <2>1, <2>2, <2>3, <2>4, <2>7, <2>8, <2>9 DEF CommandOn
<1> QED
  BY <1>1, <1>2, <1>3

LEMMA CommandKeeps ==
    ASSUME IInv, NEW t \in Targets, CommandOn(t)
    PROVE  IInv'
<1>1. /\ UNCHANGED <<age, due, batch, queue, rebuild, since, ticked>>
      /\ \A w \in Workers : /\ work'[w].item.target = work[w].item.target
                            /\ work'[w] # NoWork <=> work[w] # NoWork
                            /\ work'[w].owns => work[w].owns
                            /\ work'[w].owns /\ work[w].item.target = t =>
                                  row'[t].status = row[t].status /\ row'[t].wanted
      /\ ~row'[t].wanted \/ row'[t].request # "no"
      /\ row'[t].status \in {"idle", row[t].status}
      /\ row'[t].status # "idle" => row[t].wanted
      /\ ~row'[t].wanted => row'[t].failures = 0
      /\ row'[t].failures \in {0, row[t].failures}
      /\ \A u \in Targets \ {t} : row'[u] = row[u] /\ failed'[u] = failed[u]
  BY DEF CommandOn
<1>2. TypeOK'
  BY DEF CommandOn, IInv, TypeOK
<1>3. \A u : (Queued(u)' <=> Queued(u)) /\ (Taken(u)' <=> Taken(u))
  BY <1>1 DEF Queued, Taken
<1>4. PlacesOK'
  <2>1. (\A i, j \in DOMAIN queue : queue[i].target = queue[j].target => i = j)'
    BY <1>1 DEF IInv, PlacesOK
  <2>2. (\A w \in Workers : work[w] # NoWork =>
          /\ ~Queued(work[w].item.target)
          /\ \A v \in Workers : work[v].item.target = work[w].item.target => v = w)'
    BY <1>1, <1>3 DEF IInv, PlacesOK
  <2>3. ASSUME NEW v \in Workers, Scanning(v)'
        PROVE  row'[work'[v].item.target].status = "running" /\ row'[work'[v].item.target].wanted
    <3>1. Scanning(v) /\ work'[v].owns /\ work'[v].item.target = work[v].item.target
      BY <1>1, <2>3 DEF Scanning
    <3>2. work[v].item.target \in Targets
      BY <3>1, ScanningRow
    <3>3. row[work[v].item.target].status = "running" /\ row[work[v].item.target].wanted
      BY <3>1, ScanningRow
    <3>4. CASE work[v].item.target = t
      BY <1>1, <3>1, <3>3, <3>4
    <3>5. CASE work[v].item.target # t
      BY <1>1, <3>1, <3>2, <3>3, <3>5
    <3> QED
      BY <3>4, <3>5
  <2>4. (\A u \in Targets : Queued(u) => row[u].status # "error")'
    BY <1>1, <1>3 DEF IInv, PlacesOK
  <2>5. (\A u \in Targets : ~row[u].wanted => row[u].failures = 0)'
    BY <1>1 DEF IInv, PlacesOK
  <2> QED
    BY <2>1, <2>2, <2>3, <2>4, <2>5 DEF PlacesOK
<1>5. StreakOK'
  <2>1. \A u \in Targets : StreakMove(u)
    BY <1>1 DEF CommandOn, StreakMove
  <2> QED
    BY <2>1, StreakMoves DEF IInv
<1>6. UnaskedOK'
  <2>1. (\A i, j \in DOMAIN batch : batch[i].target = batch[j].target => i = j)'
    BY <1>1 DEF IInv, UnaskedOK
  <2>2. (\A i \in DOMAIN batch : ~batch[i].manual => ~Taken(batch[i].target))'
    BY <1>1, <1>3 DEF IInv, UnaskedOK
  <2>3. (\A u \in Targets : Taken(u) /\ row[u].wanted /\ row[u].status = "idle"
                            => row[u].request # "no")'
    BY <1>1, <1>3 DEF IInv, UnaskedOK
  <2> QED
    BY <2>1, <2>2, <2>3 DEF UnaskedOK
<1>7. \A u \in Targets \ {t} : (Ripe(u)' <=> Ripe(u)) /\ (Waits(u)' <=> Waits(u))
  BY <1>1 DEF Ripe, Waits
<1>8. /\ \A i \in DOMAIN batch : batch[i].target \in Targets
      /\ \A i \in DOMAIN queue : queue[i].target \in Targets
  BY ElementOfSeq, NoWorkIsNoItem DEF IInv, TypeOK
<1>9. RipeOK'
  <2>1. ASSUME NEW i \in DOMAIN batch, ~batch[i].manual, row'[batch[i].target].wanted,
               row'[batch[i].target].request = "no"
        PROVE  Ripe(batch[i].target)'
    BY <1>1, <1>7, <1>8, <2>1 DEF IInv, RipeOK
  <2>2. ASSUME NEW i \in DOMAIN queue, ~queue[i].manual, row'[queue[i].target].wanted,
               row'[queue[i].target].request = "no"
        PROVE  Ripe(queue[i].target)'
    BY <1>1, <1>7, <1>8, <2>2 DEF IInv, RipeOK
  <2> QED
    BY <1>1, <2>1, <2>2 DEF RipeOK
<1>10. DueOK'
  <2> SUFFICES ASSUME NEW u \in Targets
               PROVE  /\ due'[u] <= Never
                      /\ row'[u].failures > 0 => age'[u] # Never
                      /\ /\ row'[u].wanted
                         /\ \/ row'[u].status = "running"
                            \/ row'[u].status = "idle" /\ row'[u].request = "no" /\ ~Waits(u)'
                         /\ since'[u] # Never
                         => /\ due'[u] # Never
                            /\ \E i \in Refresh[u] : since'[u] >= i \/ due'[u] + since'[u] >= i
    BY DEF DueOK
  <2>1. CASE u = t
    BY <1>1, <2>1 DEF IInv, DueOK
  <2>2. CASE u # t
    BY <1>1, <1>7, <2>2 DEF IInv, DueOK
  <2> QED
    BY <2>1, <2>2
<1> QED
  BY <1>2, <1>4, <1>5, <1>6, <1>9, <1>10 DEF IInv

-----------------------------------------------------------------------------
(* The planner.                                                            *)

LEMMA DelayFacts == \A reason : DelayOf(reason) \in {0, RetryDelay}
BY DEF DelayOf

LEMMA TaskTypes ==
    ASSUME TypeOK
    PROVE  /\ \A i \in DOMAIN batch : batch[i] \in Items /\ batch[i].target \in Targets
           /\ \A i \in DOMAIN queue : queue[i] \in Items /\ queue[i].target \in Targets
BY ElementOfSeq, NoWorkIsNoItem DEF TypeOK

LEMMA PlannedFacts ==
    ASSUME IInv, NEW t \in Targets, NEW interval \in Refresh[t]
    PROVE  /\ Planned(t, interval) \in Int /\ Planned(t, interval) <= Never
           /\ /\ row[t].wanted
              /\ \/ row[t].status = "running"
                 \/ row[t].status = "idle" /\ row[t].request = "no" /\ ~Waits(t)
              /\ since[t] # Never
              => Planned(t, interval) = due[t]
           /\ /\ Open(t) /\ row[t].request = "no" /\ Planned(t, interval) <= 0
              => Ripe(t)
<1>1. /\ row[t] \in Rows /\ age[t] \in Ages \cup {Never} /\ since[t] \in Ages \cup {Never}
      /\ due[t] \in Int
  BY DEF IInv, TypeOK
<1>2. /\ row[t].failures \in Nat /\ age[t] \in Nat /\ age[t] <= Never
      /\ since[t] \in Nat
  <2>1. row[t].failures \in 0..FailureLimit
    BY <1>1, RowParts
  <2>2. row[t].failures \in Nat
    BY <2>1, LimitsAreNumbers
  <2>3. age[t] \in Nat /\ age[t] <= Never /\ since[t] \in Nat
    BY <1>1, AgeFacts
  <2> QED
    BY <2>2, <2>3
<1>3. /\ DelayOf(row[t].failure) \in {0, RetryDelay}
      /\ DelayOf(row[t].failure) > 0 => DelayOf(row[t].failure) = RetryDelay
      /\ DelayOf(row[t].failure) \in Nat
  BY DelayFacts, HorizonFacts
<1>4. interval \in 1..Horizon
  BY HorizonFacts
<1>5. /\ due[t] <= Never
      /\ row[t].failures > 0 => age[t] # Never
      /\ /\ row[t].wanted
         /\ \/ row[t].status = "running"
            \/ row[t].status = "idle" /\ row[t].request = "no" /\ ~Waits(t)
         /\ since[t] # Never
         => /\ due[t] # Never
            /\ \E i \in Refresh[t] : since[t] >= i \/ due[t] + since[t] >= i
  BY DEF IInv, DueOK
<1>6. /\ Waits(t) => RetryDue(t) = RetryDelay - age[t] /\ RetryDue(t) # Never
      /\ ~Waits(t) => RetryDue(t) = Never
      /\ RetryDue(t) \in Int /\ RetryDue(t) <= Never
  <2>1. CASE Waits(t)
    <3>1. RetryDue(t) = RetryDelay - age[t]
      BY <1>3, <1>5, <2>1 DEF Waits, RetryDue
    <3> QED
      BY <1>2, <2>1, <3>1, HorizonFacts
  <2>2. CASE ~Waits(t)
    <3>1. RetryDue(t) = Never
      BY <2>2 DEF Waits, RetryDue
    <3> QED
      BY <2>2, <3>1, HorizonFacts
  <2> QED
    BY <2>1, <2>2
<1>7. InitialDue(t, interval) \in Int /\ InitialDue(t, interval) <= Never
  BY <1>2, <1>4, HorizonFacts DEF InitialDue
<1>8. Planned(t, interval) \in {Never, due[t], RetryDue(t), InitialDue(t, interval)}
  BY DEF Planned
<1>9. Planned(t, interval) \in Int /\ Planned(t, interval) <= Never
  BY <1>1, <1>5, <1>6, <1>7, <1>8, HorizonFacts
<1>10. ASSUME row[t].wanted,
              \/ row[t].status = "running"
              \/ row[t].status = "idle" /\ row[t].request = "no" /\ ~Waits(t),
              since[t] # Never
       PROVE  Planned(t, interval) = due[t]
  <2>1. Plannable(t) /\ due[t] # Never
    BY <1>5, <1>10 DEF Plannable
  <2> QED
    BY <1>6, <1>10, <2>1 DEF Planned
<1>11. ASSUME Open(t), row[t].request = "no", Planned(t, interval) <= 0
       PROVE  Ripe(t)
  <2>1. Plannable(t) /\ row[t].status = "idle" /\ row[t].wanted
    BY <1>11 DEF Open, Plannable
  <2>2. CASE Waits(t)
    <3>1. Planned(t, interval) = RetryDelay - age[t]
      BY <1>6, <1>11, <2>1, <2>2 DEF Planned
    <3>2. age[t] >= RetryDelay
      BY <1>2, <1>11, <3>1, HorizonFacts
    <3>3. age[t] # Never
      BY <1>5, <2>2 DEF Waits
    <3> QED
      BY <2>2, <3>2, <3>3 DEF Ripe
  <2>3. CASE ~Waits(t) /\ since[t] # Never
    <3>1. Planned(t, interval) = due[t]
      BY <1>10, <1>11, <2>1, <2>3
    <3>2. PICK i \in Refresh[t] : since[t] >= i \/ due[t] + since[t] >= i
      BY <1>5, <1>11, <2>1, <2>3
    <3>3. i \in Nat
      BY HorizonFacts
    <3>4. since[t] >= i
      BY <1>1, <1>2, <1>11, <3>1, <3>2, <3>3
    <3> QED
      BY <2>3, <3>4 DEF Ripe
  <2>4. CASE ~Waits(t) /\ since[t] = Never
    <3>1. Never >= interval
      BY <1>4, HorizonFacts
    <3> QED
      BY <2>4, <3>1 DEF Ripe
  <2> QED
    BY <2>2, <2>3, <2>4
<1> QED
  BY <1>9, <1>10, <1>11

(* What a list of entries in some order gives: its first n items.          *)
LEMMA BatchOf ==
    ASSUME NEW entries, IsFiniteSet(entries), NEW order \in SetToSeqs(entries),
           NEW n \in Nat, NEW b,
           b = [i \in 1..(IF Len(order) < n THEN Len(order) ELSE n) |-> order[i].item]
    PROVE  /\ \E k \in Nat : DOMAIN b = 1..k
           /\ \A i \in DOMAIN b : i \in DOMAIN order /\ order[i] \in entries /\ b[i] = order[i].item
           /\ \A i, j \in DOMAIN order : order[i] = order[j] => i = j
<1>1. Cardinality(entries) \in Nat
  BY FS_CardinalityType
<1>2. /\ order \in [1..Cardinality(entries) -> entries]
      /\ \A i, j \in DOMAIN order : order[i] = order[j] => i = j
  BY DEF SetToSeqs
<1>3. Len(order) = Cardinality(entries) /\ DOMAIN order = 1..Cardinality(entries)
  BY <1>1, <1>2
<1> DEFINE k == IF Len(order) < n THEN Len(order) ELSE n
<1>4. k \in Nat /\ k <= Len(order)
  BY <1>1, <1>3
<1>5. DOMAIN b = 1..k /\ \A i \in 1..k : b[i] = order[i].item
  OBVIOUS
<1> HIDE DEF k
<1> QED
  BY <1>1, <1>2, <1>3, <1>4, <1>5

LEMMA PlanKeeps ==
    ASSUME IInv, PlanDue
    PROVE  IInv'
<1>1. /\ batch = <<>> /\ ticked' = TRUE
      /\ UNCHANGED <<row, age, queue, work, rebuild, events, since, failed>>
  BY DEF PlanDue
<1>2. PICK interval \in [Targets -> UNION {Refresh[t] : t \in Targets}] :
        /\ \A t \in Targets : interval[t] \in Refresh[t]
        /\ LET at == [t \in Targets |-> Planned(t, interval[t])]
               Manual(t) == row[t].request # "no"
               chosen == {t \in Targets : Open(t) /\ (Manual(t) \/ at[t] <= 0)}
               entries == {[at |-> IF Manual(t) THEN 0 ELSE at[t],
                            item |-> Item(t, Manual(t), interval[t])] : t \in chosen}
           IN  /\ due' = at
               /\ \E order \in SetToSeqs(entries) :
                    /\ \A i, j \in DOMAIN order : Earlier(order[i], order[j]) => i < j
                    /\ batch' = [i \in 1..(IF Len(order) < Cardinality(Workers)
                                           THEN Len(order) ELSE Cardinality(Workers))
                                    |-> order[i].item]
  BY DEF PlanDue
<1> DEFINE at == [t \in Targets |-> Planned(t, interval[t])]
           manual(t) == row[t].request # "no"
           chosen == {t \in Targets : Open(t) /\ (manual(t) \/ at[t] <= 0)}
           entry(t) == [at |-> IF manual(t) THEN 0 ELSE at[t],
                        item |-> Item(t, manual(t), interval[t])]
           entries == {entry(t) : t \in chosen}
           b == batch'
<1>3. due' = at
  BY <1>2
<1>4. PICK order \in SetToSeqs(entries) :
         b = [i \in 1..(IF Len(order) < Cardinality(Workers)
                        THEN Len(order) ELSE Cardinality(Workers)) |-> order[i].item]
  BY <1>2
<1>5. IsFiniteSet(entries) /\ Cardinality(Workers) \in Nat
  <2>1. IsFiniteSet(chosen)
    BY CadenceAssumption, FS_Subset
  <2> DEFINE f == [t \in chosen |-> entry(t)]
  <2>2. f \in Surjection(chosen, entries)
    <3> HIDE DEF chosen, entry
    <3> QED
      BY DEF Surjection
  <2> HIDE DEF chosen, entries, f
  <2>3. IsFiniteSet(entries)
    BY <2>1, <2>2, FS_Surjection
  <2> QED
    BY <2>3, CadenceAssumption, FS_CardinalityType
<1>6. \A t \in chosen : /\ t \in Targets /\ Open(t) /\ (manual(t) \/ at[t] <= 0)
                        /\ entry(t).item \in Items /\ entry(t).item.target = t
                        /\ entry(t).item.manual = manual(t)
  <2> SUFFICES ASSUME NEW t \in chosen
               PROVE  /\ t \in Targets /\ Open(t) /\ (manual(t) \/ at[t] <= 0)
                      /\ entry(t).item \in Items /\ entry(t).item.target = t
                      /\ entry(t).item.manual = manual(t)
    OBVIOUS
  <2>1. entry(t).item = Item(t, manual(t), interval[t])
    OBVIOUS
  <2>2. interval[t] \in Refresh[t] /\ interval[t] \in Nat
    BY <1>2, HorizonFacts
  <2>3. manual(t) \in BOOLEAN /\ t \in Targets
    OBVIOUS
  <2> HIDE DEF entry, manual
  <2>4. Item(t, manual(t), interval[t]) \in Items
    BY <2>2, <2>3 DEF Items, Item
  <2>5. /\ Item(t, manual(t), interval[t]).target = t
        /\ Item(t, manual(t), interval[t]).manual = manual(t)
    BY DEF Item
  <2> QED
    BY <2>1, <2>3, <2>4, <2>5
<1>7. /\ \E k \in Nat : DOMAIN b = 1..k
      /\ \A i \in DOMAIN b : i \in DOMAIN order /\ order[i] \in entries /\ b[i] = order[i].item
      /\ \A i, j \in DOMAIN order : order[i] = order[j] => i = j
  <2> HIDE DEF entries
  <2> QED
    BY <1>4, <1>5, BatchOf
<1>8. /\ \A t \in Targets : at[t] \in Int /\ at[t] = Planned(t, interval[t])
      /\ \A t \in Targets : interval[t] \in Refresh[t]
      /\ \A t \in Targets : due'[t] = Planned(t, interval[t]) /\ due'[t] \in Int
      /\ due' \in [Targets -> Int]
  BY <1>2, <1>3, PlannedFacts
<1>9. \A i \in DOMAIN b : \E t \in chosen : order[i] = entry(t) /\ b[i] = entry(t).item
  BY <1>7
<1>10. b = [i \in DOMAIN b |-> b[i]]
  BY <1>4
<1> HIDE DEF at, chosen, entries, b
<1>11. b \in Seq(Items)
  <2>1. \A i \in DOMAIN b : b[i] \in Items
    BY <1>6, <1>9
  <2> QED
    BY <1>7, <1>10, <2>1
<1>12. \A i, j \in DOMAIN b : b[i].target = b[j].target => i = j
  <2> SUFFICES ASSUME NEW i \in DOMAIN b, NEW j \in DOMAIN b, b[i].target = b[j].target
               PROVE  i = j
    OBVIOUS
  <2>1. PICK t \in chosen : order[i] = entry(t) /\ b[i] = entry(t).item
    BY <1>9
  <2>2. PICK u \in chosen : order[j] = entry(u) /\ b[j] = entry(u).item
    BY <1>9
  <2> HIDE DEF entry
  <2>3. t = u
    BY <1>6, <2>1, <2>2
  <2> QED
    BY <1>7, <2>1, <2>2, <2>3
<1>13. ASSUME NEW i \in DOMAIN b, ~b[i].manual
       PROVE  /\ b[i].target \in Targets /\ ~Taken(b[i].target) /\ Ripe(b[i].target)
  <2>1. PICK t \in chosen : order[i] = entry(t) /\ b[i] = entry(t).item
    BY <1>9
  <2>2. /\ t \in Targets /\ Open(t) /\ (manual(t) \/ at[t] <= 0)
        /\ b[i].target = t /\ ~manual(t)
    <3> HIDE DEF entry, manual
    <3> QED
      BY <1>6, <1>13, <2>1
  <2>3. row[t].request = "no" /\ at[t] <= 0
    BY <2>2
  <2>4. ~Taken(t)
    BY <2>2, <2>3 DEF IInv, UnaskedOK, Open, Plannable
  <2>5. Ripe(t)
    BY <1>8, <2>2, <2>3, PlannedFacts
  <2> QED
    BY <2>2, <2>4, <2>5
<1>14. batch' = b
  BY DEF b
<1>15. \A u : (Queued(u)' <=> Queued(u)) /\ (Taken(u)' <=> Taken(u)) /\ (Busy(u)' <=> Busy(u))
              /\ (Ripe(u)' <=> Ripe(u)) /\ (Waits(u)' <=> Waits(u))
  BY <1>1 DEF Queued, Taken, Busy, Scanning, Ripe, Waits
<1>16. TypeOK'
  BY <1>1, <1>8, <1>11, <1>14 DEF IInv, TypeOK
<1>17. PlacesOK'
  BY <1>1 DEF IInv, PlacesOK, Queued, Scanning
<1>18. StreakOK'
  BY <1>1 DEF IInv, StreakOK
<1>19. UnaskedOK'
  <2>1. (\A t \in Targets : Taken(t) /\ row[t].wanted /\ row[t].status = "idle"
                            => row[t].request # "no")'
    BY <1>1, <1>15 DEF IInv, UnaskedOK
  <2>2. (\A i, j \in DOMAIN batch : batch[i].target = batch[j].target => i = j)'
    BY <1>12, <1>14
  <2>3. (\A i \in DOMAIN batch : ~batch[i].manual => ~Taken(batch[i].target))'
    BY <1>13, <1>14, <1>15
  <2> QED
    BY <2>1, <2>2, <2>3 DEF UnaskedOK
<1>20. RipeOK'
  BY <1>1, <1>13, <1>14, <1>15 DEF IInv, RipeOK
<1>21. DueOK'
  <2> SUFFICES ASSUME NEW u \in Targets
               PROVE  /\ due'[u] <= Never
                      /\ row'[u].failures > 0 => age'[u] # Never
                      /\ /\ row'[u].wanted
                         /\ \/ row'[u].status = "running"
                            \/ row'[u].status = "idle" /\ row'[u].request = "no" /\ ~Waits(u)'
                         /\ since'[u] # Never
                         => /\ due'[u] # Never
                            /\ \E i \in Refresh[u] : since'[u] >= i \/ due'[u] + since'[u] >= i
    BY DEF DueOK
  <2>1. /\ Planned(u, interval[u]) <= Never
        /\ /\ row[u].wanted
           /\ \/ row[u].status = "running"
              \/ row[u].status = "idle" /\ row[u].request = "no" /\ ~Waits(u)
           /\ since[u] # Never
           => Planned(u, interval[u]) = due[u]
    BY <1>8, PlannedFacts
  <2>2. due'[u] = Planned(u, interval[u])
    BY <1>8
  <2> QED
    BY <1>1, <1>15, <2>1, <2>2 DEF IInv, DueOK
<1> QED
  BY <1>16, <1>17, <1>18, <1>19, <1>20, <1>21 DEF IInv

-----------------------------------------------------------------------------
(* One target of the batch enters the queue, or does not.                  *)

LEMMA HeadTail ==
    ASSUME NEW s \in Seq(Items), s # <<>>
    PROVE  /\ Head(s) \in Items /\ Tail(s) \in Seq(Items)
           /\ 1 \in DOMAIN s /\ Head(s) = s[1]
           /\ \A i \in DOMAIN Tail(s) : i + 1 \in DOMAIN s /\ i + 1 # 1 /\ Tail(s)[i] = s[i + 1]
           /\ \A i, j \in DOMAIN Tail(s) : i + 1 = j + 1 => i = j
<1>1. /\ Head(s) \in Items /\ Tail(s) \in Seq(Items) /\ Len(Tail(s)) = Len(s) - 1
      /\ \A i \in 1..Len(Tail(s)) : Tail(s)[i] = s[i + 1]
  BY HeadTailProperties
<1>2. Len(s) \in Nat /\ Len(s) # 0 /\ DOMAIN s = 1..Len(s)
  BY EmptySeq, LenProperties
<1>3. Len(Tail(s)) \in Nat /\ DOMAIN Tail(s) = 1..Len(Tail(s))
  BY <1>1, LenProperties
<1>4. Head(s) = s[1]
  OBVIOUS
<1> QED
  BY <1>1, <1>2, <1>3, <1>4

LEMMA EnqueueKeeps ==
    ASSUME IInv, Enqueue
    PROVE  IInv'
<1> DEFINE item == Head(batch)
           t == item.target
<1>1. /\ batch # <<>> /\ batch' = Tail(batch)
      /\ UNCHANGED <<age, due, work, rebuild, events, since, failed, ticked>>
  BY DEF Enqueue
<1>2. batch \in Seq(Items) /\ row \in [Targets -> Rows] /\ queue \in Seq(Items)
  BY DEF IInv, TypeOK
<1>3. /\ item \in Items /\ Tail(batch) \in Seq(Items)
      /\ 1 \in DOMAIN batch /\ item = batch[1]
      /\ \A i \in DOMAIN Tail(batch) :
            i + 1 \in DOMAIN batch /\ i + 1 # 1 /\ Tail(batch)[i] = batch[i + 1]
      /\ \A i, j \in DOMAIN Tail(batch) : i + 1 = j + 1 => i = j
  BY <1>1, <1>2, HeadTail
<1>4. t \in Targets /\ row[t] \in Rows /\ item.manual \in BOOLEAN
  BY <1>2, <1>3, NoWorkIsNoItem
<1>5. /\ \A i \in DOMAIN batch' : batch'[i].target \in Targets \ {t}
      /\ \A i, j \in DOMAIN batch' : batch'[i].target = batch'[j].target => i = j
      /\ \A i \in DOMAIN batch' : ~batch'[i].manual => ~Taken(batch'[i].target)
  <2>1. \A i, j \in DOMAIN batch : batch[i].target = batch[j].target => i = j
    BY DEF IInv, UnaskedOK
  <2>2. \A i \in DOMAIN batch : ~batch[i].manual => ~Taken(batch[i].target)
    BY DEF IInv, UnaskedOK
  <2>3. \A i \in DOMAIN batch : batch[i].target \in Targets
    BY TaskTypes DEF IInv
  <2> QED
    BY <1>1, <1>3, <2>1, <2>2, <2>3
<1>6. /\ \A i \in DOMAIN batch' : ~batch'[i].manual /\ row[batch'[i].target].wanted
                                  /\ row[batch'[i].target].request = "no"
                                  => Ripe(batch'[i].target)
      /\ ~item.manual /\ row[t].wanted /\ row[t].request = "no" => Ripe(t)
  BY <1>1, <1>3 DEF IInv, RipeOK
<1>7. \A i \in DOMAIN queue : queue[i].target \in Targets
  BY TaskTypes DEF IInv
<1> DEFINE in == ~Taken(t) /\ Open(t)
           status == IF in THEN "queued" ELSE row[t].status
           request == IF row[t].request = "planned" THEN "before"
                      ELSE IF in /\ item.manual THEN "no" ELSE row[t].request
           r == [row[t] EXCEPT !.status = status, !.request = request]
<1>8. /\ row' = [row EXCEPT ![t] = r]
      /\ queue' = IF in THEN Append(queue, item) ELSE queue
  <2>1. CASE in
    <3>1. /\ queue' = Append(queue, item)
          /\ row' = [row EXCEPT ![t].status = "queued",
                                ![t].request = IF @ = "planned" THEN "before"
                                               ELSE IF item.manual THEN "no" ELSE @]
      BY <2>1 DEF Enqueue
    <3>2. [row EXCEPT ![t].status = "queued",
                      ![t].request = IF @ = "planned" THEN "before"
                                     ELSE IF item.manual THEN "no" ELSE @]
          = [row EXCEPT ![t] = [row[t] EXCEPT !.status = "queued",
                                    !.request = IF row[t].request = "planned" THEN "before"
                                                ELSE IF item.manual THEN "no" ELSE row[t].request]]
      <4> HIDE DEF item, t
      <4> QED
        BY <1>2, <1>4 DEF Rows
    <3> QED
      BY <2>1, <3>1, <3>2
  <2>2. CASE ~in
    <3>1. /\ queue' = queue
          /\ row' = [row EXCEPT ![t].request = IF @ = "planned" THEN "before" ELSE @]
      BY <2>2 DEF Enqueue
    <3>2. [row EXCEPT ![t].request = IF @ = "planned" THEN "before" ELSE @]
          = [row EXCEPT ![t] = [row[t] EXCEPT !.request = IF row[t].request = "planned"
                                                          THEN "before" ELSE row[t].request]]
      <4> HIDE DEF item, t
      <4> QED
        BY <1>2, <1>4
    <3>3. [row[t] EXCEPT !.request = IF row[t].request = "planned" THEN "before" ELSE row[t].request]
          = [row[t] EXCEPT !.status = row[t].status,
                           !.request = IF row[t].request = "planned" THEN "before" ELSE row[t].request]
      <4> HIDE DEF item, t
      <4> QED
        BY <1>4 DEF Rows
    <3> QED
      BY <2>2, <3>1, <3>2, <3>3
  <2> QED
    BY <2>1, <2>2
<1> HIDE DEF t, item
<1>9. status \in {"idle", "queued", "running", "error"} /\ request \in Requests
  BY <1>4, RowParts DEF Requests
<1> HIDE DEF status, request
<1>10. /\ r \in Rows /\ r.status = status /\ r.request = request /\ r.wanted = row[t].wanted
       /\ r.failures = row[t].failures /\ r.failure = row[t].failure
  BY <1>4, <1>9 DEF Rows
<1> HIDE DEF r
<1>11. /\ row' \in [Targets -> Rows] /\ row'[t] = r
       /\ \A u \in Targets \ {t} : row'[u] = row[u]
  BY <1>2, <1>4, <1>8, <1>10
<1>12. /\ row'[t].wanted = row[t].wanted /\ row'[t].failures = row[t].failures
       /\ row'[t].failure = row[t].failure
       /\ in => row'[t].status = "queued" /\ row[t].status = "idle" /\ row[t].wanted
       /\ ~in => row'[t].status = row[t].status
       /\ in /\ ~item.manual /\ row'[t].request = "no" => row[t].request = "no"
       /\ ~in /\ row'[t].request = "no" => row[t].request = "no"
  BY <1>4, <1>10, <1>11 DEF status, request, Open, Plannable
<1>13. \A u \in Targets : (Ripe(u)' <=> Ripe(u)) /\ (Waits(u)' <=> Waits(u))
  <2> SUFFICES ASSUME NEW u \in Targets PROVE (Ripe(u)' <=> Ripe(u)) /\ (Waits(u)' <=> Waits(u))
    OBVIOUS
  <2>1. row'[u].failures = row[u].failures /\ row'[u].failure = row[u].failure
    BY <1>11, <1>12
  <2> QED
    BY <1>1, <2>1 DEF Ripe, Waits
<1>14. /\ queue' \in Seq(Items) /\ \A i \in DOMAIN queue : i \in DOMAIN queue' /\ queue'[i] = queue[i]
       /\ \A i \in DOMAIN queue' \ DOMAIN queue :
             in /\ queue'[i] = item /\ (\A j \in DOMAIN queue' \ DOMAIN queue : i = j)
  <2>1. CASE in
    <3>1. /\ Append(queue, item) \in Seq(Items) /\ Len(Append(queue, item)) = Len(queue) + 1
          /\ \A i \in 1..Len(queue) : Append(queue, item)[i] = queue[i]
          /\ Append(queue, item)[Len(queue) + 1] = item
      BY <1>2, <1>3, AppendProperties
    <3>2. Len(queue) \in Nat /\ DOMAIN queue = 1..Len(queue)
      BY <1>2, LenProperties
    <3>3. DOMAIN Append(queue, item) = 1..(Len(queue) + 1)
      BY <3>1, LenProperties
    <3>4. \A i \in 1..(Len(queue) + 1) : i \in 1..Len(queue) \/ i = Len(queue) + 1
      BY <3>2
    <3> QED
      BY <1>8, <2>1, <3>1, <3>2, <3>3, <3>4
  <2>2. CASE ~in
    BY <1>2, <1>8, <2>2
  <2> QED
    BY <2>1, <2>2
<1>15. \A i \in DOMAIN queue' : \/ i \in DOMAIN queue /\ queue'[i] = queue[i]
                                \/ in /\ queue'[i] = item /\ i \notin DOMAIN queue
  BY <1>14
<1>16. in => ~Queued(t) /\ \A w \in Workers : work[w].item.target # t
  BY DEF Taken, Queued
<1>17. \A u \in Targets : Queued(u)' => Queued(u) \/ (in /\ u = t)
  BY <1>15 DEF Queued, t
<1>18. \A u \in Targets : Taken(u)' => Taken(u) \/ (in /\ u = t)
  BY <1>1, <1>17 DEF Queued, Taken
<1> HIDE DEF in
<1>19. TypeOK'
  BY <1>1, <1>3, <1>11, <1>14 DEF IInv, TypeOK
<1>20. PlacesOK'
  <2>1. ASSUME NEW i \in DOMAIN queue', NEW j \in DOMAIN queue', queue'[i].target = queue'[j].target
        PROVE  i = j
    <3>1. CASE i \in DOMAIN queue /\ j \in DOMAIN queue
      BY <1>14, <2>1, <3>1 DEF IInv, PlacesOK
    <3>2. CASE i \notin DOMAIN queue /\ j \in DOMAIN queue
      BY <1>15, <1>16, <2>1, <3>2 DEF Queued, t
    <3>3. CASE i \in DOMAIN queue /\ j \notin DOMAIN queue
      BY <1>15, <1>16, <2>1, <3>3 DEF Queued, t
    <3>4. CASE i \notin DOMAIN queue /\ j \notin DOMAIN queue
      BY <1>14, <3>4
    <3> QED
      BY <3>1, <3>2, <3>3, <3>4
  <2>2. ASSUME NEW w \in Workers, work'[w] # NoWork
        PROVE  /\ ~Queued(work[w].item.target)'
               /\ \A v \in Workers : work'[v].item.target = work'[w].item.target => v = w
    <3>1. work' = work
      BY <1>1
    <3>2. work[w].item.target \in Targets
      BY <2>2, <3>1, WorkFacts DEF IInv
    <3>3. ~Queued(work[w].item.target) /\ ~(in /\ work[w].item.target = t)
      BY <1>16, <2>2, <3>1 DEF IInv, PlacesOK
    <3>4. ~Queued(work[w].item.target)'
      BY <1>17, <3>1, <3>2, <3>3
    <3> QED
      BY <2>2, <3>1, <3>4 DEF IInv, PlacesOK
  <2>3. ASSUME NEW v \in Workers, Scanning(v)'
        PROVE  row'[work'[v].item.target].status = "running" /\ row'[work'[v].item.target].wanted
    <3>1. work' = work /\ Scanning(v)
      BY <1>1, <2>3 DEF Scanning
    <3>2. /\ work[v].item.target \in Targets
          /\ row[work[v].item.target].status = "running" /\ row[work[v].item.target].wanted
          /\ ~(in /\ work[v].item.target = t)
      BY <1>16, <3>1, ScanningRow
    <3>3. CASE work[v].item.target = t
      BY <1>12, <3>1, <3>2, <3>3
    <3>4. CASE work[v].item.target # t
      BY <1>11, <3>1, <3>2, <3>4
    <3> QED
      BY <3>3, <3>4
  <2>4. ASSUME NEW u \in Targets, Queued(u)' PROVE row'[u].status # "error"
    <3>1. CASE in /\ u = t
      BY <1>12, <3>1
    <3>2. CASE ~(in /\ u = t)
      <4>1. row[u].status # "error"
        BY <1>17, <2>4, <3>2 DEF IInv, PlacesOK
      <4> QED
        BY <1>11, <1>12, <3>2, <4>1
    <3> QED
      BY <3>1, <3>2
  <2>5. (\A u \in Targets : ~row[u].wanted => row[u].failures = 0)'
    BY <1>11, <1>12 DEF IInv, PlacesOK
  <2> QED
    BY <2>1, <2>2, <2>3, <2>4, <2>5 DEF PlacesOK
<1>21. StreakOK'
  <2>1. \A u \in Targets : StreakMove(u)
    BY <1>1, <1>11, <1>12 DEF StreakMove
  <2> QED
    BY <2>1, StreakMoves DEF IInv
<1>22. UnaskedOK'
  <2>1. ASSUME NEW i \in DOMAIN batch', ~batch'[i].manual
        PROVE  ~Taken(batch[i].target)'
    <3>1. batch'[i].target \in Targets /\ batch'[i].target # t /\ ~Taken(batch'[i].target)
      BY <1>5, <2>1
    <3>2. PICK u \in Targets : u = batch'[i].target
      BY <3>1
    <3>3. ~Taken(u)'
      BY <1>18, <3>1, <3>2
    <3> QED
      BY <3>2, <3>3
  <2>2. ASSUME NEW u \in Targets, Taken(u)', row'[u].wanted, row'[u].status = "idle"
        PROVE  row'[u].request # "no"
    <3>1. ~(in /\ u = t)
      BY <1>12, <2>2
    <3>2. Taken(u)
      BY <1>18, <2>2, <3>1
    <3> QED
      BY <1>11, <1>12, <2>2, <3>1, <3>2 DEF IInv, UnaskedOK
  <2> QED
    BY <1>5, <2>1, <2>2 DEF UnaskedOK
<1>23. RipeOK'
  <2>1. ASSUME NEW i \in DOMAIN batch', ~batch'[i].manual, row'[batch'[i].target].wanted,
               row'[batch'[i].target].request = "no"
        PROVE  Ripe(batch[i].target)'
    <3> DEFINE u == batch'[i].target
    <3>1. u \in Targets \ {t} /\ row'[u] = row[u]
      BY <1>5, <1>11
    <3>2. Ripe(u)
      BY <1>6, <2>1, <3>1
    <3> QED
      BY <1>13, <3>1, <3>2 DEF Ripe, Waits
  <2>2. ASSUME NEW i \in DOMAIN queue', ~queue'[i].manual, row'[queue'[i].target].wanted,
               row'[queue'[i].target].request = "no"
        PROVE  Ripe(queue[i].target)'
    <3>1. PICK u \in Targets : u = queue'[i].target
      BY <1>4, <1>7, <1>15 DEF t
    <3>2. CASE i \in DOMAIN queue
      <4>1. queue'[i] = queue[i]
        BY <1>14, <3>2
      <4>2. row[u].wanted /\ row[u].request = "no"
        <5>1. row'[u].wanted /\ row'[u].request = "no"
          BY <2>2, <3>1
        <5>2. in => u # t
          BY <1>16, <3>1, <3>2, <4>1 DEF Queued
        <5> QED
          BY <1>11, <1>12, <5>1, <5>2
      <4> QED
        BY <1>13, <2>2, <3>1, <3>2, <4>1, <4>2 DEF IInv, RipeOK
    <3>3. CASE i \notin DOMAIN queue
      <4>1. in /\ queue'[i] = item /\ u = t
        BY <1>15, <3>1, <3>3 DEF t
      <4>2. row[t].wanted /\ row[t].request = "no"
        BY <1>12, <2>2, <3>1, <4>1
      <4> QED
        BY <1>4, <1>6, <1>13, <2>2, <3>1, <4>1, <4>2
    <3> QED
      BY <3>2, <3>3
  <2> QED
    BY <2>1, <2>2 DEF RipeOK
<1>24. DueOK'
  <2> SUFFICES ASSUME NEW u \in Targets
               PROVE  /\ due'[u] <= Never
                      /\ row'[u].failures > 0 => age'[u] # Never
                      /\ /\ row'[u].wanted
                         /\ \/ row'[u].status = "running"
                            \/ row'[u].status = "idle" /\ row'[u].request = "no" /\ ~Waits(u)'
                         /\ since'[u] # Never
                         => /\ due'[u] # Never
                            /\ \E i \in Refresh[u] : since'[u] >= i \/ due'[u] + since'[u] >= i
    BY DEF DueOK
  <2>1. /\ due' = due /\ age' = age /\ since' = since
        /\ row'[u].wanted = row[u].wanted /\ row'[u].failures = row[u].failures
        /\ \/ row'[u].status = "queued"
           \/ row'[u].status = row[u].status /\ (row'[u].request = "no" => row[u].request = "no")
    BY <1>1, <1>11, <1>12
  <2>2. Waits(u)' <=> Waits(u)
    BY <1>13
  <2> QED
    BY <2>1, <2>2 DEF IInv, DueOK
<1> QED
  BY <1>19, <1>20, <1>21, <1>22, <1>23, <1>24 DEF IInv

-----------------------------------------------------------------------------
(* A worker takes the head of the queue.                                   *)

LEMMA ClaimKeeps ==
    ASSUME IInv, NEW w \in Workers, Claim(w)
    PROVE  IInv'
<1> DEFINE item == Head(queue)
           t == item.target
           in == Plannable(t) /\ row[t].status \in {"idle", "queued"}
<1>1. /\ work[w] = NoWork /\ queue # <<>> /\ queue' = Tail(queue)
      /\ UNCHANGED <<age, batch, rebuild, events, failed, ticked>>
  BY DEF Claim
<1>2. /\ queue \in Seq(Items) /\ row \in [Targets -> Rows]
      /\ work \in [Workers -> [item : Items, owns : BOOLEAN] \cup {NoWork}]
      /\ due \in [Targets -> Int] /\ since \in [Targets -> Ages \cup {Never}]
  BY DEF IInv, TypeOK
<1>3. /\ item \in Items /\ Tail(queue) \in Seq(Items)
      /\ 1 \in DOMAIN queue /\ item = queue[1]
      /\ \A i \in DOMAIN Tail(queue) :
            i + 1 \in DOMAIN queue /\ i + 1 # 1 /\ Tail(queue)[i] = queue[i + 1]
      /\ \A i, j \in DOMAIN Tail(queue) : i + 1 = j + 1 => i = j
  BY <1>1, <1>2, HeadTail
<1>4. t \in Targets /\ row[t] \in Rows /\ t # Nobody /\ item.interval \in Refresh[t]
  BY <1>2, <1>3, NoWorkIsNoItem
<1>5. Queued(t) /\ Taken(t)
  BY <1>3 DEF Queued, Taken
<1>6. \A v \in Workers : work[v] # NoWork => work[v].item.target # t
  BY <1>5 DEF IInv, PlacesOK
<1>7. /\ \A i \in DOMAIN queue' : queue'[i].target \in Targets \ {t}
      /\ \A i, j \in DOMAIN queue' : queue'[i].target = queue'[j].target => i = j
      /\ \A i \in DOMAIN queue' : ~queue'[i].manual /\ row[queue'[i].target].wanted
                                  /\ row[queue'[i].target].request = "no"
                                  => Ripe(queue'[i].target)
      /\ \A u : Queued(u)' => Queued(u) /\ u # t
  <2>1. \A i, j \in DOMAIN queue : queue[i].target = queue[j].target => i = j
    BY DEF IInv, PlacesOK
  <2>2. \A i \in DOMAIN queue : queue[i].target \in Targets
    BY TaskTypes DEF IInv
  <2>3. \A i \in DOMAIN queue : ~queue[i].manual /\ row[queue[i].target].wanted
                                /\ row[queue[i].target].request = "no"
                                => Ripe(queue[i].target)
    BY DEF IInv, RipeOK
  <2>4. \A i \in DOMAIN queue' : queue'[i].target \in Targets \ {t}
    BY <1>1, <1>3, <2>1, <2>2
  <2>5. \A u : Queued(u)' => Queued(u) /\ u # t
    <3>1. \A i \in DOMAIN queue' : \E j \in DOMAIN queue : queue'[i] = queue[j]
      BY <1>1, <1>3
    <3> HIDE DEF t
    <3> QED
      BY <2>4, <3>1 DEF Queued
  <2> QED
    BY <1>1, <1>3, <2>1, <2>3, <2>4, <2>5
<1>8. CASE in
  <2>1. /\ row' = [row EXCEPT ![t].status = "running"]
        /\ work' = [work EXCEPT ![w] = [item |-> item, owns |-> TRUE]]
        /\ due' = [due EXCEPT ![t] = NextDue(item)]
        /\ since' = [since EXCEPT ![t] = 0]
    BY <1>8 DEF Claim
  <2>2. row[t].wanted /\ row[t].status \in {"idle", "queued"}
    BY <1>8 DEF Plannable
  <2> HIDE DEF t, item, in
  <2>3. row' = [row EXCEPT ![t] = [row[t] EXCEPT !.status = "running"]]
    BY <1>2, <1>4, <2>1
  <2>4. [row[t] EXCEPT !.status = "running"] \in Rows
    BY <1>4 DEF Rows
  <2>5. /\ row' \in [Targets -> Rows] /\ row'[t] = [row[t] EXCEPT !.status = "running"]
        /\ \A u \in Targets \ {t} : row'[u] = row[u]
    BY <1>2, <1>4, <2>3, <2>4
  <2>6. /\ row'[t].wanted = row[t].wanted /\ row'[t].status = "running"
        /\ row'[t].failures = row[t].failures /\ row'[t].failure = row[t].failure
        /\ row'[t].request = row[t].request
    BY <1>4, <2>5 DEF Rows
  <2>7. /\ work' \in [Workers -> [item : Items, owns : BOOLEAN] \cup {NoWork}]
        /\ work'[w].item.target = t /\ work'[w].owns
        /\ \A v \in Workers \ {w} : work'[v] = work[v]
    BY <1>2, <1>3, <2>1 DEF t
  <2>8. /\ due' \in [Targets -> Int] /\ since' \in [Targets -> Ages \cup {Never}]
        /\ due'[t] = item.interval /\ since'[t] = 0
        /\ \A u \in Targets \ {t} : due'[u] = due[u] /\ since'[u] = since[u]
    BY <1>2, <1>4, <2>1, HorizonFacts, AgeFacts DEF NextDue
  <2>9. TypeOK'
    BY <1>1, <1>3, <2>5, <2>7, <2>8 DEF IInv, TypeOK
  <2>10. \A u \in Targets \ {t} : (Ripe(u)' <=> Ripe(u)) /\ (Waits(u)' <=> Waits(u))
    BY <1>1, <2>5, <2>8 DEF Ripe, Waits
  <2>11. \A u : Taken(u)' => Taken(u)
    <3> SUFFICES ASSUME NEW u, Taken(u)' PROVE Taken(u)
      OBVIOUS
    <3>1. CASE Queued(u)'
      BY <1>7, <3>1 DEF Queued, Taken
    <3>2. CASE \E v \in Workers : work'[v].item.target = u
      BY <1>5, <2>7, <3>2 DEF Taken
    <3> QED
      BY <3>1, <3>2 DEF Taken, Queued
  <2>12. PlacesOK'
    <3>1. ASSUME NEW v \in Workers, work'[v] # NoWork
          PROVE  /\ ~Queued(work[v].item.target)'
                 /\ \A x \in Workers : work'[x].item.target = work'[v].item.target => x = v
      <4>1. CASE v = w
        <5>1. ~Queued(work[v].item.target)'
          BY <1>7, <2>7, <4>1
        <5>2. \A x \in Workers \ {w} : work'[x].item.target # t
          BY <1>4, <1>6, <2>7, NoWorkIsNoItem
        <5> QED
          BY <2>7, <4>1, <5>1, <5>2
      <4>2. CASE v # w
        <5>1. work'[v] = work[v] /\ work[v] # NoWork
          BY <2>7, <3>1, <4>2
        <5>2. /\ ~Queued(work[v].item.target) /\ work[v].item.target # t
              /\ \A x \in Workers : work[x].item.target = work[v].item.target => x = v
          BY <1>6, <5>1 DEF IInv, PlacesOK
        <5>3. ~Queued(work[v].item.target)'
          BY <1>7, <5>1, <5>2
        <5> QED
          BY <2>7, <4>2, <5>1, <5>2, <5>3
      <4> QED
        BY <4>1, <4>2
    <3>2. ASSUME NEW v \in Workers, Scanning(v)'
          PROVE  row'[work'[v].item.target].status = "running" /\ row'[work'[v].item.target].wanted
      <4>1. CASE v = w
        BY <2>2, <2>6, <2>7, <4>1
      <4>2. CASE v # w
        <5>1. work'[v] = work[v] /\ Scanning(v)
          BY <2>7, <3>2, <4>2 DEF Scanning
        <5>2. /\ work[v].item.target \in Targets \ {t}
              /\ row[work[v].item.target].status = "running" /\ row[work[v].item.target].wanted
          BY <1>6, <5>1, ScanningRow DEF Scanning
        <5> QED
          BY <2>5, <5>1, <5>2
      <4> QED
        BY <4>1, <4>2
    <3>3. (\A u \in Targets : Queued(u) => row[u].status # "error")'
      BY <1>7, <2>5 DEF IInv, PlacesOK
    <3>4. (\A u \in Targets : ~row[u].wanted => row[u].failures = 0)'
      <4> SUFFICES ASSUME NEW u \in Targets, ~row'[u].wanted PROVE row'[u].failures = 0
        OBVIOUS
      <4>1. u # t
        BY <2>2, <2>6
      <4>2. row'[u] = row[u]
        BY <2>5, <4>1
      <4> QED
        BY <4>2 DEF IInv, PlacesOK
    <3> QED
      BY <1>7, <3>1, <3>2, <3>3, <3>4 DEF PlacesOK
  <2>13. StreakOK'
    <3>1. \A u \in Targets : StreakMove(u)
      BY <1>1, <2>2, <2>5, <2>6 DEF StreakMove
    <3> QED
      BY <3>1, StreakMoves DEF IInv
  <2>14. UnaskedOK'
    <3>1. (\A i, j \in DOMAIN batch : batch[i].target = batch[j].target => i = j)'
      BY <1>1 DEF IInv, UnaskedOK
    <3>2. (\A i \in DOMAIN batch : ~batch[i].manual => ~Taken(batch[i].target))'
      BY <1>1, <2>11 DEF IInv, UnaskedOK
    <3>3. (\A u \in Targets : Taken(u) /\ row[u].wanted /\ row[u].status = "idle"
                              => row[u].request # "no")'
      BY <2>5, <2>6, <2>11 DEF IInv, UnaskedOK
    <3> QED
      BY <3>1, <3>2, <3>3 DEF UnaskedOK
  <2>15. RipeOK'
    <3>1. ASSUME NEW i \in DOMAIN batch, ~batch[i].manual, row'[batch[i].target].wanted,
                 row'[batch[i].target].request = "no"
          PROVE  Ripe(batch[i].target)'
      <4>1. batch[i].target \in Targets \ {t}
        BY <1>5, <3>1, TaskTypes DEF IInv, UnaskedOK
      <4>2. PICK u \in Targets \ {t} : u = batch[i].target
        BY <4>1
      <4>3. Ripe(u)
        BY <2>5, <3>1, <4>2 DEF IInv, RipeOK
      <4>4. batch'[i].target = u
        BY <1>1, <4>2
      <4> QED
        BY <2>10, <4>3, <4>4
    <3>2. ASSUME NEW i \in DOMAIN queue', ~queue'[i].manual, row'[queue'[i].target].wanted,
                 row'[queue'[i].target].request = "no"
          PROVE  Ripe(queue[i].target)'
      <4>1. PICK u \in Targets \ {t} : u = queue'[i].target
        BY <1>7
      <4>2. Ripe(u)
        BY <1>7, <2>5, <3>2, <4>1
      <4> QED
        BY <2>10, <4>1, <4>2
    <3> QED
      BY <1>1, <3>1, <3>2 DEF RipeOK
  <2>16. DueOK'
    <3> SUFFICES ASSUME NEW u \in Targets
                 PROVE  /\ due'[u] <= Never
                        /\ row'[u].failures > 0 => age'[u] # Never
                        /\ /\ row'[u].wanted
                           /\ \/ row'[u].status = "running"
                              \/ row'[u].status = "idle" /\ row'[u].request = "no" /\ ~Waits(u)'
                           /\ since'[u] # Never
                           => /\ due'[u] # Never
                              /\ \E i \in Refresh[u] : since'[u] >= i \/ due'[u] + since'[u] >= i
      BY DEF DueOK
    <3>1. CASE u = t
      <4>1. item.interval \in 1..Horizon
        BY <1>4, HorizonFacts
      <4>2. due'[t] <= Never /\ due'[t] # Never /\ due'[t] + since'[t] >= item.interval
        BY <2>8, <4>1, HorizonFacts
      <4>3. row'[t].failures > 0 => age'[t] # Never
        BY <1>1, <2>6, <1>4 DEF IInv, DueOK
      <4> QED
        BY <1>4, <3>1, <4>2, <4>3
    <3>2. CASE u # t
      BY <1>1, <2>5, <2>8, <2>10, <3>2 DEF IInv, DueOK
    <3> QED
      BY <3>1, <3>2
  <2> QED
    BY <2>9, <2>12, <2>13, <2>14, <2>15, <2>16 DEF IInv
<1>9. CASE ~in
  <2>1. /\ row' = (IF row[t].wanted \/ row[t].status = "running" THEN row
                   ELSE [row EXCEPT ![t] = Idled(row[t])])
        /\ work' = work /\ due' = due /\ since' = since
    BY <1>9 DEF Claim
  <2> HIDE DEF t, item, in
  <2>2. /\ Idled(row[t]) \in Rows /\ Idled(row[t]).wanted = row[t].wanted
        /\ Idled(row[t]).status = "idle" /\ Idled(row[t]).failures = 0
    BY <1>4, IdledRow
  <2>3. /\ row' \in [Targets -> Rows]
        /\ \A u \in Targets \ {t} : row'[u] = row[u]
        /\ \/ row'[t] = row[t]
           \/ ~row[t].wanted /\ row[t].status # "running" /\ row'[t] = Idled(row[t])
    BY <1>2, <1>4, <2>1, <2>2
  <2>4. \/ row'[t] = row[t]
        \/ ~row[t].wanted /\ ~row'[t].wanted /\ row[t].status # "running"
           /\ row'[t].status = "idle" /\ row'[t].failures = 0
    BY <2>2, <2>3
  <2>5. TypeOK'
    BY <1>1, <1>3, <2>1, <2>3 DEF IInv, TypeOK
  <2>6. \A u : Taken(u)' => Taken(u)
    BY <1>7, <2>1 DEF Queued, Taken
  <2>7. PlacesOK'
    <3>1. (\A v \in Workers : work[v] # NoWork =>
            /\ ~Queued(work[v].item.target)
            /\ \A x \in Workers : work[x].item.target = work[v].item.target => x = v)'
      BY <1>7, <2>1 DEF IInv, PlacesOK
    <3>2. ASSUME NEW v \in Workers, Scanning(v)'
          PROVE  row'[work'[v].item.target].status = "running" /\ row'[work'[v].item.target].wanted
      <4>1. Scanning(v) /\ work'[v] = work[v]
        BY <2>1, <3>2 DEF Scanning
      <4>2. /\ work[v].item.target \in Targets \ {t}
            /\ row[work[v].item.target].status = "running" /\ row[work[v].item.target].wanted
        BY <1>6, <4>1, ScanningRow DEF Scanning
      <4> QED
        BY <2>3, <4>1, <4>2
    <3>3. (\A u \in Targets : Queued(u) => row[u].status # "error")'
      BY <1>7, <2>3 DEF IInv, PlacesOK
    <3>4. (\A u \in Targets : ~row[u].wanted => row[u].failures = 0)'
      BY <2>3, <2>4 DEF IInv, PlacesOK
    <3> QED
      BY <1>7, <3>1, <3>2, <3>3, <3>4 DEF PlacesOK
  <2>8. StreakOK'
    <3>1. StreakMove(t)
      <4>1. CASE row'[t] = row[t]
        BY <1>1, <4>1 DEF StreakMove
      <4>2. CASE ~row[t].wanted /\ row'[t].failures = 0
        <5>1. failed[t] = <<>>
          BY <1>4, <4>2 DEF IInv, PlacesOK, StreakOK
        <5> QED
          BY <1>1, <4>2, <5>1 DEF StreakMove
      <4> QED
        BY <2>4, <4>1, <4>2
    <3>2. \A u \in Targets : StreakMove(u)
      BY <1>1, <2>3, <3>1 DEF StreakMove
    <3> QED
      BY <3>2, StreakMoves DEF IInv
  <2>9. UnaskedOK'
    <3>1. (\A i, j \in DOMAIN batch : batch[i].target = batch[j].target => i = j)'
      BY <1>1 DEF IInv, UnaskedOK
    <3>2. (\A i \in DOMAIN batch : ~batch[i].manual => ~Taken(batch[i].target))'
      BY <1>1, <2>6 DEF IInv, UnaskedOK
    <3>3. (\A u \in Targets : Taken(u) /\ row[u].wanted /\ row[u].status = "idle"
                              => row[u].request # "no")'
      BY <2>3, <2>4, <2>6 DEF IInv, UnaskedOK
    <3> QED
      BY <3>1, <3>2, <3>3 DEF UnaskedOK
  <2>10. \A u \in Targets : row'[u] = row[u] => (Ripe(u)' <=> Ripe(u)) /\ (Waits(u)' <=> Waits(u))
    BY <1>1, <2>1 DEF Ripe, Waits
  <2>11. RipeOK'
    <3>1. ASSUME NEW i \in DOMAIN batch, ~batch[i].manual, row'[batch[i].target].wanted,
                 row'[batch[i].target].request = "no"
          PROVE  Ripe(batch[i].target)'
      <4>1. PICK u \in Targets : u = batch[i].target /\ u = batch'[i].target
        BY <1>1, TaskTypes DEF IInv
      <4>2. row'[u] = row[u]
        BY <2>3, <2>4, <3>1, <4>1
      <4>3. Ripe(u)
        BY <3>1, <4>1, <4>2 DEF IInv, RipeOK
      <4> QED
        BY <2>10, <4>1, <4>2, <4>3
    <3>2. ASSUME NEW i \in DOMAIN queue', ~queue'[i].manual, row'[queue'[i].target].wanted,
                 row'[queue'[i].target].request = "no"
          PROVE  Ripe(queue[i].target)'
      <4>1. PICK u \in Targets \ {t} : u = queue'[i].target
        BY <1>7
      <4>2. Ripe(u)
        BY <1>7, <2>3, <3>2, <4>1
      <4> QED
        BY <2>3, <2>10, <4>1, <4>2
    <3> QED
      BY <1>1, <3>1, <3>2 DEF RipeOK
  <2>12. DueOK'
    <3> SUFFICES ASSUME NEW u \in Targets
                 PROVE  /\ due'[u] <= Never
                        /\ row'[u].failures > 0 => age'[u] # Never
                        /\ /\ row'[u].wanted
                           /\ \/ row'[u].status = "running"
                              \/ row'[u].status = "idle" /\ row'[u].request = "no" /\ ~Waits(u)'
                           /\ since'[u] # Never
                           => /\ due'[u] # Never
                              /\ \E i \in Refresh[u] : since'[u] >= i \/ due'[u] + since'[u] >= i
      BY DEF DueOK
    <3>1. CASE row'[u] = row[u]
      BY <1>1, <2>1, <2>10, <3>1 DEF IInv, DueOK
    <3>2. CASE row'[u] # row[u]
      <4>1. ~row'[u].wanted /\ row'[u].failures = 0
        BY <2>3, <2>4, <3>2
      <4> QED
        BY <2>1, <4>1 DEF IInv, DueOK
    <3> QED
      BY <3>1, <3>2
  <2> QED
    BY <2>5, <2>7, <2>8, <2>9, <2>11, <2>12 DEF IInv
<1> QED
  BY <1>8, <1>9

-----------------------------------------------------------------------------
(* The remaining steps.                                                    *)

LEMMA GiveUpKeeps ==
    ASSUME IInv, NEW w \in Workers, GiveUp(w)
    PROVE  IInv'
<1>1. /\ ~work[w].owns /\ work[w] # NoWork /\ EndAttempt(w)
      /\ UNCHANGED <<row, age, due, batch, queue, rebuild, events, since, failed, ticked>>
  BY DEF GiveUp
<1>2. /\ work' \in [Workers -> [item : Items, owns : BOOLEAN] \cup {NoWork}]
      /\ work'[w] = NoWork /\ \A v \in Workers \ {w} : work'[v] = work[v]
  BY <1>1, EndTypes DEF IInv
<1>3. TypeOK'
  BY <1>1, <1>2 DEF IInv, TypeOK
<1>4. /\ \A u : Queued(u)' <=> Queued(u)
      /\ \A u : (Ripe(u)' <=> Ripe(u)) /\ (Waits(u)' <=> Waits(u))
  BY <1>1 DEF Queued, Ripe, Waits
<1>5. \A u \in Targets : Taken(u)' => Taken(u)
  <2> SUFFICES ASSUME NEW u \in Targets, Taken(u)' PROVE Taken(u)
    OBVIOUS
  <2>1. CASE Queued(u)'
    BY <1>4, <2>1 DEF Queued, Taken
  <2>2. CASE \E v \in Workers : work'[v].item.target = u
    <3>1. PICK v \in Workers : work'[v].item.target = u
      BY <2>2
    <3>2. v # w
      BY <1>2, <3>1, NoWorkIsNoItem, CadenceAssumption
    <3> QED
      BY <1>2, <3>1, <3>2 DEF Taken
  <2> QED
    BY <2>1, <2>2 DEF Taken, Queued
<1>6. PlacesOK'
  <2>1. ASSUME NEW v \in Workers, work'[v] # NoWork
        PROVE  /\ ~Queued(work[v].item.target)'
               /\ \A x \in Workers : work'[x].item.target = work'[v].item.target => x = v
    <3>1. v # w /\ work'[v] = work[v] /\ work[v].item.target \in Targets
      BY <1>2, <2>1, WorkFacts DEF IInv
    <3>2. ~Queued(work[v].item.target)'
      BY <1>4, <2>1, <3>1 DEF IInv, PlacesOK
    <3>3. ASSUME NEW x \in Workers, work'[x].item.target = work'[v].item.target PROVE x = v
      <4>1. x # w
        BY <1>2, <3>1, <3>3, NoWorkIsNoItem, CadenceAssumption
      <4> QED
        BY <1>2, <2>1, <3>1, <3>3, <4>1 DEF IInv, PlacesOK
    <3> QED
      BY <3>2, <3>3
  <2>2. ASSUME NEW v \in Workers, Scanning(v)'
        PROVE  row'[work'[v].item.target].status = "running" /\ row'[work'[v].item.target].wanted
    <3>1. work'[v] = work[v] /\ Scanning(v)
      BY <1>2, <2>2 DEF Scanning
    <3> QED
      BY <1>1, <3>1 DEF IInv, PlacesOK
  <2> QED
    BY <1>1, <1>4, <2>1, <2>2 DEF IInv, PlacesOK
<1>7. StreakOK'
  BY <1>1 DEF IInv, StreakOK
<1>8. UnaskedOK'
  <2>1. (\A i \in DOMAIN batch : ~batch[i].manual => ~Taken(batch[i].target))'
    <3> SUFFICES ASSUME NEW i \in DOMAIN batch, ~batch[i].manual
                 PROVE  ~Taken(batch[i].target)'
      BY <1>1
    <3>1. PICK u \in Targets : u = batch[i].target /\ u = batch'[i].target
      BY <1>1, TaskTypes DEF IInv
    <3> QED
      BY <1>5, <3>1 DEF IInv, UnaskedOK
  <2> QED
    BY <1>1, <1>5, <2>1 DEF IInv, UnaskedOK
<1>9. RipeOK'
  BY <1>1, <1>4 DEF IInv, RipeOK
<1>10. DueOK'
  BY <1>1, <1>4 DEF IInv, DueOK
<1> QED
  BY <1>3, <1>6, <1>7, <1>8, <1>9, <1>10 DEF IInv

LEMMA TimeKeeps ==
    ASSUME IInv, PassTime
    PROVE  IInv'
<1>1. /\ batch = <<>> /\ ticked' = FALSE
      /\ due' = [t \in Targets |-> Nearer(due[t])]
      /\ age' = [t \in Targets |-> Older(age[t])]
      /\ since' = [t \in Targets |-> Older(since[t])]
      /\ UNCHANGED <<row, batch, queue, work, rebuild, events, failed>>
  BY DEF PassTime
<1>2. /\ \A t \in Targets : due[t] \in Int /\ age[t] \in Ages \cup {Never}
                            /\ since[t] \in Ages \cup {Never}
  BY DEF IInv, TypeOK
<1>3. \A t \in Targets : Nearer(due[t]) \in Int
  BY <1>2, HorizonFacts DEF Nearer
<1>4. /\ due' \in [Targets -> Int]
      /\ age' \in [Targets -> Ages \cup {Never}] /\ since' \in [Targets -> Ages \cup {Never}]
      /\ \A t \in Targets : /\ due'[t] = Nearer(due[t]) /\ age'[t] = Older(age[t])
                            /\ since'[t] = Older(since[t])
  BY <1>1, <1>2, <1>3, AgeFacts
<1>5. TypeOK'
  BY <1>1, <1>4 DEF IInv, TypeOK
<1>6. PlacesOK' /\ StreakOK' /\ UnaskedOK'
  <2>1. PlacesOK'
    BY <1>1 DEF IInv, PlacesOK, Queued, Scanning
  <2>2. StreakOK'
    BY <1>1 DEF IInv, StreakOK
  <2>3. \A u : Taken(u)' <=> Taken(u)
    BY <1>1 DEF Taken
  <2>4. UnaskedOK'
    BY <1>1, <2>3 DEF IInv, UnaskedOK
  <2> QED
    BY <2>1, <2>2, <2>4
<1>7. \A t \in Targets : /\ age'[t] \in Nat /\ age[t] \in Nat /\ age'[t] >= age[t]
                         /\ age[t] # Never => age'[t] # Never
                         /\ since'[t] \in Nat /\ since[t] \in Nat /\ since'[t] >= since[t]
                         /\ since[t] # Never <=> since'[t] # Never
  <2> SUFFICES ASSUME NEW t \in Targets
               PROVE  /\ age'[t] \in Nat /\ age[t] \in Nat /\ age'[t] >= age[t]
                      /\ age[t] # Never => age'[t] # Never
                      /\ since'[t] \in Nat /\ since[t] \in Nat /\ since'[t] >= since[t]
                      /\ since[t] # Never <=> since'[t] # Never
    OBVIOUS
  <2>1. age[t] \in Ages \cup {Never} /\ since[t] \in Ages \cup {Never}
    BY <1>2
  <2>2. age'[t] = Older(age[t]) /\ since'[t] = Older(since[t])
    BY <1>4
  <2>3. ASSUME NEW a \in Ages \cup {Never}
        PROVE  /\ Older(a) \in Nat /\ a \in Nat /\ Older(a) >= a
               /\ a # Never <=> Older(a) # Never
    <3>1. Older(a) \in Ages \cup {Never} /\ a \in Nat
      BY AgeFacts
    <3>2. Older(a) \in Nat
      BY <3>1, AgeFacts
    <3>3. Older(a) >= a /\ (a = Never <=> Older(a) = Never)
      BY AgeFacts
    <3> QED
      BY <3>1, <3>2, <3>3
  <2> QED
    BY <2>1, <2>2, <2>3
<1>8. \A t \in Targets : (Waits(t)' <=> Waits(t)) /\ (Ripe(t) => Ripe(t)')
  <2> SUFFICES ASSUME NEW t \in Targets
               PROVE  (Waits(t)' <=> Waits(t)) /\ (Ripe(t) => Ripe(t)')
    OBVIOUS
  <2>1. Waits(t)' <=> Waits(t)
    BY <1>1 DEF Waits
  <2>2. ASSUME Ripe(t), Waits(t) PROVE age'[t] # Never /\ age'[t] >= RetryDelay
    BY <1>7, <2>2, HorizonFacts DEF Ripe
  <2>3. ASSUME NEW i \in Refresh[t], since[t] >= i PROVE since'[t] >= i
    BY <1>7, <2>3, HorizonFacts
  <2>4. ASSUME Ripe(t) PROVE Ripe(t)'
    <3>1. Waits(t) => age'[t] # Never /\ age'[t] >= RetryDelay
      BY <2>2, <2>4
    <3>2. Waits(t) \/ \E i \in Refresh[t] : since'[t] >= i
      BY <2>3, <2>4 DEF Ripe
    <3> QED
      BY <2>1, <3>1, <3>2 DEF Ripe
  <2> QED
    BY <2>1, <2>4
<1>9. RipeOK'
  <2>1. \A i \in DOMAIN queue : queue[i].target \in Targets
    BY TaskTypes DEF IInv
  <2>2. ASSUME NEW i \in DOMAIN queue, ~queue[i].manual, row[queue[i].target].wanted,
               row[queue[i].target].request = "no"
        PROVE  Ripe(queue[i].target)'
    <3>1. PICK u \in Targets : u = queue[i].target /\ u = queue'[i].target
      BY <1>1, <2>1
    <3>2. Ripe(u)
      BY <2>2, <3>1 DEF IInv, RipeOK
    <3> QED
      BY <1>8, <3>1, <3>2
  <2> QED
    BY <1>1, <2>2 DEF RipeOK
<1>10. DueOK'
  <2> SUFFICES ASSUME NEW u \in Targets
               PROVE  /\ due'[u] <= Never
                      /\ row'[u].failures > 0 => age'[u] # Never
                      /\ /\ row'[u].wanted
                         /\ \/ row'[u].status = "running"
                            \/ row'[u].status = "idle" /\ row'[u].request = "no" /\ ~Waits(u)'
                         /\ since'[u] # Never
                         => /\ due'[u] # Never
                            /\ \E i \in Refresh[u] : since'[u] >= i \/ due'[u] + since'[u] >= i
    BY DEF DueOK
  <2>1. due[u] \in Int /\ due[u] <= Never
    BY <1>2 DEF IInv, DueOK
  <2>2. due'[u] \in Int /\ due'[u] <= Never
        /\ (due[u] # Never => due'[u] = due[u] - 1 /\ due'[u] # Never)
    BY <1>4, <2>1, HorizonFacts DEF Nearer
  <2>3. row'[u].failures > 0 => age'[u] # Never
    BY <1>1, <1>7 DEF IInv, DueOK
  <2>4. ASSUME row'[u].wanted,
               \/ row'[u].status = "running"
               \/ row'[u].status = "idle" /\ row'[u].request = "no" /\ ~Waits(u)',
               since'[u] # Never
        PROVE  /\ due'[u] # Never
               /\ \E i \in Refresh[u] : since'[u] >= i \/ due'[u] + since'[u] >= i
    <3>1. /\ due[u] # Never
          /\ \E i \in Refresh[u] : since[u] >= i \/ due[u] + since[u] >= i
      BY <1>1, <1>7, <1>8, <2>4 DEF IInv, DueOK
    <3>2. PICK i \in Refresh[u] : since[u] >= i \/ due[u] + since[u] >= i
      BY <3>1
    <3>3. i \in 1..Horizon
      BY HorizonFacts
    <3>4. since[u] \in Ages /\ (since'[u] = since[u] + 1 \/ since'[u] = Horizon)
      <4>1. since[u] # Never
        BY <1>7, <2>4
      <4>2. since[u] \in Ages
        BY <1>2, <4>1
      <4>3. since'[u] = Older(since[u])
        BY <1>4
      <4> QED
        BY <4>2, <4>3, AgeFacts
    <3>5. since'[u] >= i \/ due'[u] + since'[u] >= i
      <4>1. since[u] \in Nat /\ since'[u] \in Nat /\ since'[u] >= since[u]
        BY <1>7
      <4> QED
        BY <2>1, <2>2, <3>1, <3>2, <3>3, <3>4, <4>1, HorizonFacts
    <3> QED
      BY <2>2, <3>1, <3>5
  <2> QED
    BY <2>2, <2>3, <2>4
<1> QED
  BY <1>5, <1>6, <1>9, <1>10 DEF IInv

LEMMA StutterKeeps ==
    ASSUME IInv, UNCHANGED vars
    PROVE  IInv'
<1>1. UNCHANGED <<row, age, due, batch, queue, work, rebuild, events, since, failed, ticked>>
  BY DEF vars
<1>2. TypeOK' /\ StreakOK'
  BY <1>1 DEF IInv, TypeOK, StreakOK
<1>3. \A u : /\ Queued(u)' <=> Queued(u)
             /\ Taken(u)' <=> Taken(u)
             /\ Ripe(u)' <=> Ripe(u)
             /\ Waits(u)' <=> Waits(u)
  BY <1>1 DEF Queued, Taken, Ripe, Waits
<1>4. PlacesOK'
  BY <1>1 DEF IInv, PlacesOK, Queued, Scanning
<1>5. UnaskedOK' /\ RipeOK' /\ DueOK'
  BY <1>1, <1>3 DEF IInv, UnaskedOK, RipeOK, DueOK
<1> QED
  BY <1>2, <1>4, <1>5 DEF IInv

-----------------------------------------------------------------------------
(* The theorems.                                                           *)

LEMMA InitInv == Init => IInv
<1> SUFFICES ASSUME Init PROVE IInv
  OBVIOUS
<1>1. /\ row \in [Targets -> {Clean(TRUE, "before"), Clean(FALSE, "no")}]
      /\ age \in [Targets -> {Never, 0}]
      /\ due = [t \in Targets |-> Never]
      /\ batch = <<>> /\ queue = <<>>
      /\ work = [w \in Workers |-> NoWork]
      /\ rebuild = FALSE /\ events = 0 /\ ticked = FALSE
      /\ since = [t \in Targets |-> Never]
      /\ failed = [t \in Targets |-> <<>>]
  BY DEF Init
<1>2. /\ Clean(TRUE, "before") \in Rows /\ Clean(FALSE, "no") \in Rows
      /\ Clean(TRUE, "before").failures = 0 /\ Clean(FALSE, "no").failures = 0
      /\ Clean(TRUE, "before").status = "idle" /\ Clean(FALSE, "no").status = "idle"
  BY CleanType DEF Requests
<1>3. TypeOK
  <2>1. <<>> \in Seq(Items) /\ <<>> \in Seq(Reasons)
    BY EmptySeq
  <2>2. row \in [Targets -> Rows]
    BY <1>1, <1>2
  <2>3. age \in [Targets -> Ages \cup {Never}] /\ since \in [Targets -> Ages \cup {Never}]
        /\ due \in [Targets -> Int]
    BY <1>1, AgeFacts, HorizonFacts
  <2>4. work \in [Workers -> [item : Items, owns : BOOLEAN] \cup {NoWork}]
    BY <1>1
  <2>5. failed \in [Targets -> Seq(Reasons)] /\ batch \in Seq(Items) /\ queue \in Seq(Items)
    BY <1>1, <2>1
  <2>6. rebuild \in BOOLEAN /\ events \in 0..MaxEvents /\ ticked \in BOOLEAN
    <3>1. 0 \in 0..MaxEvents
      BY LimitsAreNumbers
    <3>2. rebuild \in BOOLEAN /\ ticked \in BOOLEAN
      BY <1>1
    <3>3. events \in 0..MaxEvents
      BY <1>1, <3>1
    <3> QED
      BY <3>2, <3>3
  <2> QED
    BY <2>2, <2>3, <2>4, <2>5, <2>6 DEF TypeOK
<1>4. /\ DOMAIN batch = {} /\ DOMAIN queue = {} /\ \A w \in Workers : ~Scanning(w) /\ work[w] = NoWork
      /\ \A t \in Targets : row[t].failures = 0 /\ row[t].status = "idle" /\ failed[t] = <<>>
                            /\ since[t] = Never /\ due[t] = Never
  <2>1. DOMAIN batch = {} /\ DOMAIN queue = {}
    BY <1>1
  <2>2. \A w \in Workers : ~Scanning(w) /\ work[w] = NoWork
    BY <1>1 DEF Scanning
  <2>3. \A t \in Targets : row[t].failures = 0 /\ row[t].status = "idle"
    <3> SUFFICES ASSUME NEW t \in Targets PROVE row[t].failures = 0 /\ row[t].status = "idle"
      OBVIOUS
    <3>1. row[t] \in {Clean(TRUE, "before"), Clean(FALSE, "no")}
      BY <1>1
    <3> QED
      BY <1>2, <3>1
  <2>4. \A t \in Targets : failed[t] = <<>> /\ since[t] = Never /\ due[t] = Never
    BY <1>1
  <2> QED
    BY <2>1, <2>2, <2>3, <2>4
<1>5. PlacesOK
  BY <1>4 DEF PlacesOK, Queued
<1>6. StreakOK
  <2>1. Len(<<>>) = 0
    BY EmptySeq
  <2> QED
    BY <1>4, <2>1, LimitsAreNumbers DEF StreakOK
<1>7. \A t \in Targets : ~Taken(t)
  BY <1>4, NoWorkIsNoItem, CadenceAssumption DEF Taken
<1>8. UnaskedOK /\ RipeOK
  BY <1>4, <1>7 DEF UnaskedOK, RipeOK
<1>9. DueOK
  BY <1>4, HorizonFacts DEF DueOK
<1> QED
  BY <1>3, <1>5, <1>6, <1>8, <1>9 DEF IInv

(* Every step is one of the kinds treated above.                           *)
LEMMA StepKinds ==
    ASSUME IInv, [Next]_vars
    PROVE  \/ \E t \in Targets : CommandOn(t)
           \/ \E w \in Workers, t \in Targets : OutcomeOn(w, t)
           \/ \E w \in Workers : Claim(w) \/ GiveUp(w)
           \/ PlanDue \/ Enqueue \/ PassTime \/ RebuildSession \/ NewScheduler
           \/ \E reason \in {"profile_locked", "scheduler_runtime"} : SessionFailure(reason)
           \/ UNCHANGED vars
<1>1. CASE Web
  BY <1>1, CommandsAre DEF Web
<1>2. CASE \E t \in Targets : RecoverRunning(t)
  BY <1>2, RecoveryIsOutcome
<1>3. CASE \E w \in Workers : AttemptEnds(w)
  <2>1. PICK w \in Workers : AttemptEnds(w)
    BY <1>3
  <2>2. CASE GiveUp(w)
    BY <2>2
  <2>3. CASE Succeed(w)
    <3>1. Scanning(w)
      BY <2>3 DEF Succeed
    <3> QED
      BY <2>3, <3>1, SucceedIsOutcome, ScanningRow
  <2>4. CASE SkipScan(w)
    <3>1. Scanning(w)
      BY <2>4 DEF SkipScan
    <3> QED
      BY <2>4, <3>1, SkipIsOutcome, ScanningRow
  <2>5. CASE Scanning(w) /\ \E mishap \in Mishaps[work[w].item.target] : FailScan(w, mishap)
    BY <2>5, FailIsOutcome, ScanningRow
  <2> QED
    BY <2>1, <2>2, <2>3, <2>4, <2>5 DEF AttemptEnds
<1> QED
  BY <1>1, <1>2, <1>3 DEF Next

LEMMA StepKeeps == IInv /\ [Next]_vars => IInv'
<1> SUFFICES ASSUME IInv, [Next]_vars PROVE IInv'
  OBVIOUS
<1>1. \/ \E t \in Targets : CommandOn(t)
      \/ \E w \in Workers, t \in Targets : OutcomeOn(w, t)
      \/ \E w \in Workers : Claim(w) \/ GiveUp(w)
      \/ PlanDue \/ Enqueue \/ PassTime \/ RebuildSession \/ NewScheduler
      \/ \E reason \in {"profile_locked", "scheduler_runtime"} : SessionFailure(reason)
      \/ UNCHANGED vars
  BY StepKinds
<1>2. CASE \E t \in Targets : CommandOn(t)
  BY <1>2, CommandKeeps
<1>3. CASE \E w \in Workers, t \in Targets : OutcomeOn(w, t)
  BY <1>3, OutcomeKeeps
<1>4. CASE \E w \in Workers : Claim(w) \/ GiveUp(w)
  BY <1>4, ClaimKeeps, GiveUpKeeps
<1>5. CASE PlanDue \/ Enqueue \/ PassTime
  BY <1>5, PlanKeeps, EnqueueKeeps, TimeKeeps
<1>6. CASE RebuildSession \/ NewScheduler
  BY <1>6, RebuildKeeps, NewSchedulerKeeps
<1>7. CASE \E reason \in {"profile_locked", "scheduler_runtime"} : SessionFailure(reason)
  BY <1>7, SessionFailureKeeps
<1>8. CASE UNCHANGED vars
  BY <1>8, StutterKeeps
<1> QED
  BY <1>1, <1>2, <1>3, <1>4, <1>5, <1>6, <1>7, <1>8

LEMMA InductiveInvariant == Spec => []IInv
BY InitInv, StepKeeps, PTL DEF Spec

\* The planner, the workers and the user leave every variable in its type:
\* a due time is a number, the row a row, the queue a queue of targets.
THEOREM CadenceTypeCorrect == Spec => []TypeOK
<1>1. IInv => TypeOK
  BY DEF IInv
<1> QED
  BY <1>1, InductiveInvariant, PTL

\* A target is in error by its streak exactly when its last FailureLimit
\* failures had one reason, with no good scan, Start or Stop between them.
THEOREM ErrorNeedsStreak == Spec => []ErrorIsEarned
<1>1. IInv => ErrorIsEarned
  <2> SUFFICES ASSUME IInv, NEW t \in Targets
               PROVE  (row[t].status = "error" /\ row[t].failures > 0)
                      <=> Len(failed[t]) >= FailureLimit
                          /\ \A i \in Len(failed[t]) - FailureLimit + 1 .. Len(failed[t]) :
                                  failed[t][i] = failed[t][Len(failed[t])]
    BY DEF ErrorIsEarned
  <2> DEFINE n == row[t].failures
             h == failed[t]
             full == row[t].status = "error" /\ n > 0
  <2>1. /\ n <= Len(h) /\ Len(h) <= FailureLimit
        /\ n = 0 => h = <<>>
        /\ n > 0 => /\ \A i \in (Len(h) - n + 1)..Len(h) : h[i] = row[t].failure
                    /\ Len(h) > n => h[Len(h) - n] # row[t].failure
        /\ n = FailureLimit <=> full
    BY DEF IInv, StreakOK
  <2>2. n \in Nat /\ Len(h) \in Nat /\ FailureLimit \in Nat \ {0}
    <3>1. row[t].failures \in 0..FailureLimit /\ failed[t] \in Seq(Reasons)
      BY RowParts DEF IInv, TypeOK
    <3> QED
      BY <3>1, LenProperties, LimitsAreNumbers
  <2>3. h = <<>> => Len(h) = 0
    BY EmptySeq
  <2>4. (row[t].status = "error" /\ row[t].failures > 0) <=> full
    OBVIOUS
  <2> HIDE DEF n, h, full
  <2>5. ASSUME full
        PROVE  /\ Len(h) >= FailureLimit
               /\ \A i \in Len(h) - FailureLimit + 1 .. Len(h) : h[i] = h[Len(h)]
    <3>1. n = FailureLimit /\ Len(h) = FailureLimit
      BY <2>1, <2>2, <2>5
    <3>2. \A i \in 1..Len(h) : h[i] = row[t].failure
      BY <2>1, <2>2, <3>1
    <3> QED
      BY <2>2, <3>1, <3>2
  <2>6. ASSUME Len(h) >= FailureLimit,
               \A i \in Len(h) - FailureLimit + 1 .. Len(h) : h[i] = h[Len(h)]
        PROVE  full
    <3>1. Len(h) = FailureLimit /\ \A i \in 1..Len(h) : h[i] = h[Len(h)]
      BY <2>1, <2>2, <2>6
    <3>2. n > 0
      BY <2>1, <2>2, <2>3, <3>1
    <3>3. h[Len(h)] = row[t].failure
      BY <2>1, <2>2, <3>2
    <3>4. ~(Len(h) > n)
      BY <2>1, <2>2, <3>1, <3>2, <3>3
    <3> QED
      BY <2>1, <2>2, <3>1, <3>4
  <2>7. full <=> /\ Len(h) >= FailureLimit
                 /\ \A i \in Len(h) - FailureLimit + 1 .. Len(h) : h[i] = h[Len(h)]
    BY <2>5, <2>6
  <2> QED
    BY <2>4, <2>7 DEF h
<1> QED
  BY <1>1, InductiveInvariant, PTL

(* Only a claim begins a scan.                                             *)
LEMMA OnlyClaimBegins ==
    ASSUME IInv, [Next]_vars, ~\E w \in Workers : Claim(w), NEW t \in Targets
    PROVE  row'[t].status = "running" => row[t].status = "running"
<1>1. row \in [Targets -> Rows] /\ row[t] \in Rows
  BY DEF IInv, TypeOK
<1>2. CASE \E u \in Targets : CommandOn(u)
  BY <1>2 DEF CommandOn
<1>3. CASE \E w \in Workers, u \in Targets : OutcomeOn(w, u)
  BY <1>3 DEF OutcomeOn
<1>4. CASE \E w \in Workers : GiveUp(w)
  BY <1>4 DEF GiveUp
<1>5. CASE PlanDue \/ PassTime \/ UNCHANGED vars
  BY <1>5 DEF PlanDue, PassTime, vars
<1>6. CASE Enqueue
  <2>1. \/ row' = [row EXCEPT ![Head(batch).target].status = "queued",
                              ![Head(batch).target].request =
                                  IF @ = "planned" THEN "before"
                                  ELSE IF Head(batch).manual THEN "no" ELSE @]
        \/ row' = [row EXCEPT ![Head(batch).target].request =
                                  IF @ = "planned" THEN "before" ELSE @]
    BY <1>6 DEF Enqueue
  <2> QED
    BY <1>1, <2>1 DEF Rows
<1>7. CASE RebuildSession
  <2>1. \/ row'[t] = row[t]
        \/ row'[t] = Retried(row[t])
        \/ Busy(t)
    BY <1>7 DEF RebuildSession
  <2> QED
    BY <1>1, <2>1, RetriedRow, BusyRow
<1>8. CASE NewScheduler
  <2>1. row'[t] = row[t] \/ row'[t] = Released(row[t])
    BY <1>8 DEF NewScheduler
  <2> QED
    BY <1>1, <2>1, ReleasedRow
<1>9. CASE \E reason \in {"profile_locked", "scheduler_runtime"} : SessionFailure(reason)
  <2>1. PICK reason \in {"profile_locked", "scheduler_runtime"} : SessionFailure(reason)
    BY <1>9
  <2> DEFINE d == DecisionFor(t, reason, "unknown_exception")
  <2>2. \/ row'[t] = row[t]
        \/ row[t].status # "error" /\ row'[t] = Failed(Released(row[t]), d)
           /\ failed'[t] = Noted(t, d)
    BY <2>1 DEF SessionFailure, Plannable
  <2>3. reason \in Reasons
    BY DEF Reasons
  <2>4. CASE row[t].status # "error" /\ row'[t] = Failed(Released(row[t]), d)
             /\ failed'[t] = Noted(t, d)
    <3>1. row'[t].status \in {"idle", "error"}
      BY <2>3, <2>4, FailedRow DEF IInv
    <3> QED
      BY <3>1
  <2> QED
    BY <2>2, <2>4
<1> QED
  BY <1>2, <1>3, <1>4, <1>5, <1>6, <1>7, <1>8, <1>9, StepKinds

LEMMA StepIsCadent == IInv /\ [Next]_vars => [\A t \in Targets : Cadence(t)]_vars
<1> SUFFICES ASSUME IInv, [Next]_vars, NEW t \in Targets PROVE Cadence(t)
  OBVIOUS
<1> SUFFICES ASSUME row'[t].status = "running", row[t].status # "running",
                    ~Head(queue).manual, row[t].request = "no"
             PROVE  /\ Waits(t) => age[t] # Never /\ age[t] >= RetryDelay
                    /\ Waits(t) \/ since[t] = Never \/ \E i \in Refresh[t] : since[t] >= i
  BY DEF Cadence, Waits
<1>1. PICK w \in Workers : Claim(w)
  BY OnlyClaimBegins
<1>2. /\ row \in [Targets -> Rows] /\ row[t] \in Rows /\ queue \in Seq(Items) /\ queue # <<>>
  BY <1>1 DEF IInv, TypeOK, Claim
<1>3. Head(queue) = queue[1] /\ 1 \in DOMAIN queue
  BY <1>2, HeadTail
<1> DEFINE u == Head(queue).target
<1>4. /\ u = t /\ row[t].wanted
  <2>1. \/ /\ Plannable(u) /\ row' = [row EXCEPT ![u].status = "running"]
        \/ row' = row
        \/ row' = [row EXCEPT ![u] = Idled(row[u])]
    BY <1>1 DEF Claim
  <2> HIDE DEF u
  <2>2. CASE Plannable(u) /\ row' = [row EXCEPT ![u].status = "running"]
    <3>1. u = t
      BY <1>2, <2>2
    <3> QED
      BY <2>2, <3>1 DEF Plannable
  <2>3. CASE row' = [row EXCEPT ![u] = Idled(row[u])]
    BY <1>2, <2>3, IdledRow
  <2> QED
    BY <2>1, <2>2, <2>3
<1>5. Ripe(t)
  BY <1>3, <1>4 DEF IInv, RipeOK
<1> QED
  BY <1>5 DEF Ripe

\* A scan nobody asked for starts no sooner than one refresh interval after
\* the last one did, and a page that was unavailable is left alone for
\* RetryDelay, whatever commands, failures and ends of sessions came between.
THEOREM NoEarlyScan == Spec => CadenceKept
<1>1. IInv /\ [Next]_vars => [\A t \in Targets : Cadence(t)]_vars
  BY StepIsCadent
<1> QED
  BY <1>1, InductiveInvariant, PTL DEF Spec, CadenceKept
=============================================================================
