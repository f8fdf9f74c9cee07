------------------------- MODULE ScanPipelineProofs -------------------------
(* Proofs about ScanPipeline: that its variables keep their types, that an  *)
(* early stop hides nothing new, that an item is announced once and that the *)
(* rows of a snapshot differ.  First what its folds compute, step by step,   *)
(* then the items and their keys, the collection, the commit and the page,   *)
(* each for every value of the constants; last the invariant.                *)
EXTENDS ScanPipeline, FiniteSetTheorems, SequenceTheorems, TLAPS

-----------------------------------------------------------------------------
(* Counting up, and folds over sequences. *)

LEMMA RangeInduction ==
    ASSUME NEW N \in Nat, NEW T, 0 \in T, \A n \in 0..(N - 1) : n \in T => n + 1 \in T
    PROVE  \A n \in 0..N : n \in T
<1> DEFINE Less == OpToRel(<, Nat)
           Left == {n \in 0..N : n \notin T}
<1> SUFFICES ASSUME Left # {} PROVE FALSE
    OBVIOUS
<1>1. Left \subseteq Nat
    OBVIOUS
<1>2. PICK n \in Left : \A m \in Left : <<m, n>> \notin Less
    <2>1. IsWellFoundedOn(Less, Nat)
        BY NatLessThanWellFounded DEF OpToRel
    <2> HIDE DEF Less, Left
    <2> QED
        BY <1>1, <2>1, WFMin
<1>3. n \in 1..N
    OBVIOUS
<1>4. n - 1 \in 0..(N - 1) /\ n - 1 \in Nat /\ n \in Nat /\ n - 1 < n /\ n - 1 + 1 = n
    BY <1>3
<1>5. n - 1 \notin T
    BY <1>4
<1>6. n - 1 \in Left
    BY <1>4, <1>5
<1>7. <<n - 1, n>> \in Less
    BY <1>4 DEF OpToRel
<1> QED
    BY <1>2, <1>6, <1>7

LEMMA MaxOf ==
    ASSUME NEW N \in Nat, NEW S, S \subseteq 1..N, N \in S
    PROVE  Max(S) = N
<1>1. \A m \in S : N >= m
    OBVIOUS
<1>2. \A m \in S : (\A y \in S : m >= y) => m = N
    BY <1>1
<1> QED
    BY <1>1, <1>2 DEF Max

LEMMA MaxIn ==
    ASSUME NEW N \in Nat, NEW S \in SUBSET (1..N), S # {}
    PROVE  Max(S) \in S
<1> DEFINE T == {n \in 0..N : \A s \in SUBSET (1..n) : s # {} => Max(s) \in s}
<1>1. 0 \in T
    <2>1. 0 \in 0..N /\ \A s \in SUBSET (1..0) : s = {}
        OBVIOUS
    <2> QED
        BY <2>1
<1>2. ASSUME NEW n \in 0..(N - 1), n \in T
      PROVE  n + 1 \in T
    <2>1. n + 1 \in 0..N /\ n + 1 \in Nat
        OBVIOUS
    <2> SUFFICES ASSUME NEW s \in SUBSET (1..(n + 1)), s # {}
                 PROVE  Max(s) \in s
        BY <2>1
    <2>2. CASE n + 1 \in s
        BY <2>1, <2>2, MaxOf
    <2>3. CASE n + 1 \notin s
        <3>1. s \in SUBSET (1..n)
            BY <2>3
        <3> QED
            BY <3>1, <1>2
    <2> QED
        BY <2>2, <2>3
<1>3. N \in T
    <2> HIDE DEF T
    <2> QED
        BY <1>1, <1>2, RangeInduction
<1> QED
    BY <1>3

\* A fold is a function on the subsets of the sequence's domain, each subset
\* from the one without its greatest element; there is one.
IsFold(h, base, N, list, g) ==
    \A s \in SUBSET (1..N) :
        h[s] = IF s = {} THEN base ELSE g[<<h[s \ {Max(s)}], list[Max(s)]>>]

LEMMA FoldExists ==
    ASSUME NEW A, NEW E, NEW base \in A, NEW N \in Nat, NEW list \in [1..N -> E],
           NEW g \in [A \X E -> A]
    PROVE  \E h : h \in [SUBSET (1..N) -> A] /\ IsFold(h, base, N, list, g)
<1> DEFINE D == SUBSET (1..N)
           Folds(h, s) == h[s] = IF s = {} THEN base
                                  ELSE g[<<h[s \ {Max(s)}], list[Max(s)]>>]
           T == {n \in 0..N : \E h \in [D -> A] : \A s \in SUBSET (1..n) : Folds(h, s)}
<1>1. 0 \in T
    <2>1. [s \in D |-> base] \in [D -> A]
        OBVIOUS
    <2>2. \A s \in SUBSET (1..0) : s = {} /\ s \in D
        OBVIOUS
    <2>3. \A s \in SUBSET (1..0) : Folds([x \in D |-> base], s)
        BY <2>2
    <2> HIDE DEF Folds, D
    <2> QED
        BY <2>1, <2>3
<1>2. ASSUME NEW n \in 0..(N - 1), n \in T
      PROVE  n + 1 \in T
    <2>1. n + 1 \in 0..N /\ n + 1 \in Nat /\ n + 1 \in 1..N
        OBVIOUS
    <2>2. PICK h \in [D -> A] : \A s \in SUBSET (1..n) : Folds(h, s)
        BY <1>2
    <2> DEFINE New(s) == s \subseteq 1..(n + 1) /\ n + 1 \in s
               k == [s \in D |-> IF New(s) THEN g[<<h[s \ {n + 1}], list[n + 1]>>] ELSE h[s]]
    <2>3. \A s \in D : h[s] \in A /\ s \ {n + 1} \in D /\ h[s \ {n + 1}] \in A
        OBVIOUS
    <2>4. list[n + 1] \in E
        BY <2>1
    <2>5. k \in [D -> A]
        <3>1. \A s \in D : <<h[s \ {n + 1}], list[n + 1]>> \in A \X E
            BY <2>3, <2>4
        <3>2. \A s \in D : g[<<h[s \ {n + 1}], list[n + 1]>>] \in A
            BY <3>1
        <3> HIDE DEF D, New
        <3> QED
            BY <3>2, <2>3
    <2>6. ASSUME NEW s \in SUBSET (1..(n + 1))
          PROVE  Folds(k, s)
        <3>0. s \in D
            BY <2>1
        <3>1. CASE n + 1 \in s
            <4>1. Max(s) = n + 1
                BY <3>1, <2>1, MaxOf
            <4>2. s # {} /\ New(s)
                BY <3>1
            <4>3. s \ {n + 1} \in D /\ ~New(s \ {n + 1})
                BY <3>0
            <4>4. k[s] = g[<<h[s \ {n + 1}], list[n + 1]>>] /\ k[s \ {n + 1}] = h[s \ {n + 1}]
                <5> HIDE DEF New, D
                <5> QED
                    BY <4>2, <4>3, <3>0
            <4> HIDE DEF k
            <4> QED
                BY <4>1, <4>2, <4>4
        <3>2. CASE n + 1 \notin s
            <4>1. s \in SUBSET (1..n)
                BY <3>2
            <4>2. Folds(h, s)
                BY <4>1, <2>2
            <4>3. ~New(s) /\ ~New(s \ {Max(s)}) /\ s \ {Max(s)} \in D
                BY <3>2, <3>0
            <4>4. k[s] = h[s] /\ k[s \ {Max(s)}] = h[s \ {Max(s)}]
                <5> HIDE DEF New, D
                <5> QED
                    BY <4>3, <3>0
            <4> HIDE DEF k
            <4> QED
                BY <4>2, <4>4
        <3> QED
            BY <3>1, <3>2
    <2> HIDE DEF Folds, D, k
    <2> QED
        BY <2>1, <2>5, <2>6
<1>3. N \in T
    <2>1. N \in 0..N
        OBVIOUS
    <2> HIDE DEF T
    <2>2. \A n \in 0..N : n \in T
        BY <1>1, <1>2, RangeInduction
    <2> QED
        BY <2>1, <2>2
<1> QED
    BY <1>3 DEF IsFold

\* Read along the prefixes, it goes through the sequence from left to right.
Goes(r, base, N, list, g) ==
    r[0] = base /\ \A n \in 1..N : r[n] = g[<<r[n - 1], list[n]>>]

LEMMA FoldSteps ==
    ASSUME NEW A, NEW E, NEW base \in A, NEW N \in Nat, NEW list \in [1..N -> E],
           NEW g, \A a \in A : \A e \in E : g[<<a, e>>] \in A,
           NEW h, IsFold(h, base, N, list, g)
    PROVE  \E r : r \in [0..N -> A] /\ r[N] = h[1..N] /\ Goes(r, base, N, list, g)
<1> DEFINE r == [n \in 0..N |-> h[1..n]]
           Typed == {n \in 0..N : r[n] \in A}
<1>1. r[0] = base /\ r[N] = h[1..N]
    <2>1. 1..0 = {} /\ 1..0 \in SUBSET (1..N) /\ 0 \in 0..N /\ N \in 0..N
        OBVIOUS
    <2>2. h[1..0] = base
        BY <2>1 DEF IsFold
    <2> QED
        BY <2>1, <2>2
<1>2. ASSUME NEW n \in 1..N
      PROVE  r[n] = g[<<r[n - 1], list[n]>>]
    <2>1. n \in 0..N /\ n - 1 \in 0..N /\ n \in Nat /\ n \in 1..n /\ 1..n \in SUBSET (1..N)
        OBVIOUS
    <2>0. (1..n) \ {n} = 1..(n - 1)
        OBVIOUS
    <2>2. Max(1..n) = n
        BY <2>1, MaxOf
    <2>3. h[1..n] = g[<<h[1..(n - 1)], list[n]>>]
        BY <2>0, <2>1, <2>2 DEF IsFold
    <2> QED
        BY <2>1, <2>3
<1>3. 0 \in Typed
    BY <1>1
<1>4. ASSUME NEW n \in 0..(N - 1), n \in Typed
      PROVE  n + 1 \in Typed
    <2>1. n + 1 \in 1..N /\ n + 1 \in 0..N /\ n + 1 - 1 = n /\ list[n + 1] \in E
        OBVIOUS
    <2>2. r[n] \in A
        BY <1>4
    <2> HIDE DEF r
    <2>3. r[n + 1] = g[<<r[n], list[n + 1]>>]
        BY <1>2, <2>1
    <2> QED
        BY <2>1, <2>2, <2>3
<1>5. \A n \in 0..N : n \in Typed
    <2> HIDE DEF Typed
    <2> QED
        BY <1>3, <1>4, RangeInduction
<1>6. r \in [0..N -> A]
    <2>1. \A n \in 0..N : h[1..n] \in A
        BY <1>5
    <2> QED
        BY <2>1
<1> HIDE DEF r
<1> QED
    BY <1>1, <1>2, <1>6 DEF Goes

-----------------------------------------------------------------------------
(* The folds of the model, one step after the other. *)

\* The items of a window, in the order they are shown.
TakeRun(r, A, base, list) ==
    /\ r \in [0..Len(list) -> A] /\ r[0] = base /\ TakeAll(base, list) = r[Len(list)]
    /\ \A n \in 1..Len(list) : r[n] = Take(r[n - 1], list[n])

LEMMA TakeRuns ==
    ASSUME NEW A, NEW E, NEW base \in A, NEW list \in Seq(E),
           \A a \in A : \A e \in E : Take(a, e) \in A
    PROVE  \E r : TakeRun(r, A, base, list)
<1> DEFINE N == Len(list)
           D == SUBSET (1..N)
           g == [p \in A \X E |-> Take(p[1], p[2])]
           Next1(h, s) == IF s = {} THEN base ELSE Take(h[s \ {Max(s)}], list[Max(s)])
           Fold == CHOOSE h : h = [s \in D |-> Next1(h, s)]
<1>1. N \in Nat /\ list \in [1..N -> E] /\ DOMAIN list = 1..N
    BY LenProperties
<1>2. PICK h : h \in [D -> A] /\ IsFold(h, base, N, list, g)
    <2>1. g \in [A \X E -> A]
        OBVIOUS
    <2> HIDE DEF g, N
    <2> QED
        BY <1>1, <2>1, FoldExists
<1>3. ASSUME NEW s \in D
      PROVE  h[s] = Next1(h, s)
    <2>0. h[s] = IF s = {} THEN base ELSE g[<<h[s \ {Max(s)}], list[Max(s)]>>]
        <3> HIDE DEF g
        <3> QED
            BY <1>2 DEF IsFold
    <2>1. CASE s = {}
        BY <2>0, <2>1
    <2>2. CASE s # {}
        <3>1. Max(s) \in s
            BY <1>1, <2>2, MaxIn
        <3>2. list[Max(s)] \in E
            BY <1>1, <3>1
        <3>3. h[s \ {Max(s)}] \in A
            BY <1>2
        <3>4. <<h[s \ {Max(s)}], list[Max(s)]>> \in A \X E
            BY <3>2, <3>3
        <3>5. g[<<h[s \ {Max(s)}], list[Max(s)]>>] = Take(h[s \ {Max(s)}], list[Max(s)])
            BY <3>4
        <3> QED
            BY <2>0, <2>2, <3>5
    <2> QED
        BY <2>1, <2>2
<1>4. h = [s \in D |-> Next1(h, s)]
    <2> HIDE DEF Next1, D
    <2> QED
        BY <1>2, <1>3
<1>5. Fold = [s \in D |-> Next1(Fold, s)]
    <2> HIDE DEF Next1, D
    <2> QED
        BY <1>4
<1>6. TakeAll(base, list) = Fold[1..N]
    BY <1>1 DEF FoldLeft, MapThenFoldSet, TakeAll
<1> HIDE DEF Fold
<1> DEFINE V == A \cup {Fold[s] : s \in D}
           k == [p \in V \X E |-> Take(p[1], p[2])]
<1>7. ASSUME NEW v \in V, NEW e \in E
      PROVE  k[<<v, e>>] = Take(v, e)
    OBVIOUS
<1>8. ASSUME NEW s \in D
      PROVE  Fold[s] = IF s = {} THEN base ELSE k[<<Fold[s \ {Max(s)}], list[Max(s)]>>]
    <2>1. Fold[s] = Next1(Fold, s)
        <3> HIDE DEF Next1, D
        <3> QED
            BY <1>5
    <2>2. CASE s # {}
        <3>1. Max(s) \in s
            BY <1>1, <2>2, MaxIn
        <3>2. list[Max(s)] \in E /\ s \ {Max(s)} \in D
            BY <1>1, <3>1
        <3>3. Fold[s \ {Max(s)}] \in V
            BY <3>2
        <3> HIDE DEF k, V
        <3> QED
            BY <1>7, <2>1, <2>2, <3>2, <3>3
    <2> QED
        BY <2>1, <2>2
<1>9. \A a \in A : a \in V
    OBVIOUS
<1>10. \A a \in A : \A e \in E : k[<<a, e>>] \in A
    <2> HIDE DEF k, V
    <2> QED
        BY <1>7, <1>9
<1>11. PICK r : r \in [0..N -> A] /\ r[N] = Fold[1..N] /\ Goes(r, base, N, list, k)
    <2>1. IsFold(Fold, base, N, list, k)
        <3> HIDE DEF k, V, N
        <3> QED
            BY <1>8 DEF IsFold
    <2> HIDE DEF k, V, N
    <2> QED
        BY <1>1, <2>1, <1>10, FoldSteps
<1>12. ASSUME NEW n \in 1..N
       PROVE  r[n] = Take(r[n - 1], list[n])
    <2>1. n - 1 \in 0..N /\ list[n] \in E
        BY <1>1
    <2>2. r[n - 1] \in V
        BY <2>1, <1>9, <1>11
    <2> HIDE DEF k, V
    <2> QED
        BY <1>7, <1>11, <2>1, <2>2 DEF Goes
<1> QED
    BY <1>6, <1>11, <1>12 DEF Goes, TakeRun

\* The items of a commit, in the order they were collected.
ClassifyRun(r, A, base, list) ==
    /\ r \in [0..Len(list) -> A] /\ r[0] = base /\ ClassifyAll(base, list) = r[Len(list)]
    /\ \A n \in 1..Len(list) : r[n] = Classify(r[n - 1], list[n])

LEMMA ClassifyRuns ==
    ASSUME NEW A, NEW E, NEW base \in A, NEW list \in Seq(E),
           \A a \in A : \A e \in E : Classify(a, e) \in A
    PROVE  \E r : ClassifyRun(r, A, base, list)
<1> DEFINE N == Len(list)
           D == SUBSET (1..N)
           g == [p \in A \X E |-> Classify(p[1], p[2])]
           Next1(h, s) == IF s = {} THEN base ELSE Classify(h[s \ {Max(s)}], list[Max(s)])
           Fold == CHOOSE h : h = [s \in D |-> Next1(h, s)]
<1>1. N \in Nat /\ list \in [1..N -> E] /\ DOMAIN list = 1..N
    BY LenProperties
<1>2. PICK h : h \in [D -> A] /\ IsFold(h, base, N, list, g)
    <2>1. g \in [A \X E -> A]
        OBVIOUS
    <2> HIDE DEF g, N
    <2> QED
        BY <1>1, <2>1, FoldExists
<1>3. ASSUME NEW s \in D
      PROVE  h[s] = Next1(h, s)
    <2>0. h[s] = IF s = {} THEN base ELSE g[<<h[s \ {Max(s)}], list[Max(s)]>>]
        <3> HIDE DEF g
        <3> QED
            BY <1>2 DEF IsFold
    <2>1. CASE s = {}
        BY <2>0, <2>1
    <2>2. CASE s # {}
        <3>1. Max(s) \in s
            BY <1>1, <2>2, MaxIn
        <3>2. list[Max(s)] \in E
            BY <1>1, <3>1
        <3>3. h[s \ {Max(s)}] \in A
            BY <1>2
        <3>4. <<h[s \ {Max(s)}], list[Max(s)]>> \in A \X E
            BY <3>2, <3>3
        <3>5. g[<<h[s \ {Max(s)}], list[Max(s)]>>] = Classify(h[s \ {Max(s)}], list[Max(s)])
            BY <3>4
        <3> QED
            BY <2>0, <2>2, <3>5
    <2> QED
        BY <2>1, <2>2
<1>4. h = [s \in D |-> Next1(h, s)]
    <2> HIDE DEF Next1, D
    <2> QED
        BY <1>2, <1>3
<1>5. Fold = [s \in D |-> Next1(Fold, s)]
    <2> HIDE DEF Next1, D
    <2> QED
        BY <1>4
<1>6. ClassifyAll(base, list) = Fold[1..N]
    BY <1>1 DEF FoldLeft, MapThenFoldSet, ClassifyAll
<1> HIDE DEF Fold
<1> DEFINE V == A \cup {Fold[s] : s \in D}
           k == [p \in V \X E |-> Classify(p[1], p[2])]
<1>7. ASSUME NEW v \in V, NEW e \in E
      PROVE  k[<<v, e>>] = Classify(v, e)
    OBVIOUS
<1>8. ASSUME NEW s \in D
      PROVE  Fold[s] = IF s = {} THEN base ELSE k[<<Fold[s \ {Max(s)}], list[Max(s)]>>]
    <2>1. Fold[s] = Next1(Fold, s)
        <3> HIDE DEF Next1, D
        <3> QED
            BY <1>5
    <2>2. CASE s # {}
        <3>1. Max(s) \in s
            BY <1>1, <2>2, MaxIn
        <3>2. list[Max(s)] \in E /\ s \ {Max(s)} \in D
            BY <1>1, <3>1
        <3>3. Fold[s \ {Max(s)}] \in V
            BY <3>2
        <3> HIDE DEF k, V
        <3> QED
            BY <1>7, <2>1, <2>2, <3>2, <3>3
    <2> QED
        BY <2>1, <2>2
<1>9. \A a \in A : a \in V
    OBVIOUS
<1>10. \A a \in A : \A e \in E : k[<<a, e>>] \in A
    <2> HIDE DEF k, V
    <2> QED
        BY <1>7, <1>9
<1>11. PICK r : r \in [0..N -> A] /\ r[N] = Fold[1..N] /\ Goes(r, base, N, list, k)
    <2>1. IsFold(Fold, base, N, list, k)
        <3> HIDE DEF k, V, N
        <3> QED
            BY <1>8 DEF IsFold
    <2> HIDE DEF k, V, N
    <2> QED
        BY <1>1, <2>1, <1>10, FoldSteps
<1>12. ASSUME NEW n \in 1..N
       PROVE  r[n] = Classify(r[n - 1], list[n])
    <2>1. n - 1 \in 0..N /\ list[n] \in E
        BY <1>1
    <2>2. r[n - 1] \in V
        BY <2>1, <1>9, <1>11
    <2> HIDE DEF k, V
    <2> QED
        BY <1>7, <1>11, <2>1, <2>2 DEF Goes
<1> QED
    BY <1>6, <1>11, <1>12 DEF Goes, ClassifyRun

\* The keys of an item.
AliasRun(r, A, base, list, id) ==
    /\ r \in [0..Len(list) -> A] /\ r[0] = base /\ AddAliases(base, list, id) = r[Len(list)]
    /\ \A n \in 1..Len(list) : r[n] = AddAlias(r[n - 1], list[n], id)

LEMMA AliasRuns ==
    ASSUME NEW A, NEW E, NEW base \in A, NEW list \in Seq(E), NEW id,
           \A a \in A : \A e \in E : AddAlias(a, e, id) \in A
    PROVE  \E r : AliasRun(r, A, base, list, id)
<1> DEFINE N == Len(list)
           D == SUBSET (1..N)
           g == [p \in A \X E |-> AddAlias(p[1], p[2], id)]
           Next1(h, s) == IF s = {} THEN base ELSE AddAlias(h[s \ {Max(s)}], list[Max(s)], id)
           Fold == CHOOSE h : h = [s \in D |-> Next1(h, s)]
<1>1. N \in Nat /\ list \in [1..N -> E] /\ DOMAIN list = 1..N
    BY LenProperties
<1>2. PICK h : h \in [D -> A] /\ IsFold(h, base, N, list, g)
    <2>1. g \in [A \X E -> A]
        OBVIOUS
    <2> HIDE DEF g, N
    <2> QED
        BY <1>1, <2>1, FoldExists
<1>3. ASSUME NEW s \in D
      PROVE  h[s] = Next1(h, s)
    <2>0. h[s] = IF s = {} THEN base ELSE g[<<h[s \ {Max(s)}], list[Max(s)]>>]
        <3> HIDE DEF g
        <3> QED
            BY <1>2 DEF IsFold
    <2>1. CASE s = {}
        BY <2>0, <2>1
    <2>2. CASE s # {}
        <3>1. Max(s) \in s
            BY <1>1, <2>2, MaxIn
        <3>2. list[Max(s)] \in E
            BY <1>1, <3>1
        <3>3. h[s \ {Max(s)}] \in A
            BY <1>2
        <3>4. <<h[s \ {Max(s)}], list[Max(s)]>> \in A \X E
            BY <3>2, <3>3
        <3>5. g[<<h[s \ {Max(s)}], list[Max(s)]>>] = AddAlias(h[s \ {Max(s)}], list[Max(s)], id)
            BY <3>4
        <3> QED
            BY <2>0, <2>2, <3>5
    <2> QED
        BY <2>1, <2>2
<1>4. h = [s \in D |-> Next1(h, s)]
    <2> HIDE DEF Next1, D
    <2> QED
        BY <1>2, <1>3
<1>5. Fold = [s \in D |-> Next1(Fold, s)]
    <2> HIDE DEF Next1, D
    <2> QED
        BY <1>4
<1>6. AddAliases(base, list, id) = Fold[1..N]
    BY <1>1 DEF FoldLeft, MapThenFoldSet, AddAliases
<1> HIDE DEF Fold
<1> DEFINE V == A \cup {Fold[s] : s \in D}
           k == [p \in V \X E |-> AddAlias(p[1], p[2], id)]
<1>7. ASSUME NEW v \in V, NEW e \in E
      PROVE  k[<<v, e>>] = AddAlias(v, e, id)
    OBVIOUS
<1>8. ASSUME NEW s \in D
      PROVE  Fold[s] = IF s = {} THEN base ELSE k[<<Fold[s \ {Max(s)}], list[Max(s)]>>]
    <2>1. Fold[s] = Next1(Fold, s)
        <3> HIDE DEF Next1, D
        <3> QED
            BY <1>5
    <2>2. CASE s # {}
        <3>1. Max(s) \in s
            BY <1>1, <2>2, MaxIn
        <3>2. list[Max(s)] \in E /\ s \ {Max(s)} \in D
            BY <1>1, <3>1
        <3>3. Fold[s \ {Max(s)}] \in V
            BY <3>2
        <3> HIDE DEF k, V
        <3> QED
            BY <1>7, <2>1, <2>2, <3>2, <3>3
    <2> QED
        BY <2>1, <2>2
<1>9. \A a \in A : a \in V
    OBVIOUS
<1>10. \A a \in A : \A e \in E : k[<<a, e>>] \in A
    <2> HIDE DEF k, V
    <2> QED
        BY <1>7, <1>9
<1>11. PICK r : r \in [0..N -> A] /\ r[N] = Fold[1..N] /\ Goes(r, base, N, list, k)
    <2>1. IsFold(Fold, base, N, list, k)
        <3> HIDE DEF k, V, N
        <3> QED
            BY <1>8 DEF IsFold
    <2> HIDE DEF k, V, N
    <2> QED
        BY <1>1, <2>1, <1>10, FoldSteps
<1>12. ASSUME NEW n \in 1..N
       PROVE  r[n] = AddAlias(r[n - 1], list[n], id)
    <2>1. n - 1 \in 0..N /\ list[n] \in E
        BY <1>1
    <2>2. r[n - 1] \in V
        BY <2>1, <1>9, <1>11
    <2> HIDE DEF k, V
    <2> QED
        BY <1>7, <1>11, <2>1, <2>2 DEF Goes
<1> QED
    BY <1>6, <1>11, <1>12 DEF Goes, AliasRun

\* The rows of the last snapshot.
Carry(rows, k, limit) ==
    IF Len(rows) >= limit \/ Contains(rows, k) THEN rows ELSE Append(rows, k)

\* Each is carried over unless it is there.
CarryRun(r, A, base, list, limit) ==
    /\ r \in [0..Len(list) -> A] /\ r[0] = base /\ CarriedOver(base, list, limit) = r[Len(list)]
    /\ \A n \in 1..Len(list) : r[n] = Carry(r[n - 1], list[n], limit)

LEMMA CarryRuns ==
    ASSUME NEW A, NEW E, NEW base \in A, NEW list \in Seq(E), NEW limit,
           \A a \in A : \A e \in E : Carry(a, e, limit) \in A
    PROVE  \E r : CarryRun(r, A, base, list, limit)
<1> DEFINE N == Len(list)
           D == SUBSET (1..N)
           g == [p \in A \X E |-> Carry(p[1], p[2], limit)]
           Next1(h, s) == IF s = {} THEN base ELSE Carry(h[s \ {Max(s)}], list[Max(s)], limit)
           Fold == CHOOSE h : h = [s \in D |-> Next1(h, s)]
<1>1. N \in Nat /\ list \in [1..N -> E] /\ DOMAIN list = 1..N
    BY LenProperties
<1>2. PICK h : h \in [D -> A] /\ IsFold(h, base, N, list, g)
    <2>1. g \in [A \X E -> A]
        OBVIOUS
    <2> HIDE DEF g, N
    <2> QED
        BY <1>1, <2>1, FoldExists
<1>3. ASSUME NEW s \in D
      PROVE  h[s] = Next1(h, s)
    <2>0. h[s] = IF s = {} THEN base ELSE g[<<h[s \ {Max(s)}], list[Max(s)]>>]
        <3> HIDE DEF g
        <3> QED
            BY <1>2 DEF IsFold
    <2>1. CASE s = {}
        BY <2>0, <2>1
    <2>2. CASE s # {}
        <3>1. Max(s) \in s
            BY <1>1, <2>2, MaxIn
        <3>2. list[Max(s)] \in E
            BY <1>1, <3>1
        <3>3. h[s \ {Max(s)}] \in A
            BY <1>2
        <3>4. <<h[s \ {Max(s)}], list[Max(s)]>> \in A \X E
            BY <3>2, <3>3
        <3>5. g[<<h[s \ {Max(s)}], list[Max(s)]>>] = Carry(h[s \ {Max(s)}], list[Max(s)], limit)
            BY <3>4
        <3> QED
            BY <2>0, <2>2, <3>5
    <2> QED
        BY <2>1, <2>2
<1>4. h = [s \in D |-> Next1(h, s)]
    <2> HIDE DEF Next1, D
    <2> QED
        BY <1>2, <1>3
<1>5. Fold = [s \in D |-> Next1(Fold, s)]
    <2> HIDE DEF Next1, D
    <2> QED
        BY <1>4
<1>6. CarriedOver(base, list, limit) = Fold[1..N]
    BY <1>1 DEF FoldLeft, MapThenFoldSet, CarriedOver, Carry
<1> HIDE DEF Fold
<1> DEFINE V == A \cup {Fold[s] : s \in D}
           k == [p \in V \X E |-> Carry(p[1], p[2], limit)]
<1>7. ASSUME NEW v \in V, NEW e \in E
      PROVE  k[<<v, e>>] = Carry(v, e, limit)
    OBVIOUS
<1>8. ASSUME NEW s \in D
      PROVE  Fold[s] = IF s = {} THEN base ELSE k[<<Fold[s \ {Max(s)}], list[Max(s)]>>]
    <2>1. Fold[s] = Next1(Fold, s)
        <3> HIDE DEF Next1, D
        <3> QED
            BY <1>5
    <2>2. CASE s # {}
        <3>1. Max(s) \in s
            BY <1>1, <2>2, MaxIn
        <3>2. list[Max(s)] \in E /\ s \ {Max(s)} \in D
            BY <1>1, <3>1
        <3>3. Fold[s \ {Max(s)}] \in V
            BY <3>2
        <3> HIDE DEF k, V
        <3> QED
            BY <1>7, <2>1, <2>2, <3>2, <3>3
    <2> QED
        BY <2>1, <2>2
<1>9. \A a \in A : a \in V
    OBVIOUS
<1>10. \A a \in A : \A e \in E : k[<<a, e>>] \in A
    <2> HIDE DEF k, V
    <2> QED
        BY <1>7, <1>9
<1>11. PICK r : r \in [0..N -> A] /\ r[N] = Fold[1..N] /\ Goes(r, base, N, list, k)
    <2>1. IsFold(Fold, base, N, list, k)
        <3> HIDE DEF k, V, N
        <3> QED
            BY <1>8 DEF IsFold
    <2> HIDE DEF k, V, N
    <2> QED
        BY <1>1, <2>1, <1>10, FoldSteps
<1>12. ASSUME NEW n \in 1..N
       PROVE  r[n] = Carry(r[n - 1], list[n], limit)
    <2>1. n - 1 \in 0..N /\ list[n] \in E
        BY <1>1
    <2>2. r[n - 1] \in V
        BY <2>1, <1>9, <1>11
    <2> HIDE DEF k, V
    <2> QED
        BY <1>7, <1>11, <2>1, <2>2 DEF Goes
<1> QED
    BY <1>6, <1>11, <1>12 DEF Goes, CarryRun

\* The entries of the history but one.
Keep(rows, k, key) == IF k = key THEN rows ELSE Append(rows, k)

\* A history without one key.
KeepRun(r, A, list, key) ==
    /\ r \in [0..Len(list) -> A] /\ r[0] = <<>> /\ Without(list, key) = r[Len(list)]
    /\ \A n \in 1..Len(list) : r[n] = Keep(r[n - 1], list[n], key)

LEMMA KeepRuns ==
    ASSUME NEW A, NEW E, <<>> \in A, NEW list \in Seq(E), NEW key,
           \A a \in A : \A e \in E : Keep(a, e, key) \in A
    PROVE  \E r : KeepRun(r, A, list, key)
<1> DEFINE N == Len(list)
           D == SUBSET (1..N)
           g == [p \in A \X E |-> Keep(p[1], p[2], key)]
           Next1(h, s) == IF s = {} THEN <<>> ELSE Keep(h[s \ {Max(s)}], list[Max(s)], key)
           Fold == CHOOSE h : h = [s \in D |-> Next1(h, s)]
<1>1. N \in Nat /\ list \in [1..N -> E] /\ DOMAIN list = 1..N
    BY LenProperties
<1>2. PICK h : h \in [D -> A] /\ IsFold(h, <<>>, N, list, g)
    <2>1. g \in [A \X E -> A]
        OBVIOUS
    <2> HIDE DEF g, N
    <2> QED
        BY <1>1, <2>1, FoldExists
<1>3. ASSUME NEW s \in D
      PROVE  h[s] = Next1(h, s)
    <2>0. h[s] = IF s = {} THEN <<>> ELSE g[<<h[s \ {Max(s)}], list[Max(s)]>>]
        <3> HIDE DEF g
        <3> QED
            BY <1>2 DEF IsFold
    <2>1. CASE s = {}
        BY <2>0, <2>1
    <2>2. CASE s # {}
        <3>1. Max(s) \in s
            BY <1>1, <2>2, MaxIn
        <3>2. list[Max(s)] \in E
            BY <1>1, <3>1
        <3>3. h[s \ {Max(s)}] \in A
            BY <1>2
        <3>4. <<h[s \ {Max(s)}], list[Max(s)]>> \in A \X E
            BY <3>2, <3>3
        <3>5. g[<<h[s \ {Max(s)}], list[Max(s)]>>] = Keep(h[s \ {Max(s)}], list[Max(s)], key)
            BY <3>4
        <3> QED
            BY <2>0, <2>2, <3>5
    <2> QED
        BY <2>1, <2>2
<1>4. h = [s \in D |-> Next1(h, s)]
    <2> HIDE DEF Next1, D
    <2> QED
        BY <1>2, <1>3
<1>5. Fold = [s \in D |-> Next1(Fold, s)]
    <2> HIDE DEF Next1, D
    <2> QED
        BY <1>4
<1>6. Without(list, key) = Fold[1..N]
    BY <1>1 DEF FoldLeft, MapThenFoldSet, Without, Keep
<1> HIDE DEF Fold
<1> DEFINE V == A \cup {Fold[s] : s \in D}
           k == [p \in V \X E |-> Keep(p[1], p[2], key)]
<1>7. ASSUME NEW v \in V, NEW e \in E
      PROVE  k[<<v, e>>] = Keep(v, e, key)
    OBVIOUS
<1>8. ASSUME NEW s \in D
      PROVE  Fold[s] = IF s = {} THEN <<>> ELSE k[<<Fold[s \ {Max(s)}], list[Max(s)]>>]
    <2>1. Fold[s] = Next1(Fold, s)
        <3> HIDE DEF Next1, D
        <3> QED
            BY <1>5
    <2>2. CASE s # {}
        <3>1. Max(s) \in s
            BY <1>1, <2>2, MaxIn
        <3>2. list[Max(s)] \in E /\ s \ {Max(s)} \in D
            BY <1>1, <3>1
        <3>3. Fold[s \ {Max(s)}] \in V
            BY <3>2
        <3> HIDE DEF k, V
        <3> QED
            BY <1>7, <2>1, <2>2, <3>2, <3>3
    <2> QED
        BY <2>1, <2>2
<1>9. \A a \in A : a \in V
    OBVIOUS
<1>10. \A a \in A : \A e \in E : k[<<a, e>>] \in A
    <2> HIDE DEF k, V
    <2> QED
        BY <1>7, <1>9
<1>11. PICK r : r \in [0..N -> A] /\ r[N] = Fold[1..N] /\ Goes(r, <<>>, N, list, k)
    <2>1. IsFold(Fold, <<>>, N, list, k)
        <3> HIDE DEF k, V, N
        <3> QED
            BY <1>8 DEF IsFold
    <2> HIDE DEF k, V, N
    <2> QED
        BY <1>1, <2>1, <1>10, FoldSteps
<1>12. ASSUME NEW n \in 1..N
       PROVE  r[n] = Keep(r[n - 1], list[n], key)
    <2>1. n - 1 \in 0..N /\ list[n] \in E
        BY <1>1
    <2>2. r[n - 1] \in V
        BY <2>1, <1>9, <1>11
    <2> HIDE DEF k, V
    <2> QED
        BY <1>7, <1>11, <2>1, <2>2 DEF Goes
<1> QED
    BY <1>6, <1>11, <1>12 DEF Goes, KeepRun

\* The items of a commit, as the property MatchesAsConfigured takes them.
AnnounceRun(r, A, base, list) ==
    /\ r \in [0..Len(list) -> A] /\ r[0] = base /\ AnnounceAll(base, list) = r[Len(list)]
    /\ \A n \in 1..Len(list) : r[n] = Announce(r[n - 1], list[n])

LEMMA AnnounceRuns ==
    ASSUME NEW A, NEW E, NEW base \in A, NEW list \in Seq(E),
           \A a \in A : \A e \in E : Announce(a, e) \in A
    PROVE  \E r : AnnounceRun(r, A, base, list)
<1> DEFINE N == Len(list)
           D == SUBSET (1..N)
           g == [p \in A \X E |-> Announce(p[1], p[2])]
           Next1(h, s) == IF s = {} THEN base ELSE Announce(h[s \ {Max(s)}], list[Max(s)])
           Fold == CHOOSE h : h = [s \in D |-> Next1(h, s)]
<1>1. N \in Nat /\ list \in [1..N -> E] /\ DOMAIN list = 1..N
    BY LenProperties
<1>2. PICK h : h \in [D -> A] /\ IsFold(h, base, N, list, g)
    <2>1. g \in [A \X E -> A]
        OBVIOUS
    <2> HIDE DEF g, N
    <2> QED
        BY <1>1, <2>1, FoldExists
<1>3. ASSUME NEW s \in D
      PROVE  h[s] = Next1(h, s)
    <2>0. h[s] = IF s = {} THEN base ELSE g[<<h[s \ {Max(s)}], list[Max(s)]>>]
        <3> HIDE DEF g
        <3> QED
            BY <1>2 DEF IsFold
    <2>1. CASE s = {}
        BY <2>0, <2>1
    <2>2. CASE s # {}
        <3>1. Max(s) \in s
            BY <1>1, <2>2, MaxIn
        <3>2. list[Max(s)] \in E
            BY <1>1, <3>1
        <3>3. h[s \ {Max(s)}] \in A
            BY <1>2
        <3>4. <<h[s \ {Max(s)}], list[Max(s)]>> \in A \X E
            BY <3>2, <3>3
        <3>5. g[<<h[s \ {Max(s)}], list[Max(s)]>>] = Announce(h[s \ {Max(s)}], list[Max(s)])
            BY <3>4
        <3> QED
            BY <2>0, <2>2, <3>5
    <2> QED
        BY <2>1, <2>2
<1>4. h = [s \in D |-> Next1(h, s)]
    <2> HIDE DEF Next1, D
    <2> QED
        BY <1>2, <1>3
<1>5. Fold = [s \in D |-> Next1(Fold, s)]
    <2> HIDE DEF Next1, D
    <2> QED
        BY <1>4
<1>6. AnnounceAll(base, list) = Fold[1..N]
    BY <1>1 DEF FoldLeft, MapThenFoldSet, AnnounceAll
<1> HIDE DEF Fold
<1> DEFINE V == A \cup {Fold[s] : s \in D}
           k == [p \in V \X E |-> Announce(p[1], p[2])]
<1>7. ASSUME NEW v \in V, NEW e \in E
      PROVE  k[<<v, e>>] = Announce(v, e)
    OBVIOUS
<1>8. ASSUME NEW s \in D
      PROVE  Fold[s] = IF s = {} THEN base ELSE k[<<Fold[s \ {Max(s)}], list[Max(s)]>>]
    <2>1. Fold[s] = Next1(Fold, s)
        <3> HIDE DEF Next1, D
        <3> QED
            BY <1>5
    <2>2. CASE s # {}
        <3>1. Max(s) \in s
            BY <1>1, <2>2, MaxIn
        <3>2. list[Max(s)] \in E /\ s \ {Max(s)} \in D
            BY <1>1, <3>1
        <3>3. Fold[s \ {Max(s)}] \in V
            BY <3>2
        <3> HIDE DEF k, V
        <3> QED
            BY <1>7, <2>1, <2>2, <3>2, <3>3
    <2> QED
        BY <2>1, <2>2
<1>9. \A a \in A : a \in V
    OBVIOUS
<1>10. \A a \in A : \A e \in E : k[<<a, e>>] \in A
    <2> HIDE DEF k, V
    <2> QED
        BY <1>7, <1>9
<1>11. PICK r : r \in [0..N -> A] /\ r[N] = Fold[1..N] /\ Goes(r, base, N, list, k)
    <2>1. IsFold(Fold, base, N, list, k)
        <3> HIDE DEF k, V, N
        <3> QED
            BY <1>8 DEF IsFold
    <2> HIDE DEF k, V, N
    <2> QED
        BY <1>1, <2>1, <1>10, FoldSteps
<1>12. ASSUME NEW n \in 1..N
       PROVE  r[n] = Announce(r[n - 1], list[n])
    <2>1. n - 1 \in 0..N /\ list[n] \in E
        BY <1>1
    <2>2. r[n - 1] \in V
        BY <2>1, <1>9, <1>11
    <2> HIDE DEF k, V
    <2> QED
        BY <1>7, <1>11, <2>1, <2>2 DEF Goes
<1> QED
    BY <1>6, <1>11, <1>12 DEF Goes, AnnounceRun

\* The ranges of the ignored phrases, merged from left to right.
RangeRun(r, A, list) ==
    /\ r \in [0..Len(list) -> A] /\ r[0] = <<>> /\ AddRanges(list) = r[Len(list)]
    /\ \A n \in 1..Len(list) : r[n] = AddRange(r[n - 1], list[n])

LEMMA RangeRuns ==
    ASSUME NEW A, NEW E, <<>> \in A, NEW list \in Seq(E),
           \A a \in A : \A e \in E : AddRange(a, e) \in A
    PROVE  \E r : RangeRun(r, A, list)
<1> DEFINE N == Len(list)
           D == SUBSET (1..N)
           g == [p \in A \X E |-> AddRange(p[1], p[2])]
           Next1(h, s) == IF s = {} THEN <<>> ELSE AddRange(h[s \ {Max(s)}], list[Max(s)])
           Fold == CHOOSE h : h = [s \in D |-> Next1(h, s)]
<1>1. N \in Nat /\ list \in [1..N -> E] /\ DOMAIN list = 1..N
    BY LenProperties
<1>2. PICK h : h \in [D -> A] /\ IsFold(h, <<>>, N, list, g)
    <2>1. g \in [A \X E -> A]
        OBVIOUS
    <2> HIDE DEF g, N
    <2> QED
        BY <1>1, <2>1, FoldExists
<1>3. ASSUME NEW s \in D
      PROVE  h[s] = Next1(h, s)
    <2>0. h[s] = IF s = {} THEN <<>> ELSE g[<<h[s \ {Max(s)}], list[Max(s)]>>]
        <3> HIDE DEF g
        <3> QED
            BY <1>2 DEF IsFold
    <2>1. CASE s = {}
        BY <2>0, <2>1
    <2>2. CASE s # {}
        <3>1. Max(s) \in s
            BY <1>1, <2>2, MaxIn
        <3>2. list[Max(s)] \in E
            BY <1>1, <3>1
        <3>3. h[s \ {Max(s)}] \in A
            BY <1>2
        <3>4. <<h[s \ {Max(s)}], list[Max(s)]>> \in A \X E
            BY <3>2, <3>3
        <3>5. g[<<h[s \ {Max(s)}], list[Max(s)]>>] = AddRange(h[s \ {Max(s)}], list[Max(s)])
            BY <3>4
        <3> QED
            BY <2>0, <2>2, <3>5
    <2> QED
        BY <2>1, <2>2
<1>4. h = [s \in D |-> Next1(h, s)]
    <2> HIDE DEF Next1, D
    <2> QED
        BY <1>2, <1>3
<1>5. Fold = [s \in D |-> Next1(Fold, s)]
    <2> HIDE DEF Next1, D
    <2> QED
        BY <1>4
<1>6. AddRanges(list) = Fold[1..N]
    BY <1>1 DEF FoldLeft, MapThenFoldSet, AddRanges
<1> HIDE DEF Fold
<1> DEFINE V == A \cup {Fold[s] : s \in D}
           k == [p \in V \X E |-> AddRange(p[1], p[2])]
<1>7. ASSUME NEW v \in V, NEW e \in E
      PROVE  k[<<v, e>>] = AddRange(v, e)
    OBVIOUS
<1>8. ASSUME NEW s \in D
      PROVE  Fold[s] = IF s = {} THEN <<>> ELSE k[<<Fold[s \ {Max(s)}], list[Max(s)]>>]
    <2>1. Fold[s] = Next1(Fold, s)
        <3> HIDE DEF Next1, D
        <3> QED
            BY <1>5
    <2>2. CASE s # {}
        <3>1. Max(s) \in s
            BY <1>1, <2>2, MaxIn
        <3>2. list[Max(s)] \in E /\ s \ {Max(s)} \in D
            BY <1>1, <3>1
        <3>3. Fold[s \ {Max(s)}] \in V
            BY <3>2
        <3> HIDE DEF k, V
        <3> QED
            BY <1>7, <2>1, <2>2, <3>2, <3>3
    <2> QED
        BY <2>1, <2>2
<1>9. \A a \in A : a \in V
    OBVIOUS
<1>10. \A a \in A : \A e \in E : k[<<a, e>>] \in A
    <2> HIDE DEF k, V
    <2> QED
        BY <1>7, <1>9
<1>11. PICK r : r \in [0..N -> A] /\ r[N] = Fold[1..N] /\ Goes(r, <<>>, N, list, k)
    <2>1. IsFold(Fold, <<>>, N, list, k)
        <3> HIDE DEF k, V, N
        <3> QED
            BY <1>8 DEF IsFold
    <2> HIDE DEF k, V, N
    <2> QED
        BY <1>1, <2>1, <1>10, FoldSteps
<1>12. ASSUME NEW n \in 1..N
       PROVE  r[n] = AddRange(r[n - 1], list[n])
    <2>1. n - 1 \in 0..N /\ list[n] \in E
        BY <1>1
    <2>2. r[n - 1] \in V
        BY <2>1, <1>9, <1>11
    <2> HIDE DEF k, V
    <2> QED
        BY <1>7, <1>11, <2>1, <2>2 DEF Goes
<1> QED
    BY <1>6, <1>11, <1>12 DEF Goes, RangeRun

-----------------------------------------------------------------------------
(* Items and their keys. *)

LEMMA BoundFacts ==
    /\ Posts \in Nat /\ Posts >= 2 /\ Window \in Nat /\ SeenStop \in Nat /\ StagnantStop \in Nat
    /\ HistoryLimit \in Nat /\ MaxScans \in Nat /\ MaxEvents \in Nat
    BY Bounds

\* Every key of a form carries the number of its item, the primary key among them.
LEMMA FormKeys ==
    ASSUME NEW k \in Kinds, NEW p \in 1..Posts, NEW f \in Forms(k, p)
    PROVE  /\ f \in Item /\ f.post = p /\ f # NoItem /\ f.comment \in {0, p}
           /\ Keys(f) \in Seq(Key) /\ Len(Keys(f)) # 0 /\ KeySet(f) \subseteq Key
           /\ Primary(f) \in Key /\ Primary(f) \in KeySet(f)
           /\ \A key \in KeySet(f) : key[2] = p
<1>1. /\ f \in Item /\ f.post = p /\ f.link \in {0, p} /\ f.comment \in {0, p}
      /\ f.author \in BOOLEAN /\ p \in 0..Posts /\ p # 0
    BY FormsAreOwn, BoundFacts DEF Item
<1>2. f # NoItem
    BY DEF Forms
<1>3. CompositeKey(f) \in Key /\ CompositeKey(f)[2] = p
    BY <1>1 DEF CompositeKey, Key
<1> DEFINE Own == {key \in Key : key[2] = p}
<1>4. Keys(f) \in Seq(Own) /\ Len(Keys(f)) # 0
    <2>1. CASE f.comment # 0
        <3>1. Keys(f) = <<<<"comment", p>>, <<"comment-url", p>>, CompositeKey(f)>>
            BY <1>1, <2>1 DEF Keys, ItemKeys, CommentKeys
        <3>2. <<"comment", p>> \in Own /\ <<"comment-url", p>> \in Own /\ CompositeKey(f) \in Own
            BY <1>1, <1>3 DEF Key
        <3> HIDE DEF Own
        <3> QED
            BY <3>1, <3>2
    <2>2. CASE f.comment = 0 /\ f.link # 0
        <3>1. Keys(f) = <<<<"id", p>>, <<"url", p>>, CompositeKey(f)>>
            BY <1>1, <2>2 DEF Keys, ItemKeys, PostKeys
        <3>2. <<"id", p>> \in Own /\ <<"url", p>> \in Own /\ CompositeKey(f) \in Own
            BY <1>1, <1>3 DEF Key
        <3> HIDE DEF Own
        <3> QED
            BY <3>1, <3>2
    <2>3. CASE f.comment = 0 /\ f.link = 0
        <3>1. Keys(f) = <<CompositeKey(f), <<"fingerprint", p>>>>
            BY <1>1, <2>3 DEF Keys, ItemKeys, PostKeys
        <3>2. <<"fingerprint", p>> \in Own /\ CompositeKey(f) \in Own
            BY <1>1, <1>3 DEF Key
        <3> HIDE DEF Own
        <3> QED
            BY <3>1, <3>2
    <2> QED
        BY <2>1, <2>2, <2>3
<1>5. KeySet(f) = {Keys(f)[i] : i \in 1..Len(Keys(f))}
    BY <1>4, LenProperties DEF KeySet, Range
<1>6. 1 \in 1..Len(Keys(f)) /\ \A i \in 1..Len(Keys(f)) : Keys(f)[i] \in Own
    <2> HIDE DEF Own
    <2>1. Len(Keys(f)) \in Nat
        BY <1>4, LenProperties
    <2> QED
        BY <1>4, <2>1, ElementOfSeq
<1>7. Keys(f) \in Seq(Key)
    BY <1>4, SeqMonotonic
<1> QED
    BY <1>1, <1>2, <1>4, <1>5, <1>6, <1>7 DEF Primary

\* So two forms overlap exactly when they show the same item.
LEMMA SameItem ==
    ASSUME NEW k \in Kinds, NEW p \in 1..Posts, NEW q \in 1..Posts,
           NEW f \in Forms(k, p), NEW g \in Forms(k, q)
    PROVE  Overlap(f, g) <=> p = q
<1>1. ASSUME p = q PROVE Overlap(f, g)
    BY <1>1, FormsOverlap
<1>2. ASSUME Overlap(f, g) PROVE p = q
    <2>1. PICK key : key \in KeySet(f) /\ key \in KeySet(g)
        BY <1>2 DEF Overlap
    <2> QED
        BY <2>1, FormKeys
<1> QED
    BY <1>1, <1>2

LEMMA LowestIn ==
    ASSUME NEW N \in Nat, NEW S \in SUBSET (1..N), S # {}
    PROVE  Lowest(S) \in S /\ \A m \in S : Lowest(S) <= m
<1> DEFINE Has(s) == \E n \in s : \A m \in s : n <= m
           T == {n \in 0..N : \A s \in SUBSET (1..n) : s # {} => Has(s)}
<1>1. 0 \in T
    <2>1. 0 \in 0..N /\ \A s \in SUBSET (1..0) : s = {}
        OBVIOUS
    <2> QED
        BY <2>1
<1>2. ASSUME NEW n \in 0..(N - 1), n \in T
      PROVE  n + 1 \in T
    <2>1. n + 1 \in 0..N /\ n + 1 \in Nat
        OBVIOUS
    <2> SUFFICES ASSUME NEW s \in SUBSET (1..(n + 1)), s # {}
                 PROVE  Has(s)
        BY <2>1
    <2>2. s \ {n + 1} \in SUBSET (1..n)
        OBVIOUS
    <2>3. CASE s \ {n + 1} = {}
        <3>1. s = {n + 1}
            BY <2>3
        <3> QED
            BY <3>1
    <2>4. CASE s \ {n + 1} # {}
        <3>1. PICK x \in s \ {n + 1} : \A m \in s \ {n + 1} : x <= m
            BY <1>2, <2>2, <2>4
        <3>2. x \in 1..n
            BY <3>1
        <3>3. \A m \in s : x <= m
            BY <3>1, <3>2
        <3> QED
            BY <3>1, <3>3
    <2> QED
        BY <2>3, <2>4
<1>3. Has(S)
    <2> HIDE DEF T
    <2>1. \A n \in 0..N : n \in T
        BY <1>1, <1>2, RangeInduction
    <2>2. N \in T
        BY <2>1
    <2> QED
        BY <2>2 DEF T
<1> QED
    BY <1>3 DEF Lowest

-----------------------------------------------------------------------------
(* Collection.  What an attempt has taken are forms of different items.  What *)
(* it counts are known items among them.                                      *)

GotPosts(s) == {s.got[i].post : i \in 1..Len(s.got)}
Collects(s) ==
    \A i \in 1..Len(s.got) : s.got[i] \in Forms(kind, s.got[i].post)
Differ(s) ==
    \A i, j \in 1..Len(s.got) : i # j => s.got[i].post # s.got[j].post
Counts(s) ==
    /\ s.known \subseteq GotPosts(s)
    /\ s.streak <= Cardinality(s.known)
    /\ s.triggered => s.streak >= SeenStop /\ kind = "posts"
SameAttempt(s, t) ==
    /\ t.phase = s.phase /\ t.config = s.config /\ t.trusted = s.trusted /\ t.round = s.round
    /\ t.stagnant = s.stagnant /\ t.dropped = s.dropped /\ t.stop = s.stop

LEMMA KnownFinite ==
    ASSUME NEW S \in SUBSET (1..Posts)
    PROVE  IsFiniteSet(S) /\ Cardinality(S) \in Nat
<1>1. IsFiniteSet(1..Posts)
    BY BoundFacts, FS_Interval
<1>2. IsFiniteSet(S)
    BY <1>1, FS_Subset
<1> QED
    BY <1>2, FS_CardinalityType

LEMMA ObserveTyped ==
    ASSUME NEW s \in Attempt, NEW item, item.post \in 1..Posts
    PROVE  /\ Observe(s, item) \in Attempt
           /\ Observe(s, item).got = s.got /\ SameAttempt(s, Observe(s, item))
<1>1. CASE ~SeenStopOn
    BY <1>1 DEF Observe, SameAttempt
<1>2. CASE SeenStopOn
    <2> DEFINE streak == IF KnownRow(item) THEN s.streak + 1 ELSE 0
               known == IF KnownRow(item) THEN s.known \cup {item.post} ELSE s.known
               triggered == streak >= SeenStop
    <2>1. streak \in Nat /\ known \in SUBSET (1..Posts)
        BY DEF Attempt
    <2>2. triggered \in BOOLEAN
        OBVIOUS
    <2>3. Observe(s, item) = [s EXCEPT !.known = known, !.streak = streak, !.triggered = triggered]
        BY <1>2 DEF Observe
    <2> HIDE DEF streak, known, triggered
    <2> QED
        BY <2>1, <2>2, <2>3 DEF Attempt, SameAttempt
<1> QED
    BY <1>1, <1>2

LEMMA TakeKeeps ==
    ASSUME kind \in Kinds, NEW s \in Attempt, Collects(s), Differ(s), Counts(s),
           NEW p \in 1..Posts, NEW item \in Forms(kind, p)
    PROVE  LET t == Take(s, item)
           IN  /\ t \in Attempt /\ Collects(t) /\ Differ(t) /\ Counts(t) /\ SameAttempt(s, t)
               /\ \/ t = s /\ (s.triggered \/ ~Fits(s.got) \/ p \in GotPosts(s))
                  \/ GotPosts(t) = GotPosts(s) \cup {p} /\ ~s.triggered
<1> DEFINE N == Len(s.got)
           t == Take(s, item)
<1>1. /\ item \in Item /\ item.post = p /\ item # NoItem
      /\ N \in Nat /\ s.got \in Seq(Item) /\ \A i \in 1..N : s.got[i].post \in 1..Posts
    <2>1. item \in Item /\ item.post = p /\ item # NoItem
        BY FormKeys
    <2>2. s.got \in Seq(Item)
        BY DEF Attempt
    <2>3. N \in Nat /\ \A i \in 1..N : s.got[i] \in Item
        BY <2>2, LenProperties, ElementOfSeq
    <2> QED
        BY <2>1, <2>2, <2>3 DEF Item
<1>2. ASSUME NEW i \in 1..N
      PROVE  Overlap(s.got[i], item) <=> s.got[i].post = p
    BY <1>1, SameItem DEF Collects
<1>3. CASE s.triggered \/ ~Fits(s.got) \/ p \in GotPosts(s)
    <2>1. t = s
        BY <1>1, <1>2, <1>3 DEF Take, GotPosts
    <2> QED
        BY <1>3, <2>1 DEF SameAttempt
<1>4. CASE ~s.triggered /\ Fits(s.got) /\ p \notin GotPosts(s)
    <2> DEFINE o == Observe(s, item)
    <2>1. t = [o EXCEPT !.got = Append(@, item), !.added = @ + 1]
        BY <1>1, <1>2, <1>4 DEF Take, GotPosts
    <2>2. o \in Attempt /\ o.got = s.got /\ SameAttempt(s, o)
        BY <1>1, ObserveTyped
    <2>3. /\ Append(s.got, item) \in Seq(Item) /\ Len(Append(s.got, item)) = N + 1
          /\ \A i \in 1..N : Append(s.got, item)[i] = s.got[i]
          /\ Append(s.got, item)[N + 1] = item
        BY <1>1, AppendProperties
    <2> HIDE DEF o
    <2>4. t \in Attempt /\ t.got = Append(s.got, item) /\ SameAttempt(s, t)
          /\ t.known = o.known /\ t.streak = o.streak /\ t.triggered = o.triggered
        <3> DEFINE got == Append(o.got, item)
                   added == o.added + 1
        <3>1. got \in Seq(Item) /\ added \in Nat /\ got = Append(s.got, item)
            BY <2>2, <2>3 DEF Attempt
        <3>2. t = [o EXCEPT !.got = got, !.added = added]
            BY <2>1
        <3> HIDE DEF got, added, t
        <3> QED
            BY <2>2, <3>1, <3>2 DEF Attempt, SameAttempt
    <2> HIDE DEF t
    <2>5. Len(t.got) = N + 1 /\ \A i \in 1..(N + 1) : i \in 1..N \/ i = N + 1
        BY <1>1, <2>3, <2>4
    <2>6. Collects(t)
        BY <1>1, <2>3, <2>4, <2>5 DEF Collects
    <2>7. Differ(t)
        <3> SUFFICES ASSUME NEW i \in 1..(N + 1), NEW j \in 1..(N + 1), i # j
                     PROVE  t.got[i].post # t.got[j].post
            BY <2>5 DEF Differ
        <3>1. \A n \in 1..N : s.got[n].post # p
            BY <1>4 DEF GotPosts
        <3>2. CASE i = N + 1
            BY <1>1, <2>3, <2>4, <2>5, <3>1, <3>2
        <3>3. CASE j = N + 1
            BY <1>1, <2>3, <2>4, <2>5, <3>1, <3>3
        <3>4. CASE i \in 1..N /\ j \in 1..N
            BY <2>3, <2>4, <3>4 DEF Differ
        <3> QED
            BY <2>5, <3>2, <3>3, <3>4
    <2>8. GotPosts(t) = GotPosts(s) \cup {p}
        <3>1. GotPosts(t) \subseteq GotPosts(s) \cup {p}
            BY <1>1, <2>3, <2>4, <2>5 DEF GotPosts
        <3>2. GotPosts(s) \subseteq GotPosts(t)
            <4> SUFFICES ASSUME NEW i \in 1..N PROVE s.got[i].post \in GotPosts(t)
                BY DEF GotPosts
            <4>1. i \in 1..Len(t.got) /\ t.got[i].post = s.got[i].post
                BY <1>1, <2>3, <2>4, <2>5
            <4> QED
                BY <4>1 DEF GotPosts
        <3>3. p \in GotPosts(t)
            <4>1. N + 1 \in 1..Len(t.got) /\ t.got[N + 1].post = p
                BY <1>1, <2>3, <2>4, <2>5
            <4> QED
                BY <4>1 DEF GotPosts
        <3> QED
            BY <3>1, <3>2, <3>3
    <2>9. Counts(t)
        <3>1. CASE ~SeenStopOn
            <4>1. o = s
                BY <3>1 DEF o, Observe
            <4> QED
                BY <2>4, <2>8, <4>1 DEF Counts
        <3>2. CASE SeenStopOn
            <4>1. /\ o.known = IF KnownRow(item) THEN s.known \cup {p} ELSE s.known
                  /\ o.streak = IF KnownRow(item) THEN s.streak + 1 ELSE 0
                  /\ o.triggered <=> o.streak >= SeenStop
                BY <1>1, <3>2 DEF o, Observe, Attempt
            <4>2. kind = "posts"
                BY <3>2 DEF SeenStopOn
            <4>3. /\ s.known \in SUBSET (1..Posts) /\ s.streak \in Nat
                  /\ s.known \subseteq GotPosts(s) /\ s.streak <= Cardinality(s.known)
                BY DEF Attempt, Counts
            <4>4. t.known \subseteq GotPosts(t)
                BY <2>4, <2>8, <4>1, <4>3
            <4>5. /\ Cardinality(s.known) \in Nat
                  /\ Cardinality(s.known \cup {p}) = Cardinality(s.known) + 1
                BY <1>4, <4>3, KnownFinite, FS_AddElement
            <4>6. t.streak <= Cardinality(t.known)
                BY <2>4, <4>1, <4>3, <4>5
            <4> QED
                BY <2>4, <4>1, <4>2, <4>4, <4>6 DEF Counts
        <3> QED
            BY <3>1, <3>2
    <2> QED
        BY <1>4, <2>4, <2>6, <2>7, <2>8, <2>9 DEF t
<1> QED
    BY <1>3, <1>4

\* The attempts that collect soundly, and what a window may be read as.
Sound == {s \in Attempt : Collects(s) /\ Differ(s) /\ Counts(s)}
Elements == {NoItem} \cup UNION {Forms(kind, p) : p \in 1..Posts}

LEMMA TakeSound ==
    ASSUME kind \in Kinds
    PROVE  \A s \in Sound : \A item \in Elements : Take(s, item) \in Sound
<1> SUFFICES ASSUME NEW s \in Sound, NEW item \in Elements
             PROVE  Take(s, item) \in Sound
    OBVIOUS
<1>1. CASE item = NoItem
    BY <1>1 DEF Take
<1>2. CASE item # NoItem
    <2>1. PICK p \in 1..Posts : item \in Forms(kind, p)
        BY <1>2 DEF Elements
    <2>2. s \in Attempt /\ Collects(s) /\ Differ(s) /\ Counts(s)
        BY DEF Sound
    <2> QED
        BY <2>1, <2>2, TakeKeeps DEF Sound
<1> QED
    BY <1>1, <1>2

LEMMA WindowSound ==
    ASSUME kind \in Kinds, NEW s \in Sound, NEW read \in Seq(Elements)
    PROVE  TakeAll(s, read) \in Sound /\ SameAttempt(s, TakeAll(s, read))
<1>1. PICK r : TakeRun(r, Sound, s, read)
    BY TakeSound, TakeRuns
<1> DEFINE N == Len(read)
           T == {n \in 0..N : SameAttempt(s, r[n])}
<1>2. N \in Nat /\ (\A n \in 1..N : read[n] \in Elements) /\ N \in 0..N
    BY LenProperties, ElementOfSeq
<1>3. /\ r[0] = s /\ r[N] = TakeAll(s, read) /\ \A n \in 0..N : r[n] \in Sound
      /\ \A n \in 1..N : r[n] = Take(r[n - 1], read[n])
    BY <1>1 DEF TakeRun
<1>4. 0 \in T
    BY <1>2, <1>3 DEF SameAttempt
<1>5. ASSUME NEW n \in 0..(N - 1), n \in T
      PROVE  n + 1 \in T
    <2>1. n + 1 \in 1..N /\ n + 1 \in 0..N /\ n + 1 - 1 = n /\ n \in 0..N
        BY <1>2
    <2>2. r[n + 1] = Take(r[n], read[n + 1]) /\ r[n] \in Sound /\ read[n + 1] \in Elements
        BY <1>2, <1>3, <2>1
    <2>3. SameAttempt(r[n], r[n + 1])
        <3>1. CASE read[n + 1] = NoItem
            BY <2>2, <3>1 DEF Take, SameAttempt
        <3>2. CASE read[n + 1] # NoItem
            <4>1. PICK p \in 1..Posts : read[n + 1] \in Forms(kind, p)
                BY <2>2, <3>2 DEF Elements
            <4>2. r[n] \in Attempt /\ Collects(r[n]) /\ Differ(r[n]) /\ Counts(r[n])
                BY <2>2 DEF Sound
            <4> QED
                BY <2>2, <4>1, <4>2, TakeKeeps
        <3> QED
            BY <3>1, <3>2
    <2> QED
        BY <1>5, <2>1, <2>3 DEF SameAttempt
<1>6. \A n \in 0..N : n \in T
    <2> HIDE DEF T, N
    <2> QED
        BY <1>2, <1>4, <1>5, RangeInduction
<1> QED
    BY <1>2, <1>3, <1>6

\* How far down a list of posts an attempt has come: everything above is taken
\* or was not readable, and everything taken is above.
ReadTo(items, n, dropped, s) ==
    /\ \A i \in 1..n : items[i] \in dropped \/ items[i] \in GotPosts(s)
    /\ \A p \in GotPosts(s) : \E i \in 1..n : items[i] = p

\* A window of the feed is read to its end, unless the stop comes before.
LEMMA WindowRead ==
    ASSUME kind = "posts", NEW s \in Sound, NEW items \in Seq(1..Posts), NEW pos \in Nat,
           NEW read \in Seq(Elements), pos >= 1, pos + Len(read) - 1 <= Len(items), NEW dropped,
           \A i \in 1..Len(read) :
               \/ read[i] = NoItem /\ items[pos + i - 1] \in dropped
               \/ read[i] \in Forms(kind, items[pos + i - 1]),
           NEW m \in 0..Len(items), m >= pos - 1, ReadTo(items, m, dropped, s)
    PROVE  \E n \in 0..Len(items) :
               /\ ReadTo(items, n, dropped, TakeAll(s, read))
               /\ TakeAll(s, read).triggered \/ n >= pos + Len(read) - 1
<1>0. kind \in Kinds
    BY DEF Kinds
<1>1. PICK r : TakeRun(r, Sound, s, read)
    BY <1>0, TakeSound, TakeRuns
<1> DEFINE N == Len(read)
           M == Len(items)
           To(n, k) == ReadTo(items, n, dropped, r[k]) /\ (r[k].triggered \/ n >= pos + k - 1)
           T == {k \in 0..N : \E n \in 0..M : To(n, k)}
<1>2. N \in Nat /\ M \in Nat /\ N \in 0..N
    BY LenProperties
<1>3. /\ r[0] = s /\ r[N] = TakeAll(s, read) /\ \A n \in 0..N : r[n] \in Sound
      /\ \A n \in 1..N : r[n] = Take(r[n - 1], read[n])
    BY <1>1 DEF TakeRun
<1>4. 0 \in T
    <2>1. m >= pos + 0 - 1 /\ 0 \in 0..N
        BY <1>2
    <2>2. To(m, 0)
        BY <1>3, <2>1
    <2> QED
        BY <2>1, <2>2
<1>5. ASSUME NEW k \in 0..(N - 1), k \in T
      PROVE  k + 1 \in T
    <2>1. k + 1 \in 1..N /\ k + 1 \in 0..N /\ k + 1 - 1 = k /\ k \in 0..N /\ k \in Nat
        BY <1>2
    <2>2. r[k + 1] = Take(r[k], read[k + 1]) /\ r[k] \in Sound /\ r[k + 1] \in Sound
        BY <1>2, <1>3, <2>1
    <2>3. PICK n \in 0..M : To(n, k)
        BY <1>5
    <2> DEFINE at == pos + k
    <2>4. at \in 1..M /\ pos + (k + 1) - 1 = at /\ n \in Nat
        BY <1>2, <2>1
    <2>5. items[at] \in 1..Posts
        BY <2>4, ElementOfSeq
    <2>6. CASE r[k].triggered
        <3>1. r[k + 1] = r[k]
            BY <2>2, <2>6 DEF Take
        <3> HIDE DEF M, N
        <3> QED
            BY <2>1, <2>3, <2>6, <3>1
    <2>7. CASE ~r[k].triggered
        <3> DEFINE to == IF n >= at THEN n ELSE at
        <3>1. n >= at - 1
            BY <2>3, <2>4, <2>7
        <3>2. to \in 0..M /\ to >= at /\ \A i \in 1..to : i \in 1..n \/ i = at
            BY <2>4, <3>1, <1>2
        <3>3. /\ \A i \in 1..n : items[i] \in dropped \/ items[i] \in GotPosts(r[k])
              /\ \A p \in GotPosts(r[k]) : \E i \in 1..n : items[i] = p
            BY <2>3 DEF ReadTo
        <3>4. \A i \in 1..n : i \in 1..to
            BY <2>4, <3>1, <1>2
        <3>5. at \in 1..to
            BY <2>4, <3>2, <1>2
        <3> HIDE DEF to
        <3>6. \/ GotPosts(r[k + 1]) = GotPosts(r[k]) /\ (items[at] \in dropped \/ items[at] \in GotPosts(r[k]))
              \/ GotPosts(r[k + 1]) = GotPosts(r[k]) \cup {items[at]}
            <4>1. CASE read[k + 1] = NoItem /\ items[at] \in dropped
                BY <2>2, <4>1 DEF Take
            <4>2. CASE read[k + 1] \in Forms(kind, items[at])
                <5>1. r[k] \in Attempt /\ Collects(r[k]) /\ Differ(r[k]) /\ Counts(r[k])
                    BY <2>2 DEF Sound
                <5>2. Fits(r[k].got)
                    BY DEF Fits
                <5> HIDE DEF at
                <5>3. PICK p \in 1..Posts : p = items[at]
                    BY <2>5
                <5>4. read[k + 1] \in Forms(kind, p)
                    BY <4>2, <5>3
                <5> DEFINE t == Take(r[k], read[k + 1])
                <5>5. \/ t = r[k] /\ (r[k].triggered \/ ~Fits(r[k].got) \/ p \in GotPosts(r[k]))
                      \/ GotPosts(t) = GotPosts(r[k]) \cup {p}
                    BY <1>0, <2>2, <5>1, <5>4, TakeKeeps
                <5>6. t = r[k + 1]
                    BY <2>2
                <5> HIDE DEF t
                <5> QED
                    BY <2>7, <5>2, <5>3, <5>5, <5>6
            <4>3. pos + (k + 1) - 1 = at
                BY <2>4
            <4> HIDE DEF at
            <4> QED
                BY <2>1, <4>1, <4>2, <4>3
        <3> HIDE DEF at
        <3>7. ReadTo(items, to, dropped, r[k + 1])
            <4>1. ASSUME NEW i \in 1..to
                  PROVE  items[i] \in dropped \/ items[i] \in GotPosts(r[k + 1])
                BY <3>2, <3>3, <3>6
            <4>2. ASSUME NEW p \in GotPosts(r[k + 1])
                  PROVE  \E i \in 1..to : items[i] = p
                <5>1. CASE p \in GotPosts(r[k])
                    BY <3>3, <3>4, <5>1
                <5>2. CASE p = items[at]
                    BY <3>5, <5>2
                <5> QED
                    BY <3>6, <5>1, <5>2
            <4> QED
                BY <4>1, <4>2 DEF ReadTo
        <3>8. To(to, k + 1)
            BY <2>4, <3>2, <3>7
        <3> HIDE DEF To
        <3> QED
            BY <2>1, <3>2, <3>8
    <2> QED
        BY <2>6, <2>7
<1>6. \A k \in 0..N : k \in T
    <2> HIDE DEF T, N
    <2> QED
        BY <1>2, <1>4, <1>5, RangeInduction
<1>7. N \in T
    BY <1>2, <1>6
<1> QED
    BY <1>3, <1>7

-----------------------------------------------------------------------------
(* The rows of the target.  Every logical item has, among its aliases, all    *)
(* keys of one form of its item, so no other form of it can be new; and no    *)
(* alias or comment of another item.                                          *)

AliasRow == [key : Key, id : Nat]
AliasesOf(items) ==
    {row \in AliasRow : row.id \in 1..Len(items) /\ row.key[2] = items[row.id].key[2]}
OwnComments(items) == \A r \in 1..Len(items) : items[r].comment \in {0, items[r].key[2]}
HasKey(rows, key) == \E i \in 1..Len(rows) : rows[i].key = key
Stands(rows, p) == \E form \in Forms(kind, p) : \A key \in KeySet(form) : HasKey(rows, key)
ItemsStand(d) ==
    \A r \in 1..Len(d.items) : d.items[r].key[2] \in 1..Posts /\ Stands(d.aliases, d.items[r].key[2])
Apart(d) ==
    \A i, j \in 1..Len(d.items) : i # j => d.items[i].key[2] # d.items[j].key[2]
SoundRows ==
    {d \in TargetRows :
        /\ d.aliases \in Seq(AliasesOf(d.items)) /\ OwnComments(d.items)
        /\ ItemsStand(d) /\ Apart(d)}

\* An alias is added unless it is there; "P" is any set it belongs to.
LEMMA AliasAdded ==
    ASSUME NEW P, NEW rows \in Seq(P), NEW key, NEW id, [key |-> key, id |-> id] \in P
    PROVE  LET t == AddAlias(rows, key, id)
           IN  t \in Seq(P) /\ \A k : HasKey(t, k) <=> HasKey(rows, k) \/ k = key
<1> DEFINE row == [key |-> key, id |-> id]
           L == Len(rows)
<1>1. CASE HasKey(rows, key)
    BY <1>1 DEF AddAlias, HasKey
<1>2. CASE ~HasKey(rows, key)
    <2> DEFINE t == Append(rows, row)
    <2>1. AddAlias(rows, key, id) = t
        BY <1>2 DEF AddAlias, HasKey
    <2>2. row \in P /\ row.key = key
        OBVIOUS
    <2> HIDE DEF row
    <2>3. /\ t \in Seq(P) /\ Len(t) = L + 1 /\ L \in Nat
          /\ \A i \in 1..L : t[i] = rows[i]
          /\ t[L + 1] = row
        BY <2>2, AppendProperties, LenProperties
    <2> HIDE DEF t
    <2>4. HasKey(t, key)
        <3>1. L + 1 \in 1..Len(t)
            BY <2>3
        <3> QED
            BY <2>2, <2>3, <3>1 DEF HasKey
    <2>5. ASSUME NEW k, HasKey(rows, k) PROVE HasKey(t, k)
        <3>1. PICK i \in 1..L : rows[i].key = k
            BY <2>5 DEF HasKey
        <3>2. i \in 1..Len(t) /\ t[i].key = k
            BY <2>3, <3>1
        <3> QED
            BY <3>2 DEF HasKey
    <2>6. ASSUME NEW k, HasKey(t, k), k # key PROVE HasKey(rows, k)
        <3>1. PICK i \in 1..(L + 1) : t[i].key = k
            BY <2>3, <2>6 DEF HasKey
        <3>2. i \in 1..L
            BY <2>2, <2>3, <2>6, <3>1
        <3> QED
            BY <2>3, <3>1, <3>2 DEF HasKey
    <2> QED
        BY <2>1, <2>3, <2>4, <2>5, <2>6
<1> QED
    BY <1>1, <1>2

LEMMA AliasesAdded ==
    ASSUME NEW P, NEW rows \in Seq(P), NEW keys \in Seq(Key), NEW id,
           \A i \in 1..Len(keys) : [key |-> keys[i], id |-> id] \in P
    PROVE  LET t == AddAliases(rows, keys, id)
           IN  /\ t \in Seq(P)
               /\ \A k : HasKey(t, k) <=> HasKey(rows, k) \/ \E i \in 1..Len(keys) : keys[i] = k
<1> DEFINE A == Seq(P)
           N == Len(keys)
           E == {keys[i] : i \in 1..N}
<1>1. \A t \in A : \A key \in E : AddAlias(t, key, id) \in A
    <2> SUFFICES ASSUME NEW t \in A, NEW key \in E
                 PROVE  AddAlias(t, key, id) \in A
        BY Zenon
    <2>1. [key |-> key, id |-> id] \in P
        OBVIOUS
    <2> QED
        BY <2>1, AliasAdded
<1>2. N \in Nat /\ N \in 0..N /\ keys \in Seq(E)
    <2>1. N \in Nat /\ keys = [i \in 1..N |-> keys[i]]
        BY LenProperties
    <2>2. \A i \in 1..N : keys[i] \in E
        OBVIOUS
    <2> HIDE DEF E, N
    <2>3. [i \in 1..N |-> keys[i]] \in Seq(E)
        BY <2>1, <2>2
    <2> QED
        BY <2>1, <2>3
<1>3. PICK r : AliasRun(r, A, rows, keys, id)
    <2> HIDE DEF A, E
    <2>1. rows \in A
        BY DEF A
    <2> QED
        BY <1>1, <1>2, <2>1, AliasRuns
<1>5. /\ r[0] = rows /\ r[N] = AddAliases(rows, keys, id) /\ \A m \in 0..N : r[m] \in A
      /\ \A m \in 1..N : r[m] = AddAlias(r[m - 1], keys[m], id)
    <2> HIDE DEF A
    <2> QED
        BY <1>3 DEF AliasRun
<1> DEFINE Has(m) == \A k : HasKey(r[m], k) <=> HasKey(rows, k) \/ \E i \in 1..m : keys[i] = k
           T == {m \in 0..N : Has(m)}
<1>6. 0 \in T
    BY <1>2, <1>5
<1>7. ASSUME NEW m \in 0..(N - 1), m \in T
      PROVE  m + 1 \in T
    <2>1. m + 1 \in 1..N /\ m + 1 \in 0..N /\ m + 1 - 1 = m /\ m \in 0..N
        BY <1>2
    <2>2. r[m + 1] = AddAlias(r[m], keys[m + 1], id) /\ r[m] \in Seq(P)
        BY <1>5, <2>1
    <2>3. [key |-> keys[m + 1], id |-> id] \in P
        BY <2>1
    <2>4. \A k : HasKey(r[m + 1], k) <=> HasKey(r[m], k) \/ k = keys[m + 1]
        BY <2>2, <2>3, AliasAdded
    <2>5. \A i : i \in 1..(m + 1) <=> i \in 1..m \/ i = m + 1
        BY <1>2
    <2>6. Has(m)
        BY <1>7
    <2>7. Has(m + 1)
        BY <2>4, <2>5, <2>6
    <2> HIDE DEF N, Has
    <2> QED
        BY <2>1, <2>7
<1>8. \A m \in 0..N : m \in T
    <2> HIDE DEF T, N
    <2> QED
        BY <1>2, <1>6, <1>7, RangeInduction
<1>9. Has(N)
    BY <1>2, <1>8
<1> QED
    BY <1>2, <1>5, <1>9

LEMMA HistoryTyped ==
    ASSUME NEW history \in Seq(Key), NEW key \in Key
    PROVE  AddHistory(history, key) \in Seq(Key)
<1> DEFINE S == Seq(Key)
<1>1. \A rows \in S : \A k \in Key : Keep(rows, k, key) \in S
    BY AppendProperties DEF Keep
<1>2. <<>> \in S
    BY EmptySeq
<1>3. PICK r : KeepRun(r, S, history, key)
    <2> HIDE DEF S
    <2>1. history \in Seq(Key)
        OBVIOUS
    <2> QED
        BY <1>1, <1>2, <2>1, KeepRuns
<1>4. Without(history, key) \in Seq(Key)
    <2>1. Len(history) \in 0..Len(history)
        BY LenProperties
    <2> QED
        BY <1>3, <2>1 DEF KeepRun
<1> DEFINE kept == Append(Without(history, key), key)
           from == IF Len(kept) > HistoryLimit THEN Len(kept) - HistoryLimit + 1 ELSE 1
<1>5. kept \in Seq(Key) /\ Len(kept) \in Nat
    BY <1>4, AppendProperties, LenProperties
<1>6. AddHistory(history, key) = SubSeq(kept, from, Len(kept))
    BY DEF AddHistory
<1> HIDE DEF kept
<1>7. from \in Int /\ \A i \in from..Len(kept) : i \in 1..Len(kept)
    BY <1>5, BoundFacts
<1>8. \A i \in from..Len(kept) : kept[i] \in Key
    BY <1>5, <1>7, ElementOfSeq
<1> HIDE DEF from
<1> QED
    BY <1>5, <1>6, <1>7, <1>8, SubSeqProperties

\* An item that stands is found by any form of it.
LEMMA StandsKnown ==
    ASSUME kind \in Kinds, NEW p \in 1..Posts, NEW item \in Forms(kind, p), NEW d,
           Stands(d.aliases, p)
    PROVE  HitRows(d, item) # {}
<1>1. PICK form \in Forms(kind, p) : \A key \in KeySet(form) : HasKey(d.aliases, key)
    BY DEF Stands
<1>2. PICK key : key \in KeySet(form) /\ key \in KeySet(item)
    BY SameItem DEF Overlap
<1>3. PICK i \in 1..Len(d.aliases) : d.aliases[i].key = key
    BY <1>1, <1>2 DEF HasKey
<1> QED
    BY <1>2, <1>3 DEF HitRows

\* Whose an item is: nobody's as long as no row has one of its keys, so looking
\* for its comment id adds nothing.
LEMMA OwnerTyped ==
    ASSUME kind \in Kinds, NEW d \in SoundRows, NEW p \in 1..Posts, NEW item \in Forms(kind, p)
    PROVE  /\ OwnerId(d, item) \in 0..Len(d.items)
           /\ OwnerId(d, item) = 0 <=> HitRows(d, item) = {}
           /\ OwnerId(d, item) # 0 => d.items[OwnerId(d, item)].key[2] = p
<1>1. /\ Len(d.aliases) \in Nat /\ Len(d.items) \in Nat
      /\ d.aliases \in Seq(AliasesOf(d.items)) /\ OwnComments(d.items) /\ ItemsStand(d)
    BY LenProperties DEF TargetRows, SoundRows
<1>2. CASE HitRows(d, item) # {}
    <2> DEFINE i == Lowest(HitRows(d, item))
    <2>1. HitRows(d, item) \in SUBSET (1..Len(d.aliases))
        BY DEF HitRows
    <2>2. i \in HitRows(d, item) /\ i \in 1..Len(d.aliases)
        BY <1>1, <1>2, <2>1, LowestIn
    <2>3. OwnerId(d, item) = d.aliases[i].id
        BY <1>2 DEF OwnerId
    <2> HIDE DEF i
    <2>4. d.aliases[i] \in AliasesOf(d.items)
        BY <1>1, <2>2, ElementOfSeq
    <2>5. d.aliases[i].key \in KeySet(item)
        BY <2>2 DEF HitRows
    <2>6. d.aliases[i].key[2] = p
        BY <2>5, FormKeys
    <2>7. OwnerId(d, item) \in 1..Len(d.items) /\ d.items[OwnerId(d, item)].key[2] = p
        BY <2>3, <2>4, <2>6 DEF AliasesOf
    <2> QED
        BY <1>1, <1>2, <2>7
<1>3. CASE HitRows(d, item) = {}
    <2>1. SameComment(d, item) = {}
        <3> SUFFICES ASSUME NEW r \in 1..Len(d.items), item.comment # 0,
                            d.items[r].comment = item.comment
                     PROVE  FALSE
            BY DEF SameComment
        <3>1. d.items[r].key[2] = p
            BY <1>1, FormKeys DEF OwnComments
        <3>2. Stands(d.aliases, p)
            BY <1>1, <3>1 DEF ItemsStand
        <3> QED
            BY <1>3, <3>2, StandsKnown
    <2> QED
        BY <1>1, <1>3, <2>1 DEF OwnerId
<1> QED
    BY <1>2, <1>3

\* What the commit of one item does: its keys become aliases, and it goes into the
\* history when none of them was one and it is wanted.
LEMMA ClassifyKeeps ==
    ASSUME kind \in Kinds, NEW d \in SoundRows, NEW p \in 1..Posts, NEW item \in Forms(kind, p)
    PROVE  LET t == Classify(d, item)
           IN  /\ t \in SoundRows
               /\ \A k : HasKey(t.aliases, k) <=> HasKey(d.aliases, k) \/ k \in KeySet(item)
               /\ t.history = IF /\ HitRows(d, item) = {}
                                /\ Eligible(scan.config.keywords, TextOf[item.post])
                             THEN AddHistory(d.history, Primary(item)) ELSE d.history
<1> DEFINE hit == OwnerId(d, item)
           N == Len(d.items)
           id == IF hit = 0 THEN N + 1 ELSE hit
           row == [key |-> Primary(item), comment |-> item.comment]
           items == IF hit = 0 THEN Append(d.items, row)
                    ELSE [d.items EXCEPT ![id].comment = item.comment]
           M == Len(items)
           aliases == AddAliases(d.aliases, Keys(item), id)
           ItemRow == [key : Key, comment : 0..Posts]
<1>1. /\ item \in Item /\ item.post = p /\ Keys(item) \in Seq(Key) /\ Primary(item) \in KeySet(item)
      /\ Primary(item) \in Key /\ \A key \in KeySet(item) : key \in Key /\ key[2] = p
      /\ item.comment \in {0, p}
    BY FormKeys
<1>2. /\ d \in TargetRows /\ ItemsStand(d) /\ Apart(d) /\ OwnComments(d.items)
      /\ d.aliases \in Seq(AliasesOf(d.items)) /\ d.items \in Seq(ItemRow)
      /\ d.history \in Seq(Key) /\ d.latest \in Seq(Key)
    BY DEF SoundRows, TargetRows
<1>3. /\ hit \in 0..N /\ (hit = 0 <=> HitRows(d, item) = {}) /\ N \in Nat
      /\ hit # 0 => d.items[hit].key[2] = p
    BY <1>2, OwnerTyped, LenProperties
<1>4. row \in ItemRow /\ row.key = Primary(item) /\ row.comment = item.comment
    BY <1>1 DEF Item
<1> HIDE DEF hit, row
<1>5. /\ items \in Seq(ItemRow) /\ M \in Nat /\ id \in 1..M /\ N <= M
      /\ \A r \in 1..N : items[r].key = d.items[r].key
      /\ \A r \in 1..M : r \in 1..N \/ (r = M /\ hit = 0 /\ items[r].key = Primary(item))
      /\ \A r \in 1..M : IF r = id THEN items[r].comment = item.comment
                         ELSE r \in 1..N /\ items[r].comment = d.items[r].comment
      /\ items[id].key[2] = p
    <2>1. CASE hit = 0
        <3>1. items = Append(d.items, row) /\ id = N + 1
            BY <2>1
        <3>2. /\ Append(d.items, row) \in Seq(ItemRow) /\ Len(Append(d.items, row)) = N + 1
              /\ \A r \in 1..N : Append(d.items, row)[r] = d.items[r]
              /\ Append(d.items, row)[N + 1] = row
            BY <1>2, <1>4, AppendProperties
        <3>3. Primary(item)[2] = p
            BY <1>1
        <3> HIDE DEF items, id, ItemRow
        <3>4. \A r \in 1..M : r \in 1..N \/ r = id
            BY <1>3, <3>1, <3>2
        <3>5. items[id].key = Primary(item) /\ items[id].comment = item.comment /\ id = M
            BY <1>4, <3>1, <3>2
        <3>6. \A r \in 1..N : items[r] = d.items[r] /\ r # id
            BY <1>3, <3>1, <3>2
        <3>7. items \in Seq(ItemRow) /\ M \in Nat /\ id \in 1..M /\ N <= M
            BY <1>3, <3>1, <3>2
        <3> QED
            BY <2>1, <3>3, <3>4, <3>5, <3>6, <3>7
    <2>2. CASE hit # 0
        <3> DEFINE e == [d.items[id] EXCEPT !.comment = item.comment]
        <3>1. id = hit /\ id \in 1..N
            BY <1>3, <2>2
        <3>2. items = [d.items EXCEPT ![id] = e]
            BY <2>2
        <3>3. d.items[id] \in ItemRow
            BY <1>2, <3>1, ElementOfSeq
        <3>4. e \in ItemRow /\ e.key = d.items[id].key /\ e.comment = item.comment
            BY <1>1, <3>3 DEF Item
        <3> HIDE DEF e, items, id
        <3>5. /\ items \in Seq(ItemRow) /\ Len(items) = N
              /\ \A r \in 1..N : items[r] = IF r = id THEN e ELSE d.items[r]
            <4> HIDE DEF ItemRow
            <4> QED
                BY <1>2, <3>1, <3>2, <3>4, ExceptSeq
        <3>6. \A r \in 1..N : items[r].key = d.items[r].key
            BY <3>4, <3>5
        <3>7. \A r \in 1..N : IF r = id THEN items[r].comment = item.comment
                               ELSE items[r].comment = d.items[r].comment
            BY <3>4, <3>5
        <3>8. items[id].key[2] = p
            BY <1>3, <2>2, <3>1, <3>6
        <3> QED
            BY <1>3, <3>1, <3>5, <3>6, <3>7, <3>8
    <2> QED
        BY <2>1, <2>2
<1> HIDE DEF items, id
<1>6. d.aliases \in Seq(AliasesOf(items))
    <2>1. \A row1 \in AliasesOf(d.items) : row1 \in AliasesOf(items)
        BY <1>3, <1>5 DEF AliasesOf
    <2> QED
        BY <1>2, <2>1, SeqMonotonic
<1>7. /\ aliases \in Seq(AliasesOf(items))
      /\ \A k : HasKey(aliases, k) <=>
                 HasKey(d.aliases, k) \/ \E i \in 1..Len(Keys(item)) : Keys(item)[i] = k
    <2>1. KeySet(item) = {Keys(item)[i] : i \in 1..Len(Keys(item))}
        BY <1>1, LenProperties DEF KeySet, Range
    <2>2. ASSUME NEW i \in 1..Len(Keys(item))
          PROVE  [key |-> Keys(item)[i], id |-> id] \in AliasesOf(items)
        <3>1. Keys(item)[i] \in Key /\ Keys(item)[i][2] = p
            BY <1>1, <2>1
        <3>2. id \in Nat
            BY <1>5
        <3> QED
            BY <1>5, <3>1, <3>2 DEF AliasesOf, AliasRow
    <2> HIDE DEF aliases
    <2>3. aliases = AddAliases(d.aliases, Keys(item), id)
        BY DEF aliases
    <2>4. Keys(item) \in Seq(Key)
        BY <1>1
    <2> QED
        BY <1>6, <2>2, <2>3, <2>4, AliasesAdded
<1>8. \A k : HasKey(aliases, k) <=> HasKey(d.aliases, k) \/ k \in KeySet(item)
    <2>1. KeySet(item) = {Keys(item)[i] : i \in 1..Len(Keys(item))}
        BY <1>1, LenProperties DEF KeySet, Range
    <2> QED
        BY <1>7, <2>1
<1> HIDE DEF aliases
<1> DEFINE announced == HitRows(d, item) = {} /\ Eligible(scan.config.keywords, TextOf[item.post])
<1>9. PICK history \in Seq(Key) :
          /\ history = IF announced THEN AddHistory(d.history, Primary(item)) ELSE d.history
          /\ Classify(d, item) = [d EXCEPT !.items = items, !.aliases = aliases, !.history = history]
    <2>0. OwnerId(d, item) = 0 <=> HitRows(d, item) = {}
        BY <1>3 DEF hit
    <2> DEFINE marked == MarkSeen(d, item)
               history == IF announced THEN AddHistory(d.history, Primary(item)) ELSE d.history
    <2>1. marked = [d EXCEPT !.items = items, !.aliases = aliases]
        BY DEF MarkSeen, items, aliases, id, hit, row, AliasRows
    <2>2. marked.history = d.history
        BY <1>2, <2>1 DEF TargetRows
    <2>3. Classify(d, item) = [marked EXCEPT !.history = history]
        BY <2>0, <2>2 DEF Classify
    <2>4. history \in Seq(Key)
        BY <1>1, <1>2, HistoryTyped
    <2>6. history = IF announced THEN AddHistory(d.history, Primary(item)) ELSE d.history
        OBVIOUS
    <2> HIDE DEF marked, history, announced
    <2>5. [marked EXCEPT !.history = history]
              = [d EXCEPT !.items = items, !.aliases = aliases, !.history = history]
        BY <1>2, <2>1 DEF TargetRows
    <2> QED
        BY <2>3, <2>4, <2>5, <2>6
<1> DEFINE t == Classify(d, item)
<1>10. t \in TargetRows /\ t.items = items /\ t.aliases = aliases /\ t.history = history
    <2>1. aliases \in Seq([key : Key, id : Nat])
        <3>1. \A row1 \in AliasesOf(items) : row1 \in [key : Key, id : Nat]
            BY DEF AliasesOf, AliasRow
        <3> QED
            BY <1>7, <3>1, SeqMonotonic
    <2> HIDE DEF announced
    <2> QED
        BY <1>2, <1>5, <1>9, <2>1 DEF TargetRows
<1> HIDE DEF t, announced
<1>14. OwnComments(items)
    <2> SUFFICES ASSUME NEW r \in 1..M PROVE items[r].comment \in {0, items[r].key[2]}
        BY DEF OwnComments
    <2>1. CASE r = id
        BY <1>1, <1>5, <2>1
    <2>2. CASE r # id
        BY <1>2, <1>5, <2>2 DEF OwnComments
    <2> QED
        BY <2>1, <2>2
<1>11. ItemsStand(t)
    <2> SUFFICES ASSUME NEW r \in 1..M
                 PROVE  items[r].key[2] \in 1..Posts /\ Stands(aliases, items[r].key[2])
        BY <1>10 DEF ItemsStand
    <2>1. CASE r \in 1..N
        BY <1>2, <1>5, <1>8, <2>1 DEF ItemsStand, Stands
    <2>2. CASE items[r].key = Primary(item)
        <3>1. items[r].key[2] = p
            BY <1>1, <2>2
        <3> QED
            BY <1>8, <3>1 DEF Stands
    <2> QED
        BY <1>5, <2>1, <2>2
<1>12. ASSUME hit = 0, NEW r \in 1..N
       PROVE  d.items[r].key[2] # p
    <2> SUFFICES ASSUME d.items[r].key[2] = p PROVE FALSE
        OBVIOUS
    <2>1. Stands(d.aliases, p)
        BY <1>2 DEF ItemsStand
    <2> QED
        BY <1>3, <1>12, <2>1, StandsKnown
<1>13. Apart(t)
    <2> SUFFICES ASSUME NEW i \in 1..M, NEW j \in 1..M, i # j
                 PROVE  items[i].key[2] # items[j].key[2]
        BY <1>10 DEF Apart
    <2>1. CASE i \in 1..N /\ j \in 1..N
        BY <1>2, <1>5, <2>1 DEF Apart
    <2>2. CASE i \in 1..N /\ j \notin 1..N
        <3>1. hit = 0 /\ items[j].key[2] = p
            BY <1>1, <1>5, <2>2
        <3> QED
            BY <1>5, <1>12, <2>2, <3>1
    <2>3. CASE i \notin 1..N /\ j \in 1..N
        <3>1. hit = 0 /\ items[i].key[2] = p
            BY <1>1, <1>5, <2>3
        <3> QED
            BY <1>5, <1>12, <2>3, <3>1
    <2> QED
        BY <1>5, <2>1, <2>2, <2>3
<1> QED
    BY <1>7, <1>8, <1>9, <1>10, <1>11, <1>13, <1>14 DEF SoundRows, t, announced

\* What a commit is made of: forms, each of its own item.
Formed == {item \in Item : item \in Forms(kind, item.post)}

LEMMA CommitSound ==
    ASSUME kind \in Kinds, NEW d \in SoundRows, NEW items \in Seq(Formed)
    PROVE  ClassifyAll(d, items) \in SoundRows
<1>1. \A a \in SoundRows : \A item \in Formed : Classify(a, item) \in SoundRows
    <2> SUFFICES ASSUME NEW a \in SoundRows, NEW item \in Formed
                 PROVE  Classify(a, item) \in SoundRows
        OBVIOUS
    <2>1. item.post \in 1..Posts /\ item \in Forms(kind, item.post)
        BY DEF Formed, Item
    <2> QED
        BY <2>1, ClassifyKeeps
<1>2. PICK r : ClassifyRun(r, SoundRows, d, items)
    BY <1>1, ClassifyRuns
<1>3. Len(items) \in 0..Len(items)
    BY LenProperties
<1> QED
    BY <1>2, <1>3 DEF ClassifyRun

LEMMA InjectiveAppend ==
    ASSUME NEW rows \in Seq(Key), IsInjective(rows), NEW k \in Key, ~Contains(rows, k)
    PROVE  IsInjective(Append(rows, k))
<1> DEFINE t == Append(rows, k)
           N == Len(rows)
<1>1. /\ N \in Nat /\ t \in Seq(Key) /\ Len(t) = N + 1 /\ t[N + 1] = k
      /\ \A i \in 1..N : t[i] = rows[i]
    BY AppendProperties, LenProperties
<1> HIDE DEF t
<1>2. DOMAIN t = 1..(N + 1) /\ DOMAIN rows = 1..N
    BY <1>1, LenProperties
<1>3. \A i \in 1..N : rows[i] # k
    BY DEF Contains
<1> SUFFICES ASSUME NEW i \in 1..(N + 1), NEW j \in 1..(N + 1), t[i] = t[j]
             PROVE  i = j
    BY <1>2 DEF IsInjective, t
<1>4. CASE i \in 1..N /\ j \in 1..N
    BY <1>1, <1>2, <1>4 DEF IsInjective
<1>5. CASE i = N + 1 \/ j = N + 1
    BY <1>1, <1>3, <1>5
<1> QED
    BY <1>1, <1>4, <1>5

LEMMA CarriedOverDiffers ==
    ASSUME NEW latest \in Seq(Key), IsInjective(latest), NEW previous \in Seq(Key), NEW limit
    PROVE  CarriedOver(latest, previous, limit) \in Seq(Key)
           /\ IsInjective(CarriedOver(latest, previous, limit))
<1> DEFINE A == {rows \in Seq(Key) : IsInjective(rows)}
<1>1. \A rows \in A : \A k \in Key : Carry(rows, k, limit) \in A
    <2> SUFFICES ASSUME NEW rows \in A, NEW k \in Key
                 PROVE  Carry(rows, k, limit) \in A
        BY Zenon
    <2>1. rows \in Seq(Key) /\ IsInjective(rows)
        OBVIOUS
    <2>2. Append(rows, k) \in Seq(Key)
        BY <2>1, AppendProperties
    <2>3. ~Contains(rows, k) => IsInjective(Append(rows, k))
        BY <2>1, InjectiveAppend
    <2> QED
        BY <2>1, <2>2, <2>3 DEF Carry
<1>2. latest \in A
    OBVIOUS
<1>3. PICK r : CarryRun(r, A, latest, previous, limit)
    <2> HIDE DEF A
    <2> QED
        BY <1>1, <1>2, CarryRuns
<1>4. CarriedOver(latest, previous, limit) \in A
    <2>1. Len(previous) \in 0..Len(previous)
        BY LenProperties
    <2> HIDE DEF A
    <2> QED
        BY <1>3, <2>1 DEF CarryRun
<1> QED
    BY <1>4

\* The items of a commit are the first ones collected; they and their rows differ.
LEMMA CollectedFormed ==
    ASSUME TypeOK, Collects(scan), Differ(scan)
    PROVE  /\ Collected \in Seq(Formed)
           /\ Rows(Collected) \in Seq(Key) /\ IsInjective(Rows(Collected))
           /\ \A i, j \in 1..Len(Collected) : Collected[i].post = Collected[j].post => i = j
<1> DEFINE N == Len(scan.got)
           n == Last1(scan.config.target, N)
           c == Collected
<1>1. scan.got \in Seq(Item) /\ kind \in Kinds /\ scan.config \in Configs
    BY DEF TypeOK, Attempt
<1>2. N \in Nat /\ n \in 0..N
    <2>1. scan.config.target \in Nat
        BY <1>1, Bounds
    <2> QED
        BY <1>1, <2>1, LenProperties DEF Last1
<1>3. \A i \in 1..n : scan.got[i] \in Formed /\ i \in 1..N
    BY <1>1, <1>2, ElementOfSeq DEF Collects, Formed
<1>4. /\ c \in Seq(Formed) /\ Len(c) = n
      /\ \A i \in 1..n : c[i] = scan.got[i]
    <2>1. /\ SubSeq(scan.got, 1, n) \in Seq(Formed)
          /\ Len(SubSeq(scan.got, 1, n)) = IF 1 <= n THEN n - 1 + 1 ELSE 0
          /\ \A i \in 1..(n - 1 + 1) : SubSeq(scan.got, 1, n)[i] = scan.got[1 + i - 1]
        <3> HIDE DEF n
        <3> QED
            BY <1>2, <1>3, SubSeqProperties
    <2>2. c = SubSeq(scan.got, 1, n)
        BY DEF Collected
    <2> HIDE DEF n, c
    <2> QED
        BY <1>2, <2>1, <2>2
<1> HIDE DEF c, n
<1>5. \A i \in 1..n : Primary(c[i]) \in Key /\ Primary(c[i])[2] = scan.got[i].post
    <2> SUFFICES ASSUME NEW i \in 1..n
                 PROVE  Primary(c[i]) \in Key /\ Primary(c[i])[2] = scan.got[i].post
        OBVIOUS
    <2>1. c[i] = scan.got[i] /\ c[i] \in Item /\ c[i] \in Forms(kind, c[i].post) /\ c[i].post \in 1..Posts
        BY <1>3, <1>4 DEF Formed, Item
    <2> QED
        BY <1>1, <2>1, FormKeys
<1>6. Rows(c) = [i \in 1..n |-> Primary(c[i])]
    BY <1>4 DEF Rows
<1>7. Rows(c) \in Seq(Key)
    BY <1>2, <1>5, <1>6
<1>8. IsInjective(Rows(c))
    <2> SUFFICES ASSUME NEW i \in 1..n, NEW j \in 1..n, Primary(c[i]) = Primary(c[j])
                 PROVE  i = j
        BY <1>6 DEF IsInjective
    <2>1. scan.got[i].post = scan.got[j].post
        BY <1>5
    <2> QED
        BY <1>3, <2>1 DEF Differ
<1>9. \A i, j \in 1..n : c[i].post = c[j].post => i = j
    BY <1>3, <1>4 DEF Differ
<1> QED
    BY <1>4, <1>7, <1>8, <1>9 DEF c

LEMMA LatestDiffers ==
    ASSUME TypeOK, Collects(scan), Differ(scan)
    PROVE  LatestItems(Collected) \in Seq(Key) /\ IsInjective(LatestItems(Collected))
<1> DEFINE wanted == scan.config.target
           n == Last1(wanted, Len(db.latest))
           previous == SubSeq(db.latest, 1, n)
           limit == IF wanted > Len(Collected) THEN wanted ELSE Len(Collected)
<1>1. db.latest \in Seq(Key) /\ scan.config \in Configs
    BY DEF TypeOK, TargetRows, Attempt
<1>2. Len(db.latest) \in Nat /\ n \in 0..Len(db.latest)
    <2>1. wanted \in Nat
        BY <1>1, Bounds
    <2> QED
        BY <1>1, <2>1, LenProperties DEF Last1
<1>3. previous \in Seq(Key)
    <2> HIDE DEF n
    <2>1. \A i \in 1..n : db.latest[i] \in Key
        BY <1>1, <1>2, ElementOfSeq
    <2> QED
        BY <1>2, <2>1, SubSeqProperties
<1>4. Rows(Collected) \in Seq(Key) /\ IsInjective(Rows(Collected))
    BY CollectedFormed
<1>5. /\ CarriedOver(Rows(Collected), previous, limit) \in Seq(Key)
      /\ IsInjective(CarriedOver(Rows(Collected), previous, limit))
    <2> HIDE DEF previous, limit
    <2> QED
        BY <1>3, <1>4, CarriedOverDiffers
<1>6. LatestItems(Collected) \in {Rows(Collected), CarriedOver(Rows(Collected), previous, limit)}
    <2>1. CASE scan.stop = "seen_stop_consecutive_seen"
        BY <2>1 DEF LatestItems
    <2>2. CASE scan.stop # "seen_stop_consecutive_seen"
        BY <2>2 DEF LatestItems
    <2> QED
        BY <2>1, <2>2
<1> QED
    BY <1>4, <1>5, <1>6

-----------------------------------------------------------------------------
(* The page.                                                                   *)

Views == [order : Orders, control : Controls]

LEMMA ViewTyped ==
    ASSUME NEW view \in Views, NEW enabled, NEW o \in EnsurePreferred(view, enabled)
    PROVE  o.view \in Views
<1>1. \A v \in Views : Sorted(v) \in Views
    BY DEF Sorted, Views, Orders
<1>2. ASSUME NEW v \in Views, NEW a \in NativeAttempts(v)
      PROVE  a.view \in Views
    <2>1. a.view \in {v, Sorted(v)}
        BY DEF NativeAttempts, Outcome, Handed
    <2> QED
        BY <1>1, <2>1
<1>3. ASSUME NEW v \in Views, NEW a \in ScriptResults(v)
      PROVE  a.view \in Views
    <2>1. a.view \in {v, Sorted(v)}
        <3>1. CASE v.control = "foreign"
            BY <3>1 DEF ScriptResults, Outcome
        <3>2. CASE v.control = "hidden"
            BY <3>2 DEF ScriptResults, Outcome
        <3>3. CASE v.control = "shown" /\ CurrentLabel(v) = "newest"
            BY <3>3 DEF ScriptResults, Outcome
        <3>4. CASE v.control = "shown" /\ CurrentLabel(v) # "newest"
            BY <3>4 DEF ScriptResults, Outcome
        <3> QED
            BY <3>1, <3>2, <3>3, <3>4 DEF Views, Controls
    <2> QED
        BY <1>1, <2>1
<1>5. CASE ~enabled
    BY <1>5 DEF EnsurePreferred, Disabled, Outcome
<1>6. CASE enabled
    <2>1. o \in NativeAttempts(view) \/ \E p \in NativeAttempts(view) : o \in ScriptResults(p.view)
        BY <1>6 DEF EnsurePreferred
    <2> QED
        BY <1>2, <1>3, <2>1
<1> QED
    BY <1>5, <1>6

LEMMA FunctionIsSeq ==
    ASSUME NEW S, NEW n \in Nat, NEW f \in [1..n -> S]
    PROVE  f \in Seq(S)
<1>1. f = [i \in 1..n |-> f[i]] /\ \A i \in 1..n : f[i] \in S
    OBVIOUS
<1>2. [i \in 1..n |-> f[i]] \in Seq(S)
    BY <1>1
<1> QED
    BY <1>1, <1>2

LEMMA ListTyped ==
    ASSUME feed.born \in 1..Posts, NEW order, NEW list \in Listed(order)
    PROVE  list \in Seq(1..Posts) /\ IsInjective(list)
<1>1. feed.born \in Nat /\ 1..feed.born \subseteq 1..Posts
    BY BoundFacts
<1>2. list \in [1..feed.born -> 1..feed.born]
    BY DEF Listed
<1>3. list \in Seq(1..Posts)
    <2>1. list \in [1..feed.born -> 1..Posts]
        BY <1>1, <1>2
    <2> QED
        BY <1>1, <2>1, FunctionIsSeq
<1>4. \A p \in Nat : ~Before(order, p, p)
    BY DEF Before
<1>5. IsInjective(list)
    <2> SUFFICES ASSUME NEW i \in 1..feed.born, NEW j \in 1..feed.born, list[i] = list[j], i # j
                 PROVE  FALSE
        BY <1>2 DEF IsInjective
    <2>1. list[i] \in Nat
        BY <1>1, <1>2
    <2>2. CASE i < j
        BY <1>4, <2>1, <2>2 DEF Listed
    <2>3. CASE j < i
        BY <1>4, <2>1, <2>3 DEF Listed
    <2> QED
        BY <1>1, <2>2, <2>3
<1> QED
    BY <1>3, <1>5

\* What the page shows is a part of its list, read from where it is.
LEMMA ShownPart ==
    ASSUME TypeOK, page.pos >= 1
    PROVE  /\ Shown \in Seq(1..Posts) /\ Len(Shown) \in Nat
           /\ Len(Shown) <= Window
           /\ page.pos <= Len(page.items) + 1 => page.pos + Len(Shown) - 1 <= Len(page.items)
           /\ \A i \in 1..Len(Shown) :
                  page.pos + i - 1 \in 1..Len(page.items) /\ Shown[i] = page.items[page.pos + i - 1]
           /\ page.pos <= Len(page.items) =>
                  \/ Len(Shown) = Window \/ page.pos + Len(Shown) - 1 = Len(page.items)
<1>0. PICK items, pos : items = page.items /\ pos = page.pos
    OBVIOUS
<1> DEFINE L == Len(items)
           last == Last1(pos + Window - 1, L)
           n == Len(Shown)
<1>1. items \in Seq(1..Posts) /\ pos \in Nat /\ pos >= 1
    BY <1>0 DEF TypeOK, Page
<1>2. L \in Nat
    BY <1>1, LenProperties
<1>3. last \in Int /\ (last = L \/ last = pos + Window - 1) /\ last <= L /\ last <= pos + Window - 1
    BY <1>1, <1>2, BoundFacts DEF Last1
<1>4. Shown = SubSeq(items, pos, last)
    BY <1>0 DEF Shown
<1> HIDE DEF last, L
<1>5. \A i \in pos..last : i \in 1..L
    BY <1>1, <1>2, <1>3
<1>6. \A i \in pos..last : items[i] \in 1..Posts
    BY <1>1, <1>5, ElementOfSeq DEF L
<1>7. /\ Shown \in Seq(1..Posts)
      /\ n = IF pos <= last THEN last - pos + 1 ELSE 0
      /\ \A i \in 1..(last - pos + 1) : Shown[i] = items[pos + i - 1]
    BY <1>1, <1>3, <1>4, <1>6, SubSeqProperties
<1> HIDE DEF n
<1>8. n \in Nat /\ n <= Window
    BY <1>1, <1>2, <1>3, <1>7, BoundFacts
<1>9. pos <= L + 1 => pos + n - 1 <= L
    BY <1>1, <1>2, <1>3, <1>7
<1>10. ASSUME NEW i \in 1..n
       PROVE  pos + i - 1 \in 1..L /\ Shown[i] = items[pos + i - 1]
    <2>1. n = last - pos + 1 /\ i \in 1..(last - pos + 1)
        BY <1>1, <1>3, <1>7
    <2>2. pos + i - 1 \in 1..L
        BY <1>1, <1>2, <1>3, <2>1
    <2> QED
        BY <1>7, <2>1, <2>2
<1>11. pos <= L => n = Window \/ pos + n - 1 = L
    <2>1. CASE last = L
        BY <1>1, <1>2, <1>7, <2>1
    <2>2. CASE last = pos + Window - 1 /\ last # L
        BY <1>1, <1>2, <1>3, <1>7, <2>2, BoundFacts
    <2> QED
        BY <1>3, <2>1, <2>2
<1> QED
    BY <1>0, <1>7, <1>8, <1>9, <1>10, <1>11 DEF n, L

-----------------------------------------------------------------------------
(* The invariant. *)

Unread ==
    scan.phase \in {"idle", "opened", "sorted", "skipped"} =>
        /\ scan.got = <<>> /\ scan.known = {} /\ scan.streak = 0 /\ ~scan.triggered
        /\ page.pos = 1
ReadOK ==
    kind = "posts" /\ scan.phase \in {"collecting", "collected"} =>
        \E n \in 0..Len(page.items) :
            /\ ReadTo(page.items, n, scan.dropped, scan)
            /\ scan.phase = "collecting" => page.pos <= n + 1
PageOK == IsInjective(page.items) /\ page.pos >= 1 /\ Unread /\ ReadOK
ScanOK == Collects(scan) /\ Differ(scan) /\ Counts(scan)
RowsOK ==
    /\ db.aliases \in Seq(AliasesOf(db.items)) /\ OwnComments(db.items)
    /\ ItemsStand(db) /\ Apart(db) /\ IsInjective(db.latest)

IInv == TypeOK /\ PageOK /\ ScanOK /\ RowsOK

\* Nothing is read and nothing is stored.
LEMMA EmptyAttempt ==
    ASSUME NEW s, s.got = <<>>, s.known = {}, s.streak = 0, ~s.triggered
    PROVE  Collects(s) /\ Differ(s) /\ Counts(s) /\ GotPosts(s) = {}
<1>1. Len(s.got) = 0
    BY EmptySeq
<1>2. Cardinality(s.known) = 0
    BY FS_EmptySet
<1> QED
    BY <1>1, <1>2 DEF Collects, Differ, Counts, GotPosts

LEMMA BlankTyped ==
    ASSUME Configs # {}
    PROVE  /\ Blank0 \in Attempt /\ NoPage \in Page /\ IsInjective(NoPage.items)
           /\ Blank0.phase = "idle" /\ Blank0.got = <<>> /\ Blank0.known = {} /\ Blank0.streak = 0
           /\ ~Blank0.triggered /\ NoPage.pos = 1
<1>1. (CHOOSE c \in Configs : TRUE) \in Configs
    OBVIOUS
<1>2. <<>> \in Seq(Item) /\ <<>> \in Seq(1..Posts)
    BY EmptySeq
<1>3. Blank0 \in Attempt
    BY <1>1, <1>2 DEF Blank0, Attempt, Phases, Stops
<1>4. NoPage \in Page
    BY <1>2 DEF NoPage, Page, Orders, Controls
<1>5. DOMAIN <<>> = {}
    OBVIOUS
<1>6. IsInjective(NoPage.items)
    BY <1>5 DEF NoPage, IsInjective
<1> QED
    BY <1>3, <1>4, <1>6 DEF Blank0, NoPage

LEMMA InitIInv == Init => IInv
<1> SUFFICES ASSUME Init PROVE IInv
    OBVIOUS
<1>1. scan = Blank0 /\ page = NoPage /\ Configs # {}
    BY DEF Init
<1>2. Len(db.aliases) = 0 /\ Len(db.items) = 0 /\ db.latest = <<>>
    BY EmptySeq DEF Init
<1>3. TypeOK
    <2>1. feed \in [born : 1..Posts, pins : SUBSET (1..Posts)]
        BY BoundFacts DEF Init
    <2>2. db \in TargetRows
        BY EmptySeq DEF Init, TargetRows
    <2>3. kind \in Kinds /\ config \in Configs /\ scans \in 0..MaxScans /\ events \in 0..MaxEvents
        BY BoundFacts DEF Init
    <2> QED
        BY <1>1, <1>2, <2>1, <2>2, <2>3, BlankTyped DEF TypeOK
<1>4. ScanOK
    BY <1>1, BlankTyped, EmptyAttempt DEF ScanOK
<1>5. PageOK
    BY <1>1, BlankTyped DEF PageOK, Unread, ReadOK
<1>6. RowsOK
    <2>1. DOMAIN <<>> = {}
        OBVIOUS
    <2> QED
        BY <1>2, <2>1, EmptySeq DEF Init, RowsOK, OwnComments, ItemsStand, Apart, IsInjective
<1> QED
    BY <1>3, <1>4, <1>5, <1>6 DEF IInv

-----------------------------------------------------------------------------
(* Every step preserves it. *)

LEMMA SameScan == IInv /\ kind' = kind /\ scan' = scan => ScanOK'
<1> SUFFICES ASSUME IInv, kind' = kind, scan' = scan PROVE ScanOK'
    OBVIOUS
<1> QED
    BY DEF IInv, ScanOK, Collects, Differ, Counts, GotPosts

LEMMA SamePage == IInv /\ kind' = kind /\ scan' = scan /\ page' = page => PageOK'
<1> SUFFICES ASSUME IInv, kind' = kind, scan' = scan, page' = page PROVE PageOK'
    OBVIOUS
<1> QED
    BY DEF IInv, PageOK, Unread, ReadOK

LEMMA SameRows == IInv /\ kind' = kind /\ db' = db => RowsOK'
<1> SUFFICES ASSUME IInv, kind' = kind, db' = db PROVE RowsOK'
    OBVIOUS
<1> QED
    BY DEF IInv, RowsOK, ItemsStand, Stands, Apart

LEMMA Ended ==
    ASSUME IInv, EndAttempt, kind' = kind
    PROVE  ScanOK' /\ PageOK' /\ scan' \in Attempt /\ page' \in Page
<1>1. Configs # {}
    BY DEF IInv, TypeOK
<1>2. scan' = Blank0 /\ page' = NoPage
    BY DEF EndAttempt
<1>3. Collects(scan)' /\ Differ(scan)' /\ Counts(scan)'
    <2>1. scan'.got = <<>> /\ scan'.known = {} /\ scan'.streak = 0 /\ ~scan'.triggered
        BY <1>1, <1>2, BlankTyped
    <2>2. Len(scan'.got) = 0 /\ Cardinality(scan'.known) = 0
        BY <2>1, EmptySeq, FS_EmptySet
    <2> QED
        BY <2>1, <2>2 DEF Collects, Differ, Counts
<1>4. PageOK'
    <2>1. scan'.phase = "idle" /\ scan'.got = <<>> /\ scan'.known = {} /\ scan'.streak = 0
          /\ ~scan'.triggered /\ page'.pos = 1 /\ IsInjective(page'.items)
        BY <1>1, <1>2, BlankTyped
    <2> QED
        BY <2>1 DEF PageOK, Unread, ReadOK
<1> QED
    BY <1>1, <1>2, <1>3, <1>4, BlankTyped DEF ScanOK

LEMMA ArriveKeeps == IInv /\ Arrive => IInv'
<1> SUFFICES ASSUME IInv, Arrive PROVE IInv'
    OBVIOUS
<1>1. feed' \in [born : 1..Posts, pins : SUBSET (1..Posts)]
    BY BoundFacts DEF IInv, TypeOK, Arrive
<1>2. UNCHANGED <<kind, config, page, scan, db, scans, events>>
    BY DEF Arrive
<1>3. TypeOK'
    BY <1>1, <1>2 DEF IInv, TypeOK
<1> QED
    BY <1>2, <1>3, SameScan, SamePage, SameRows DEF IInv

LEMMA PinKeeps == ASSUME NEW p \in 1..Posts PROVE IInv /\ Pin(p) => IInv'
<1> SUFFICES ASSUME IInv, Pin(p) PROVE IInv'
    OBVIOUS
<1>1. feed' \in [born : 1..Posts, pins : SUBSET (1..Posts)]
    BY DEF IInv, TypeOK, Pin
<1>2. UNCHANGED <<kind, config, page, scan, db, scans, events>>
    BY DEF Pin
<1>3. TypeOK'
    BY <1>1, <1>2 DEF IInv, TypeOK
<1> QED
    BY <1>2, <1>3, SameScan, SamePage, SameRows DEF IInv

LEMMA EventTyped == IInv /\ Event => events' \in 0..MaxEvents
    BY BoundFacts DEF IInv, TypeOK, Event

LEMMA SetConfigKeeps == ASSUME NEW c \in Configs PROVE IInv /\ SetConfig(c) => IInv'
<1> SUFFICES ASSUME IInv, SetConfig(c) PROVE IInv'
    OBVIOUS
<1>1. config' \in Configs /\ UNCHANGED <<kind, feed, page, scan, db, scans>>
    BY DEF SetConfig
<1>2. events' \in 0..MaxEvents
    BY EventTyped DEF SetConfig
<1>3. TypeOK'
    BY <1>1, <1>2 DEF IInv, TypeOK
<1> QED
    BY <1>1, <1>3, SameScan, SamePage, SameRows DEF IInv

LEMMA ResetSeenKeeps == IInv /\ ResetSeen => IInv'
<1> SUFFICES ASSUME IInv, ResetSeen PROVE IInv'
    OBVIOUS
<1>1. UNCHANGED <<kind, feed, config, page, scan, scans>>
    BY DEF ResetSeen
<1>2. events' \in 0..MaxEvents
    BY EventTyped DEF ResetSeen
<1>3. /\ db' \in TargetRows /\ db'.aliases = <<>> /\ db'.items = <<>> /\ db'.latest = db.latest
    BY EmptySeq DEF IInv, TypeOK, ResetSeen, TargetRows
<1>4. Len(db'.aliases) = 0 /\ Len(db'.items) = 0
    BY <1>3, EmptySeq
<1>5. TypeOK'
    BY <1>1, <1>2, <1>3, <1>4 DEF IInv, TypeOK
<1>6. RowsOK'
    BY <1>3, <1>4, EmptySeq DEF IInv, RowsOK, OwnComments, ItemsStand, Apart
<1> QED
    BY <1>1, <1>5, <1>6, SameScan, SamePage DEF IInv

LEMMA OpenPageKeeps ==
    ASSUME NEW order \in Orders, NEW control \in Controls
    PROVE  IInv /\ OpenPage(order, control) => IInv'
<1> SUFFICES ASSUME IInv, OpenPage(order, control) PROVE IInv'
    OBVIOUS
<1>1. UNCHANGED <<kind, feed, config, db, events>> /\ scans' = scans + 1 /\ scans < MaxScans
    BY DEF OpenPage
<1>2. PICK list \in Listed(order) :
          page' = [view |-> [order |-> order, control |-> control],
                   items |-> list, pos |-> 1, saved |-> 0]
    BY DEF OpenPage
<1>3. list \in Seq(1..Posts) /\ IsInjective(list)
    BY ListTyped DEF IInv, TypeOK
<1>4. page' \in Page /\ page'.items = list /\ page'.pos = 1
    BY <1>2, <1>3 DEF Page
<1>5. config \in Configs
    BY DEF IInv, TypeOK
<1>6. /\ scan' \in Attempt /\ scan'.phase = "opened" /\ scan'.got = <<>> /\ scan'.known = {}
      /\ scan'.streak = 0 /\ ~scan'.triggered
    <2>1. scan' = [Blank0 EXCEPT !.phase = "opened", !.config = config]
        BY DEF OpenPage
    <2>2. Blank0 \in Attempt /\ Blank0.got = <<>> /\ Blank0.known = {} /\ Blank0.streak = 0
          /\ ~Blank0.triggered
        BY <1>5, BlankTyped
    <2> HIDE DEF Blank0
    <2> QED
        BY <1>5, <2>1, <2>2 DEF Attempt, Phases
<1>7. scans' \in 0..MaxScans
    BY <1>1, BoundFacts DEF IInv, TypeOK
<1>8. TypeOK'
    BY <1>1, <1>4, <1>6, <1>7 DEF IInv, TypeOK
<1>9. ScanOK'
    <2>1. Len(scan'.got) = 0 /\ Cardinality(scan'.known) = 0
        BY <1>6, EmptySeq, FS_EmptySet
    <2> QED
        BY <1>6, <2>1 DEF ScanOK, Collects, Differ, Counts
<1>10. PageOK'
    BY <1>3, <1>4, <1>6 DEF PageOK, Unread, ReadOK
<1>11. RowsOK'
    BY <1>1, SameRows
<1> QED
    BY <1>8, <1>9, <1>10, <1>11 DEF IInv


LEMMA AdjustSortKeeps ==
    ASSUME NEW o \in EnsurePreferred(page.view, scan.config.sort)
    PROVE  IInv /\ AdjustSort(o) => IInv'
<1> SUFFICES ASSUME IInv, AdjustSort(o) PROVE IInv'
    OBVIOUS
<1>1. UNCHANGED <<kind, feed, config, db, scans, events>> /\ scan.phase = "opened"
    BY DEF AdjustSort
<1>2. page \in Page /\ scan \in Attempt
    BY DEF IInv, TypeOK
<1>3. o.view \in Views
    BY <1>2, ViewTyped DEF Page, Views
<1>4. PICK list : /\ list = page.items \/ list \in Listed(o.view.order)
                  /\ page' = [page EXCEPT !.view = o.view, !.items = list]
    BY DEF AdjustSort
<1>5. list \in Seq(1..Posts) /\ IsInjective(list)
    <2>1. CASE list = page.items
        BY <1>2, <2>1 DEF IInv, PageOK, Page
    <2>2. CASE list \in Listed(o.view.order)
        BY <2>2, ListTyped DEF IInv, TypeOK
    <2> QED
        BY <1>4, <2>1, <2>2
<1>6. page' \in Page /\ page'.items = list /\ page'.pos = page.pos
    <2> HIDE DEF Page
    <2>1. o.view \in [order : Orders, control : Controls]
        BY <1>3 DEF Views
    <2> QED
        BY <1>2, <1>4, <1>5, <2>1 DEF Page
<1>7. PICK trusted \in BOOLEAN, phase \in {"skipped", "sorted"} :
          scan' = [scan EXCEPT !.trusted = trusted, !.phase = phase]
    <2>1. Trusted(o.result) \in BOOLEAN
        BY DEF Trusted, ControlAbsent
    <2> DEFINE phase == IF SkipsScan(kind, scan.config.sort, o.result) THEN "skipped" ELSE "sorted"
    <2>2. phase \in {"skipped", "sorted"}
        OBVIOUS
    <2>3. scan' = [scan EXCEPT !.trusted = Trusted(o.result), !.phase = phase]
        BY DEF AdjustSort
    <2> HIDE DEF phase
    <2> QED
        BY <2>1, <2>2, <2>3
<1>8. /\ scan' \in Attempt /\ scan'.phase = phase /\ scan'.got = scan.got
      /\ scan'.known = scan.known /\ scan'.streak = scan.streak /\ scan'.triggered = scan.triggered
    BY <1>2, <1>7 DEF Attempt, Phases
<1>9. TypeOK'
    BY <1>1, <1>6, <1>8 DEF IInv, TypeOK
<1>10. ScanOK'
    BY <1>1, <1>8 DEF IInv, ScanOK, Collects, Differ, Counts, GotPosts
<1>11. PageOK'
    BY <1>1, <1>5, <1>6, <1>8 DEF IInv, PageOK, Unread, ReadOK
<1>12. RowsOK'
    BY <1>1, SameRows
<1> QED
    BY <1>9, <1>10, <1>11, <1>12 DEF IInv

LEMMA StartCollectionKeeps == IInv /\ StartCollection => IInv'
<1> SUFFICES ASSUME IInv, StartCollection PROVE IInv'
    OBVIOUS
<1>1. UNCHANGED <<kind, feed, config, db, scans, events>> /\ scan.phase = "sorted"
    BY DEF StartCollection
<1>2. page \in Page /\ scan \in Attempt /\ scan.config \in Configs
    BY DEF IInv, TypeOK, Attempt
<1>3. /\ scan' \in Attempt /\ scan'.phase = "collecting" /\ scan'.got = scan.got
      /\ scan'.known = scan.known /\ scan'.streak = scan.streak /\ scan'.triggered = scan.triggered
      /\ scan'.dropped = scan.dropped
    BY <1>2 DEF StartCollection, Attempt, Phases
<1>4. page' \in Page /\ page'.items = page.items /\ page'.pos = page.pos
    <2>1. page' = [page EXCEPT !.saved = IF Rounds(scan.config) > 0 THEN page.pos ELSE 0]
        BY DEF StartCollection
    <2>2. (IF Rounds(scan.config) > 0 THEN page.pos ELSE 0) \in Nat
        BY <1>2 DEF Page
    <2> QED
        BY <1>2, <2>1, <2>2 DEF Page
<1>5. /\ scan.got = <<>> /\ scan.known = {} /\ scan.streak = 0 /\ ~scan.triggered
      /\ page.pos = 1 /\ IsInjective(page.items)
    BY <1>1 DEF IInv, PageOK, Unread
<1>6. TypeOK'
    BY <1>1, <1>3, <1>4 DEF IInv, TypeOK
<1>7. ScanOK'
    BY <1>1, <1>3 DEF IInv, ScanOK, Collects, Differ, Counts, GotPosts
<1>8. ReadTo(page'.items, 0, scan'.dropped, scan') /\ 0 \in 0..Len(page'.items)
    <2>1. Len(scan'.got) = 0
        BY <1>3, <1>5, EmptySeq
    <2>2. Len(page'.items) \in Nat
        BY <1>4, LenProperties DEF Page
    <2> QED
        BY <2>1, <2>2 DEF ReadTo, GotPosts
<1>9. PageOK'
    <2>1. ReadOK'
        BY <1>4, <1>5, <1>8 DEF ReadOK
    <2>2. Unread' /\ IsInjective(page.items)' /\ (page.pos >= 1)'
        BY <1>3, <1>4, <1>5 DEF Unread
    <2> QED
        BY <2>1, <2>2 DEF PageOK
<1>10. RowsOK'
    BY <1>1, SameRows
<1> QED
    BY <1>6, <1>7, <1>9, <1>10 DEF IInv

LEMMA PageFailsKeeps == IInv /\ PageFails => IInv'
<1> SUFFICES ASSUME IInv, PageFails PROVE IInv'
    OBVIOUS
<1>1. UNCHANGED <<kind, feed, config, db, scans>>
    BY DEF PageFails
<1>2. page \in Page /\ scan \in Attempt
    BY DEF IInv, TypeOK
<1>3. events' \in 0..MaxEvents
    BY EventTyped DEF PageFails
<1>4. /\ scan' \in Attempt /\ scan'.phase = "failed" /\ scan'.got = scan.got
      /\ scan'.known = scan.known /\ scan'.streak = scan.streak /\ scan'.triggered = scan.triggered
    BY <1>2 DEF PageFails, Attempt, Phases
<1>5. page' \in Page /\ page'.items = page.items /\ page'.pos >= 1
    <2> DEFINE pos == IF page.saved > 0 THEN page.saved ELSE page.pos
    <2>1. page' = [page EXCEPT !.pos = pos, !.saved = 0]
        BY DEF PageFails
    <2>2. pos \in Nat /\ pos >= 1
        BY <1>2 DEF IInv, PageOK, Page
    <2> HIDE DEF pos
    <2> QED
        BY <1>2, <2>1, <2>2 DEF Page
<1>6. TypeOK'
    BY <1>1, <1>3, <1>4, <1>5 DEF IInv, TypeOK
<1>7. ScanOK'
    BY <1>1, <1>4 DEF IInv, ScanOK, Collects, Differ, Counts, GotPosts
<1>8. PageOK'
    BY <1>4, <1>5 DEF IInv, PageOK, Unread, ReadOK
<1>9. RowsOK'
    BY <1>1, SameRows
<1> QED
    BY <1>6, <1>7, <1>8, <1>9 DEF IInv

LEMMA CommitKeeps == IInv /\ Commit => IInv'
<1> SUFFICES ASSUME IInv, Commit PROVE IInv'
    OBVIOUS
<1>1. UNCHANGED <<kind, feed, config, scans, events>> /\ EndAttempt
    BY DEF Commit
<1>2. kind \in Kinds /\ db \in TargetRows /\ Collects(scan) /\ Differ(scan) /\ TypeOK
    BY DEF IInv, TypeOK, ScanOK
<1>3. db \in SoundRows
    BY <1>2 DEF IInv, RowsOK, SoundRows
<1> DEFINE d == ClassifyAll(db, Collected)
           latest == LatestItems(Collected)
<1>4. d \in SoundRows /\ latest \in Seq(Key) /\ IsInjective(latest)
    BY <1>2, <1>3, CollectedFormed, CommitSound, LatestDiffers
<1>5. db' = [d EXCEPT !.latest = latest]
    BY DEF Commit
<1> HIDE DEF d, latest
<1>6. /\ d \in TargetRows /\ ItemsStand(d) /\ Apart(d)
      /\ d.aliases \in Seq(AliasesOf(d.items)) /\ OwnComments(d.items)
    BY <1>4 DEF SoundRows
<1>7. db' \in TargetRows /\ db'.latest = latest /\ db'.items = d.items /\ db'.aliases = d.aliases
    BY <1>4, <1>5, <1>6 DEF TargetRows
<1>8. TypeOK'
    <2>1. scan' \in Attempt /\ page' \in Page
        BY <1>1, Ended
    <2>2. \A i \in 1..Len(db'.aliases) : db'.aliases[i].id \in 1..Len(db'.items)
        <3>1. \A i \in 1..Len(d.aliases) : d.aliases[i] \in AliasesOf(d.items)
            BY <1>6, ElementOfSeq
        <3> QED
            BY <1>7, <3>1 DEF AliasesOf
    <2> QED
        BY <1>1, <1>7, <2>1, <2>2 DEF IInv, TypeOK
<1>9. RowsOK'
    BY <1>1, <1>4, <1>6, <1>7 DEF RowsOK, ItemsStand, Stands, Apart
<1> QED
    BY <1>1, <1>8, <1>9, Ended DEF IInv

LEMMA CommitSkipKeeps == IInv /\ CommitSkip => IInv'
<1> SUFFICES ASSUME IInv, CommitSkip PROVE IInv'
    OBVIOUS
<1>1. UNCHANGED <<kind, feed, config, scans, events>> /\ EndAttempt
    BY DEF CommitSkip
<1>2. db' \in TargetRows /\ db'.latest = <<>> /\ db'.items = db.items /\ db'.aliases = db.aliases
    BY EmptySeq DEF CommitSkip, IInv, TypeOK, TargetRows
<1>3. TypeOK'
    <2>1. scan' \in Attempt /\ page' \in Page
        BY <1>1, Ended
    <2> QED
        BY <1>1, <1>2, <2>1 DEF IInv, TypeOK
<1>4. RowsOK'
    <2>1. DOMAIN <<>> = {}
        OBVIOUS
    <2>2. IsInjective(db.latest)'
        BY <1>2, <2>1 DEF IsInjective
    <2> QED
        BY <1>1, <1>2, <2>2 DEF IInv, RowsOK, ItemsStand, Stands, Apart
<1> QED
    BY <1>1, <1>3, <1>4, Ended DEF IInv

LEMMA GiveUpKeeps == IInv /\ GiveUp => IInv'
<1> SUFFICES ASSUME IInv, GiveUp PROVE IInv'
    OBVIOUS
<1>1. UNCHANGED <<kind, feed, config, db, scans, events>> /\ EndAttempt
    BY DEF GiveUp
<1>2. scan' \in Attempt /\ page' \in Page
    BY <1>1, Ended
<1>3. TypeOK'
    BY <1>1, <1>2 DEF IInv, TypeOK
<1> QED
    BY <1>1, <1>3, SameRows, Ended DEF IInv

LEMMA RefusedKeeps == IInv /\ Refused => IInv'
<1> SUFFICES ASSUME IInv, Refused PROVE IInv'
    OBVIOUS
<1>1. UNCHANGED <<kind, feed, config, db, scans>> /\ EndAttempt
    BY DEF Refused
<1>2. events' \in 0..MaxEvents
    BY EventTyped DEF Refused
<1>3. scan' \in Attempt /\ page' \in Page
    BY <1>1, Ended
<1>4. TypeOK'
    BY <1>1, <1>2, <1>3 DEF IInv, TypeOK
<1> QED
    BY <1>1, <1>4, SameRows, Ended DEF IInv

\* What a window is read as: elements, each without an item or with a form of the
\* post shown there.
LEMMA WindowElements ==
    ASSUME kind \in Kinds, NEW shown \in Seq(1..Posts), NEW looks,
           \A i \in 1..Len(shown) : looks[i] \in LooksOf[kind][shown[i]], NEW read,
           read = [i \in 1..Len(shown) |-> Read(kind, looks[i])]
    PROVE  /\ read \in Seq(Elements) /\ Len(read) = Len(shown)
           /\ \A i \in 1..Len(shown) : read[i] = NoItem \/ read[i] \in Forms(kind, shown[i])
<1>1. Len(shown) \in Nat /\ \A i \in 1..Len(shown) : shown[i] \in 1..Posts
    BY LenProperties, ElementOfSeq
<1>2. ASSUME NEW i \in 1..Len(shown)
      PROVE  read[i] = NoItem \/ read[i] \in Forms(kind, shown[i])
    BY DEF Forms
<1>3. \A i \in 1..Len(shown) : read[i] \in Elements
    BY <1>1, <1>2 DEF Elements
<1> DEFINE n == Len(shown)
<1>4. read \in [1..n -> Elements]
    <2> HIDE DEF n
    <2>1. read = [i \in 1..n |-> read[i]]
        BY DEF n
    <2> QED
        BY <1>3, <2>1 DEF n
<1>5. read \in Seq(Elements)
    <2> HIDE DEF n
    <2>1. n \in Nat
        BY <1>1 DEF n
    <2> QED
        BY <1>4, <2>1, FunctionIsSeq
<1>6. Len(read) = n
    <2>1. DOMAIN read = 1..n /\ n \in Nat
        BY <1>1
    <2> HIDE DEF n
    <2>2. DOMAIN read = 1..Len(read) /\ Len(read) \in Nat
        BY <1>5, LenProperties
    <2> QED
        BY <2>1, <2>2
<1> QED
    BY <1>2, <1>5, <1>6

LEMMA RoundKeeps ==
    ASSUME NEW looks, NEW step \in Steps
    PROVE  IInv /\ Round(looks, step) => IInv'
<1> SUFFICES ASSUME IInv, Round(looks, step) PROVE IInv'
    OBVIOUS
<1> DEFINE shown == Shown
           read == [i \in 1..Len(shown) |-> Read(kind, looks[i])]
           merged == TakeAll(scan, read)
           unreadable == {shown[i] : i \in {j \in 1..Len(shown) : read[j] = NoItem}}
           s == [merged EXCEPT !.stagnant = IF merged.added = 0 THEN @ + 1 ELSE 0, !.added = 0,
                               !.dropped = @ \cup unreadable]
           scrolls == ~Enough(s)
           stuck == scrolls /\ step = 0
           ends == ~scrolls \/ stuck \/ s.stagnant >= StagnantStop
           L == Len(page.items)
<1>1. /\ kind \in Kinds /\ scan \in Sound /\ page \in Page /\ scan.phase = "collecting"
      /\ page.pos \in Nat /\ page.pos >= 1 /\ page.saved \in Nat
      /\ page.items \in Seq(1..Posts) /\ IsInjective(page.items) /\ TypeOK
    BY DEF IInv, TypeOK, PageOK, ScanOK, Sound, Round, Page
<1>2. /\ \A i \in 1..Len(shown) : looks[i] \in LooksOf[kind][shown[i]]
      /\ step > 0 => scrolls /\ page.pos + step <= L
      /\ scan' = IF ends
                 THEN [s EXCEPT !.phase = "collected", !.stop = StopReason(s, stuck)]
                 ELSE [s EXCEPT !.round = @ + 1]
      /\ page' = [page EXCEPT !.pos = IF ends /\ page.saved > 0 THEN page.saved ELSE @ + step,
                              !.saved = IF ends THEN 0 ELSE @]
      /\ UNCHANGED <<kind, feed, config, db, scans, events>>
    BY DEF Round
<1>3. /\ shown \in Seq(1..Posts) /\ Len(shown) \in Nat
      /\ page.pos <= L + 1 => page.pos + Len(shown) - 1 <= L
      /\ \A i \in 1..Len(shown) : shown[i] = page.items[page.pos + i - 1]
      /\ page.pos <= L => Len(shown) = Window \/ page.pos + Len(shown) - 1 = L
    BY <1>1, ShownPart
<1> HIDE DEF shown, L
<1>4. /\ read \in Seq(Elements) /\ Len(read) = Len(shown)
      /\ \A i \in 1..Len(shown) : read[i] = NoItem \/ read[i] \in Forms(kind, shown[i])
    <2> HIDE DEF read
    <2>1. read = [i \in 1..Len(shown) |-> Read(kind, looks[i])]
        BY DEF read
    <2>2. \A i \in 1..Len(shown) : looks[i] \in LooksOf[kind][shown[i]]
        BY <1>2
    <2>3. shown \in Seq(1..Posts) /\ kind \in Kinds
        BY <1>1, <1>3
    <2> QED
        BY ONLY <2>1, <2>2, <2>3, WindowElements
<1>5. unreadable \in SUBSET (1..Posts)
    <2>1. \A i \in 1..Len(shown) : shown[i] \in 1..Posts
        BY <1>3, ElementOfSeq
    <2> QED
        BY <2>1
<1>6. \A i \in 1..Len(shown) : read[i] = NoItem => shown[i] \in unreadable
    OBVIOUS
<1> HIDE DEF read, unreadable
<1>7. merged \in Sound /\ SameAttempt(scan, merged)
    BY <1>1, <1>4, WindowSound
<1>8. /\ s \in Attempt /\ s.got = merged.got /\ s.known = merged.known /\ s.streak = merged.streak
      /\ s.triggered = merged.triggered /\ s.dropped = scan.dropped \cup unreadable
      /\ s.phase = "collecting" /\ s.round \in Nat
    <2>1. merged \in Attempt
        BY <1>7 DEF Sound
    <2> HIDE DEF merged
    <2> DEFINE stagnant == IF merged.added = 0 THEN merged.stagnant + 1 ELSE 0
               dropped == merged.dropped \cup unreadable
    <2>2. stagnant \in Nat /\ dropped \in SUBSET (1..Posts)
        <3>1. merged.stagnant \in Nat /\ merged.dropped \in SUBSET (1..Posts)
            BY <2>1 DEF Attempt
        <3>2. stagnant \in Nat
            BY <3>1
        <3>3. dropped \in SUBSET (1..Posts)
            BY <1>5, <3>1
        <3> QED
            BY <3>2, <3>3
    <2>3. s = [merged EXCEPT !.stagnant = stagnant, !.added = 0, !.dropped = dropped]
        OBVIOUS
    <2>4. merged.dropped = scan.dropped /\ merged.phase = "collecting"
        BY <1>1, <1>7 DEF SameAttempt
    <2>5. s \in Attempt
        <3> HIDE DEF stagnant, dropped, s
        <3> QED
            BY <2>1, <2>2, <2>3 DEF Attempt
    <2>6. s.round \in Nat
        <3> HIDE DEF s
        <3> QED
            BY <2>5 DEF Attempt
    <2> HIDE DEF stagnant
    <2> QED
        BY <2>1, <2>3, <2>4, <2>5, <2>6 DEF Attempt
<1> HIDE DEF merged, s
<1>9. StopReason(s, stuck) \in Stops
    BY DEF StopReason, Stops
<1> HIDE DEF stuck
<1>10. /\ scan' \in Attempt /\ scan'.got = merged.got /\ scan'.known = merged.known
       /\ scan'.streak = merged.streak /\ scan'.triggered = merged.triggered
       /\ scan'.dropped = scan.dropped \cup unreadable
       /\ scan'.phase \in {"collecting", "collected"}
       /\ scan'.phase = "collecting" => ~ends
    <2>1. CASE ends
        <3>1. scan' = [s EXCEPT !.phase = "collected", !.stop = StopReason(s, stuck)]
            BY <1>2, <2>1
        <3> HIDE DEF ends
        <3> QED
            BY <1>8, <1>9, <3>1 DEF Attempt, Phases
    <2>2. CASE ~ends
        <3>1. scan' = [s EXCEPT !.round = s.round + 1]
            BY <1>2, <2>2
        <3>2. s.round + 1 \in Nat
            BY <1>8
        <3> HIDE DEF ends
        <3> QED
            BY <1>8, <2>2, <3>1, <3>2 DEF Attempt, Phases
    <2> QED
        BY <2>1, <2>2
<1>11. step \in Nat /\ step <= Window
    BY StepsShort, BoundFacts
<1>12. /\ page' \in Page /\ page'.items = page.items /\ page'.pos >= 1
       /\ ~ends => page'.pos = page.pos + step
    <2> DEFINE pos == IF ends /\ page.saved > 0 THEN page.saved ELSE page.pos + step
               saved == IF ends THEN 0 ELSE page.saved
    <2>1. page' = [page EXCEPT !.pos = pos, !.saved = saved]
        BY <1>2
    <2>2. pos \in Nat /\ pos >= 1 /\ saved \in Nat /\ (~ends => pos = page.pos + step)
        BY <1>1, <1>11
    <2> HIDE DEF pos, saved, ends
    <2> QED
        BY <1>1, <2>1, <2>2 DEF Page
<1>13. TypeOK'
    BY <1>1, <1>2, <1>10, <1>12 DEF TypeOK
<1>14. ScanOK'
    <2>1. Collects(merged) /\ Differ(merged) /\ Counts(merged)
        BY <1>7 DEF Sound
    <2> QED
        BY <1>2, <1>10, <2>1 DEF ScanOK, Collects, Differ, Counts, GotPosts
<1>15. ASSUME kind = "posts"
       PROVE  \E n \in 0..L : /\ ReadTo(page.items, n, scan'.dropped, scan')
                              /\ scan'.phase = "collecting" => page'.pos <= n + 1
    <2> DEFINE dropped == scan.dropped \cup unreadable
    <2>1. PICK m \in 0..L : ReadTo(page.items, m, scan.dropped, scan) /\ page.pos <= m + 1
        BY <1>1, <1>15 DEF IInv, PageOK, ReadOK, L
    <2>2. ReadTo(page.items, m, dropped, scan)
        BY <2>1 DEF ReadTo
    <2>3. L \in Nat /\ m \in Nat /\ m >= page.pos - 1 /\ page.pos <= L + 1
        BY <1>1, <2>1, LenProperties DEF L
    <2>4. page.pos + Len(read) - 1 <= Len(page.items) /\ m \in 0..Len(page.items)
        BY <1>3, <1>4, <2>1, <2>3 DEF L
    <2>5. \A i \in 1..Len(read) :
              \/ read[i] = NoItem /\ page.items[page.pos + i - 1] \in dropped
              \/ read[i] \in Forms(kind, page.items[page.pos + i - 1])
        BY <1>3, <1>4, <1>6
    <2> HIDE DEF dropped
    <2>6. PICK n \in 0..Len(page.items) :
              /\ ReadTo(page.items, n, dropped, merged)
              /\ merged.triggered \/ n >= page.pos + Len(read) - 1
        BY <1>1, <1>4, <1>15, <2>2, <2>3, <2>4, <2>5, WindowRead DEF merged
    <2>7. ReadTo(page.items, n, scan'.dropped, scan')
        BY <1>10, <2>6 DEF ReadTo, GotPosts, dropped
    <2>8. ASSUME scan'.phase = "collecting" PROVE page'.pos <= n + 1
        <3>1. ~ends /\ page'.pos = page.pos + step
            BY <1>10, <1>12, <2>8
        <3>2. ~s.triggered
            BY <3>1 DEF Enough
        <3>3. step > 0 /\ page.pos + step <= L
            BY <1>2, <1>11, <3>1 DEF stuck
        <3>4. n >= page.pos + Len(shown) - 1 /\ n \in Nat
            BY <1>4, <1>8, <2>6, <3>2
        <3>5. Len(shown) = Window \/ page.pos + Len(shown) - 1 = L
            BY <1>1, <1>3, <1>11, <2>3, <3>3
        <3>6. CASE Len(shown) = Window
            BY <1>1, <1>11, <3>1, <3>4, <3>6, BoundFacts
        <3>7. CASE page.pos + Len(shown) - 1 = L
            BY <1>1, <1>3, <1>11, <2>3, <3>1, <3>3, <3>4, <3>7
        <3> QED
            BY <3>5, <3>6, <3>7
    <2> QED
        BY <2>6, <2>7, <2>8 DEF L
<1>16. PageOK'
    <2>1. ReadOK'
        BY <1>2, <1>12, <1>15 DEF ReadOK, L
    <2>2. Unread'
        BY <1>10 DEF Unread
    <2> QED
        BY <1>1, <1>12, <2>1, <2>2 DEF PageOK
<1>17. RowsOK'
    BY <1>2, SameRows
<1> QED
    BY <1>13, <1>14, <1>16, <1>17 DEF IInv

LEMMA NextKeeps == IInv /\ [Next]_vars => IInv'
<1> SUFFICES ASSUME IInv, [Next]_vars PROVE IInv'
    OBVIOUS
<1>1. CASE Arrive
    BY <1>1, ArriveKeeps
<1>2. CASE ResetSeen
    BY <1>2, ResetSeenKeeps
<1>3. CASE StartCollection
    BY <1>3, StartCollectionKeeps
<1>4. CASE PageFails
    BY <1>4, PageFailsKeeps
<1>5. CASE Commit
    BY <1>5, CommitKeeps
<1>6. CASE CommitSkip
    BY <1>6, CommitSkipKeeps
<1>7. CASE GiveUp
    BY <1>7, GiveUpKeeps
<1>8. CASE Refused
    BY <1>8, RefusedKeeps
<1>9. CASE \E p \in 1..Posts : Pin(p)
    BY <1>9, PinKeeps
<1>10. CASE \E c \in Configs : SetConfig(c)
    BY <1>10, SetConfigKeeps
<1>11. CASE \E o \in Orders, c \in Controls : OpenPage(o, c)
    BY <1>11, OpenPageKeeps
<1>12. CASE \E o \in EnsurePreferred(page.view, scan.config.sort) : AdjustSort(o)
    BY <1>12, AdjustSortKeeps
<1>13. CASE \E looks \in [1..Len(Shown) -> UNION Range(LooksOf[kind])], step \in Steps :
                Round(looks, step)
    BY <1>13, RoundKeeps
<1>14. CASE UNCHANGED vars
    <2>1. UNCHANGED <<kind, feed, config, page, scan, db, scans, events>>
        BY <1>14 DEF vars
    <2>2. TypeOK'
        BY <2>1 DEF IInv, TypeOK
    <2> QED
        BY <2>1, <2>2, SameScan, SamePage, SameRows DEF IInv
<1> QED
    BY <1>1, <1>2, <1>3, <1>4, <1>5, <1>6, <1>7, <1>8, <1>9, <1>10, <1>11, <1>12, <1>13, <1>14
       DEF Next

\* In every reachable state an attempt has taken forms of different posts, as far
\* as its window came, and the stored rows are those of different items, each
\* known by all keys of one of its forms.
THEOREM PipelineInvariant == Spec => []IInv
<1>1. Init => IInv
    BY InitIInv
<1>2. IInv /\ [Next]_vars => IInv'
    BY NextKeeps
<1> QED
    BY <1>1, <1>2, PTL DEF Spec

-----------------------------------------------------------------------------
(* What follows from it. *)

\* Every variable keeps its type, and every alias names an item that is stored.
THEOREM PipelineTypeCorrect == Spec => []TypeOK
<1>1. IInv => TypeOK
    BY DEF IInv
<1> QED
    BY <1>1, PipelineInvariant, PTL

\* The rows a commit hands to the latest snapshot never conflict, whatever the
\* attempt collected and whatever is carried over from the last snapshot.
THEOREM SnapshotHasNoDuplicate == Spec => []SnapshotKeysDiffer
<1>1. IInv => SnapshotKeysDiffer
    BY DEF IInv, RowsOK, SnapshotKeysDiffer
<1> QED
    BY <1>1, PipelineInvariant, PTL

\* An item has one logical row between two resets, in however many forms and
\* attempts it was read, so it is announced at most once.
THEOREM ItemAnnouncedOnce == Spec => []AnnouncedOnce
<1>1. IInv => AnnouncedOnce
    BY DEF IInv, RowsOK, Apart, AnnouncedOnce
<1> QED
    BY <1>1, PipelineInvariant, PTL

\* The stop has seen more known posts than the page shows out of their order, so
\* one of them is in its order.
LEMMA KnownInOrder ==
    ASSUME IInv, scan.triggered, Cardinality(Above) < SeenStop
    PROVE  \E q \in scan.known : \A i \in Above : page.items[i] # q
<1> DEFINE Pinned == {page.items[i] : i \in Above}
           f == [i \in Above |-> page.items[i]]
<1>1. /\ scan.known \in SUBSET (1..Posts) /\ scan.streak \in Nat
      /\ scan.streak <= Cardinality(scan.known) /\ scan.streak >= SeenStop
    BY DEF IInv, TypeOK, Attempt, ScanOK, Counts
<1>2. IsFiniteSet(Above)
    <2>1. Len(page.items) \in Nat
        BY LenProperties DEF IInv, TypeOK, Page
    <2>2. IsFiniteSet(1..Len(page.items))
        BY <2>1, FS_Interval
    <2> QED
        BY <2>2, FS_Subset DEF Above
<1>3. f \in Surjection(Above, Pinned)
    BY DEF Surjection
<1>4. IsFiniteSet(Pinned) /\ Cardinality(Pinned) <= Cardinality(Above)
    BY <1>2, <1>3, FS_Surjection
<1>5. Cardinality(Pinned) \in Nat /\ Cardinality(Above) \in Nat /\ Cardinality(scan.known) \in Nat
    BY <1>1, <1>2, <1>4, FS_CardinalityType, KnownFinite
<1> HIDE DEF Pinned
<1>6. ~(scan.known \subseteq Pinned)
    <2> SUFFICES ASSUME scan.known \subseteq Pinned PROVE FALSE
        OBVIOUS
    <2>1. Cardinality(scan.known) <= Cardinality(Pinned)
        BY <1>4, FS_Subset
    <2> QED
        BY <1>1, <1>4, <1>5, <2>1, BoundFacts
<1> QED
    BY <1>6 DEF Pinned

\* When the stop comes early, every readable post that it leaves out is older than
\* a known post which the page shows in its order: all posts above that one were
\* read.
THEOREM StopHidesNothingNew == Spec => []NewestNotHidden
<1>1. IInv => NewestNotHidden
    <2> SUFFICES ASSUME IInv, scan.phase = "collected", scan.triggered,
                        Cardinality(Above) < SeenStop, NEW p \in Range(page.items)
                 PROVE  \/ p \in scan.dropped \/ \E i \in 1..Len(scan.got) : scan.got[i].post = p
                        \/ \E q \in scan.known : q > p /\ \A i \in Above : page.items[i] # q
        BY DEF NewestNotHidden
    <2>1. PICK q \in scan.known : \A i \in Above : page.items[i] # q
        BY KnownInOrder
    <2>2. kind = "posts" /\ q \in GotPosts(scan)
        BY <2>1 DEF IInv, ScanOK, Counts
    <2>3. /\ page.items \in Seq(1..Posts) /\ IsInjective(page.items)
          /\ Len(page.items) \in Nat /\ DOMAIN page.items = 1..Len(page.items)
        BY LenProperties DEF IInv, TypeOK, Page, PageOK
    <2>4. PICK n \in 0..Len(page.items) : ReadTo(page.items, n, scan.dropped, scan)
        BY <2>2 DEF IInv, PageOK, ReadOK
    <2>5. PICK k \in 1..Len(page.items) : p = page.items[k]
        BY <2>3 DEF Range
    <2>6. CASE k <= n
        <3>1. p \in scan.dropped \/ p \in GotPosts(scan)
            BY <2>4, <2>5, <2>6 DEF ReadTo
        <3> QED
            BY <3>1 DEF GotPosts
    <2>7. CASE k > n
        <3>1. PICK i \in 1..n : page.items[i] = q
            BY <2>2, <2>4 DEF ReadTo
        <3>2. i \in 1..Len(page.items) /\ i \notin Above /\ k \in (i + 1)..Len(page.items)
            BY <2>1, <2>3, <2>7, <3>1
        <3>3. ~(page.items[k] > page.items[i])
            BY <3>2 DEF Above
        <3>4. page.items[k] # page.items[i]
            BY <2>3, <3>2 DEF IsInjective
        <3>5. page.items[k] \in Nat /\ page.items[i] \in Nat
            <4>1. page.items[k] \in 1..Posts
                BY <2>3, <2>5, ElementOfSeq
            <4>2. page.items[i] \in 1..Posts
                BY <2>3, <3>2, ElementOfSeq
            <4> QED
                BY <4>1, <4>2
        <3>6. q > p
            BY <2>5, <3>1, <3>3, <3>4, <3>5
        <3> QED
            BY <2>1, <3>6
    <2> QED
        BY <2>3, <2>6, <2>7
<1> QED
    BY <1>1, PipelineInvariant, PTL
-----------------------------------------------------------------------------
(* The matcher: sorting ranges. *)

\* The ranges of a text with fewer than M words.
Pairs(M) == (1..M) \X (1..M)
Ordered(list, R) ==
    /\ list \in [1..Cardinality(R) -> R]
    /\ \A i, j \in 1..Cardinality(R) : i < j => Earlier(list[i], list[j])

LEMMA PairsFinite ==
    ASSUME NEW M \in Nat, NEW R \in SUBSET Pairs(M)
    PROVE  IsFiniteSet(R) /\ Cardinality(R) \in Nat
<1>1. IsFiniteSet(1..M)
    BY FS_Interval
<1>2. IsFiniteSet(Pairs(M))
    BY <1>1, FS_Product DEF Pairs
<1> QED
    BY <1>2, FS_Subset, FS_CardinalityType

LEMMA GreatestIn ==
    ASSUME NEW N \in Nat, NEW S \in SUBSET (1..N), S # {}
    PROVE  \E m \in S : \A y \in S : y <= m
<1> DEFINE Has(s) == \E m \in s : \A y \in s : y <= m
           T == {n \in 0..N : \A s \in SUBSET (1..n) : s # {} => Has(s)}
<1>1. 0 \in T
    <2>1. 0 \in 0..N /\ \A s \in SUBSET (1..0) : s = {}
        OBVIOUS
    <2> QED
        BY <2>1
<1>2. ASSUME NEW n \in 0..(N - 1), n \in T
      PROVE  n + 1 \in T
    <2>1. n + 1 \in 0..N /\ n + 1 \in Nat
        OBVIOUS
    <2> SUFFICES ASSUME NEW s \in SUBSET (1..(n + 1)), s # {}
                 PROVE  Has(s)
        BY <2>1
    <2>2. CASE n + 1 \in s
        <3>1. \A y \in s : y <= n + 1
            OBVIOUS
        <3> QED
            BY <2>2, <3>1
    <2>3. CASE n + 1 \notin s
        <3>1. s \in SUBSET (1..n)
            BY <2>3
        <3> QED
            BY <1>2, <3>1
    <2> QED
        BY <2>2, <2>3
<1>3. \A n \in 0..N : n \in T
    <2> HIDE DEF T
    <2> QED
        BY <1>1, <1>2, RangeInduction
<1>4. N \in T
    <2>1. N \in 0..N
        OBVIOUS
    <2> HIDE DEF T
    <2> QED
        BY <1>3, <2>1
<1> QED
    BY <1>4

LEMMA LatestIn ==
    ASSUME NEW M \in Nat, NEW R \in SUBSET Pairs(M), R # {}
    PROVE  \E e \in R : \A r \in R : r = e \/ Earlier(r, e)
<1> DEFINE Firsts == {r[1] : r \in R}
<1>1. \A r \in R : r = <<r[1], r[2]>> /\ r[1] \in 1..M /\ r[2] \in 1..M
    BY DEF Pairs
<1>2. Firsts \in SUBSET (1..M) /\ Firsts # {}
    BY <1>1
<1>3. PICK a \in Firsts : \A x \in Firsts : x <= a
    <2> HIDE DEF Firsts
    <2> QED
        BY <1>2, GreatestIn
<1> DEFINE Seconds == {b \in 1..M : <<a, b>> \in R}
<1>4. Seconds \in SUBSET (1..M) /\ Seconds # {}
    <2>1. PICK r \in R : r[1] = a
        BY <1>3
    <2>2. r[2] \in Seconds
        BY <1>1, <2>1
    <2> QED
        BY <2>2
<1>5. PICK b \in Seconds : \A y \in Seconds : y <= b
    <2> HIDE DEF Seconds
    <2> QED
        BY <1>4, GreatestIn
<1>6. <<a, b>> \in R /\ a \in 1..M /\ b \in 1..M
    BY <1>2, <1>3, <1>5
<1>7. ASSUME NEW r \in R
      PROVE  r = <<a, b>> \/ Earlier(r, <<a, b>>)
    <2>1. r = <<r[1], r[2]>> /\ r[1] \in 1..M /\ r[2] \in 1..M
        BY <1>1
    <2>2. r[1] <= a
        BY <1>3
    <2>3. CASE r[1] = a
        <3>1. r[2] \in Seconds
            BY <2>1, <2>3
        <3>2. r[2] <= b
            BY <1>5, <3>1
        <3>3. r[2] = b \/ r[2] < b
            BY <1>6, <2>1, <3>2
        <3> QED
            BY <2>1, <2>3, <3>3 DEF Earlier
    <2>4. CASE r[1] # a
        BY <1>6, <2>1, <2>2, <2>4 DEF Earlier
    <2> QED
        BY <2>3, <2>4
<1> QED
    BY <1>6, <1>7

\* There is one list of a set of ranges in their order, and every range is in it.
LEMMA SortedExists ==
    ASSUME NEW M \in Nat, NEW R \in SUBSET Pairs(M)
    PROVE  \E list : Ordered(list, R)
<1> DEFINE N == Cardinality(R)
           T == {n \in 0..N : \A S \in SUBSET Pairs(M) :
                     Cardinality(S) = n => \E list : Ordered(list, S)}
<1>1. N \in Nat
    BY PairsFinite
<1>2. 0 \in T
    <2> SUFFICES ASSUME NEW S \in SUBSET Pairs(M), Cardinality(S) = 0
                 PROVE  \E list : Ordered(list, S)
        BY <1>1
    <2>1. [i \in 1..0 |-> 0] \in [1..0 -> S]
        OBVIOUS
    <2>2. Ordered([i \in 1..0 |-> 0], S)
        BY <2>1 DEF Ordered
    <2> QED
        BY <2>2
<1>3. ASSUME NEW n \in 0..(N - 1), n \in T
      PROVE  n + 1 \in T
    <2>1. n + 1 \in 0..N /\ n + 1 \in Nat /\ n \in Nat
        BY <1>1
    <2> SUFFICES ASSUME NEW S \in SUBSET Pairs(M), Cardinality(S) = n + 1
                 PROVE  \E list : Ordered(list, S)
        BY <2>1
    <2>2. IsFiniteSet(S) /\ S # {}
        BY <2>1, PairsFinite, FS_EmptySet
    <2>3. PICK e \in S : \A r \in S : r = e \/ Earlier(r, e)
        BY <2>2, LatestIn
    <2> DEFINE rest == S \ {e}
    <2>4. rest \in SUBSET Pairs(M) /\ Cardinality(rest) = n
        <3>1. Cardinality(S \ {e}) = Cardinality(S) - 1
            BY <2>2, FS_RemoveElement
        <3> QED
            BY <2>1, <3>1
    <2>5. PICK old : Ordered(old, rest)
        <3> HIDE DEF rest
        <3> QED
            BY <1>3, <2>4
    <2> DEFINE list == [i \in 1..(n + 1) |-> IF i = n + 1 THEN e ELSE old[i]]
    <2>6. \A i \in 1..n : old[i] \in rest
        BY <2>4, <2>5 DEF Ordered
    <2>7. \A i \in 1..(n + 1) : i = n + 1 \/ (i \in 1..n /\ i # n + 1)
        BY <2>1
    <2>8. list \in [1..(n + 1) -> S]
        BY <2>6, <2>7
    <2>9. ASSUME NEW i \in 1..(n + 1), NEW j \in 1..(n + 1), i < j
          PROVE  Earlier(list[i], list[j])
        <3>1. i \in 1..n /\ list[i] = old[i]
            BY <2>1, <2>7, <2>9
        <3>2. CASE j = n + 1
            <4>1. old[i] \in S /\ old[i] # e
                BY <2>6, <3>1
            <4> QED
                BY <2>3, <3>1, <3>2, <4>1
        <3>3. CASE j # n + 1
            <4>1. j \in 1..n /\ list[j] = old[j]
                BY <2>7, <3>3
            <4> HIDE DEF list, rest
            <4> QED
                BY <2>4, <2>5, <2>9, <3>1, <4>1 DEF Ordered
        <3> QED
            BY <3>2, <3>3
    <2>10. Ordered(list, S)
        <3> HIDE DEF list
        <3> QED
            BY <2>8, <2>9 DEF Ordered
    <2> QED
        BY <2>10
<1>4. \A n \in 0..N : n \in T
    <2> HIDE DEF T, N
    <2> QED
        BY <1>1, <1>2, <1>3, RangeInduction
<1>5. N \in T
    BY <1>1, <1>4
<1> QED
    BY <1>5

LEMMA InOrderSorted ==
    ASSUME NEW M \in Nat, NEW R \in SUBSET Pairs(M)
    PROVE  /\ Ordered(InOrder(R), R)
           /\ \A r \in R : \E i \in 1..Cardinality(R) : InOrder(R)[i] = r
<1> DEFINE N == Cardinality(R)
           list == InOrder(R)
<1>1. IsFiniteSet(R) /\ N \in Nat
    BY PairsFinite
<1>2. Ordered(list, R)
    <2>1. PICK l : Ordered(l, R)
        BY SortedExists
    <2>2. l \in [1..N -> R] /\ \A i, j \in DOMAIN l : i < j => Earlier(l[i], l[j])
        BY <2>1 DEF Ordered
    <2>3. list \in [1..N -> R] /\ \A i, j \in DOMAIN list : i < j => Earlier(list[i], list[j])
        BY <2>2 DEF InOrder
    <2> HIDE DEF list
    <2> QED
        BY <2>3 DEF Ordered
<1> HIDE DEF list
<1>3. ASSUME NEW i \in 1..N, NEW j \in 1..N, i < j
      PROVE  list[i] # list[j]
    <2>1. Earlier(list[i], list[j])
        BY <1>2, <1>3 DEF Ordered
    <2>2. list[i] \in R
        BY <1>2 DEF Ordered
    <2>3. list[i][1] \in 1..M /\ list[i][2] \in 1..M
        BY <2>2 DEF Pairs
    <2>4. ~Earlier(list[i], list[i])
        BY <2>3 DEF Earlier
    <2> QED
        BY <2>1, <2>4
<1>4. list \in Injection(1..N, R)
    <2>1. ASSUME NEW i \in 1..N, NEW j \in 1..N, list[i] = list[j]
          PROVE  i = j
        <3>1. ~(i < j) /\ ~(j < i)
            BY <1>3, <2>1
        <3> QED
            BY <3>1
    <2>2. list \in [1..N -> R]
        BY <1>2 DEF Ordered
    <2> QED
        BY <2>1, <2>2 DEF Injection, IsInjective
<1>5. Cardinality(1..N) = N
    BY <1>1, FS_Interval
<1>6. list \in Surjection(1..N, R)
    BY <1>1, <1>4, <1>5, FS_Injection
<1> QED
    BY <1>2, <1>6 DEF Surjection, list

-----------------------------------------------------------------------------
(* The matcher: merging ranges. *)

Covers(ranges, i) == \E k \in 1..Len(ranges) : ranges[k][1] <= i /\ i < ranges[k][2]
Within(range, i) == range[1] <= i /\ i < range[2]

\* A range that starts no earlier than the last one is added or joined to it; the
\* places covered are those of both.
LEMMA RangeAdded ==
    ASSUME NEW M \in Nat, NEW merged \in Seq(Pairs(M)), NEW range \in Pairs(M)
    PROVE  LET t == AddRange(merged, range)
           IN  /\ t \in Seq(Pairs(M)) /\ t # <<>>
               /\ merged = <<>> \/ Last(merged)[1] <= range[1] =>
                      /\ Last(t)[1] <= range[1]
                      /\ \A i \in Int : Covers(t, i) <=> Covers(merged, i) \/ Within(range, i)
<1> DEFINE L == Len(merged)
           last == merged[L]
           t == AddRange(merged, range)
<1>1. L \in Nat /\ (merged # <<>> => L \in 1..L) /\ (merged = <<>> <=> L = 0)
    BY EmptySeq, LenProperties
<1>2. range = <<range[1], range[2]>> /\ range[1] \in 1..M /\ range[2] \in 1..M
    BY DEF Pairs
<1>3. ASSUME merged # <<>>
      PROVE  last \in Pairs(M) /\ last = <<last[1], last[2]>> /\ last[1] \in 1..M /\ last[2] \in 1..M
    <2>1. last \in Pairs(M)
        BY <1>1, <1>3, ElementOfSeq
    <2> HIDE DEF last
    <2> QED
        BY <2>1 DEF Pairs
<1>4. Last(merged) = last
    BY DEF Last
<1>5. CASE merged = <<>> \/ range[1] > last[2]
    <2>1. t = Append(merged, range)
        BY <1>4, <1>5 DEF AddRange
    <2>2. /\ Append(merged, range) \in Seq(Pairs(M)) /\ Len(Append(merged, range)) = L + 1
          /\ \A k \in 1..L : Append(merged, range)[k] = merged[k]
          /\ Append(merged, range)[L + 1] = range
        BY AppendProperties
    <2> HIDE DEF t, last
    <2>3. /\ t \in Seq(Pairs(M)) /\ Len(t) = L + 1 /\ t[L + 1] = range
          /\ \A k \in 1..L : t[k] = merged[k]
        BY <2>1, <2>2
    <2>4. Last(t) = range /\ t # <<>>
        BY <1>1, <2>3, EmptySeq DEF Last
    <2>5. ASSUME NEW i \in Int
          PROVE  Covers(t, i) <=> Covers(merged, i) \/ Within(range, i)
        <3>1. \A k : k \in 1..(L + 1) <=> k \in 1..L \/ k = L + 1
            BY <1>1
        <3> QED
            BY <2>3, <3>1 DEF Covers, Within
    <2>6. range[1] <= range[1]
        BY <1>2
    <2> QED
        BY <2>3, <2>4, <2>5, <2>6 DEF t
<1>6. CASE merged # <<>> /\ ~(range[1] > last[2])
    <2> DEFINE new == <<last[1], IF range[2] > last[2] THEN range[2] ELSE last[2]>>
    <2>1. t = [merged EXCEPT ![L] = new]
        BY <1>4, <1>6 DEF AddRange
    <2>2. new \in Pairs(M) /\ new[1] = last[1]
          /\ new[2] = IF range[2] > last[2] THEN range[2] ELSE last[2]
        BY <1>2, <1>3, <1>6 DEF Pairs
    <2> HIDE DEF new, t
    <2>3. t \in Seq(Pairs(M)) /\ Len(t) = L /\ \A k \in 1..L : t[k] = IF k = L THEN new ELSE merged[k]
        BY <1>1, <1>6, <2>1, <2>2, ExceptSeq
    <2>4. Last(t) = new /\ t # <<>>
        BY <1>1, <1>6, <2>3, EmptySeq DEF Last
    <2>5. ASSUME last[1] <= range[1], NEW i \in Int
          PROVE  Within(new, i) <=> Within(last, i) \/ Within(range, i)
        <3> HIDE DEF last
        <3> QED
            BY <1>2, <1>3, <1>6, <2>2, <2>5 DEF Within
    <2>6. ASSUME last[1] <= range[1], NEW i \in Int
          PROVE  Covers(t, i) <=> Covers(merged, i) \/ Within(range, i)
        <3>1. \A k : k \in 1..L <=> (k \in 1..L /\ k # L) \/ k = L
            BY <1>1, <1>6
        <3>2. Covers(t, i) <=> (\E k \in 1..L : k # L /\ Within(merged[k], i)) \/ Within(new, i)
            BY <2>3, <3>1 DEF Covers, Within
        <3>3. Covers(merged, i) <=> (\E k \in 1..L : k # L /\ Within(merged[k], i)) \/ Within(last, i)
            BY <3>1 DEF Covers, Within
        <3> QED
            BY <2>5, <2>6, <3>2, <3>3
    <2> HIDE DEF last
    <2> QED
        BY <1>4, <1>6, <2>2, <2>3, <2>4, <2>6 DEF t
<1> QED
    BY <1>1, <1>5, <1>6

\* Merged in their order, ranges cover what they covered one by one.
LEMMA MergedCovers ==
    ASSUME NEW M \in Nat, NEW R \in SUBSET Pairs(M)
    PROVE  /\ MergeRanges(R) \in Seq(Pairs(M))
           /\ \A i \in Int : Covers(MergeRanges(R), i) <=> \E range \in R : Within(range, i)
<1> DEFINE A == Seq(Pairs(M))
           list == InOrder(R)
           N == Cardinality(R)
<1>1. N \in Nat /\ list \in [1..N -> R] /\ \A r \in R : \E k \in 1..N : list[k] = r
    BY PairsFinite, InOrderSorted DEF Ordered
<1>2. \A k, l \in 1..N : k < l => Earlier(list[k], list[l])
    BY InOrderSorted DEF Ordered
<1> HIDE DEF list
<1>3. list \in Seq(R) /\ Len(list) = N
    BY <1>1, FunctionIsSeq
<1>4. PICK r : RangeRun(r, A, list)
    <2>1. \A a \in A : \A e \in R : AddRange(a, e) \in A
        BY RangeAdded
    <2>2. <<>> \in A
        BY EmptySeq
    <2> HIDE DEF A
    <2> QED
        BY <1>3, <2>1, <2>2, RangeRuns
<1>5. /\ r[0] = <<>> /\ r[N] = MergeRanges(R) /\ \A n \in 0..N : r[n] \in Seq(Pairs(M))
      /\ \A n \in 1..N : r[n] = AddRange(r[n - 1], list[n])
    BY <1>3, <1>4 DEF RangeRun, MergeRanges, list
<1> DEFINE Done(n) ==
               /\ n > 0 => r[n] # <<>> /\ Last(r[n])[1] <= list[n][1]
               /\ \A i \in Int : Covers(r[n], i) <=> \E k \in 1..n : Within(list[k], i)
           T == {n \in 0..N : Done(n)}
<1>6. 0 \in T
    <2>1. Len(<<>>) = 0
        BY EmptySeq
    <2>2. Done(0)
        BY <1>5, <2>1 DEF Covers
    <2> HIDE DEF Done
    <2> QED
        BY <1>1, <2>2
<1>7. ASSUME NEW n \in 0..(N - 1), n \in T
      PROVE  n + 1 \in T
    <2>1. n + 1 \in 1..N /\ n + 1 \in 0..N /\ n + 1 - 1 = n /\ n \in 0..N /\ n + 1 > 0
        BY <1>1
    <2>2. r[n + 1] = AddRange(r[n], list[n + 1]) /\ r[n] \in Seq(Pairs(M)) /\ list[n + 1] \in Pairs(M)
        <3>1. r[n + 1] = AddRange(r[n], list[n + 1]) /\ r[n] \in Seq(Pairs(M))
            BY <1>5, <2>1
        <3>2. list[n + 1] \in R
            BY <1>1, <2>1
        <3> QED
            BY <3>1, <3>2
    <2>3. Done(n)
        BY <1>7
    <2>4. r[n] = <<>> \/ Last(r[n])[1] <= list[n + 1][1]
        <3>1. CASE n = 0
            BY <1>5, <3>1
        <3>2. CASE n # 0
            <4>1. n \in 1..N /\ n < n + 1 /\ n > 0
                BY <1>1, <3>2
            <4>2. Earlier(list[n], list[n + 1])
                BY <1>2, <2>1, <4>1
            <4>3. list[n] \in Pairs(M)
                BY <1>1, <4>1
            <4>4. list[n][1] \in Nat /\ list[n + 1][1] \in Nat
                BY <2>2, <4>3 DEF Pairs
            <4>5. list[n][1] <= list[n + 1][1]
                BY <4>2, <4>4 DEF Earlier
            <4>6. Last(r[n])[1] <= list[n][1] /\ r[n] # <<>>
                BY <2>3, <4>1
            <4>7. Last(r[n])[1] \in Int
                <5>1. Len(r[n]) \in 1..Len(r[n])
                    BY <2>2, <4>6, EmptySeq
                <5>2. Last(r[n]) \in Pairs(M)
                    BY <2>2, <5>1, ElementOfSeq DEF Last
                <5> QED
                    BY <5>2 DEF Pairs
            <4> QED
                BY <4>4, <4>5, <4>6, <4>7
        <3> QED
            BY <3>1, <3>2
    <2>5. /\ r[n + 1] # <<>> /\ Last(r[n + 1])[1] <= list[n + 1][1]
          /\ \A i \in Int : Covers(r[n + 1], i) <=> Covers(r[n], i) \/ Within(list[n + 1], i)
        <3> DEFINE merged == r[n]
                   range == list[n + 1]
        <3>1. /\ merged \in Seq(Pairs(M)) /\ range \in Pairs(M)
              /\ merged = <<>> \/ Last(merged)[1] <= range[1]
            BY <2>2, <2>4
        <3>2. r[n + 1] = AddRange(merged, range)
            BY <2>2
        <3> HIDE DEF merged, range
        <3>3. /\ r[n + 1] # <<>> /\ Last(r[n + 1])[1] <= range[1]
              /\ \A i \in Int : Covers(r[n + 1], i) <=> Covers(merged, i) \/ Within(range, i)
            BY <3>1, <3>2, RangeAdded
        <3> QED
            BY <3>3 DEF merged, range
    <2>6. \A k : k \in 1..(n + 1) <=> k \in 1..n \/ k = n + 1
        BY <1>1
    <2>7. \A i \in Int : Covers(r[n + 1], i) <=> \E k \in 1..(n + 1) : Within(list[k], i)
        BY <2>3, <2>5, <2>6
    <2>8. Done(n + 1)
        BY <2>5, <2>7
    <2> HIDE DEF Done
    <2> QED
        BY <2>1, <2>8
<1>8. \A n \in 0..N : n \in T
    <2> HIDE DEF T, N
    <2> QED
        BY <1>1, <1>6, <1>7, RangeInduction
<1>9. Done(N) /\ N \in 0..N
    BY <1>1, <1>8
<1>10. ASSUME NEW i \in Int
       PROVE  Covers(MergeRanges(R), i) <=> \E range \in R : Within(range, i)
    <2>1. Covers(r[N], i) <=> \E k \in 1..N : Within(list[k], i)
        BY <1>9
    <2>2. (\E k \in 1..N : Within(list[k], i)) <=> \E range \in R : Within(range, i)
        BY <1>1
    <2> QED
        BY <1>5, <2>1, <2>2
<1> QED
    BY <1>5, <1>9, <1>10

-----------------------------------------------------------------------------
(* The matcher: masking and finding. *)

\* Whether a phrase stands at a place is decided word by word.
LEMMA StandsAt ==
    ASSUME NEW S, NEW text \in Seq(S), NEW U, NEW phrase \in Seq(U),
           NEW j \in 1..(Len(text) - Len(phrase) + 1)
    PROVE  SubSeq(text, j, j + Len(phrase) - 1) = phrase
               <=> \A i \in 1..Len(phrase) : text[j + i - 1] = phrase[i]
<1> DEFINE L == Len(phrase)
           n == j + L - 1
           part == SubSeq(text, j, n)
<1>1. L \in Nat /\ Len(text) \in Nat /\ j \in Int /\ n \in Int /\ j >= 1 /\ n <= Len(text)
    BY LenProperties
<1>2. \A i \in j..n : text[i] \in S
    <2>1. \A i \in j..n : i \in 1..Len(text)
        BY <1>1
    <2> QED
        BY <2>1, ElementOfSeq
<1>3. /\ part \in Seq(S) /\ Len(part) = IF j <= n THEN n - j + 1 ELSE 0
      /\ \A i \in 1..(n - j + 1) : part[i] = text[j + i - 1]
    <2> HIDE DEF n
    <2> QED
        BY <1>1, <1>2, SubSeqProperties
<1>4. n - j + 1 = L /\ Len(part) = L
    BY <1>1, <1>3
<1> HIDE DEF part, n
<1>5. \A i \in 1..L : part[i] = text[j + i - 1]
    BY <1>3, <1>4
<1>6. part = phrase <=> \A i \in 1..L : part[i] = phrase[i]
    <2>1. part \in Seq(S \cup U) /\ phrase \in Seq(S \cup U)
        <3>1. \A x \in S : x \in S \cup U
            OBVIOUS
        <3>2. \A x \in U : x \in S \cup U
            OBVIOUS
        <3> QED
            BY <1>3, <3>1, <3>2, SeqMonotonic
    <2> QED
        BY <1>4, <2>1, SeqEqual
<1> QED
    BY <1>5, <1>6 DEF part, n

LEMMA WordsOf ==
    ASSUME NEW text, Words(text)
    PROVE  /\ text \in Seq(Range(text)) /\ Len(text) \in Nat
           /\ \A i \in 1..Len(text) : text[i] # Blank
<1> DEFINE S == Range(text) \ {Blank}
<1>1. text \in Seq(S)
    BY DEF Words
<1>2. \A x \in S : x \in Range(text)
    OBVIOUS
<1>3. text \in Seq(Range(text))
    BY <1>1, <1>2, SeqMonotonic
<1>4. \A i \in 1..Len(text) : text[i] \in S
    <2> HIDE DEF S
    <2> QED
        BY <1>1, ElementOfSeq
<1> QED
    BY <1>1, <1>3, <1>4, LenProperties

\* The places masked are those of the occurrences, however they overlap.
LEMMA Masked ==
    ASSUME NEW text, Words(text), NEW ignore, \A phrase \in ignore : Words(phrase)
    PROVE  LET t == ExcludeText(text, ignore)
           IN  /\ t \in Seq(Range(text) \cup {Blank}) /\ Len(t) = Len(text)
               /\ \A i \in 1..Len(text) :
                      t[i] = IF Ignored(i, text, ignore) THEN Blank ELSE text[i]
<1> DEFINE N == Len(text)
           M == N + 1
           R == UNION {Occurrences(p, text) : p \in ignore}
           ranges == MergeRanges(R)
           t == ExcludeText(text, ignore)
<1>1. N \in Nat /\ M \in Nat /\ text \in Seq(Range(text))
    BY WordsOf
<1>2. R \in SUBSET Pairs(M)
    <2> SUFFICES ASSUME NEW p \in ignore, NEW x \in Occurrences(p, text)
                 PROVE  x \in Pairs(M)
        OBVIOUS
    <2>1. Len(p) \in Nat
        BY WordsOf
    <2>2. PICK i \in 1..(N - Len(p) + 1) : x = <<i, i + Len(p)>>
        BY DEF Occurrences
    <2> QED
        BY <1>1, <2>1, <2>2 DEF Pairs
<1>3. \A i \in Int : Covers(ranges, i) <=> \E range \in R : Within(range, i)
    <2> HIDE DEF R, M
    <2> QED
        BY <1>1, <1>2, MergedCovers
<1>4. \A i \in 1..N : Covers(ranges, i) <=> Ignored(i, text, ignore)
    <2> SUFFICES ASSUME NEW i \in 1..N
                 PROVE  Covers(ranges, i) <=> Ignored(i, text, ignore)
        OBVIOUS
    <2>1. i \in Int
        BY <1>1
    <2>2. (\E range \in R : Within(range, i)) <=> Ignored(i, text, ignore)
        BY DEF Within, Ignored
    <2> QED
        BY <1>3, <2>1, <2>2
<1>5. t = [i \in 1..N |-> IF Covers(ranges, i) THEN Blank ELSE text[i]]
    BY DEF ExcludeText, MaskRanges, Covers
<1> HIDE DEF ranges, t
<1>6. \A i \in 1..N : (IF Covers(ranges, i) THEN Blank ELSE text[i]) \in Range(text) \cup {Blank}
    <2>1. \A i \in 1..N : text[i] \in Range(text)
        BY <1>1, ElementOfSeq
    <2> QED
        BY <2>1
<1>7. t \in [1..N -> Range(text) \cup {Blank}]
    BY <1>5, <1>6
<1>8. t \in Seq(Range(text) \cup {Blank}) /\ Len(t) = N
    BY <1>1, <1>7, FunctionIsSeq
<1>9. \A i \in 1..N : t[i] = IF Ignored(i, text, ignore) THEN Blank ELSE text[i]
    BY <1>4, <1>5
<1> QED
    BY <1>8, <1>9 DEF t

\* So a phrase is found in what is left exactly when it occurs in the text
\* without a word of an ignored phrase.
LEMMA FoundOutside ==
    ASSUME NEW text, Words(text), NEW ignore, \A p \in ignore : Words(p),
           NEW phrase, Words(phrase)
    PROVE  Found(phrase, ExcludeText(text, ignore)) <=> OccursOutside(phrase, text, ignore)
<1> DEFINE L == Len(phrase)
           N == Len(text)
           t == ExcludeText(text, ignore)
           Starts == 1..(N - L + 1)
           Free(j) == \A i \in j..(j + L - 1) : ~Ignored(i, text, ignore)
<1>1. L \in Nat /\ N \in Nat /\ text \in Seq(Range(text)) /\ phrase \in Seq(Range(phrase))
      /\ \A i \in 1..L : phrase[i] # Blank
    BY WordsOf
<1>2. /\ t \in Seq(Range(text) \cup {Blank}) /\ Len(t) = N
      /\ \A i \in 1..N : t[i] = IF Ignored(i, text, ignore) THEN Blank ELSE text[i]
    BY Masked
<1> HIDE DEF t
<1>3. ASSUME NEW j \in Starts
      PROVE  SubSeq(t, j, j + L - 1) = phrase <=> SubSeq(text, j, j + L - 1) = phrase /\ Free(j)
    <2>1. SubSeq(t, j, j + L - 1) = phrase <=> \A i \in 1..L : t[j + i - 1] = phrase[i]
        <3> DEFINE S == Range(text) \cup {Blank}
                   U == Range(phrase)
        <3>1. t \in Seq(S) /\ phrase \in Seq(U) /\ j \in 1..(Len(t) - Len(phrase) + 1)
            BY <1>1, <1>2
        <3> HIDE DEF S, U
        <3>2. SubSeq(t, j, j + Len(phrase) - 1) = phrase
                  <=> \A i \in 1..Len(phrase) : t[j + i - 1] = phrase[i]
            BY <3>1, StandsAt
        <3> QED
            BY <3>2
    <2>2. SubSeq(text, j, j + L - 1) = phrase <=> \A i \in 1..L : text[j + i - 1] = phrase[i]
        BY <1>1, StandsAt
    <2>3. \A i \in 1..L : j + i - 1 \in 1..N /\ j + i - 1 \in j..(j + L - 1)
        BY <1>1
    <2>4. \A i \in j..(j + L - 1) : i - j + 1 \in 1..L /\ j + (i - j + 1) - 1 = i
        BY <1>1
    <2>5. \A i \in 1..L : t[j + i - 1] = phrase[i]
              <=> text[j + i - 1] = phrase[i] /\ ~Ignored(j + i - 1, text, ignore)
        <3> SUFFICES ASSUME NEW i \in 1..L
                     PROVE  t[j + i - 1] = phrase[i]
                                <=> text[j + i - 1] = phrase[i] /\ ~Ignored(j + i - 1, text, ignore)
            OBVIOUS
        <3>1. t[j + i - 1] = IF Ignored(j + i - 1, text, ignore) THEN Blank ELSE text[j + i - 1]
            BY <1>2, <2>3
        <3>2. phrase[i] # Blank
            BY <1>1
        <3> QED
            BY <3>1, <3>2
    <2>6. Free(j) <=> \A i \in 1..L : ~Ignored(j + i - 1, text, ignore)
        BY <2>3, <2>4
    <2> QED
        BY <2>1, <2>2, <2>5, <2>6
<1>4. Found(phrase, t) <=> \E j \in Starts : SubSeq(t, j, j + L - 1) = phrase
    BY <1>2 DEF Found, Occurrences
<1>5. OccursOutside(phrase, text, ignore)
          <=> \E j \in Starts : SubSeq(text, j, j + L - 1) = phrase /\ Free(j)
    <2> DEFINE Outside(r) == \A i \in r[1]..(r[2] - 1) : ~Ignored(i, text, ignore)
    <2>1. \A r : r \in Occurrences(phrase, text)
                     <=> \E j \in Starts : SubSeq(text, j, j + L - 1) = phrase /\ r = <<j, j + L>>
        BY DEF Occurrences
    <2>2. \A j \in Starts : Outside(<<j, j + L>>) <=> Free(j)
        OBVIOUS
    <2>3. OccursOutside(phrase, text, ignore)
              <=> \E r \in Occurrences(phrase, text) : Outside(r)
        BY DEF OccursOutside
    <2> HIDE DEF Outside, Free, Starts
    <2> QED
        BY <2>1, <2>2, <2>3
<1> QED
    BY <1>3, <1>4, <1>5 DEF t

\* The rule the matcher is meant to compute is the one it computes.
LEMMA WantedIsEligible ==
    ASSUME NEW words, NEW text, Words(text),
           \A phrase \in words.ignore \cup UNION words.exclude : Words(phrase)
    PROVE  Eligible(words, text) <=> Wanted(words, text)
<1>1. IncludeResult(words.groups, text) <=>
          /\ UNION words.groups # {}
          /\ \A g \in words.groups : g = {} \/ \E r \in g : \A t \in r : Found(t, text)
    <2> DEFINE filled == {g \in words.groups : g # {}}
    <2>1. IncludeResult(words.groups, text) <=>
              filled # {} /\ \A g \in filled : MatchedRules(g, text) # {}
        BY DEF IncludeResult
    <2>2. filled # {} <=> UNION words.groups # {}
        OBVIOUS
    <2>3. \A g : MatchedRules(g, text) # {} <=> \E r \in g : \A t \in r : Found(t, text)
        BY DEF MatchedRules, RuleMatches
    <2> QED
        BY <2>1, <2>2, <2>3
<1>2. ASSUME NEW r \in words.exclude, NEW t \in r
      PROVE  Found(t, ExcludeText(text, words.ignore)) <=> OccursOutside(t, text, words.ignore)
    <2>1. Words(t) /\ \A p \in words.ignore : Words(p)
        OBVIOUS
    <2> QED
        BY <2>1, FoundOutside
<1>3. MatchedRules(words.exclude, ExcludeText(text, words.ignore)) = {} <=>
          \A r \in words.exclude : \E t \in r : ~OccursOutside(t, text, words.ignore)
    BY <1>2 DEF MatchedRules, RuleMatches
<1> QED
    BY <1>1, <1>3 DEF Eligible, Wanted

-----------------------------------------------------------------------------
(* What a commit announces. *)

\* An item has a row among "rows" when one of its keys has.
LEMMA HitByKey ==
    ASSUME NEW d, NEW item
    PROVE  HitRows(d, item) = {} <=> \A key \in KeySet(item) : ~HasKey(d.aliases, key)
    BY DEF HitRows, HasKey

LEMMA AnnounceTyped ==
    ASSUME kind \in Kinds, NEW history \in Seq(Key), NEW item \in Formed
    PROVE  Announce(history, item) \in Seq(Key)
<1>1. item.post \in 1..Posts /\ item \in Forms(kind, item.post)
    BY DEF Formed, Item
<1>2. Primary(item) \in Key
    BY <1>1, FormKeys
<1>3. AddHistory(history, Primary(item)) \in Seq(Key)
    BY <1>2, HistoryTyped
<1> QED
    BY <1>3 DEF Announce

\* The items before it in the commit are of other posts and add none of its keys:
\* an item is new to the rows it finds exactly when it was new before the commit.
LEMMA CommitAnnounces == IInv /\ Commit => db'.history = AnnounceAll(db.history, Collected)
<1> SUFFICES ASSUME IInv, Commit
             PROVE  db'.history = AnnounceAll(db.history, Collected)
    OBVIOUS
<1> DEFINE c == Collected
           N == Len(c)
<1>1. /\ kind \in Kinds /\ db \in TargetRows /\ Collects(scan) /\ Differ(scan) /\ TypeOK
      /\ db.history \in Seq(Key) /\ scan.config \in Configs
    BY DEF IInv, TypeOK, ScanOK, TargetRows, Attempt
<1>2. db \in SoundRows
    BY <1>1 DEF IInv, RowsOK, SoundRows
<1>3. /\ c \in Seq(Formed) /\ N \in Nat
      /\ \A i, j \in 1..N : c[i].post = c[j].post => i = j
    <2>1. c \in Seq(Formed) /\ \A i, j \in 1..N : c[i].post = c[j].post => i = j
        BY <1>1, CollectedFormed
    <2> QED
        BY <2>1, LenProperties
<1> HIDE DEF c
<1>4. ASSUME NEW i \in 1..N
      PROVE  c[i] \in Formed /\ c[i].post \in 1..Posts /\ c[i] \in Forms(kind, c[i].post)
    <2>1. c[i] \in Formed
        BY <1>3, ElementOfSeq
    <2> QED
        BY <2>1 DEF Formed, Item
<1>5. PICK r : ClassifyRun(r, SoundRows, db, c)
    <2>1. ASSUME NEW d \in SoundRows, NEW item \in Formed
          PROVE  Classify(d, item) \in SoundRows
        <3>1. item.post \in 1..Posts /\ item \in Forms(kind, item.post)
            BY DEF Formed, Item
        <3> QED
            BY <1>1, <3>1, ClassifyKeeps
    <2> QED
        BY <1>2, <1>3, <2>1, ClassifyRuns
<1>6. PICK h : AnnounceRun(h, Seq(Key), db.history, c)
    <2>1. \A history \in Seq(Key) : \A item \in Formed : Announce(history, item) \in Seq(Key)
        BY <1>1, AnnounceTyped
    <2> QED
        BY <1>1, <1>3, <2>1, AnnounceRuns
<1>7. /\ r[0] = db /\ r[N] = ClassifyAll(db, c) /\ \A n \in 0..N : r[n] \in SoundRows
      /\ \A n \in 1..N : r[n] = Classify(r[n - 1], c[n])
    BY <1>5 DEF ClassifyRun
<1>8. /\ h[0] = db.history /\ h[N] = AnnounceAll(db.history, c)
      /\ \A n \in 1..N : h[n] = Announce(h[n - 1], c[n])
    BY <1>6 DEF AnnounceRun
<1> DEFINE Done(n) ==
               /\ r[n].history = h[n]
               /\ \A key : HasKey(r[n].aliases, key)
                               <=> HasKey(db.aliases, key) \/ \E i \in 1..n : key \in KeySet(c[i])
           T == {n \in 0..N : Done(n)}
<1>9. 0 \in T
    <2>1. Done(0)
        BY <1>7, <1>8
    <2> HIDE DEF Done
    <2> QED
        BY <1>3, <2>1
<1>10. ASSUME NEW n \in 0..(N - 1), n \in T
       PROVE  n + 1 \in T
    <2> DEFINE item == c[n + 1]
               p == item.post
               d == r[n]
    <2>1. n + 1 \in 1..N /\ n + 1 \in 0..N /\ n + 1 - 1 = n /\ n \in 0..N
        BY <1>3
    <2>2. /\ r[n + 1] = Classify(d, item) /\ h[n + 1] = Announce(h[n], item)
          /\ d \in SoundRows /\ p \in 1..Posts /\ item \in Forms(kind, p)
        BY <1>4, <1>7, <1>8, <2>1
    <2>3. Done(n)
        BY <1>10
    <2>4. ASSUME NEW key \in KeySet(item), NEW i \in 1..n
          PROVE  key \notin KeySet(c[i])
        <3>1. i \in 1..N /\ i # n + 1
            BY <1>3
        <3>2. c[i].post # p
            BY <1>3, <2>1, <3>1
        <3>3. c[i].post \in 1..Posts /\ c[i] \in Forms(kind, c[i].post)
            BY <1>4, <3>1
        <3>4. key[2] = p
            BY <1>1, <2>2, FormKeys
        <3>5. key \in KeySet(c[i]) => key[2] = c[i].post
            BY <1>1, <3>3, FormKeys
        <3> QED
            BY <3>2, <3>4, <3>5
    <2> HIDE DEF item, p, d
    <2>5. /\ \A k : HasKey(r[n + 1].aliases, k) <=> HasKey(d.aliases, k) \/ k \in KeySet(item)
          /\ r[n + 1].history = IF /\ HitRows(d, item) = {}
                                   /\ Eligible(scan.config.keywords, TextOf[item.post])
                                THEN AddHistory(d.history, Primary(item)) ELSE d.history
        BY <1>1, <2>2, ClassifyKeeps
    <2>6. HitRows(d, item) = {} <=> ~KnownRow(item)
        <3>1. HitRows(db, item) = {} <=> ~KnownRow(item)
            BY DEF HitRows, KnownRow
        <3>2. \A key \in KeySet(item) : HasKey(d.aliases, key) <=> HasKey(db.aliases, key)
            BY <2>3, <2>4 DEF d
        <3> QED
            BY <3>1, <3>2, HitByKey
    <2>7. Eligible(scan.config.keywords, TextOf[p]) <=> Wanted(scan.config.keywords, TextOf[p])
        <3>1. Words(TextOf[p])
            BY <2>2, PhrasesAreWords
        <3>2. \A phrase \in scan.config.keywords.ignore \cup UNION scan.config.keywords.exclude :
                  Words(phrase)
            BY <1>1, PhrasesAreWords
        <3> QED
            BY <3>1, <3>2, WantedIsEligible
    <2>8. r[n + 1].history = h[n + 1]
        <3>1. d.history = h[n]
            BY <2>3 DEF d
        <3>2. h[n + 1] = IF ~KnownRow(item) /\ Wanted(scan.config.keywords, TextOf[p])
                         THEN AddHistory(h[n], Primary(item)) ELSE h[n]
            BY <2>2 DEF Announce, p
        <3> QED
            BY <2>5, <2>6, <2>7, <3>1, <3>2 DEF p
    <2>9. \A key : HasKey(r[n + 1].aliases, key)
                       <=> HasKey(db.aliases, key) \/ \E i \in 1..(n + 1) : key \in KeySet(c[i])
        <3>1. \A i : i \in 1..(n + 1) <=> i \in 1..n \/ i = n + 1
            BY <1>3
        <3> QED
            BY <2>3, <2>5, <3>1 DEF item, d
    <2>10. Done(n + 1)
        BY <2>8, <2>9
    <2> HIDE DEF Done
    <2> QED
        BY <2>1, <2>10
<1>11. \A n \in 0..N : n \in T
    <2> HIDE DEF T, N
    <2> QED
        BY <1>3, <1>9, <1>10, RangeInduction
<1>12. r[N].history = AnnounceAll(db.history, c)
    BY <1>3, <1>8, <1>11
<1>13. db'.history = r[N].history
    <2>1. r[N] \in TargetRows
        BY <1>3, <1>7 DEF SoundRows
    <2>2. db' = [r[N] EXCEPT !.latest = LatestItems(Collected)]
        BY <1>7 DEF Commit, c
    <2> QED
        BY <2>1, <2>2 DEF TargetRows
<1> QED
    BY <1>12, <1>13 DEF c

\* A commit announces exactly the new items which the configuration its attempt
\* started with wants: the matcher, with the ignored phrases merged and masked,
\* computes the rule it is meant to, for texts and phrases of any length.
THEOREM AnnouncedAsConfigured == Spec => MatchesAsConfigured
<1>1. IInv /\ [Next]_vars => [Commit => db'.history = AnnounceAll(db.history, Collected)]_vars
    BY CommitAnnounces
<1> QED
    BY <1>1, PipelineInvariant, PTL DEF Spec, MatchesAsConfigured

=============================================================================
