---------------------------- MODULE KeywordRules ----------------------------
(* core/keyword_rules.py and core/keyword_groups.py: whether a text is one  *)
(* the target watches for.  A text and a phrase are sequences of words, a   *)
(* rule is the set of phrases that must all occur (the terms between two    *)
(* separators), and a configuration is                                      *)
(*   [groups : set of sets of rules, exclude : set of rules,                *)
(*    ignore : set of phrases].                                             *)
EXTENDS Integers, Sequences, FiniteSets, SequencesExt

Blank == ""

\* Where a phrase occurs, as half-open ranges.
Occurrences(phrase, text) ==
    {<<i, i + Len(phrase)>> : i \in
        {j \in 1..(Len(text) - Len(phrase) + 1) :
            SubSeq(text, j, j + Len(phrase) - 1) = phrase}}

Found(phrase, text) == Occurrences(phrase, text) # {}
RuleMatches(rule, text) == \A term \in rule : Found(term, text)
MatchedRules(rules, text) == {r \in rules : RuleMatches(r, text)}

\* OR within a group, AND across the groups that have a rule; a target without
\* include rules matches nothing.
IncludeResult(groups, text) ==
    LET filled == {g \in groups : g # {}}
    IN  /\ filled # {}
        /\ \A g \in filled : MatchedRules(g, text) # {}

Earlier(r, s) == r[1] < s[1] \/ (r[1] = s[1] /\ r[2] < s[2])

\* Mutant: an occurrence inside a longer one ends the merged range.
AddRangeShortening(merged, range) ==
    IF merged = <<>> \/ range[1] > Last(merged)[2]
    THEN Append(merged, range)
    ELSE [merged EXCEPT ![Len(merged)] = <<@[1], range[2]>>]

AddRange(merged, range) ==
    IF merged = <<>> \/ range[1] > Last(merged)[2]
    THEN Append(merged, range)
    ELSE [merged EXCEPT ![Len(merged)] =
              <<@[1], IF range[2] > @[2] THEN range[2] ELSE @[2]>>]

InOrder(ranges) ==
    CHOOSE list \in [1..Cardinality(ranges) -> ranges] :
        \A i, j \in DOMAIN list : i < j => Earlier(list[i], list[j])
AddRanges(list) == FoldLeft(AddRange, <<>>, list)
MergeRanges(ranges) == AddRanges(InOrder(ranges))

MaskRanges(text, ranges) ==
    [i \in 1..Len(text) |->
        IF \E k \in 1..Len(ranges) : ranges[k][1] <= i /\ i < ranges[k][2]
        THEN Blank ELSE text[i]]

\* What the exclude rules are matched against.
ExcludeText(text, ignore) ==
    MaskRanges(text, MergeRanges(UNION {Occurrences(p, text) : p \in ignore}))

Eligible(keywords, text) ==
    /\ IncludeResult(keywords.groups, text)
    /\ MatchedRules(keywords.exclude, ExcludeText(text, keywords.ignore)) = {}
=============================================================================
