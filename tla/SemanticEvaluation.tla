------------------------- MODULE SemanticEvaluation -------------------------
(* memory-v2-eval: every case consolidates its conversation into memories,  *)
(* which are matched with the case's gold snapshots - the final one, the    *)
(* extracted part and the preserved part - by embedding, and the pairs left *)
(* over by a judging model, whose verdicts are kept for the case.           *)
EXTENDS Matching

CONSTANTS
    Items,          \* memory items, numbered in the order of their sort key
    Class(_),       \* item -> main_class
    Text(_),        \* item -> text; its sub_class sets items of one text apart
    Levels,         \* similarities of two different texts
    Floor,          \* DEFAULT_JUDGE_CANDIDATE_FLOOR
    Extract,        \* threshold of the scenario extraction
    Overwrite,      \* threshold of the scenario overwrite_preservation
    Same,           \* similarity of a text and itself
    TopK,           \* DEFAULT_JUDGE_TOP_K
    MaxItems(_),    \* bound: items of a snapshot of the n-th case
    MaxCases        \* bound: cases of an evaluation

\* No two texts are more alike than one and itself, and the thresholds are similarities.
ASSUME EvaluationAssumption ==
    /\ IsFiniteSet(Items) /\ Items \subseteq Int
    /\ Levels \cup {Extract, Overwrite, Same} \subseteq Int
    /\ \A l \in Levels \cup {Extract, Overwrite} : l <= Same
    /\ MaxCases \in Nat /\ \A n \in 1..MaxCases : MaxItems(n) \in Nat

VARIABLES
    scored,         \* metrics of the cases done, in order
    case,           \* the case being scored: its scenario and gold snapshots
    predicted,      \* what its consolidation made
    alike,          \* <<predicted, gold>> -> similarity of their texts
    judge_cache,    \* <<class, text, text>> -> verdict, for the case
    matched         \* gold snapshot -> its matching

evaluation == <<scored, case, predicted, alike, judge_cache, matched>>

Golds == <<"final", "extracted", "preserved">>
Snapshots == {S \in SUBSET Items : Cardinality(S) <= MaxItems(Len(scored) + 1)}
Classes == {Class(i) : i \in Items}
In(c, S) == {i \in S : Class(i) = c}
NoCase == [scenario |-> "none"]

\* What the bounded similarities are: cosines, so symmetric.
Similarities ==
    LET texts == {Text(i) : i \in Items}
        pairs == {S \in SUBSET texts : Cardinality(S) = 2}
    IN {[p \in Items \X Items |->
            IF Text(p[1]) = Text(p[2]) THEN Same ELSE f[{Text(p[1]), Text(p[2])}]]
        : f \in [pairs -> Levels]}

\* As in the fixtures: the final snapshot is what is extracted and what is
\* preserved, and an extraction starts from nothing that could be.
Cases ==
    {[scenario |-> "extraction", final |-> G, extracted |-> G, preserved |-> {}] : G \in Snapshots}
    \cup {[scenario |-> "overwrite_preservation", final |-> G, extracted |-> E, preserved |-> G \ E] :
             G \in Snapshots, E \in SUBSET Items}

IsCase(c) == c.final = c.extracted \cup c.preserved

Threshold == IF case.scenario = "overwrite_preservation" THEN Overwrite ELSE Extract

-----------------------------------------------------------------------------
(* The matching of two snapshots *)

\* Mutant of MatchBucket: a similarity at the threshold is not enough.
Mut_AboveThreshold(P, G) ==
    {{pair \in M : alike[pair] > Threshold} : M \in Heaviest(P, G, alike)}

\* Of the best assignment the pairs below the threshold are dropped again.
MatchBucket(P, G) ==
    {{pair \in M : alike[pair] >= Threshold} : M \in Heaviest(P, G, alike)}

MatchSnapshots(P, G) ==
    PerClass([c \in Classes |-> MatchBucket(In(c, P), In(c, G))])

\* The judge is asked about the TopK closest gold items of each predicted one.
Ahead(p, g, h) == alike[<<p, h>>] > alike[<<p, g>>] \/ (alike[<<p, h>>] = alike[<<p, g>>] /\ h < g)

CandidatePairs(P, G) ==
    {pair \in P \X G :
        /\ Class(pair[1]) = Class(pair[2])
        /\ alike[pair] >= Floor
        /\ Cardinality({h \in In(Class(pair[1]), G) : Ahead(pair[1], pair[2], h)}) < TopK}

CacheKey(pair) == <<Class(pair[1]), Text(pair[1]), Text(pair[2])>>

\* A verdict stands for the whole case; the model answers what is not cached.
Verdicts(pairs) ==
    LET asked == {CacheKey(pair) : pair \in pairs} \ DOMAIN judge_cache IN
    {[k \in DOMAIN judge_cache \cup asked |->
        IF k \in asked THEN answers[k] ELSE judge_cache[k]] : answers \in [asked -> BOOLEAN]}

Earlier(x, y) ==
    \/ alike[x] > alike[y]
    \/ alike[x] = alike[y] /\ (x[1] < y[1] \/ (x[1] = y[1] /\ x[2] < y[2]))

\* Mutants of TakeInOrder: a gold item may be taken twice; an item is taken
\* for used when its text is.
Mut_GoldAgain(pairs) ==
    LET taken[x \in pairs] == \A y \in pairs : Earlier(y, x) /\ x[1] = y[1] => ~taken[y]
    IN  {x \in pairs : taken[x]}
Mut_ByText(pairs) ==
    LET taken[x \in pairs] == \A y \in pairs :
            Earlier(y, x) /\ (Text(x[1]) = Text(y[1]) \/ Text(x[2]) = Text(y[2])) => ~taken[y]
    IN  {x \in pairs : taken[x]}

\* Positive pairs by falling similarity, each taken if both ends are free.
TakeInOrder(pairs) ==
    LET taken[x \in pairs] == \A y \in pairs :
            Earlier(y, x) /\ (x[1] = y[1] \/ x[2] = y[2]) => ~taken[y]
    IN  {x \in pairs : taken[x]}

JudgeMatches(P, G, verdicts) ==
    TakeInOrder({pair \in CandidatePairs(P, G) : verdicts[CacheKey(pair)]})

-----------------------------------------------------------------------------
(* The steps of an evaluation *)

Consolidate ==
    /\ case = NoCase /\ Len(scored) < MaxCases
    /\ case' \in {c \in Cases : IsCase(c)}
    /\ predicted' \in Snapshots
    /\ alike' \in Similarities
    /\ judge_cache' = <<>> /\ matched' = <<>>
    /\ UNCHANGED scored

HybridMatch(gold) ==
    /\ case # NoCase
    /\ \A k \in DOMAIN Golds : Golds[k] \in DOMAIN matched <=> k < CHOOSE j \in 1..3 : Golds[j] = gold
    /\ \E M \in MatchSnapshots(predicted, case[gold]) :
         LET P == Left(predicted, M)
             G == Right(case[gold], M)
         IN \E verdicts \in Verdicts(CandidatePairs(P, G)) :
              LET J == JudgeMatches(P, G, verdicts) IN
              /\ judge_cache' = verdicts
              /\ matched' = [g \in DOMAIN matched \cup {gold} |->
                    IF g # gold THEN matched[g]
                    ELSE [semantic |-> M, judge |-> J, extra |-> Left(P, J), missing |-> Right(G, J)]]
    /\ UNCHANGED <<scored, case, predicted, alike>>

Accepted(gold) == matched[gold].semantic \cup matched[gold].judge

\* Mutant of CaseMetrics: the matches of every gold snapshot are counted.
Mut_AllGolds ==
    [tp |-> Cardinality(Accepted("final")) + Cardinality(Accepted("extracted")),
     fp |-> Cardinality(matched["final"].extra), fn |-> Cardinality(matched["final"].missing)]

\* The counts of a case; it is exact if neither fp nor fn is left.
CaseMetrics ==
    [tp |-> Cardinality(Accepted("final")),
     fp |-> Cardinality(matched["final"].extra), fn |-> Cardinality(matched["final"].missing)]

ScoreCase ==
    /\ DOMAIN matched = Range(Golds)
    /\ scored' = Append(scored, CaseMetrics)
    /\ case' = NoCase /\ predicted' = {} /\ alike' = <<>> /\ judge_cache' = <<>> /\ matched' = <<>>

EvaluationInit ==
    /\ scored = <<>> /\ case = NoCase /\ predicted = {}
    /\ alike = <<>> /\ judge_cache = <<>> /\ matched = <<>>

EvaluationNext ==
    \/ Consolidate
    \/ \E gold \in Range(Golds) : HybridMatch(gold)
    \/ ScoreCase

EvaluationSpec == EvaluationInit /\ [][EvaluationNext]_evaluation

-----------------------------------------------------------------------------
(* The report *)

Sum(group, field) == MapThenSumSet(LAMBDA k : scored[k][field], group)

\* Mutant of Rate: nothing right counts as all right.
Mut_NothingIsAll(part, rest) == IF part = 0 THEN <<1, 1>> ELSE <<part, part + rest>>

\* tp of tp + fp, or all of nothing: a rate is a pair <<part, whole>>.
Rate(part, rest) == IF part + rest = 0 THEN <<1, 1>> ELSE <<part, part + rest>>
AtMost(x, y) == x[1] * y[2] <= y[1] * x[2]

\* Precision and recall of a group of cases (all, or those of a scenario) are
\* those of the summed counts.
AggregateGroup(group) ==
    [precision |-> Rate(Sum(group, "tp"), Sum(group, "fp")),
     recall |-> Rate(Sum(group, "tp"), Sum(group, "fn"))]

-----------------------------------------------------------------------------
(* Properties *)

EvaluationTypeOK ==
    /\ case # NoCase => case.final \subseteq Items /\ IsCase(case)
    /\ predicted \subseteq Items
    /\ \A k \in DOMAIN judge_cache : judge_cache[k] \in BOOLEAN
    /\ \A gold \in DOMAIN matched :
          /\ matched[gold].semantic \cup matched[gold].judge \subseteq Items \X Items
          /\ matched[gold].extra \cup matched[gold].missing \subseteq Items
    /\ \A k \in DOMAIN scored :
          scored[k].tp + scored[k].fp \in 0..MaxItems(k) /\ scored[k].tp + scored[k].fn \in 0..MaxItems(k)

\* Every predicted and every gold item is counted exactly once: in one pair
\* of one of the two stages, or as left over - whatever the judge answers.
EveryItemOnce ==
    \A gold \in DOMAIN matched :
        LET M == Accepted(gold) IN
        /\ OneToOne(M)
        /\ matched[gold].semantic \cap matched[gold].judge = {}
        /\ Left(predicted, M) = matched[gold].extra /\ Right(case[gold], M) = matched[gold].missing
        /\ \A pair \in M : Class(pair[1]) = Class(pair[2])

\* A snapshot that says what the gold one says is an exact match, and the
\* judge is never needed for it.
PerfectIsExact ==
    \A gold \in DOMAIN matched :
        predicted = case[gold] =>
            matched[gold].judge = {} /\ matched[gold].extra = {} /\ matched[gold].missing = {}

\* Nothing the judge called the same memory is left over on both sides, also
\* when the verdict was given for another of the case's gold snapshots.
NothingLeftToMatch ==
    \A gold \in DOMAIN matched :
        \A pair \in matched[gold].extra \X matched[gold].missing :
            ~ /\ CacheKey(pair) \in DOMAIN judge_cache /\ judge_cache[CacheKey(pair)]
              /\ pair \in CandidatePairs(Left(predicted, matched[gold].semantic),
                                         Right(case[gold], matched[gold].semantic))

\* The rates of a report lie between those of its cases; a case without
\* anything to find counts for nothing, not for a full score.
AverageIsBetween ==
    \A group \in (SUBSET DOMAIN scored) \ {{}} : \A rate \in {"precision", "recall"} :
        LET all == AggregateGroup(group)[rate] IN
        /\ \E k \in group : AtMost(all, AggregateGroup({k})[rate])
        /\ \E k \in group : AtMost(AggregateGroup({k})[rate], all)

\* The report is sound: types, matchings, and the rates made of them.
ReportIsSound ==
    EvaluationTypeOK /\ EveryItemOnce /\ PerfectIsExact /\ NothingLeftToMatch /\ AverageIsBetween
=============================================================================
