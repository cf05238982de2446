-------------------------- MODULE QueryEvaluation ---------------------------
(* memory-v2-query-eval: a question is answered from the memories retrieved *)
(* for it.  The retrieved memories, and the core ones, are matched with the *)
(* memories that support the gold answer and with the stale ones, first by  *)
(* their normalised text, then by embedding; the answer is compared with    *)
(* the gold one and otherwise judged.                                       *)
EXTENDS Matching

CONSTANTS
    Memories,       \* memories, numbered in the order of their sort key
    Main(_),        \* memory -> main_class
    Normal(_),      \* memory -> its normalised text
    Core,           \* _CORE_CLASSES
    Closeness,      \* similarities of two texts: 0 is below the threshold
    Most,           \* bound: memories retrieved, gold ones of a kind
    MostGone        \* bound: memories that are not stored

ASSUME QueryAssumption == IsFiniteSet(Memories) /\ Memories \subseteq Int

VARIABLES
    result,         \* the question's result
    question,       \* what supports its answer, what is stale, what is stored
    hits,           \* the memories retrieved for it, best first
    near,           \* <<memory, gold>> -> similarity of their texts
    graded          \* the answer's score

query == <<result, question, hits, near, graded>>

NoResult == [ranks |-> {}]
NoQuestion == [support |-> {}, forbidden |-> {}, stored |-> {}]
Small(S) == {T \in SUBSET S : Cardinality(T) <= Most}
MainClasses == {Main(m) : m \in Memories}
OfClass(c, S) == {m \in S : Main(m) = c}

Nearness ==
    LET texts == {Normal(m) : m \in Memories}
        pairs == {S \in SUBSET texts : Cardinality(S) = 2}
    IN {[p \in Memories \X Memories |->
            IF Normal(p[1]) = Normal(p[2]) THEN 2 ELSE table[{Normal(p[1]), Normal(p[2])}]]
        : table \in [pairs -> Closeness]}

-----------------------------------------------------------------------------
(* The matching *)

Nth(m, S) == Cardinality({n \in S : Normal(n) = Normal(m) /\ n < m})

\* First stage: the n-th predicted memory of a normalised text takes the n-th
\* gold one.
ExactPairs(P, G) ==
    {pair \in P \X G : Normal(pair[1]) = Normal(pair[2]) /\ Nth(pair[1], P) = Nth(pair[2], G)}

\* Mutant of BucketMatchMemories: what is left is told by the texts.
Mut_LeftByText(P, G) ==
    LET exact == {pair \in P \X G : Normal(pair[1]) = Normal(pair[2]) /\ Nth(pair[1], P) = 0 /\ Nth(pair[2], G) = 0}
        Free(S, used) == {m \in S : \A u \in used : Normal(u) # Normal(m)}
    IN {exact \cup {pair \in M : near[pair] >= 1} :
           M \in Heaviest(Free(P, {x[1] : x \in exact}), Free(G, {x[2] : x \in exact}), near)}

\* Second stage, on what is left: the best assignment, without the pairs
\* below the threshold.
BucketMatchMemories(P, G) ==
    LET exact == ExactPairs(P, G) IN
    {exact \cup {pair \in M : near[pair] >= 1} :
        M \in Heaviest(Left(P, exact), Right(G, exact), near)}

MatchMemorySnapshots(P, G) ==
    PerClass([c \in MainClasses |-> BucketMatchMemories(OfClass(c, P), OfClass(c, G))])

-----------------------------------------------------------------------------
(* A question *)

\* A case names what supports its answer; the workspace is seeded from its
\* snapshot, or by replaying its conversations.
Ask ==
    /\ graded = "no"
    /\ \E S \in Small(Memories) \ {{}}, F \in Small(Memories), stored \in SUBSET Memories :
         /\ S \cap F = {} /\ Cardinality(Memories \ stored) <= MostGone
         /\ question' = [support |-> S, forbidden |-> F, stored |-> stored]
    /\ near' \in Nearness
    /\ graded' = "asked"
    /\ UNCHANGED <<result, hits>>

\* Mutant of SearchDynamic: it also finds what is no longer stored.
Mut_Everything ==
    /\ graded = "asked"
    /\ \E T \in Small({m \in Memories : Main(m) \notin Core}) : hits' \in SetToSeqs(T)
    /\ graded' = "searched"
    /\ UNCHANGED <<result, question, near>>

\* search_dynamic ranks memories outside the core classes.
SearchDynamic ==
    /\ graded = "asked"
    /\ \E T \in Small({m \in question.stored : Main(m) \notin Core}) : hits' \in SetToSeqs(T)
    /\ graded' = "searched"
    /\ UNCHANGED <<result, question, near>>

\* _normalize_memory_snapshot puts the retrieved memories in the order of
\* their sort key: ranks are positions in that order, not in the search's.
Position(m) == Cardinality({n \in Range(hits) : n <= m})

\* Mutant of Ranks: a memory counts where one of the same text stands.
Mut_TextRanks(M) ==
    {Position(m) : m \in {n \in Range(hits) : \E pair \in M : Normal(pair[1]) = Normal(n)}}

Ranks(M) == {Position(pair[1]) : pair \in M}

\* An answer that is not the gold one, nor an alias of it, is judged.
EvaluateWorkspace ==
    /\ graded = "searched"
    /\ \E found \in MatchMemorySnapshots(Range(hits), question.support),
          core \in MatchMemorySnapshots({m \in question.stored : Main(m) \in Core}, question.support),
          stale \in MatchMemorySnapshots(Range(hits), question.forbidden),
          score \in {"exact", "judged right", "judged wrong"} :
         result' = [found |-> found, stale |-> stale,
                    missing |-> Right(question.support, found),
                    inCore |-> Right(question.support, core) = {},
                    ranks |-> Ranks(found),
                    exactMatch |-> Right(question.support, found) = {} /\ stale = {},
                    correct |-> score # "judged wrong"]
    /\ graded' = "done"
    /\ UNCHANGED <<question, hits, near>>

QueryInit ==
    result = NoResult /\ question = NoQuestion /\ hits = <<>> /\ near = <<>> /\ graded = "no"

QueryNext == Ask \/ SearchDynamic \/ EvaluateWorkspace

QuerySpec == QueryInit /\ [][QueryNext]_query

-----------------------------------------------------------------------------
(* Properties *)

QueryTypeOK ==
    /\ Range(hits) \subseteq question.stored /\ question.support \cap question.forbidden = {}
    /\ graded = "done" =>
         /\ result.found \cup result.stale \subseteq Memories \X Memories
         /\ result.correct \in BOOLEAN /\ result.inCore \in BOOLEAN

\* Support that is retrieved is never reported as missing, and a retrieved
\* memory that says what a stale one says is always reported as stale,
\* however its spelling differs and whatever else resembles it.
RetrievedIsSeen ==
    graded = "done" =>
        /\ question.support \subseteq Range(hits) => result.missing = {}
        /\ \A m \in Range(hits), f \in question.forbidden :
             Main(m) = Main(f) /\ Normal(m) = Normal(f) => result.stale # {} /\ ~result.exactMatch

\* Each found support has a rank of its own: a hit at k means recall, the
\* first rank means a hit at 1, and nothing missing means as many hits as
\* support.
RanksFitMatches ==
    graded = "done" =>
        /\ OneToOne(result.found)
        /\ Cardinality(result.ranks) = Cardinality(result.found)
        /\ Cardinality(result.ranks) + Cardinality(result.missing) = Cardinality(question.support)

\* The result of a question is sound: types, what counts as found or stale, and the ranks.
QueryIsSound == QueryTypeOK /\ RetrievedIsSeen /\ RanksFitMatches
=============================================================================
