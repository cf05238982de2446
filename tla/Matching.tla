------------------------------ MODULE Matching ------------------------------
(* The matchings both evaluations of the memory are built on: which item of *)
(* a predicted snapshot stands for which item of a gold snapshot.  A        *)
(* matching is a set of pairs <<predicted, gold>>.                          *)
EXTENDS Integers, FiniteSets, FiniteSetsExt, SequencesExt

OneToOne(M) ==
    \A x \in M, y \in M : x[1] = y[1] \/ x[2] = y[2] => x = y

Left(P, M)  == P \ {pair[1] : pair \in M}
Right(G, M) == G \ {pair[2] : pair \in M}

\* The assignments linear_sum_assignment chooses from: as many pairs as the
\* smaller side has items.
Assignments(P, G) ==
    {M \in kSubset(IF Cardinality(P) <= Cardinality(G) THEN Cardinality(P) ELSE Cardinality(G), P \X G) :
        OneToOne(M)}

Weight(M, similar) == MapThenSumSet(LAMBDA pair : similar[pair], M)

\* The cost is 1 - similarity: an assignment of least cost is one of most
\* similarity.  Which of several it is depends on the order of the rows.
Heaviest(P, G, similar) ==
    LET all == Assignments(P, G) IN
    {M \in all : \A N \in all : Weight(M, similar) >= Weight(N, similar)}

\* One of the matchings of each main class, put together.
PerClass(best) ==
    LET classes == DOMAIN best
        picks   == {f \in [classes -> UNION {best[c] : c \in classes}] :
                       \A c \in classes : f[c] \in best[c]}
    IN {UNION {f[c] : c \in classes} : f \in picks}
=============================================================================
