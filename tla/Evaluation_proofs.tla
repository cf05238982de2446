--------------------------- MODULE Evaluation_proofs ---------------------------
(* What the two evaluations of the memory report, for any items, texts,        *)
(* similarities and verdicts: every item is counted once, what is equal is     *)
(* matched whatever the judge says, ranks fit the matches, and the rates of a  *)
(* report lie between those of its cases.                                      *)
EXTENDS Standalone_proofs

-----------------------------------------------------------------------------
(* Counting. *)

\* As many values as arguments, if no two arguments have one value.
LEMMA OneValueEach ==
    ASSUME NEW S, NEW f, IsFiniteSet(S), \A x, y \in S : f[x] = f[y] => x = y
    PROVE  IsFiniteSet({f[x] : x \in S}) /\ Cardinality({f[x] : x \in S}) = Cardinality(S)
<1>1. PICK T : T = {f[x] : x \in S}
  OBVIOUS
<1>2. PICK g : g = [x \in S |-> f[x]]
  OBVIOUS
<1>3. g \in [S -> T] /\ \A x \in S : g[x] = f[x]
  BY <1>1, <1>2
<1>4. g \in Bijection(S, T)
  BY <1>1, <1>3 DEF Bijection, Injection, Surjection, IsInjective
<1>5. ExistsBijection(S, T)
  BY <1>4 DEF ExistsBijection
<1>6. QED
  BY <1>1, <1>5, FS_Bijection

LEMMA SomeAreFewer ==
    ASSUME NEW S, NEW T, IsFiniteSet(S), T \subseteq S
    PROVE  /\ IsFiniteSet(T) /\ Cardinality(T) \in Nat /\ Cardinality(S) \in Nat /\ Cardinality(T) <= Cardinality(S)
           /\ T # S => Cardinality(T) < Cardinality(S)
<1>1. /\ IsFiniteSet(T) /\ Cardinality(T) <= Cardinality(S) /\ (Cardinality(S) = Cardinality(T) => S = T)
  BY FS_Subset
<1>2. Cardinality(T) \in Nat /\ Cardinality(S) \in Nat
  BY <1>1, FS_CardinalityType
<1>3. QED
  BY <1>1, <1>2

\* The numbers before x in S.
Before(x, S) == {y \in S : y < x}

LEMMA BeforeGrows ==
    ASSUME NEW S, IsFiniteSet(S), S \subseteq Int
    PROVE  /\ \A x \in S : Cardinality(Before(x, S)) \in Nat /\ Cardinality(Before(x, S)) < Cardinality(S)
           /\ \A x, y \in S : x < y => Cardinality(Before(x, S)) < Cardinality(Before(y, S))
           /\ \A x, y \in S : Cardinality(Before(x, S)) = Cardinality(Before(y, S)) => x = y
<1>1. ASSUME NEW x \in S
      PROVE  Cardinality(Before(x, S)) \in Nat /\ Cardinality(Before(x, S)) < Cardinality(S) /\ IsFiniteSet(Before(x, S))
  <2>1. x \in S /\ x \notin Before(x, S) /\ Before(x, S) \subseteq S
    BY <1>1 DEF Before
  <2>2. QED
    BY <2>1, SomeAreFewer
<1>2. ASSUME NEW x \in S, NEW y \in S, x < y
      PROVE  Cardinality(Before(x, S)) < Cardinality(Before(y, S))
  <2>1. x \in Int /\ y \in Int /\ ~ (x < x) /\ \A z \in S : z < x => z < y
    BY <1>2
  <2>3. x \in Before(y, S) /\ x \notin Before(x, S) /\ Before(x, S) \subseteq Before(y, S)
    BY <1>2, <2>1 DEF Before
  <2>4. QED
    BY <1>1, <2>3, SomeAreFewer
<1>3. ASSUME NEW x \in S, NEW y \in S, Cardinality(Before(x, S)) = Cardinality(Before(y, S))
      PROVE  x = y
  <2>1. ~ (x < y) /\ ~ (y < x) /\ x \in Int /\ y \in Int
    BY <1>1, <1>2, <1>3
  <2>2. QED
    BY <2>1
<1>4. QED
  BY <1>1, <1>2, <1>3

\* In a set of n numbers there is one with k before it, for every k < n.
LEMMA SomeAtEach ==
    ASSUME NEW S, IsFiniteSet(S), S \subseteq Int, NEW k \in Nat, k < Cardinality(S)
    PROVE  \E x \in S : Cardinality(Before(x, S)) = k
<1>1. PICK f : f = [x \in S |-> Cardinality(Before(x, S))]
  OBVIOUS
<1>2. PICK n \in Nat : n = Cardinality(S)
  BY FS_CardinalityType
<1>3. PICK T : T = {f[x] : x \in S}
  OBVIOUS
<1>4. \A x \in S : f[x] \in Nat /\ f[x] < n
  BY <1>1, <1>2, BeforeGrows
<1>5. Cardinality(T) = n
  <2>1. \A x, y \in S : f[x] = f[y] => x = y
    BY <1>1, BeforeGrows
  <2>2. QED
    BY <1>2, <1>3, <2>1, OneValueEach
<1>6. T \subseteq 0..(n - 1) /\ n # 0
  <2>1. \A x \in S : f[x] \in 0..(n - 1)
    BY <1>4
  <2>2. QED
    BY <1>2, <1>3, <2>1
<1>7. IsFiniteSet(0..(n - 1)) /\ Cardinality(0..(n - 1)) = n
  BY <1>6, FS_Interval
<1>8. T = 0..(n - 1)
  BY <1>5, <1>6, <1>7, FS_Subset
<1>9. k \in T
  BY <1>2, <1>8
<1>10. QED
  BY <1>1, <1>3, <1>9

-----------------------------------------------------------------------------
(* Matchings of the two evaluations. *)

LEMMA MemoriesAreFinite ==
    ASSUME NEW S, S \subseteq Memories
    PROVE  IsFiniteSet(S) /\ S \subseteq Int
BY QueryAssumption, FS_Subset DEF QueryAssumption

\* An assignment pairs what it is given, one with one.
LEMMA HeaviestPairs ==
    ASSUME NEW P, NEW G, NEW similar, NEW M, M \in Heaviest(P, G, similar)
    PROVE  M \subseteq P \X G /\ OneToOne(M)
<1>1. M \in Assignments(P, G)
  BY DEF Heaviest
<1>2. QED
  BY <1>1 DEF Assignments, kSubset

\* A part of a matching is one.
LEMMA OneToOneLess ==
    ASSUME NEW M, NEW N, OneToOne(M), N \subseteq M
    PROVE  OneToOne(N)
BY DEF OneToOne

\* Two matchings that share no ends are one.
LEMMA OneToOneJoined ==
    ASSUME NEW M, NEW N, OneToOne(M), OneToOne(N),
           \A x \in M, y \in N : x[1] # y[1] /\ x[2] # y[2]
    PROVE  OneToOne(M \cup N)
BY DEF OneToOne

LEMMA PerClassIs ==
    ASSUME NEW best, NEW M, M \in PerClass(best)
    PROVE  \E f : /\ \A c \in DOMAIN best : f[c] \in best[c]
                  /\ M = UNION {f[c] : c \in DOMAIN best}
BY DEF PerClass

\* Matchings of different classes are one.
LEMMA OneToOneClasses ==
    ASSUME NEW C, NEW f, \A c \in C : OneToOne(f[c]),
           \A c, d \in C : \A x \in f[c], y \in f[d] : x[1] = y[1] \/ x[2] = y[2] => c = d
    PROVE  OneToOne(UNION {f[c] : c \in C})
<1>1. SUFFICES ASSUME NEW c \in C, NEW d \in C, NEW x \in f[c], NEW y \in f[d], x[1] = y[1] \/ x[2] = y[2]
               PROVE  x = y
  BY DEF OneToOne
<1>2. c = d
  BY <1>1
<1>3. QED
  BY <1>1, <1>2 DEF OneToOne

-----------------------------------------------------------------------------
(* Matching what a question retrieved. *)

OfText(m, S) == {n \in S : Normal(n) = Normal(m)}

LEMMA NthIs ==
    ASSUME NEW S, NEW m
    PROVE  Nth(m, S) = Cardinality(Before(m, OfText(m, S)))
<1>1. {n \in S : Normal(n) = Normal(m) /\ n < m} = Before(m, OfText(m, S))
  BY DEF Before, OfText
<1>2. QED
  BY <1>1 DEF Nth

LEMMA NthDiffers ==
    ASSUME NEW S, S \subseteq Memories, NEW x \in S, NEW y \in S, Normal(x) = Normal(y), Nth(x, S) = Nth(y, S)
    PROVE  x = y
<1>1. PICK T : T = OfText(x, S) /\ T = OfText(y, S)
  BY DEF OfText
<1>2. x \in T /\ y \in T /\ T \subseteq Memories
  BY <1>1 DEF OfText
<1>3. Cardinality(Before(x, T)) = Cardinality(Before(y, T))
  BY <1>1, NthIs
<1>4. QED
  BY <1>2, <1>3, MemoriesAreFinite, BeforeGrows

LEMMA ExactIsOneToOne ==
    ASSUME NEW P, NEW G, P \subseteq Memories, G \subseteq Memories
    PROVE  ExactPairs(P, G) \subseteq P \X G /\ OneToOne(ExactPairs(P, G))
<1>1. ASSUME NEW x \in ExactPairs(P, G), NEW y \in ExactPairs(P, G), x[1] = y[1] \/ x[2] = y[2]
      PROVE  x = y
  <2>1. /\ x \in P \X G /\ Normal(x[1]) = Normal(x[2]) /\ Nth(x[1], P) = Nth(x[2], G)
        /\ y \in P \X G /\ Normal(y[1]) = Normal(y[2]) /\ Nth(y[1], P) = Nth(y[2], G)
    BY DEF ExactPairs
  <2>2. x[1] \in P /\ y[1] \in P /\ x[2] \in G /\ y[2] \in G
    BY <2>1
  <2>3. Normal(x[1]) = Normal(y[1]) /\ Normal(x[2]) = Normal(y[2])
    BY <1>1, <2>1
  <2>4. Nth(x[1], P) = Nth(y[1], P) /\ Nth(x[2], G) = Nth(y[2], G)
    BY <1>1, <2>1
  <2>5. x[1] = y[1] /\ x[2] = y[2]
    BY <2>2, <2>3, <2>4, NthDiffers
  <2>6. QED
    BY <2>1, <2>5
<1>2. QED
  BY <1>1 DEF OneToOne, ExactPairs

LEMMA BucketPairs ==
    ASSUME NEW P, NEW G, P \subseteq Memories, G \subseteq Memories, NEW M, M \in BucketMatchMemories(P, G)
    PROVE  M \subseteq P \X G /\ OneToOne(M) /\ ExactPairs(P, G) \subseteq M
<1>1. PICK exact : exact = ExactPairs(P, G)
  OBVIOUS
<1>2. PICK H \in Heaviest(Left(P, exact), Right(G, exact), near) : M = exact \cup {pair \in H : near[pair] >= 1}
  BY <1>1 DEF BucketMatchMemories
<1>3. PICK N : N = {pair \in H : near[pair] >= 1}
  OBVIOUS
<1>4. H \subseteq Left(P, exact) \X Right(G, exact) /\ OneToOne(H)
  BY <1>2, HeaviestPairs
<1>5. N \subseteq Left(P, exact) \X Right(G, exact) /\ OneToOne(N)
  BY <1>3, <1>4, OneToOneLess
<1>6. exact \subseteq P \X G /\ OneToOne(exact)
  BY <1>1, ExactIsOneToOne
<1>7. \A x \in exact, y \in N : x[1] # y[1] /\ x[2] # y[2]
  <2>1. \A x \in exact : x[1] \notin Left(P, exact) /\ x[2] \notin Right(G, exact)
    BY DEF Left, Right
  <2>2. \A y \in N : y[1] \in Left(P, exact) /\ y[2] \in Right(G, exact)
    BY <1>5
  <2>3. QED
    BY <2>1, <2>2
<1>8. Left(P, exact) \subseteq P /\ Right(G, exact) \subseteq G
  BY DEF Left, Right
<1>9. N \subseteq P \X G
  BY <1>5, <1>8
<1>10. QED
  BY <1>1, <1>2, <1>3, <1>5, <1>6, <1>7, <1>9, OneToOneJoined

LEMMA SnapshotPairs ==
    ASSUME NEW P, NEW G, P \subseteq Memories, G \subseteq Memories, NEW M, M \in MatchMemorySnapshots(P, G)
    PROVE  /\ M \subseteq P \X G /\ OneToOne(M)
           /\ \A c \in MainClasses : ExactPairs(OfClass(c, P), OfClass(c, G)) \subseteq M
<1>1. PICK best : best = [c \in MainClasses |-> BucketMatchMemories(OfClass(c, P), OfClass(c, G))]
  OBVIOUS
<1>2. M \in PerClass(best) /\ DOMAIN best = MainClasses
  BY <1>1 DEF MatchMemorySnapshots
<1>3. PICK f : /\ \A c \in MainClasses : f[c] \in best[c]
               /\ M = UNION {f[c] : c \in MainClasses}
  BY <1>2, PerClassIs
<1>4. \A c : OfClass(c, P) \subseteq P /\ OfClass(c, G) \subseteq G
  BY DEF OfClass
<1>5. \A c \in MainClasses : /\ f[c] \subseteq OfClass(c, P) \X OfClass(c, G) /\ OneToOne(f[c])
                             /\ ExactPairs(OfClass(c, P), OfClass(c, G)) \subseteq f[c]
  <2>1. TAKE c \in MainClasses
  <2>2. f[c] \in BucketMatchMemories(OfClass(c, P), OfClass(c, G))
    BY <1>1, <1>3
  <2>3. OfClass(c, P) \subseteq Memories /\ OfClass(c, G) \subseteq Memories
    BY <1>4
  <2>4. QED
    BY <2>2, <2>3, BucketPairs
<1>6. \A c \in MainClasses : \A x \in f[c] : Main(x[1]) = c /\ Main(x[2]) = c /\ x \in P \X G
  <2>1. TAKE c \in MainClasses
  <2>2. TAKE x \in f[c]
  <2>3. x \in OfClass(c, P) \X OfClass(c, G)
    BY <1>5
  <2>4. x[1] \in OfClass(c, P) /\ x[2] \in OfClass(c, G)
    BY <2>3
  <2>5. QED
    BY <1>4, <2>3, <2>4 DEF OfClass
<1>7. \A c, d \in MainClasses : \A x \in f[c], y \in f[d] : x[1] = y[1] \/ x[2] = y[2] => c = d
  <2>1. TAKE c, d \in MainClasses
  <2>2. TAKE x \in f[c], y \in f[d]
  <2>3. Main(x[1]) = c /\ Main(x[2]) = c /\ Main(y[1]) = d /\ Main(y[2]) = d
    BY <1>6
  <2>4. QED
    BY <2>3
<1>8. OneToOne(M)
  <2>1. PICK C : C = MainClasses
    OBVIOUS
  <2>2. \A c \in C : OneToOne(f[c])
    BY <1>5, <2>1
  <2>3. \A c, d \in C : \A x \in f[c], y \in f[d] : x[1] = y[1] \/ x[2] = y[2] => c = d
    BY <1>7, <2>1
  <2>4. OneToOne(UNION {f[c] : c \in C})
    BY <2>2, <2>3, OneToOneClasses
  <2>5. QED
    BY <1>3, <2>1, <2>4
<1>9. M \subseteq P \X G
  BY <1>3, <1>6
<1>10. QED
  BY <1>3, <1>5, <1>8, <1>9

\* Two sets of memories of a class and a text: the k-th of the one is paired with the k-th
\* of the other.
LEMMA SameTextMeets ==
    ASSUME NEW P, NEW G, P \subseteq Memories, G \subseteq Memories, NEW g \in G, NEW p \in P,
           Normal(p) = Normal(g), Nth(g, G) < Cardinality(OfText(g, P))
    PROVE  \E pair \in ExactPairs(P, G) : pair[2] = g
<1>1. PICK T : T = OfText(g, P)
  OBVIOUS
<1>2. T \subseteq P /\ IsFiniteSet(T) /\ T \subseteq Int /\ OfText(g, G) \subseteq G /\ g \in OfText(g, G)
  BY <1>1, MemoriesAreFinite DEF OfText
<1>3. PICK k \in Nat : k = Nth(g, G)
  <2>1. IsFiniteSet(OfText(g, G)) /\ OfText(g, G) \subseteq Int
    BY <1>2, MemoriesAreFinite
  <2>2. QED
    BY <1>2, <2>1, NthIs, BeforeGrows
<1>4. PICK x \in T : Cardinality(Before(x, T)) = k
  BY <1>1, <1>2, <1>3, SomeAtEach
<1>5. x \in P /\ Normal(x) = Normal(g) /\ OfText(x, P) = T
  BY <1>1 DEF OfText
<1>6. Nth(x, P) = k
  BY <1>4, <1>5, NthIs
<1>7. <<x, g>> \in ExactPairs(P, G)
  BY <1>3, <1>5, <1>6 DEF ExactPairs
<1>8. QED
  BY <1>7

\* What is retrieved and supports the answer is found.
LEMMA RetrievedIsFound ==
    ASSUME NEW P, NEW G, P \subseteq Memories, G \subseteq P, NEW M, M \in MatchMemorySnapshots(P, G)
    PROVE  Right(G, M) = {}
<1>1. SUFFICES ASSUME NEW g \in G
               PROVE  \E pair \in M : pair[2] = g
  BY DEF Right
<1>2. PICK c \in MainClasses : c = Main(g)
  BY <1>1 DEF MainClasses
<1>3. PICK A, B : A = OfClass(c, P) /\ B = OfClass(c, G)
  OBVIOUS
<1>4. A \subseteq Memories /\ B \subseteq A /\ g \in B /\ g \in A /\ B \subseteq Memories /\ G \subseteq Memories
  BY <1>1, <1>2, <1>3 DEF OfClass
<1>5. OfText(g, B) \subseteq OfText(g, A) /\ g \in OfText(g, B) /\ OfText(g, A) \subseteq Memories /\ OfText(g, B) \subseteq Memories
  BY <1>4 DEF OfText
<1>6. /\ Cardinality(OfText(g, B)) <= Cardinality(OfText(g, A))
      /\ Cardinality(OfText(g, B)) \in Nat /\ Cardinality(OfText(g, A)) \in Nat
  BY <1>5, MemoriesAreFinite, SomeAreFewer
<1>7. Nth(g, B) \in Nat /\ Nth(g, B) < Cardinality(OfText(g, B))
  BY <1>5, MemoriesAreFinite, BeforeGrows, NthIs
<1>8. Nth(g, B) < Cardinality(OfText(g, A))
  BY <1>6, <1>7
<1>9. \E pair \in ExactPairs(A, B) : pair[2] = g
  BY <1>4, <1>8, SameTextMeets
<1>10. QED
  BY <1>2, <1>3, <1>4, <1>9, SnapshotPairs

\* What is retrieved and says what a stale memory says is seen.
LEMMA StaleIsSeen ==
    ASSUME NEW P, NEW G, P \subseteq Memories, G \subseteq Memories, NEW M, M \in MatchMemorySnapshots(P, G),
           NEW p \in P, NEW g \in G, Main(p) = Main(g), Normal(p) = Normal(g)
    PROVE  M # {}
<1>1. PICK c \in MainClasses : c = Main(g)
  BY DEF MainClasses
<1>2. PICK A, B : A = OfClass(c, P) /\ B = OfClass(c, G)
  OBVIOUS
<1>3. A \subseteq Memories /\ B \subseteq Memories /\ p \in A /\ g \in B
  BY <1>1, <1>2 DEF OfClass
<1>4. PICK S, T : S = OfText(g, A) /\ T = OfText(g, B)
  OBVIOUS
<1>5. p \in S /\ g \in T /\ S \subseteq A /\ T \subseteq B /\ S \subseteq Memories /\ T \subseteq Memories
  BY <1>3, <1>4 DEF OfText
<1>6. IsFiniteSet(S) /\ IsFiniteSet(T) /\ T \subseteq Int /\ S # {} /\ T # {}
  BY <1>5, MemoriesAreFinite
<1>7. Cardinality(S) \in Nat /\ Cardinality(T) \in Nat /\ 0 < Cardinality(S) /\ 0 < Cardinality(T)
  <2>1. Cardinality(S) \in Nat /\ Cardinality(T) \in Nat /\ Cardinality(S) # 0 /\ Cardinality(T) # 0
    BY <1>6, FS_CardinalityType, FS_EmptySet
  <2>2. QED
    BY <2>1
<1>8. PICK h \in T : Cardinality(Before(h, T)) = 0
  BY <1>6, <1>7, SomeAtEach
<1>9. h \in B /\ Normal(h) = Normal(g) /\ OfText(h, B) = T /\ OfText(h, A) = S
  BY <1>4, <1>5, <1>8 DEF OfText
<1>10. Nth(h, B) = 0
  BY <1>8, <1>9, NthIs
<1>11. \E pair \in ExactPairs(A, B) : pair[2] = h
  BY <1>3, <1>7, <1>9, <1>10, SameTextMeets
<1>12. QED
  BY <1>1, <1>2, <1>11, SnapshotPairs

-----------------------------------------------------------------------------
(* A question: the inductive invariant. *)

QueryInv ==
    /\ question.support \subseteq Memories /\ question.forbidden \subseteq Memories /\ question.stored \subseteq Memories
    /\ graded = "no" => hits = <<>>
    /\ QueryIsSound

\* A memory's place in the order of what was retrieved.
LEMMA PositionIs ==
    ASSUME NEW S, S = Range(hits), IsFiniteSet(S), S \subseteq Int
    PROVE  \A m \in S : Position(m) = Cardinality(Before(m, S)) + 1
<1>1. TAKE m \in S
<1>2. {n \in S : n <= m} = Before(m, S) \cup {m} /\ m \notin Before(m, S) /\ Before(m, S) \subseteq S
  BY DEF Before
<1>3. Cardinality(Before(m, S) \cup {m}) = Cardinality(Before(m, S)) + 1
  BY <1>2, FS_Subset, FS_AddElement
<1>4. QED
  BY <1>2, <1>3 DEF Position

\* Each support that was found has a place of its own, and the rest is missing.
LEMMA RanksFit ==
    ASSUME NEW G, Range(hits) \subseteq Memories, G \subseteq Memories,
           NEW M, M \subseteq Range(hits) \X G, OneToOne(M)
    PROVE  /\ Cardinality(Ranks(M)) = Cardinality(M)
           /\ Cardinality(Ranks(M)) + Cardinality(Right(G, M)) = Cardinality(G)
<1>1. PICK S : S = Range(hits)
  OBVIOUS
<1>2. IsFiniteSet(S) /\ S \subseteq Int /\ IsFiniteSet(G)
  BY <1>1, MemoriesAreFinite
<1>3. IsFiniteSet(M)
  BY <1>1, <1>2, FS_Product, FS_Subset
<1>4. \A x \in M : x[1] \in S /\ x[2] \in G
  BY <1>1
<1>5. PICK f : f = [x \in M |-> Position(x[1])]
  OBVIOUS
<1>6. PICK g : g = [x \in M |-> x[2]]
  OBVIOUS
<1>7. Cardinality(Ranks(M)) = Cardinality(M)
  <2>1. ASSUME NEW x \in M, NEW y \in M, f[x] = f[y]
        PROVE  x = y
    <3>1. PICK a \in S, b \in S : a = x[1] /\ b = y[1]
      BY <1>4
    <3>2. Cardinality(Before(a, S)) \in Nat /\ Cardinality(Before(b, S)) \in Nat
      BY <1>2, BeforeGrows
    <3>3. Position(a) = Position(b)
      BY <1>5, <2>1, <3>1
    <3>4. Cardinality(Before(a, S)) = Cardinality(Before(b, S))
      BY <1>1, <1>2, <3>2, <3>3, PositionIs
    <3>5. a = b
      BY <1>2, <3>4, BeforeGrows
    <3>6. QED
      BY <3>1, <3>5 DEF OneToOne
  <2>2. Cardinality({f[x] : x \in M}) = Cardinality(M)
    BY <1>3, <2>1, OneValueEach
  <2>3. Ranks(M) = {f[x] : x \in M}
    BY <1>5 DEF Ranks
  <2>4. QED
    BY <2>2, <2>3
<1>8. PICK T : T = {g[x] : x \in M}
  OBVIOUS
<1>9. T = {x[2] : x \in M} /\ T \subseteq G
  BY <1>4, <1>6, <1>8
<1>10. Cardinality(T) = Cardinality(M)
  <2>1. \A x, y \in M : g[x] = g[y] => x = y
    BY <1>6 DEF OneToOne
  <2>2. QED
    BY <1>3, <1>8, <2>1, OneValueEach
<1>11. Right(G, M) = G \ T /\ G \cap T = T
  BY <1>9 DEF Right
<1>12. Cardinality(G \ T) = Cardinality(G) - Cardinality(T)
  BY <1>2, <1>11, FS_Difference
<1>13. Cardinality(G) \in Nat /\ Cardinality(M) \in Nat
  BY <1>2, <1>3, FS_CardinalityType
<1>14. QED
  BY <1>7, <1>10, <1>11, <1>12, <1>13

LEMMA InitQuery ==
    ASSUME QueryInit
    PROVE  QueryInv
<1>1. /\ question.support = {} /\ question.forbidden = {} /\ question.stored = {}
      /\ Range(hits) = {} /\ hits = <<>> /\ graded # "done"
  BY DEF QueryInit, NoQuestion, Range
<1>2. QED
  BY <1>1 DEF QueryInv, QueryIsSound, QueryTypeOK, RetrievedIsSeen, RanksFitMatches

LEMMA AskStep ==
    ASSUME QueryInv, Ask
    PROVE  QueryInv'
<1>1. PICK S \in Small(Memories) \ {{}}, F \in Small(Memories), stored \in SUBSET Memories :
         /\ S \cap F = {}
         /\ question' = [support |-> S, forbidden |-> F, stored |-> stored]
  BY DEF Ask
<1>2. S \subseteq Memories /\ F \subseteq Memories
  BY DEF Small
<1>3. graded' = "asked" /\ hits' = hits /\ Range(hits) = {}
  BY DEF Ask, QueryInv, Range
<1>4. QED
  BY <1>1, <1>2, <1>3 DEF QueryInv, QueryIsSound, QueryTypeOK, RetrievedIsSeen, RanksFitMatches

LEMMA SearchStep ==
    ASSUME QueryInv, SearchDynamic
    PROVE  QueryInv'
<1>1. PICK T \in Small({m \in question.stored : Main(m) \notin Core}) : hits' \in SetToSeqs(T)
  BY DEF SearchDynamic
<1>2. T \subseteq question.stored
  BY DEF Small
<1>3. Range(hits') \subseteq T
  BY <1>1 DEF SetToSeqs, Range
<1>4. graded' = "searched" /\ question' = question
  BY DEF SearchDynamic
<1>5. QED
  BY <1>2, <1>3, <1>4 DEF QueryInv, QueryIsSound, QueryTypeOK, RetrievedIsSeen, RanksFitMatches

LEMMA AnswerIsEvaluated ==
    ASSUME QueryInv, EvaluateWorkspace
    PROVE  QueryInv'
<1>1. PICK found \in MatchMemorySnapshots(Range(hits), question.support),
           core \in MatchMemorySnapshots({m \in question.stored : Main(m) \in Core}, question.support),
           stale \in MatchMemorySnapshots(Range(hits), question.forbidden),
           score \in {"exact", "judged right", "judged wrong"} :
         result' = [found |-> found, stale |-> stale,
                    missing |-> Right(question.support, found),
                    inCore |-> Right(question.support, core) = {},
                    ranks |-> Ranks(found),
                    exactMatch |-> Right(question.support, found) = {} /\ stale = {},
                    correct |-> score # "judged wrong"]
  BY DEF EvaluateWorkspace
<1>2. graded' = "done" /\ question' = question /\ hits' = hits
  BY DEF EvaluateWorkspace
<1>3. PICK R : R = Range(hits)
  OBVIOUS
<1>4. PICK S, F : S = question.support /\ F = question.forbidden
  OBVIOUS
<1>5. R \subseteq Memories /\ S \subseteq Memories /\ F \subseteq Memories
  BY <1>3, <1>4 DEF QueryInv, QueryIsSound, QueryTypeOK
<1>6. found \in MatchMemorySnapshots(R, S) /\ stale \in MatchMemorySnapshots(R, F)
  BY <1>3, <1>4
<1>7. found \subseteq R \X S /\ OneToOne(found) /\ stale \subseteq R \X F
  BY <1>5, <1>6, SnapshotPairs
<1>8. /\ result'.found = found /\ result'.stale = stale /\ result'.missing = Right(S, found) /\ result'.ranks = Ranks(found)
      /\ result'.exactMatch = (Right(S, found) = {} /\ stale = {})
      /\ result'.inCore \in BOOLEAN /\ result'.correct \in BOOLEAN
  BY <1>1, <1>4
<1>9. QueryTypeOK'
  BY <1>2, <1>5, <1>7, <1>8 DEF QueryTypeOK, QueryInv, QueryIsSound
<1>10. RetrievedIsSeen'
  <2>1. S \subseteq R => result'.missing = {}
    BY <1>5, <1>6, <1>8, RetrievedIsFound
  <2>2. ASSUME NEW m \in R, NEW f \in F, Main(m) = Main(f), Normal(m) = Normal(f)
        PROVE  result'.stale # {} /\ ~result'.exactMatch
    BY <1>5, <1>6, <1>8, <2>2, StaleIsSeen
  <2>3. QED
    BY <1>2, <1>3, <1>4, <2>1, <2>2 DEF RetrievedIsSeen
<1>11. RanksFitMatches'
  <2>1. /\ Cardinality(Ranks(found)) = Cardinality(found)
        /\ Cardinality(Ranks(found)) + Cardinality(Right(S, found)) = Cardinality(S)
    BY <1>3, <1>5, <1>7, RanksFit
  <2>2. QED
    BY <1>2, <1>4, <1>7, <1>8, <2>1 DEF RanksFitMatches
<1>12. QED
  BY <1>2, <1>9, <1>10, <1>11 DEF QueryInv, QueryIsSound

LEMMA QueryStep ==
    ASSUME QueryInv, [QueryNext]_query
    PROVE  QueryInv'
<1>1. CASE UNCHANGED query
  BY <1>1 DEF query, QueryInv, QueryIsSound, QueryTypeOK, RetrievedIsSeen, RanksFitMatches
<1>2. QED
  BY <1>1, AskStep, SearchStep, AnswerIsEvaluated DEF QueryNext

\* agent/memory_query_eval.py: for any memories, texts, classes and similarities, support that
\* was retrieved is found, a stale memory that was retrieved is seen, and every hit has a rank of
\* its own.
THEOREM QueryIsSoundAlways == QuerySpec => []QueryIsSound
<1>1. QueryInit => QueryInv
  BY InitQuery
<1>2. QueryInv /\ [QueryNext]_query => QueryInv'
  BY QueryStep
<1>3. QueryInv => QueryIsSound
  BY DEF QueryInv
<1>4. QED
  BY <1>1, <1>2, <1>3, PTL DEF QuerySpec

-----------------------------------------------------------------------------
(* Sums over a set. *)

Chosen(s) == CHOOSE x \in s : TRUE
SumStep(sum, f, s) == IF s = {} THEN 0 ELSE f[Chosen(s)] + sum[s \ {Chosen(s)}]
SumsUp(sum, f, S) == sum = [s \in SUBSET S |-> SumStep(sum, f, s)]

\* A set that one can empty element by element.
LEMMA SubsetInduct ==
    ASSUME NEW S, IsFiniteSet(S), NEW T, {} \in T,
           \A s \in SUBSET S : s # {} /\ s \ {Chosen(s)} \in T => s \in T
    PROVE  SUBSET S \subseteq T
<1> DEFINE U == {k \in Nat : \A s \in SUBSET S : Cardinality(s) = k => s \in T}
<1>1. \A s \in SUBSET S : IsFiniteSet(s) /\ Cardinality(s) \in Nat
  BY FS_Subset, FS_CardinalityType
<1>2. 0 \in U
  BY <1>1, FS_EmptySet
<1>3. ASSUME NEW k \in Nat, k \in U
      PROVE  k + 1 \in U
  <2>1. SUFFICES ASSUME NEW s \in SUBSET S, Cardinality(s) = k + 1
                 PROVE  s \in T
    BY <1>3
  <2>2. s # {}
    <3>1. k + 1 # 0
      BY <1>3
    <3>2. Cardinality({}) = 0
      BY FS_EmptySet
    <3>3. QED
      BY <2>1, <3>1, <3>2
  <2>3. Chosen(s) \in s
    BY <2>2 DEF Chosen
  <2>4. Cardinality(s \ {Chosen(s)}) = k
    BY <1>1, <2>1, <2>3, FS_RemoveElement
  <2>5. s \ {Chosen(s)} \in T
    BY <1>3, <2>4
  <2>6. QED
    BY <2>2, <2>5
<1> HIDE DEF U
<1>4. Nat \subseteq U
  BY <1>2, <1>3, Induct
<1>5. QED
  BY <1>1, <1>4 DEF U

LEMMA SumExists ==
    ASSUME NEW S, IsFiniteSet(S), NEW f, \A x \in S : f[x] \in Int
    PROVE  \E sum : SumsUp(sum, f, S)
<1> DEFINE Sums(h, k) == h \in [SUBSET S -> Int] /\ \A s \in SUBSET S : Cardinality(s) <= k => h[s] = SumStep(h, f, s)
           U == {k \in Nat : \E h : Sums(h, k)}
<1>1. \A s \in SUBSET S : /\ IsFiniteSet(s) /\ Cardinality(s) \in Nat /\ Cardinality(s) <= Cardinality(S)
                          /\ s # {} => Chosen(s) \in s /\ Cardinality(s \ {Chosen(s)}) = Cardinality(s) - 1
  <2>1. TAKE s \in SUBSET S
  <2>2. IsFiniteSet(s) /\ Cardinality(s) \in Nat /\ Cardinality(s) <= Cardinality(S)
    BY FS_Subset, FS_CardinalityType
  <2>3. s # {} => Chosen(s) \in s
    BY DEF Chosen
  <2>4. QED
    BY <2>2, <2>3, FS_RemoveElement
<1>2. 0 \in U
  <2>1. PICK h : h = [s \in SUBSET S |-> 0]
    OBVIOUS
  <2>2. \A s \in SUBSET S : Cardinality(s) <= 0 => h[s] = SumStep(h, f, s)
    <3>1. TAKE s \in SUBSET S
    <3>2. HAVE Cardinality(s) <= 0
    <3>3. s = {}
      <4>1. Cardinality(s) = 0 /\ IsFiniteSet(s)
        <5>1. PICK n \in Nat : n = Cardinality(s)
          BY <1>1
        <5>2. n = 0
          BY <3>2, <5>1
        <5>3. QED
          BY <1>1, <5>1, <5>2
      <4>2. QED
        BY <4>1, FS_EmptySet
    <3>4. QED
      BY <2>1, <3>3 DEF SumStep
  <2>3. Sums(h, 0)
    BY <2>1, <2>2
  <2>4. QED
    BY <2>3
<1>3. ASSUME NEW k \in Nat, k \in U
      PROVE  k + 1 \in U
  <2>1. PICK h : Sums(h, k)
    BY <1>3
  <2>2. PICK g : g = [s \in SUBSET S |-> IF Cardinality(s) = k + 1 THEN SumStep(h, f, s) ELSE h[s]]
    OBVIOUS
  <2>3. \A s \in SUBSET S : SumStep(h, f, s) \in Int
    <3>1. TAKE s \in SUBSET S
    <3>2. CASE s = {}
      BY <3>2 DEF SumStep
    <3>3. CASE s # {}
      <4>1. f[Chosen(s)] \in Int /\ h[s \ {Chosen(s)}] \in Int
        BY <1>1, <2>1, <3>3
      <4>2. QED
        BY <3>3, <4>1 DEF SumStep
    <3>4. QED
      BY <3>2, <3>3
  <2>4. g \in [SUBSET S -> Int]
    BY <2>1, <2>2, <2>3
  <2>5. ASSUME NEW s \in SUBSET S, Cardinality(s) <= k + 1
        PROVE  g[s] = SumStep(h, f, s) /\ SumStep(g, f, s) = SumStep(h, f, s)
    <3>1. g[s] = SumStep(h, f, s)
      <4>1. CASE Cardinality(s) = k + 1
        BY <2>2, <4>1
      <4>2. CASE Cardinality(s) # k + 1
        <5>1. Cardinality(s) <= k
          <6>1. PICK n \in Nat : n = Cardinality(s)
            BY <1>1
          <6>2. n <= k + 1 /\ n # k + 1
            BY <2>5, <4>2, <6>1
          <6>3. n <= k
            BY <6>2
          <6>4. QED
            BY <6>1, <6>3
        <5>2. QED
          BY <2>1, <2>2, <4>2, <5>1
      <4>3. QED
        BY <4>1, <4>2
    <3>2. CASE s = {}
      BY <3>1, <3>2 DEF SumStep
    <3>3. CASE s # {}
      <4>1. PICK r \in SUBSET S : r = s \ {Chosen(s)}
        BY <2>5
      <4>2. Cardinality(r) # k + 1
        BY <1>1, <2>5, <3>3, <4>1
      <4>3. g[r] = h[r]
        BY <2>2, <4>2
      <4>4. QED
        BY <3>1, <3>3, <4>1, <4>3 DEF SumStep
    <3>4. QED
      BY <3>2, <3>3
  <2>6. Sums(g, k + 1)
    BY <2>4, <2>5
  <2>7. QED
    BY <2>6
<1> HIDE DEF U
<1>4. Nat \subseteq U
  BY <1>2, <1>3, Induct
<1>5. Cardinality(S) \in Nat
  BY FS_CardinalityType
<1>6. PICK h : Sums(h, Cardinality(S))
  BY <1>4, <1>5 DEF U
<1>7. \A s \in SUBSET S : h[s] = SumStep(h, f, s)
  BY <1>1, <1>6
<1>8. SumsUp(h, f, S)
  BY <1>6, <1>7 DEF SumsUp
<1>9. QED
  BY <1>8

\* A sum adds its terms one by one.
AddsUp(sum, f, S) ==
    /\ sum[{}] = 0
    /\ \A s \in SUBSET S : s # {} => Chosen(s) \in s /\ sum[s] = f[Chosen(s)] + sum[s \ {Chosen(s)}]
    /\ \A s \in SUBSET S : sum[s] \in Int

LEMMA SumIs ==
    ASSUME NEW S, IsFiniteSet(S), NEW f, \A x \in S : f[x] \in Int, NEW sum, SumsUp(sum, f, S)
    PROVE  AddsUp(sum, f, S)
<1>1. \A s \in SUBSET S : sum[s] = SumStep(sum, f, s)
  BY DEF SumsUp
<1>2. sum[{}] = 0
  BY <1>1 DEF SumStep
<1>3. \A s \in SUBSET S : s # {} => Chosen(s) \in s /\ sum[s] = f[Chosen(s)] + sum[s \ {Chosen(s)}]
  BY <1>1 DEF SumStep, Chosen
<1> DEFINE T == {s \in SUBSET S : sum[s] \in Int}
<1>4. {} \in T
  BY <1>2
<1>5. \A s \in SUBSET S : s # {} /\ s \ {Chosen(s)} \in T => s \in T
  BY <1>3
<1> HIDE DEF T
<1>6. SUBSET S \subseteq T
  BY <1>4, <1>5, SubsetInduct
<1>7. QED
  BY <1>2, <1>3, <1>6 DEF T, AddsUp

\* What holds of every term holds of the sums.
LEMMA SumsCompare ==
    ASSUME NEW S, IsFiniteSet(S), NEW f, NEW g, \A x \in S : f[x] \in Int /\ g[x] \in Int,
           NEW F, SumsUp(F, f, S), NEW G, SumsUp(G, g, S), NEW a \in Int, NEW b \in Int,
           \A x \in S : a * f[x] <= b * g[x]
    PROVE  /\ a * F[S] <= b * G[S]
           /\ (\E x \in S : a * f[x] < b * g[x]) => a * F[S] < b * G[S]
<1>10. AddsUp(F, f, S)
  BY SumIs
<1>11. AddsUp(G, g, S)
  BY SumIs
<1> DEFINE Compare(s) == /\ a * F[s] <= b * G[s]
                         /\ (\E x \in s : a * f[x] < b * g[x]) => a * F[s] < b * G[s]
           T == {s \in SUBSET S : Compare(s)}
<1>1. {} \in T
  BY <1>10, <1>11 DEF AddsUp
<1>2. ASSUME NEW s \in SUBSET S, s # {}, s \ {Chosen(s)} \in T
      PROVE  s \in T
  <2>1. PICK c \in s : c = Chosen(s)
    BY <1>2, <1>10 DEF AddsUp
  <2>2. PICK r \in SUBSET S : r = s \ {c}
    BY <1>2
  <2>3. r \in T
    BY <1>2, <2>1, <2>2
  <2>4. F[s] = f[c] + F[r] /\ G[s] = g[c] + G[r] /\ F[r] \in Int /\ G[r] \in Int /\ f[c] \in Int /\ g[c] \in Int
    <3>1. F[s] = f[c] + F[r] /\ F[r] \in Int
      BY <1>2, <1>10, <2>1, <2>2 DEF AddsUp
    <3>2. G[s] = g[c] + G[r] /\ G[r] \in Int
      BY <1>2, <1>11, <2>1, <2>2 DEF AddsUp
    <3>3. c \in S
      BY <1>2
    <3>4. QED
      BY <3>1, <3>2, <3>3
  <2>5. a * F[s] = a * f[c] + a * F[r] /\ b * G[s] = b * g[c] + b * G[r]
    BY <2>4
  <2>6. PICK u \in Int, v \in Int, w \in Int, z \in Int : u = a * f[c] /\ v = a * F[r] /\ w = b * g[c] /\ z = b * G[r]
    BY <2>4
  <2>7. u <= w /\ v <= z /\ ((\E x \in r : a * f[x] < b * g[x]) => v < z)
    <3>1. a * f[c] <= b * g[c]
      BY <1>2
    <3>2. Compare(r)
      <4> HIDE DEF Compare
      <4>1. QED
        BY <2>3
    <3>3. QED
      BY <2>6, <3>1, <3>2
  <2>8. a * F[s] = u + v /\ b * G[s] = w + z
    BY <2>5, <2>6
  <2>9. ASSUME NEW x \in s, a * f[x] < b * g[x]
        PROVE  u + v < w + z
    <3>1. CASE x = c
      BY <2>6, <2>7, <2>9, <3>1
    <3>2. CASE x # c
      <4>1. v < z
        BY <2>2, <2>7, <2>9, <3>2
      <4>2. QED
        BY <2>7, <4>1
    <3>3. QED
      BY <3>1, <3>2
  <2>10. QED
    BY <2>7, <2>8, <2>9
<1> HIDE DEF T
<1>3. SUBSET S \subseteq T
  BY <1>1, <1>2, SubsetInduct
<1>4. S \in T
  BY <1>3
<1>5. Compare(S)
  <2> HIDE DEF Compare
  <2>1. QED
    BY <1>4 DEF T
<1>6. QED
  BY <1>5

\* A sum of n terms of at most c is at most n times c, and less if one of them is less.
LEMMA SumIsBounded ==
    ASSUME NEW S, IsFiniteSet(S), NEW f, \A x \in S : f[x] \in Int, NEW F, SumsUp(F, f, S),
           NEW c \in Int, \A x \in S : f[x] <= c
    PROVE  /\ F[S] \in Int /\ F[S] <= c * Cardinality(S)
           /\ (\E x \in S : f[x] < c) => F[S] < c * Cardinality(S)
           /\ (\A x \in S : f[x] = c) => F[S] = c * Cardinality(S)
<1>10. AddsUp(F, f, S)
  BY SumIs
<1> DEFINE Bounded(s) == /\ F[s] <= c * Cardinality(s)
                         /\ (\E x \in s : f[x] < c) => F[s] < c * Cardinality(s)
                         /\ (\A x \in s : f[x] = c) => F[s] = c * Cardinality(s)
           T == {s \in SUBSET S : Bounded(s)}
<1>1. {} \in T
  BY <1>10, FS_EmptySet DEF AddsUp
<1>2. ASSUME NEW s \in SUBSET S, s # {}, s \ {Chosen(s)} \in T
      PROVE  s \in T
  <2>1. PICK d \in s : d = Chosen(s)
    BY <1>2, <1>10 DEF AddsUp
  <2>2. PICK r \in SUBSET S : r = s \ {d}
    BY <1>2
  <2>3. r \in T
    BY <1>2, <2>1, <2>2
  <2>4. F[s] = f[d] + F[r] /\ F[r] \in Int /\ f[d] \in Int /\ f[d] <= c
    <3>1. F[s] = f[d] + F[r] /\ F[r] \in Int
      BY <1>2, <1>10, <2>1, <2>2 DEF AddsUp
    <3>2. d \in S
      BY <1>2
    <3>3. QED
      BY <3>1, <3>2
  <2>5. Cardinality(s) = Cardinality(r) + 1 /\ Cardinality(r) \in Nat
    <3>1. IsFiniteSet(r) /\ s = r \cup {d} /\ d \notin r
      BY <1>2, <2>1, <2>2, FS_Subset
    <3>2. QED
      BY <3>1, FS_AddElement, FS_CardinalityType
  <2>6. PICK n \in Int : n = c * Cardinality(r)
    BY <2>5
  <2>7. c * Cardinality(s) = n + c
    BY <2>5, <2>6
  <2>8. F[r] <= n /\ ((\E x \in r : f[x] < c) => F[r] < n) /\ ((\A x \in r : f[x] = c) => F[r] = n)
    <3>1. Bounded(r)
      <4> HIDE DEF Bounded
      <4>1. QED
        BY <2>3
    <3>2. QED
      BY <2>6, <3>1
  <2>9. ASSUME NEW x \in s, f[x] < c
        PROVE  F[s] < n + c
    <3>1. CASE x = d
      BY <2>4, <2>8, <2>9, <3>1
    <3>2. CASE x # d
      <4>1. F[r] < n
        BY <2>2, <2>8, <2>9, <3>2
      <4>2. QED
        BY <2>4, <4>1
    <3>3. QED
      BY <3>1, <3>2
  <2>10. ASSUME \A x \in s : f[x] = c
         PROVE  F[s] = n + c
    <3>1. F[r] = n
      BY <2>2, <2>8, <2>10
    <3>2. QED
      BY <2>4, <2>10, <3>1
  <2>11. F[s] <= n + c
    BY <2>4, <2>8
  <2>12. QED
    BY <2>7, <2>9, <2>10, <2>11
<1> HIDE DEF T
<1>3. SUBSET S \subseteq T
  BY <1>1, <1>2, SubsetInduct
<1>4. F[S] \in Int
  BY <1>10 DEF AddsUp
<1>5. S \in T
  BY <1>3
<1>6. Bounded(S)
  <2> HIDE DEF Bounded
  <2>1. QED
    BY <1>5 DEF T
<1>7. QED
  BY <1>4, <1>6


\* What an assignment weighs.
LEMMA WeightIs ==
    ASSUME NEW M, IsFiniteSet(M), NEW similar, \A x \in M : similar[x] \in Int
    PROVE  \E w : SumsUp(w, similar, M) /\ Weight(M, similar) = w[M]
<1>1. PICK w : w = CHOOSE sum : SumsUp(sum, similar, M)
  OBVIOUS
<1>2. SumsUp(w, similar, M)
  BY <1>1, SumExists
<1>3. Weight(M, similar) = w[M]
  BY <1>1 DEF Weight, MapThenSumSet, MapThenFoldSet, SumsUp, SumStep, Chosen
<1>4. QED
  BY <1>2, <1>3

-----------------------------------------------------------------------------
(* The rates of a report. *)

\* The sum of a field of the cases, as Sum writes it.
FieldStep(sum, field, s) == IF s = {} THEN 0 ELSE scored[Chosen(s)][field] + sum[s \ {Chosen(s)}]
FieldSums(sum, field, group) == sum = [s \in SUBSET group |-> FieldStep(sum, field, s)]

LEMMA SumOf ==
    ASSUME NEW group, IsFiniteSet(group), NEW field, NEW f, f = [k \in group |-> scored[k][field]],
           \A k \in group : f[k] \in Nat
    PROVE  \E w : SumsUp(w, f, group) /\ Sum(group, field) = w[group]
<1>1. \A k \in group : f[k] \in Int /\ f[k] = scored[k][field]
  OBVIOUS
<1>2. ASSUME NEW s \in SUBSET group, NEW sum
      PROVE  FieldStep(sum, field, s) = SumStep(sum, f, s)
  <2>1. CASE s = {}
    BY <2>1 DEF FieldStep, SumStep
  <2>2. CASE s # {}
    <3>1. Chosen(s) \in group
      BY <2>2 DEF Chosen
    <3>2. QED
      BY <1>1, <2>2, <3>1 DEF FieldStep, SumStep
  <2>3. QED
    BY <2>1, <2>2
<1>3. \A sum : FieldSums(sum, field, group) <=> SumsUp(sum, f, group)
  BY <1>2 DEF FieldSums, SumsUp
<1>4. \E sum : FieldSums(sum, field, group)
  BY <1>1, <1>3, SumExists
<1>5. PICK w : w = CHOOSE sum : FieldSums(sum, field, group)
  OBVIOUS
<1>6. SumsUp(w, f, group)
  BY <1>3, <1>4, <1>5
<1>7. Sum(group, field) = w[group]
  BY <1>5 DEF Sum, MapThenSumSet, MapThenFoldSet, FieldSums, FieldStep, Chosen
<1>8. QED
  BY <1>6, <1>7

LEMMA SumOfOne ==
    ASSUME NEW k, NEW field, scored[k][field] \in Nat
    PROVE  Sum({k}, field) = scored[k][field]
<1>1. PICK f : f = [j \in {k} |-> scored[j][field]]
  OBVIOUS
<1>2. IsFiniteSet({k}) /\ \A j \in {k} : f[j] \in Nat
  BY <1>1, FS_Singleton
<1>3. PICK w : SumsUp(w, f, {k}) /\ Sum({k}, field) = w[{k}]
  BY <1>1, <1>2, SumOf
<1>4. \A j \in {k} : f[j] \in Int
  BY <1>2
<1>5. AddsUp(w, f, {k})
  BY <1>2, <1>3, <1>4, SumIs
<1>6. Chosen({k}) = k /\ {k} \ {k} = {}
  BY DEF Chosen
<1>7. w[{k}] = f[k] + 0
  BY <1>5, <1>6 DEF AddsUp
<1>8. QED
  BY <1>1, <1>3, <1>7

\* Sums of natural numbers: of nothing but zeros is zero, and conversely.
LEMMA SumOfNats ==
    ASSUME NEW S, IsFiniteSet(S), NEW t, \A x \in S : t[x] \in Nat, NEW T, SumsUp(T, t, S)
    PROVE  T[S] \in Nat /\ (T[S] = 0 <=> \A x \in S : t[x] = 0)
<1>1. \A x \in S : t[x] \in Int /\ 0 * t[x] <= 1 * t[x] /\ (t[x] # 0 => 0 * t[x] < 1 * t[x])
  OBVIOUS
<1>2. AddsUp(T, t, S)
  BY <1>1, SumIs
<1>3. T[S] \in Int
  BY <1>2 DEF AddsUp
<1>4. 0 * T[S] <= 1 * T[S] /\ ((\E x \in S : 0 * t[x] < 1 * t[x]) => 0 * T[S] < 1 * T[S])
  BY <1>1, SumsCompare
<1>5. ASSUME \A x \in S : t[x] = 0
      PROVE  T[S] = 0
  <2>1. PICK c \in Int : c = 0
    OBVIOUS
  <2>2. \A x \in S : t[x] \in Int /\ t[x] <= c /\ t[x] = c
    BY <1>5, <2>1
  <2>3. T[S] = c * Cardinality(S)
    BY <2>2, SumIsBounded
  <2>4. Cardinality(S) \in Nat
    BY FS_CardinalityType
  <2>5. QED
    BY <2>1, <2>3, <2>4
<1>6. QED
  BY <1>1, <1>3, <1>4, <1>5

\* The summed rate lies between the rates.
LEMMA RateBetween ==
    ASSUME NEW S, IsFiniteSet(S), S # {}, NEW t, NEW r, \A x \in S : t[x] \in Nat /\ r[x] \in Nat,
           NEW T, SumsUp(T, t, S), NEW R, SumsUp(R, r, S)
    PROVE  /\ \E k \in S : AtMost(Rate(T[S], R[S]), Rate(t[k], r[k]))
           /\ \E k \in S : AtMost(Rate(t[k], r[k]), Rate(T[S], R[S]))
<1>1. PICK p, q : p = T[S] /\ q = R[S]
  OBVIOUS
<1>2. \A x \in S : t[x] \in Nat /\ t[x] \in Int
  OBVIOUS
<1>3. \A x \in S : r[x] \in Nat /\ r[x] \in Int
  OBVIOUS
<1>4. p \in Nat /\ (p = 0 <=> \A x \in S : t[x] = 0)
  BY <1>1, <1>2, SumOfNats
<1>5. q \in Nat /\ (q = 0 <=> \A x \in S : r[x] = 0)
  BY <1>1, <1>3, SumOfNats
<1>6. CASE p + q = 0
  <2>1. p = 0 /\ q = 0
    BY <1>4, <1>5, <1>6
  <2>2. \A k \in S : t[k] = 0 /\ r[k] = 0
    BY <1>4, <1>5, <2>1
  <2>3. Rate(p, q) = <<1, 1>> /\ \A k \in S : Rate(t[k], r[k]) = <<1, 1>>
    BY <2>1, <2>2 DEF Rate
  <2>4. QED
    BY <1>1, <2>3 DEF AtMost
<1>7. CASE p + q # 0
  <2>1. Rate(p, q) = <<p, p + q>>
    BY <1>7 DEF Rate
  <2>2. ASSUME NEW k \in S
        PROVE  /\ t[k] + r[k] = 0 => AtMost(Rate(p, q), Rate(t[k], r[k])) /\ t[k] = 0 /\ r[k] = 0
               /\ t[k] + r[k] # 0 => /\ AtMost(Rate(p, q), Rate(t[k], r[k])) <=> p * r[k] <= q * t[k]
                                     /\ AtMost(Rate(t[k], r[k]), Rate(p, q)) <=> q * t[k] <= p * r[k]
    <3>1. PICK m \in Nat, n \in Nat : m = t[k] /\ n = r[k]
      BY <2>2
    <3>2. CASE m + n = 0
      <4>1. m = 0 /\ n = 0 /\ Rate(m, n) = <<1, 1>> /\ p * 1 <= 1 * (p + q)
        BY <1>4, <1>5, <3>2 DEF Rate
      <4>2. QED
        BY <2>1, <3>1, <4>1 DEF AtMost
    <3>3. CASE m + n # 0
      <4>1. Rate(m, n) = <<m, m + n>>
        BY <3>3 DEF Rate
      <4>2. /\ AtMost(Rate(p, q), Rate(m, n)) <=> p * (m + n) <= m * (p + q)
            /\ AtMost(Rate(m, n), Rate(p, q)) <=> m * (p + q) <= p * (m + n)
        BY <2>1, <4>1 DEF AtMost
      <4>3. p * (m + n) = p * m + p * n /\ m * (p + q) = p * m + q * m
        BY <1>4, <1>5
      <4>4. PICK a \in Nat, b \in Nat, c \in Nat : a = p * m /\ b = p * n /\ c = q * m
        BY <1>4, <1>5
      <4>5. QED
        BY <3>1, <3>3, <4>2, <4>3, <4>4
    <3>4. QED
      BY <3>2, <3>3
  <2>3. PICK u \in Nat : u = p * q /\ u = q * p
    BY <1>4, <1>5
  <2>4. p \in Int /\ q \in Int
    BY <1>4, <1>5
  <2>5. \E k \in S : AtMost(Rate(p, q), Rate(t[k], r[k]))
    <3>1. SUFFICES ASSUME \A k \in S : ~ AtMost(Rate(p, q), Rate(t[k], r[k]))
                   PROVE  FALSE
      OBVIOUS
    <3>2. \A k \in S : q * t[k] <= p * r[k] /\ q * t[k] < p * r[k]
      <4>1. TAKE k \in S
      <4>2. ~ (p * r[k] <= q * t[k])
        BY <2>2, <3>1
      <4>3. PICK a \in Nat, b \in Nat : a = p * r[k] /\ b = q * t[k]
        BY <1>4, <1>5
      <4>4. QED
        BY <4>2, <4>3
    <3>3. q * T[S] < p * R[S]
      BY <1>2, <1>3, <2>4, <3>2, SumsCompare
    <3>4. QED
      BY <1>1, <2>3, <3>3
  <2>6. \E k \in S : AtMost(Rate(t[k], r[k]), Rate(p, q))
    <3>1. SUFFICES ASSUME \A k \in S : ~ AtMost(Rate(t[k], r[k]), Rate(p, q))
                   PROVE  FALSE
      OBVIOUS
    <3>2. \A k \in S : p * r[k] <= q * t[k] /\ (t[k] + r[k] # 0 => p * r[k] < q * t[k])
      <4>1. TAKE k \in S
      <4>2. CASE t[k] + r[k] = 0
        <5>1. t[k] = 0 /\ r[k] = 0
          BY <2>2, <4>2
        <5>2. p * 0 <= q * 0
          BY <1>4, <1>5
        <5>3. QED
          BY <4>2, <5>1, <5>2
      <4>3. CASE t[k] + r[k] # 0
        <5>1. ~ (q * t[k] <= p * r[k])
          BY <2>2, <3>1, <4>3
        <5>2. PICK a \in Nat, b \in Nat : a = p * r[k] /\ b = q * t[k]
          BY <1>4, <1>5
        <5>3. QED
          BY <5>1, <5>2
      <4>4. QED
        BY <4>2, <4>3
    <3>3. PICK k \in S : t[k] + r[k] # 0
      <4>1. ~ (p = 0 /\ q = 0)
        BY <1>7
      <4>2. PICK k \in S : t[k] # 0 \/ r[k] # 0
        BY <1>4, <1>5, <4>1
      <4>3. PICK m \in Nat, n \in Nat : m = t[k] /\ n = r[k]
        BY <4>2
      <4>4. QED
        BY <4>2, <4>3
    <3>4. p * R[S] < q * T[S]
      <4>1. p * r[k] < q * t[k]
        BY <3>2, <3>3
      <4>2. \A x \in S : p * r[x] <= q * t[x]
        BY <3>2
      <4>3. QED
        BY <1>2, <1>3, <2>4, <4>1, <4>2, SumsCompare
    <3>5. QED
      BY <1>1, <2>3, <3>4
  <2>7. QED
    BY <1>1, <2>5, <2>6
<1>8. QED
  BY <1>6, <1>7

\* One rate of a group of cases, made of the two fields its counts come from.
LEMMA GroupBetween ==
    ASSUME NEW group, IsFiniteSet(group), group # {}, NEW met, NEW rest,
           \A k \in group : scored[k][met] \in Nat /\ scored[k][rest] \in Nat
    PROVE  /\ \E k \in group : AtMost(Rate(Sum(group, met), Sum(group, rest)), Rate(Sum({k}, met), Sum({k}, rest)))
           /\ \E k \in group : AtMost(Rate(Sum({k}, met), Sum({k}, rest)), Rate(Sum(group, met), Sum(group, rest)))
<1>1. PICK t : t = [k \in group |-> scored[k][met]]
  OBVIOUS
<1>2. PICK r : r = [k \in group |-> scored[k][rest]]
  OBVIOUS
<1>3. \A k \in group : t[k] \in Nat /\ t[k] = Sum({k}, met)
  BY <1>1, SumOfOne
<1>4. \A k \in group : r[k] \in Nat /\ r[k] = Sum({k}, rest)
  BY <1>2, SumOfOne
<1>5. PICK T : SumsUp(T, t, group) /\ Sum(group, met) = T[group]
  BY <1>1, <1>3, SumOf
<1>6. PICK R : SumsUp(R, r, group) /\ Sum(group, rest) = R[group]
  BY <1>2, <1>4, SumOf
<1>7. /\ \E k \in group : AtMost(Rate(T[group], R[group]), Rate(t[k], r[k]))
      /\ \E k \in group : AtMost(Rate(t[k], r[k]), Rate(T[group], R[group]))
  BY <1>3, <1>4, <1>5, <1>6, RateBetween
<1>8. QED
  BY <1>3, <1>4, <1>5, <1>6, <1>7

LEMMA ReportBetween ==
    ASSUME scored \in Seq([tp : Nat, fp : Nat, fn : Nat])
    PROVE  AverageIsBetween
<1>1. SUFFICES ASSUME NEW group \in (SUBSET DOMAIN scored) \ {{}}, NEW rate \in {"precision", "recall"}
               PROVE  /\ \E k \in group : AtMost(AggregateGroup(group)[rate], AggregateGroup({k})[rate])
                      /\ \E k \in group : AtMost(AggregateGroup({k})[rate], AggregateGroup(group)[rate])
  BY DEF AverageIsBetween
<1>2. IsFiniteSet(group) /\ group # {}
  <2>1. Len(scored) \in Nat /\ DOMAIN scored = 1..Len(scored)
    OBVIOUS
  <2>2. IsFiniteSet(1..Len(scored))
    BY <2>1, FS_Interval
  <2>3. QED
    BY <1>1, <2>1, <2>2, FS_Subset
<1>3. \A k \in group : scored[k]["tp"] \in Nat /\ scored[k]["fp"] \in Nat /\ scored[k]["fn"] \in Nat
  <2> TAKE k \in group
  <2>1. PICK R : R = [tp : Nat, fp : Nat, fn : Nat]
    OBVIOUS
  <2>2. \A j \in DOMAIN scored : scored[j] \in [tp : Nat, fp : Nat, fn : Nat]
    <3>1. scored \in Seq(R)
      BY <2>1
    <3>2. \A j \in DOMAIN scored : scored[j] \in R
      BY <3>1
    <3>3. QED
      BY <2>1, <3>2
  <2>3. k \in DOMAIN scored
    BY <1>1
  <2>4. scored[k] \in [tp : Nat, fp : Nat, fn : Nat]
    BY <2>2, <2>3
  <2>5. QED
    BY <2>4
<1>4. PICK rest : rest = IF rate = "precision" THEN "fp" ELSE "fn"
  OBVIOUS
<1>5. \A g : AggregateGroup(g)[rate] = Rate(Sum(g, "tp"), Sum(g, rest))
  BY <1>1, <1>4 DEF AggregateGroup
<1>6. \A k \in group : scored[k]["tp"] \in Nat /\ scored[k][rest] \in Nat
  BY <1>3, <1>4
<1>7. PICK i \in group : AtMost(Rate(Sum(group, "tp"), Sum(group, rest)), Rate(Sum({i}, "tp"), Sum({i}, rest)))
  BY <1>2, <1>6, GroupBetween
<1>8. PICK j \in group : AtMost(Rate(Sum({j}, "tp"), Sum({j}, rest)), Rate(Sum(group, "tp"), Sum(group, rest)))
  BY <1>2, <1>6, GroupBetween
<1>9. AtMost(AggregateGroup(group)[rate], AggregateGroup({i})[rate]) /\ AtMost(AggregateGroup({j})[rate], AggregateGroup(group)[rate])
  BY <1>5, <1>7, <1>8
<1>10. QED
  BY <1>9

-----------------------------------------------------------------------------
(* Taking what is free, in order. *)

\* x is taken if nothing that rules it out is.
TakesFree(t, S, R) == t = [x \in S |-> \A y \in S : <<y, x>> \in R => ~t[y]]

\* It is decided what is taken if what rules another out comes before it.
LEMMA TakenIsDecided ==
    ASSUME NEW S, NEW R, NEW n \in Nat, NEW rank, \A x \in S : rank[x] \in Nat /\ rank[x] < n,
           \A x, y \in S : <<y, x>> \in R => rank[y] < rank[x]
    PROVE  \E t : TakesFree(t, S, R)
<1> DEFINE Free(h, x) == \A y \in S : <<y, x>> \in R => ~h[y]
           Decides(h, k) == h \in [S -> BOOLEAN] /\ \A x \in S : rank[x] < k => h[x] = Free(h, x)
           U == {k \in Nat : \E h : Decides(h, k)}
<1>1. 0 \in U
  <2>1. PICK h : h = [x \in S |-> TRUE]
    OBVIOUS
  <2>2. h \in [S -> BOOLEAN] /\ \A x \in S : ~ (rank[x] < 0)
    BY <2>1
  <2>3. Decides(h, 0)
    BY <2>2
  <2>4. QED
    BY <2>3
<1>2. ASSUME NEW k \in Nat, k \in U
      PROVE  k + 1 \in U
  <2>1. PICK h : Decides(h, k)
    BY <1>2
  <2>2. PICK g : g = [x \in S |-> IF rank[x] = k THEN Free(h, x) ELSE h[x]]
    OBVIOUS
  <2>3. g \in [S -> BOOLEAN]
    BY <2>1, <2>2
  <2>4. ASSUME NEW x \in S, rank[x] < k + 1
        PROVE  g[x] = Free(g, x)
    <3>1. \A y \in S : <<y, x>> \in R => g[y] = h[y]
      <4>1. TAKE y \in S
      <4>2. HAVE <<y, x>> \in R
      <4>3. rank[y] # k
        <5>1. PICK a \in Nat, b \in Nat : a = rank[x] /\ b = rank[y]
          BY <2>4
        <5>2. a < k + 1 /\ b < a
          BY <2>4, <4>2, <5>1
        <5>3. b # k
          BY <1>2, <5>2
        <5>4. QED
          BY <5>1, <5>3
      <4>4. QED
        BY <2>2, <4>3
    <3>2. Free(g, x) = Free(h, x)
      BY <3>1
    <3>3. g[x] = Free(h, x)
      <4>1. CASE rank[x] = k
        BY <2>2, <4>1
      <4>2. CASE rank[x] # k
        <5>1. rank[x] < k
          BY <1>2, <2>4, <4>2
        <5>2. QED
          BY <2>1, <2>2, <4>2, <5>1
      <4>3. QED
        BY <4>1, <4>2
    <3>4. QED
      BY <3>2, <3>3
  <2>5. Decides(g, k + 1)
    BY <2>3, <2>4
  <2>6. QED
    <3> HIDE DEF Decides
    <3>1. k + 1 \in Nat /\ \E h1 : Decides(h1, k + 1)
      BY <2>5
    <3>2. QED
      BY <3>1
<1> HIDE DEF U
<1>3. Nat \subseteq U
  BY <1>1, <1>2, Induct
<1>4. PICK h : Decides(h, n)
  BY <1>3 DEF U
<1>5. h = [x \in S |-> \A y \in S : <<y, x>> \in R => ~h[y]]
  BY <1>4
<1>6. QED
  BY <1>5 DEF TakesFree

\* What is similar is an order of its pairs.
AllAlike == \A x \in Items \X Items : alike[x] \in Int /\ alike[x] <= Same /\ (x[1] = x[2] => alike[x] = Same)

Shares(x, y) == x[1] = y[1] \/ x[2] = y[2]

LEMMA ItemsAreFinite ==
    ASSUME NEW S, S \subseteq Items
    PROVE  IsFiniteSet(S) /\ S \subseteq Int
BY EvaluationAssumption, FS_Subset DEF EvaluationAssumption

\* Falling first number, then rising second and third.
ComesBefore(a, m, i, b, n, j) == a > b \/ (a = b /\ (m < n \/ (m = n /\ i < j)))

LEMMA ComesBeforeIsAnOrder ==
    ASSUME NEW a \in Int, NEW b \in Int, NEW c \in Int, NEW m \in Int, NEW n \in Int, NEW o \in Int,
           NEW i \in Int, NEW j \in Int, NEW k \in Int
    PROVE  /\ ~ComesBefore(a, m, i, a, m, i)
           /\ m # n \/ i # j => ComesBefore(a, m, i, b, n, j) \/ ComesBefore(b, n, j, a, m, i)
           /\ ComesBefore(a, m, i, b, n, j) /\ ComesBefore(b, n, j, c, o, k) => ComesBefore(a, m, i, c, o, k)
BY DEF ComesBefore

LEMMA EarlierIsAnOrder ==
    ASSUME AllAlike
    PROVE  /\ \A x \in Items \X Items : ~Earlier(x, x)
           /\ \A x, y \in Items \X Items : x # y => Earlier(x, y) \/ Earlier(y, x)
           /\ \A x, y, z \in Items \X Items : Earlier(x, y) /\ Earlier(y, z) => Earlier(x, z)
<1>1. ASSUME NEW x \in Items \X Items, NEW y \in Items \X Items, NEW z \in Items \X Items
      PROVE  ~Earlier(x, x) /\ (x # y => Earlier(x, y) \/ Earlier(y, x)) /\ (Earlier(x, y) /\ Earlier(y, z) => Earlier(x, z))
  <2>1. alike[x] \in Int /\ alike[y] \in Int /\ alike[z] \in Int
    BY DEF AllAlike
  <2>2. x[1] \in Int /\ x[2] \in Int /\ y[1] \in Int /\ y[2] \in Int /\ z[1] \in Int /\ z[2] \in Int
    BY EvaluationAssumption DEF EvaluationAssumption
  <2>3. x = <<x[1], x[2]>> /\ y = <<y[1], y[2]>>
    OBVIOUS
  <2>4. x # y => x[1] # y[1] \/ x[2] # y[2]
    BY <2>3
  <2>5. \A u, v : Earlier(u, v) <=> ComesBefore(alike[u], u[1], u[2], alike[v], v[1], v[2])
    BY DEF Earlier, ComesBefore
  <2>6. PICK a \in Int, b \in Int, c \in Int : a = alike[x] /\ b = alike[y] /\ c = alike[z]
    BY <2>1
  <2>7. PICK m \in Int, n \in Int, o \in Int, i \in Int, j \in Int, k \in Int :
           m = x[1] /\ n = y[1] /\ o = z[1] /\ i = x[2] /\ j = y[2] /\ k = z[2]
    BY <2>2
  <2>8. /\ Earlier(x, x) <=> ComesBefore(a, m, i, a, m, i)
        /\ Earlier(x, y) <=> ComesBefore(a, m, i, b, n, j)
        /\ Earlier(y, x) <=> ComesBefore(b, n, j, a, m, i)
        /\ Earlier(y, z) <=> ComesBefore(b, n, j, c, o, k)
        /\ Earlier(x, z) <=> ComesBefore(a, m, i, c, o, k)
    BY <2>5, <2>6, <2>7
  <2>9. QED
    BY <2>4, <2>7, <2>8, ComesBeforeIsAnOrder
<1>2. QED
  BY <1>1

LEMMA TakenInOrder ==
    ASSUME AllAlike, NEW pairs, pairs \subseteq Items \X Items
    PROVE  /\ TakeInOrder(pairs) \subseteq pairs /\ OneToOne(TakeInOrder(pairs))
           /\ \A x \in pairs : \E y \in TakeInOrder(pairs) : Shares(x, y)
<1>1. IsFiniteSet(pairs)
  BY ItemsAreFinite, FS_Product, FS_Subset
<1>2. PICK rank : rank = [x \in pairs |-> Cardinality({y \in pairs : Earlier(y, x)})]
  OBVIOUS
<1>3. \A x, y, z \in pairs : ~Earlier(x, x) /\ (x # y => Earlier(x, y) \/ Earlier(y, x)) /\ (Earlier(x, y) /\ Earlier(y, z) => Earlier(x, z))
  BY EarlierIsAnOrder
<1>4. PICK n \in Nat : n = Cardinality(pairs)
  BY <1>1, FS_CardinalityType
<1>5. ASSUME NEW x \in pairs
      PROVE  rank[x] \in Nat /\ rank[x] < n
  <2>1. PICK B : B = {y \in pairs : Earlier(y, x)}
    OBVIOUS
  <2>2. B \subseteq pairs /\ x \notin B
    BY <1>3, <2>1
  <2>3. QED
    BY <1>1, <1>2, <1>4, <2>1, <2>2, SomeAreFewer
<1>6. ASSUME NEW x \in pairs, NEW y \in pairs, Earlier(y, x)
      PROVE  rank[y] < rank[x]
  <2>1. PICK A, B : A = {z \in pairs : Earlier(z, y)} /\ B = {z \in pairs : Earlier(z, x)}
    OBVIOUS
  <2>2. A \subseteq B /\ y \in B /\ y \notin A /\ B \subseteq pairs
    BY <1>3, <1>6, <2>1
  <2>3. IsFiniteSet(B)
    BY <1>1, <2>2, FS_Subset
  <2>4. QED
    BY <1>2, <2>1, <2>2, <2>3, SomeAreFewer
<1>7. PICK R : R = {p \in pairs \X pairs : Earlier(p[1], p[2]) /\ Shares(p[2], p[1])}
  OBVIOUS
<1>8. \A x, y \in pairs : <<y, x>> \in R <=> Earlier(y, x) /\ (x[1] = y[1] \/ x[2] = y[2])
  BY <1>7 DEF Shares
<1>9. PICK u : TakesFree(u, pairs, R)
  BY <1>4, <1>5, <1>6, <1>8, TakenIsDecided
<1>10. u = [x \in pairs |-> \A y \in pairs : Earlier(y, x) /\ (x[1] = y[1] \/ x[2] = y[2]) => ~u[y]]
  BY <1>8, <1>9 DEF TakesFree
<1>11. PICK t : t = CHOOSE f : f = [x \in pairs |-> \A y \in pairs : Earlier(y, x) /\ (x[1] = y[1] \/ x[2] = y[2]) => ~f[y]]
  OBVIOUS
<1>12. t = [x \in pairs |-> \A y \in pairs : Earlier(y, x) /\ (x[1] = y[1] \/ x[2] = y[2]) => ~t[y]]
  BY <1>10, <1>11
<1>13. PICK T : T = TakeInOrder(pairs)
  OBVIOUS
<1>14. T = {x \in pairs : t[x]}
  BY <1>11, <1>13 DEF TakeInOrder
<1>15. \A x \in pairs : t[x] = \A y \in pairs : Earlier(y, x) /\ Shares(x, y) => ~t[y]
  BY <1>12 DEF Shares
<1>16. OneToOne(T)
  <2>1. SUFFICES ASSUME NEW x \in T, NEW y \in T, Shares(x, y), x # y
                 PROVE  FALSE
    BY DEF OneToOne, Shares
  <2>2. x \in pairs /\ y \in pairs /\ t[x] /\ t[y] /\ Shares(y, x)
    BY <1>14, <2>1 DEF Shares
  <2>3. ~Earlier(y, x) /\ ~Earlier(x, y)
    BY <1>15, <2>1, <2>2
  <2>4. QED
    BY <1>3, <2>1, <2>2, <2>3
<1>17. \A x \in pairs : \E y \in T : Shares(x, y)
  <2>1. TAKE x \in pairs
  <2>2. CASE t[x]
    BY <1>14, <2>2 DEF Shares
  <2>3. CASE ~t[x]
    BY <1>14, <1>15, <2>3
  <2>4. QED
    BY <2>2, <2>3
<1>18. QED
  BY <1>13, <1>14, <1>16, <1>17

-----------------------------------------------------------------------------
(* Matching what was remembered with a gold snapshot. *)

LEMMA PairsAreFinite ==
    ASSUME NEW P, NEW G, P \subseteq Items, G \subseteq Items, NEW M, M \subseteq P \X G
    PROVE  /\ IsFiniteSet(P) /\ IsFiniteSet(G) /\ IsFiniteSet(M) /\ M \subseteq Items \X Items
           /\ \A x \in M : x[1] \in P /\ x[2] \in G /\ x = <<x[1], x[2]>>
<1>1. IsFiniteSet(P) /\ IsFiniteSet(G)
  BY ItemsAreFinite
<1>2. IsFiniteSet(M)
  BY <1>1, FS_Product, FS_Subset
<1>3. QED
  BY <1>1, <1>2

\* A matched item is matched once: what is matched and what is left is all there is.
LEMMA MatchedAndLeft ==
    ASSUME NEW P, NEW G, P \subseteq Items, G \subseteq Items, NEW M, M \subseteq P \X G, OneToOne(M)
    PROVE  /\ Cardinality(M) \in Nat /\ Cardinality(Left(P, M)) \in Nat /\ Cardinality(Right(G, M)) \in Nat
           /\ Cardinality(P) \in Nat /\ Cardinality(G) \in Nat
           /\ Cardinality(M) + Cardinality(Left(P, M)) = Cardinality(P)
           /\ Cardinality(M) + Cardinality(Right(G, M)) = Cardinality(G)
<1>1. IsFiniteSet(P) /\ IsFiniteSet(G) /\ IsFiniteSet(M) /\ \A x \in M : x[1] \in P /\ x[2] \in G
  <2>1. IsFiniteSet(P) /\ IsFiniteSet(G)
    BY ItemsAreFinite
  <2>2. IsFiniteSet(M)
    BY <2>1, FS_Product, FS_Subset
  <2>3. QED
    BY <2>1, <2>2
<1>2. PICK f : f = [x \in M |-> x[1]]
  OBVIOUS
<1>3. PICK g : g = [x \in M |-> x[2]]
  OBVIOUS
<1>4. PICK A : A = {f[x] : x \in M}
  OBVIOUS
<1>5. PICK B : B = {g[x] : x \in M}
  OBVIOUS
<1>6. Cardinality(A) = Cardinality(M)
  <2>1. \A x, y \in M : f[x] = f[y] => x = y
    BY <1>2 DEF OneToOne
  <2>2. QED
    BY <1>1, <1>4, <2>1, OneValueEach
<1>7. Cardinality(B) = Cardinality(M)
  <2>1. \A x, y \in M : g[x] = g[y] => x = y
    BY <1>3 DEF OneToOne
  <2>2. QED
    BY <1>1, <1>5, <2>1, OneValueEach
<1>8. Left(P, M) = P \ A /\ P \cap A = A
  BY <1>1, <1>2, <1>4 DEF Left
<1>9. Right(G, M) = G \ B /\ G \cap B = B
  BY <1>1, <1>3, <1>5 DEF Right
<1>10. Cardinality(P \ A) = Cardinality(P) - Cardinality(A) /\ IsFiniteSet(P \ A)
  BY <1>1, <1>8, FS_Difference
<1>11. Cardinality(G \ B) = Cardinality(G) - Cardinality(B) /\ IsFiniteSet(G \ B)
  BY <1>1, <1>9, FS_Difference
<1>12. /\ Cardinality(P) \in Nat /\ Cardinality(G) \in Nat /\ Cardinality(M) \in Nat
       /\ Cardinality(P \ A) \in Nat /\ Cardinality(G \ B) \in Nat
  BY <1>1, <1>10, <1>11, FS_CardinalityType
<1>13. QED
  BY <1>6, <1>7, <1>8, <1>9, <1>10, <1>11, <1>12

LEMMA AssignmentsAre ==
    ASSUME NEW P, NEW M
    PROVE  M \in Assignments(P, P) <=> M \subseteq P \X P /\ Cardinality(M) = Cardinality(P) /\ OneToOne(M)
BY DEF Assignments, kSubset

\* Of two equal snapshots the heaviest assignment pairs what is the same.
LEMMA EqualsWeighMost ==
    ASSUME AllAlike, NEW P, P \subseteq Items, NEW H, H \in Heaviest(P, P, alike)
    PROVE  H \subseteq P \X P /\ Cardinality(H) = Cardinality(P) /\ OneToOne(H) /\ \A x \in H : alike[x] = Same
<1>1. H \in Assignments(P, P) /\ \A N \in Assignments(P, P) : Weight(H, alike) >= Weight(N, alike)
  BY DEF Heaviest
<1>2. H \subseteq P \X P /\ Cardinality(H) = Cardinality(P) /\ OneToOne(H)
  BY <1>1, AssignmentsAre
<1>3. PICK f : f = [x \in P |-> <<x, x>>]
  OBVIOUS
<1>4. PICK I : I = {f[x] : x \in P}
  OBVIOUS
<1>5. I \subseteq P \X P /\ \A x \in I : x[1] = x[2] /\ x \in Items \X Items
  BY <1>3, <1>4
<1>6. IsFiniteSet(P) /\ IsFiniteSet(I) /\ IsFiniteSet(H) /\ H \subseteq Items \X Items
  BY <1>2, <1>5, PairsAreFinite
<1>7. Cardinality(I) = Cardinality(P)
  <2>1. \A x, y \in P : f[x] = f[y] => x = y
    BY <1>3
  <2>2. QED
    BY <1>4, <1>6, <2>1, OneValueEach
<1>8. OneToOne(I)
  BY <1>3, <1>4 DEF OneToOne
<1>9. Weight(H, alike) >= Weight(I, alike)
  BY <1>1, <1>5, <1>7, <1>8, AssignmentsAre
<1>10. Same \in Int
  BY EvaluationAssumption DEF EvaluationAssumption
<1>11. \A x \in H : alike[x] \in Int /\ alike[x] <= Same
  BY <1>6 DEF AllAlike
<1>12. \A x \in I : alike[x] \in Int /\ alike[x] = Same
  BY <1>5 DEF AllAlike
<1>13. PICK v : SumsUp(v, alike, I) /\ Weight(I, alike) = v[I]
  BY <1>6, <1>12, WeightIs
<1>14. v[I] = Same * Cardinality(I)
  <2>1. \A x \in I : alike[x] \in Int /\ alike[x] <= Same /\ alike[x] = Same
    BY <1>10, <1>12
  <2>2. QED
    BY <1>6, <1>10, <1>13, <2>1, SumIsBounded
<1>15. PICK w : SumsUp(w, alike, H) /\ Weight(H, alike) = w[H]
  BY <1>6, <1>11, WeightIs
<1>16. w[H] \in Int /\ ((\E x \in H : alike[x] < Same) => w[H] < Same * Cardinality(H))
  BY <1>6, <1>10, <1>11, <1>15, SumIsBounded
<1>17. PICK n \in Int : n = Same * Cardinality(P)
  <2>1. Cardinality(P) \in Nat
    BY <1>6, FS_CardinalityType
  <2>2. QED
    BY <1>10, <2>1
<1>18. w[H] >= n
  BY <1>7, <1>9, <1>13, <1>14, <1>15, <1>17
<1>19. ~ \E x \in H : alike[x] < Same
  BY <1>2, <1>16, <1>17, <1>18
<1>20. \A x \in H : alike[x] = Same
  <2>1. TAKE x \in H
  <2>2. ~ (alike[x] < Same) /\ alike[x] \in Int /\ alike[x] <= Same
    BY <1>11, <1>19
  <2>3. QED
    BY <1>10, <2>2
<1>21. QED
  BY <1>2, <1>20

LEMMA ThresholdIsReached ==
    Threshold \in Int /\ Threshold <= Same /\ Same \in Int
BY EvaluationAssumption DEF EvaluationAssumption, Threshold

LEMMA BucketOfItems ==
    ASSUME NEW P, NEW G, P \subseteq Items, G \subseteq Items, NEW M, M \in MatchBucket(P, G)
    PROVE  M \subseteq P \X G /\ OneToOne(M)
<1>1. PICK H \in Heaviest(P, G, alike) : M = {pair \in H : alike[pair] >= Threshold}
  BY DEF MatchBucket
<1>2. H \subseteq P \X G /\ OneToOne(H) /\ M \subseteq H
  BY <1>1, HeaviestPairs
<1>3. QED
  BY <1>2, OneToOneLess

LEMMA EqualBucket ==
    ASSUME AllAlike, NEW P, P \subseteq Items, NEW M, M \in MatchBucket(P, P)
    PROVE  Left(P, M) = {} /\ Right(P, M) = {}
<1>1. PICK H \in Heaviest(P, P, alike) : M = {pair \in H : alike[pair] >= Threshold}
  BY DEF MatchBucket
<1>2. H \subseteq P \X P /\ Cardinality(H) = Cardinality(P) /\ OneToOne(H) /\ \A x \in H : alike[x] = Same
  BY <1>1, EqualsWeighMost
<1>3. M = H
  <2>1. \A x \in H : alike[x] >= Threshold
    BY <1>2, ThresholdIsReached
  <2>2. QED
    BY <1>1, <2>1
<1>4. /\ Cardinality(M) \in Nat /\ Cardinality(Left(P, M)) \in Nat /\ Cardinality(Right(P, M)) \in Nat
      /\ Cardinality(M) + Cardinality(Left(P, M)) = Cardinality(M)
      /\ Cardinality(M) + Cardinality(Right(P, M)) = Cardinality(M)
  BY <1>2, <1>3, MatchedAndLeft
<1>5. Cardinality(Left(P, M)) = 0 /\ Cardinality(Right(P, M)) = 0
  BY <1>4
<1>6. IsFiniteSet(Left(P, M)) /\ IsFiniteSet(Right(P, M))
  <2>1. Left(P, M) \subseteq Items /\ Right(P, M) \subseteq Items
    BY DEF Left, Right
  <2>2. QED
    BY <2>1, ItemsAreFinite
<1>7. QED
  BY <1>5, <1>6, FS_EmptySet

\* The matching of two snapshots: class by class, one with one, and complete if they are equal.
LEMMA SnapshotsMatched ==
    ASSUME AllAlike, NEW P, NEW G, P \subseteq Items, G \subseteq Items, NEW M, M \in MatchSnapshots(P, G)
    PROVE  /\ M \subseteq P \X G /\ OneToOne(M) /\ \A x \in M : Class(x[1]) = Class(x[2])
           /\ P = G => Left(P, M) = {} /\ Right(G, M) = {}
<1>1. PICK best : best = [c \in Classes |-> MatchBucket(In(c, P), In(c, G))]
  OBVIOUS
<1>2. M \in PerClass(best) /\ DOMAIN best = Classes
  BY <1>1 DEF MatchSnapshots
<1>3. PICK f : /\ \A c \in Classes : f[c] \in best[c]
               /\ M = UNION {f[c] : c \in Classes}
  BY <1>2, PerClassIs
<1>4. \A c \in Classes : f[c] \in MatchBucket(In(c, P), In(c, G))
  BY <1>1, <1>3
<1>5. \A c : In(c, P) \subseteq P /\ In(c, G) \subseteq G /\ In(c, P) \subseteq Items /\ In(c, G) \subseteq Items
  BY DEF In
<1>6. \A c \in Classes : f[c] \subseteq In(c, P) \X In(c, G) /\ OneToOne(f[c])
  BY <1>4, <1>5, BucketOfItems
<1>7. \A c \in Classes : \A x \in f[c] : x \in P \X G /\ x[1] \in In(c, P) /\ x[2] \in In(c, G)
  BY <1>5, <1>6
<1>8. \A c \in Classes : \A x \in f[c] : Class(x[1]) = c /\ Class(x[2]) = c
  BY <1>7 DEF In
<1>9. OneToOne(M)
  <2>1. PICK C : C = Classes
    OBVIOUS
  <2>2. \A c \in C : OneToOne(f[c])
    BY <1>6, <2>1
  <2>3. \A c, d \in C : \A x \in f[c], y \in f[d] : x[1] = y[1] \/ x[2] = y[2] => c = d
    <3>1. TAKE c, d \in C
    <3>2. TAKE x \in f[c], y \in f[d]
    <3>3. Class(x[1]) = c /\ Class(x[2]) = c /\ Class(y[1]) = d /\ Class(y[2]) = d
      BY <1>8, <2>1
    <3>4. QED
      BY <3>3
  <2>4. OneToOne(UNION {f[c] : c \in C})
    BY <2>2, <2>3, OneToOneClasses
  <2>5. QED
    BY <1>3, <2>1, <2>4
<1>10. ASSUME P = G, NEW i \in P
       PROVE  (\E x \in M : x[1] = i) /\ (\E x \in M : x[2] = i)
  <2>1. PICK c \in Classes : c = Class(i)
    BY <1>10 DEF Classes
  <2>2. PICK S : S = In(c, P) /\ S = In(c, G)
    BY <1>10
  <2>3. i \in S /\ S \subseteq Items
    BY <1>5, <1>10, <2>1, <2>2 DEF In
  <2>4. f[c] \in MatchBucket(S, S)
    BY <1>4, <2>2
  <2>5. Left(S, f[c]) = {} /\ Right(S, f[c]) = {}
    BY <2>3, <2>4, EqualBucket
  <2>6. (\E x \in f[c] : x[1] = i) /\ (\E x \in f[c] : x[2] = i)
    BY <2>3, <2>5 DEF Left, Right
  <2>7. QED
    BY <1>3, <2>6
<1>11. P = G => Left(P, M) = {} /\ Right(G, M) = {}
  BY <1>10 DEF Left, Right
<1>12. QED
  BY <1>3, <1>7, <1>8, <1>9, <1>11

-----------------------------------------------------------------------------
(* An evaluation: the inductive invariant. *)

\* What the judge was asked stays in the cache, and of what it called the same memory one of
\* the two is taken.
JudgedAll(candidates, r, cache) ==
    \A pair \in candidates :
        CacheKey(pair) \in DOMAIN cache /\ (cache[CacheKey(pair)] => \E y \in r.judge : Shares(pair, y))

\* The matching of a gold snapshot.
MatchedWell(P, G, r) ==
    /\ r.semantic \cup r.judge \subseteq P \X G
    /\ OneToOne(r.semantic \cup r.judge) /\ r.semantic \cap r.judge = {}
    /\ Left(P, r.semantic \cup r.judge) = r.extra /\ Right(G, r.semantic \cup r.judge) = r.missing
    /\ Left(Left(P, r.semantic), r.judge) = r.extra /\ Right(Right(G, r.semantic), r.judge) = r.missing
    /\ \A pair \in r.semantic \cup r.judge : Class(pair[1]) = Class(pair[2])
    /\ P = G => r.judge = {} /\ r.extra = {} /\ r.missing = {}

LeftOver(gold) == CandidatePairs(Left(predicted, matched[gold].semantic), Right(case[gold], matched[gold].semantic))

Counts == [tp : Nat, fp : Nat, fn : Nat]

ScoredWell(s) ==
    /\ s \in Seq(Counts) /\ Len(s) <= MaxCases
    /\ \A k \in DOMAIN s : s[k].tp + s[k].fp \in 0..MaxItems(k) /\ s[k].tp + s[k].fn \in 0..MaxItems(k)

EvaluationInv ==
    /\ ScoredWell(scored)
    /\ DOMAIN matched \subseteq Range(Golds)
    /\ case = NoCase => DOMAIN matched = {}
    /\ case # NoCase =>
          /\ AllAlike /\ IsCase(case) /\ predicted \in Snapshots /\ case.final \in Snapshots
          /\ Len(scored) < MaxCases
    /\ predicted \subseteq Items
    /\ \A k \in DOMAIN judge_cache : judge_cache[k] \in BOOLEAN
    /\ \A gold \in DOMAIN matched :
          MatchedWell(predicted, case[gold], matched[gold]) /\ JudgedAll(LeftOver(gold), matched[gold], judge_cache)

LEMMA GoldsOfItems ==
    ASSUME IsCase(case), case.final \subseteq Items, NEW gold \in Range(Golds)
    PROVE  case[gold] \subseteq Items
<1>1. case.final = case.extracted \cup case.preserved
  BY DEF IsCase
<1>2. gold \in {"final", "extracted", "preserved"}
  BY DEF Golds, Range
<1>3. case["final"] \subseteq Items /\ case["extracted"] \subseteq Items /\ case["preserved"] \subseteq Items
  BY <1>1
<1>4. QED
  BY <1>2, <1>3

LEMMA SnapshotsAre ==
    ASSUME NEW S, S \in Snapshots
    PROVE  S \subseteq Items /\ Cardinality(S) <= MaxItems(Len(scored) + 1)
BY DEF Snapshots

LEMMA InvariantShowsReport ==
    ASSUME EvaluationInv
    PROVE  ReportIsSound
<1>1. /\ ScoredWell(scored) /\ DOMAIN matched \subseteq Range(Golds)
      /\ case = NoCase => DOMAIN matched = {}
      /\ case # NoCase =>
            /\ AllAlike /\ IsCase(case) /\ predicted \in Snapshots /\ case.final \in Snapshots
            /\ Len(scored) < MaxCases
      /\ predicted \subseteq Items
      /\ \A k \in DOMAIN judge_cache : judge_cache[k] \in BOOLEAN
  BY DEF EvaluationInv
<1>2. ASSUME NEW gold \in DOMAIN matched
      PROVE  /\ MatchedWell(predicted, case[gold], matched[gold]) /\ JudgedAll(LeftOver(gold), matched[gold], judge_cache)
             /\ case[gold] \subseteq Items
  <2>1. case # NoCase /\ gold \in Range(Golds)
    BY <1>1, <1>2
  <2>2. case[gold] \subseteq Items
    BY <1>1, <2>1, GoldsOfItems, SnapshotsAre
  <2>3. QED
    BY <1>2, <2>2 DEF EvaluationInv
<1>3. EvaluationTypeOK
  <2>1. case # NoCase => case.final \subseteq Items /\ IsCase(case)
    BY <1>1, SnapshotsAre
  <2>2. ASSUME NEW gold \in DOMAIN matched
        PROVE  /\ matched[gold].semantic \cup matched[gold].judge \subseteq Items \X Items
               /\ matched[gold].extra \cup matched[gold].missing \subseteq Items
    <3>1. PICK r : r = matched[gold]
      OBVIOUS
    <3>2. PICK G : G = case[gold] /\ G \subseteq Items
      BY <1>2, <2>2
    <3>3. MatchedWell(predicted, G, r)
      BY <1>2, <2>2, <3>1, <3>2
    <3>4. r.extra \subseteq predicted /\ r.missing \subseteq G
      BY <3>3 DEF MatchedWell, Left, Right
    <3>5. r.semantic \cup r.judge \subseteq predicted \X G
      BY <3>3 DEF MatchedWell
    <3>6. QED
      BY <1>1, <3>1, <3>2, <3>4, <3>5
  <2>3. \A k \in DOMAIN scored : scored[k].tp + scored[k].fp \in 0..MaxItems(k) /\ scored[k].tp + scored[k].fn \in 0..MaxItems(k)
    BY <1>1 DEF ScoredWell
  <2>4. QED
    BY <1>1, <2>1, <2>2, <2>3 DEF EvaluationTypeOK
<1>4. EveryItemOnce
  <2>1. SUFFICES ASSUME NEW gold \in DOMAIN matched
                 PROVE  LET M == Accepted(gold) IN
                        /\ OneToOne(M)
                        /\ matched[gold].semantic \cap matched[gold].judge = {}
                        /\ Left(predicted, M) = matched[gold].extra /\ Right(case[gold], M) = matched[gold].missing
                        /\ \A pair \in M : Class(pair[1]) = Class(pair[2])
    BY DEF EveryItemOnce
  <2>2. PICK r, G : r = matched[gold] /\ G = case[gold]
    OBVIOUS
  <2>3. MatchedWell(predicted, G, r)
    BY <1>2, <2>1, <2>2
  <2>4. PICK M : M = Accepted(gold) /\ M = r.semantic \cup r.judge
    BY <2>2 DEF Accepted
  <2>5. /\ OneToOne(M) /\ r.semantic \cap r.judge = {} /\ Left(predicted, M) = r.extra /\ Right(G, M) = r.missing
        /\ \A pair \in M : Class(pair[1]) = Class(pair[2])
    BY <2>3, <2>4 DEF MatchedWell
  <2>6. QED
    BY <2>2, <2>4, <2>5
<1>5. PerfectIsExact
  BY <1>2 DEF PerfectIsExact, MatchedWell
<1>6. NothingLeftToMatch
  <2>1. SUFFICES ASSUME NEW gold \in DOMAIN matched, NEW pair \in matched[gold].extra \X matched[gold].missing,
                        CacheKey(pair) \in DOMAIN judge_cache, judge_cache[CacheKey(pair)],
                        pair \in CandidatePairs(Left(predicted, matched[gold].semantic), Right(case[gold], matched[gold].semantic))
                 PROVE  FALSE
    BY DEF NothingLeftToMatch
  <2>2. PICK r, G : r = matched[gold] /\ G = case[gold]
    OBVIOUS
  <2>3. MatchedWell(predicted, G, r) /\ JudgedAll(LeftOver(gold), r, judge_cache)
    BY <1>2, <2>1, <2>2
  <2>4. PICK y \in r.judge : Shares(pair, y)
    BY <2>1, <2>2, <2>3 DEF JudgedAll, LeftOver
  <2>5. pair[1] \in r.extra /\ pair[2] \in r.missing
    BY <2>1, <2>2
  <2>6. pair[1] # y[1] /\ pair[2] # y[2]
    BY <2>3, <2>4, <2>5 DEF MatchedWell, Left, Right
  <2>7. QED
    BY <2>4, <2>6 DEF Shares
<1>7. AverageIsBetween
  BY <1>1, ReportBetween DEF ScoredWell, Counts
<1>8. QED
  BY <1>3, <1>4, <1>5, <1>6, <1>7 DEF ReportIsSound

LEMMA InitEvaluation ==
    ASSUME EvaluationInit
    PROVE  EvaluationInv
<1>1. scored \in Seq(Counts) /\ Len(scored) = 0 /\ DOMAIN scored = {} /\ DOMAIN matched = {} /\ DOMAIN judge_cache = {}
  BY NothingIn DEF EvaluationInit
<1>2. case = NoCase /\ predicted = {} /\ MaxCases \in Nat
  BY EvaluationAssumption DEF EvaluationInit, EvaluationAssumption
<1>3. QED
  BY <1>1, <1>2 DEF EvaluationInv, ScoredWell

LEMMA SimilarIsAlike ==
    ASSUME NEW f \in Similarities
    PROVE  \A x \in Items \X Items : f[x] \in Int /\ f[x] <= Same /\ (x[1] = x[2] => f[x] = Same)
<1>1. PICK texts : texts = {Text(i) : i \in Items}
  OBVIOUS
<1>2. PICK pairs : pairs = {S \in SUBSET texts : Cardinality(S) = 2}
  OBVIOUS
<1>3. PICK g \in [pairs -> Levels] :
         f = [p \in Items \X Items |-> IF Text(p[1]) = Text(p[2]) THEN Same ELSE g[{Text(p[1]), Text(p[2])}]]
  BY <1>1, <1>2 DEF Similarities
<1>4. TAKE x \in Items \X Items
<1>5. f[x] = IF Text(x[1]) = Text(x[2]) THEN Same ELSE g[{Text(x[1]), Text(x[2])}]
  BY <1>3
<1>6. Same \in Int /\ Levels \subseteq Int /\ \A l \in Levels : l <= Same
  BY EvaluationAssumption DEF EvaluationAssumption
<1>7. CASE Text(x[1]) = Text(x[2])
  BY <1>5, <1>6, <1>7
<1>8. CASE Text(x[1]) # Text(x[2])
  <2>1. PICK a \in texts, b \in texts : a = Text(x[1]) /\ b = Text(x[2])
    BY <1>1
  <2>2. a # b
    BY <1>8, <2>1
  <2>3. Cardinality({a, b}) = 2
    <3>1. IsFiniteSet({a}) /\ Cardinality({a}) = 1
      BY FS_Singleton
    <3>2. Cardinality({a} \cup {b}) = 2
      <4>1. b \notin {a}
        BY <2>2
      <4>2. Cardinality({a} \cup {b}) = 1 + 1
        BY <3>1, <4>1, FS_AddElement
      <4>3. QED
        BY <4>2
    <3>3. {a} \cup {b} = {a, b}
      OBVIOUS
    <3>4. QED
      BY <3>2, <3>3
  <2>4. {a, b} \in pairs
    BY <1>2, <2>3
  <2>5. g[{a, b}] \in Levels
    BY <2>4
  <2>6. x[1] # x[2] /\ f[x] = g[{a, b}]
    BY <1>5, <1>8, <2>1
  <2>7. QED
    BY <1>6, <2>5, <2>6
<1>9. QED
  BY <1>7, <1>8

LEMMA ConsolidateStep ==
    ASSUME EvaluationInv, Consolidate
    PROVE  EvaluationInv'
<1>1. /\ case' \in Cases /\ IsCase(case') /\ predicted' \in Snapshots /\ alike' \in Similarities
      /\ judge_cache' = <<>> /\ matched' = <<>> /\ scored' = scored /\ Len(scored) < MaxCases
  BY DEF Consolidate
<1>2. DOMAIN judge_cache' = {} /\ DOMAIN matched' = {}
  BY <1>1, NothingIn
<1>3. Snapshots' = Snapshots
  BY <1>1 DEF Snapshots
<1>4. case'.final \in Snapshots
  BY <1>1 DEF Cases
<1>5. AllAlike'
  BY <1>1, SimilarIsAlike DEF AllAlike
<1>6. ScoredWell(scored') /\ predicted' \subseteq Items /\ IsCase(case)'
  BY <1>1, SnapshotsAre DEF EvaluationInv, IsCase
<1>7. predicted' \in Snapshots' /\ case'.final \in Snapshots' /\ Len(scored') < MaxCases
  BY <1>1, <1>3, <1>4
<1>8. QED
  BY <1>2, <1>5, <1>6, <1>7 DEF EvaluationInv

\* A judge pair is one of the candidates, which are of one class.
LEMMA JudgeMatchesAre ==
    ASSUME AllAlike, NEW P, NEW G, P \subseteq Items, G \subseteq Items, NEW verdicts,
           NEW J, J = JudgeMatches(P, G, verdicts)
    PROVE  /\ J \subseteq P \X G /\ OneToOne(J) /\ \A x \in J : Class(x[1]) = Class(x[2])
           /\ \A x \in CandidatePairs(P, G) : verdicts[CacheKey(x)] => \E y \in J : Shares(x, y)
<1>1. PICK C : C = CandidatePairs(P, G)
  OBVIOUS
<1>2. C \subseteq P \X G /\ \A x \in C : Class(x[1]) = Class(x[2])
  BY <1>1 DEF CandidatePairs
<1>3. PICK Y : Y = {pair \in C : verdicts[CacheKey(pair)]}
  OBVIOUS
<1>4. Y \subseteq Items \X Items /\ Y \subseteq C
  BY <1>2, <1>3
<1>5. J = TakeInOrder(Y)
  BY <1>1, <1>3 DEF JudgeMatches
<1>6. /\ TakeInOrder(Y) \subseteq Y /\ OneToOne(TakeInOrder(Y))
      /\ \A x \in Y : \E y \in TakeInOrder(Y) : Shares(x, y)
  BY <1>4, TakenInOrder
<1>7. QED
  BY <1>1, <1>2, <1>3, <1>4, <1>5, <1>6

\* A verdict once given stands.
LEMMA VerdictsAre ==
    ASSUME NEW pairs, NEW verdicts, verdicts \in Verdicts(pairs), \A k \in DOMAIN judge_cache : judge_cache[k] \in BOOLEAN
    PROVE  /\ DOMAIN judge_cache \subseteq DOMAIN verdicts
           /\ \A k \in DOMAIN judge_cache : verdicts[k] = judge_cache[k]
           /\ \A k \in DOMAIN verdicts : verdicts[k] \in BOOLEAN
           /\ \A pair \in pairs : CacheKey(pair) \in DOMAIN verdicts
<1> DEFINE asked == {CacheKey(pair) : pair \in pairs} \ DOMAIN judge_cache
<1>1. Verdicts(pairs) = {[k \in DOMAIN judge_cache \cup asked |-> IF k \in asked THEN answers[k] ELSE judge_cache[k]] :
                           answers \in [asked -> BOOLEAN]}
  BY DEF Verdicts
<1>2. PICK answers \in [asked -> BOOLEAN] :
         verdicts = [k \in DOMAIN judge_cache \cup asked |-> IF k \in asked THEN answers[k] ELSE judge_cache[k]]
  <2> HIDE DEF asked
  <2>1. QED
    BY <1>1
<1>3. DOMAIN verdicts = DOMAIN judge_cache \cup asked /\ \A k \in DOMAIN judge_cache : k \notin asked
  BY <1>1, <1>2
<1>4. \A k \in DOMAIN verdicts : verdicts[k] = IF k \in asked THEN answers[k] ELSE judge_cache[k]
  BY <1>2, <1>3
<1>5. \A pair \in pairs : CacheKey(pair) \in DOMAIN verdicts
  BY <1>1, <1>3
<1>6. \A k \in asked : answers[k] \in BOOLEAN
  BY <1>2
<1>7. QED
  BY <1>3, <1>4, <1>5, <1>6

\* Both stages of a matching.
LEMMA HybridMatchIs ==
    ASSUME AllAlike, NEW P, NEW G, P \subseteq Items, G \subseteq Items, NEW M \in MatchSnapshots(P, G),
           NEW verdicts \in Verdicts(CandidatePairs(Left(P, M), Right(G, M))),
           \A k \in DOMAIN judge_cache : judge_cache[k] \in BOOLEAN,
           NEW J, J = JudgeMatches(Left(P, M), Right(G, M), verdicts),
           NEW r, r = [semantic |-> M, judge |-> J, extra |-> Left(Left(P, M), J), missing |-> Right(Right(G, M), J)]
    PROVE  MatchedWell(P, G, r) /\ JudgedAll(CandidatePairs(Left(P, M), Right(G, M)), r, verdicts)
<1>1. PICK A, B : A = Left(P, M) /\ B = Right(G, M)
  OBVIOUS
<1>2. A \subseteq Items /\ B \subseteq Items
  BY <1>1 DEF Left, Right
<1>3. r.semantic = M /\ r.judge = J /\ r.extra = Left(A, J) /\ r.missing = Right(B, J)
  BY <1>1
<1>4. /\ M \subseteq P \X G /\ OneToOne(M) /\ \A x \in M : Class(x[1]) = Class(x[2])
      /\ P = G => A = {} /\ B = {}
  BY <1>1, SnapshotsMatched
<1>5. J = JudgeMatches(A, B, verdicts) /\ verdicts \in Verdicts(CandidatePairs(A, B))
  BY <1>1
<1>6. /\ J \subseteq A \X B /\ OneToOne(J) /\ \A x \in J : Class(x[1]) = Class(x[2])
      /\ \A x \in CandidatePairs(A, B) : verdicts[CacheKey(x)] => \E y \in J : Shares(x, y)
  BY <1>2, <1>5, JudgeMatchesAre
\* The judge's matches are made of what the first stage left over.
<1>7. /\ M \cup J \subseteq P \X G /\ OneToOne(M \cup J) /\ M \cap J = {}
      /\ Left(P, M \cup J) = Left(A, J) /\ Right(G, M \cup J) = Right(B, J)
  <2>1. M \subseteq P \X G /\ OneToOne(M) /\ J \subseteq Left(P, M) \X Right(G, M) /\ OneToOne(J)
    BY <1>1, <1>4, <1>6
  <2>2. \A y \in J : y[1] \in Left(P, M) /\ y[2] \in Right(G, M)
    BY <2>1
  <2>3. \A x \in M, y \in J : x[1] # y[1] /\ x[2] # y[2]
    BY <2>2 DEF Left, Right
  <2>4. OneToOne(M \cup J)
    BY <2>1, <2>3, OneToOneJoined
  <2>5. Left(P, M) \subseteq P /\ Right(G, M) \subseteq G
    BY DEF Left, Right
  <2>6. M \cup J \subseteq P \X G
    BY <2>1, <2>5
  <2>7. M \cap J = {}
    BY <2>3
  <2>8. Left(P, M \cup J) = Left(Left(P, M), J)
    BY DEF Left
  <2>9. Right(G, M \cup J) = Right(Right(G, M), J)
    BY DEF Right
  <2>10. QED
    BY <1>1, <2>4, <2>6, <2>7, <2>8, <2>9
<1>8. ASSUME P = G
      PROVE  J = {} /\ Left(A, J) = {} /\ Right(B, J) = {}
  <2>1. A = {} /\ B = {}
    BY <1>4, <1>8
  <2>2. J = {}
    BY <1>6, <2>1
  <2>3. QED
    BY <2>1, <2>2 DEF Left, Right
<1>9. MatchedWell(P, G, r)
  BY <1>1, <1>3, <1>4, <1>6, <1>7, <1>8 DEF MatchedWell
<1>10. \A x \in CandidatePairs(A, B) : CacheKey(x) \in DOMAIN verdicts
  BY <1>5, VerdictsAre
<1>11. JudgedAll(CandidatePairs(Left(P, M), Right(G, M)), r, verdicts)
  BY <1>1, <1>3, <1>6, <1>10 DEF JudgedAll
<1>12. QED
  BY <1>9, <1>11

LEMMA HybridMatchStep ==
    ASSUME EvaluationInv, NEW gold \in Range(Golds), HybridMatch(gold)
    PROVE  EvaluationInv'
<1>1. /\ case # NoCase /\ AllAlike /\ IsCase(case) /\ predicted \in Snapshots /\ case.final \in Snapshots
      /\ predicted \subseteq Items /\ DOMAIN matched \subseteq Range(Golds)
      /\ \A k \in DOMAIN judge_cache : judge_cache[k] \in BOOLEAN
  BY DEF EvaluationInv, HybridMatch
<1>2. scored' = scored /\ case' = case /\ predicted' = predicted /\ alike' = alike
  BY DEF HybridMatch
<1>3. PICK G : G = case[gold] /\ G \subseteq Items
  BY <1>1, GoldsOfItems, SnapshotsAre
<1>4. PICK P : P = predicted /\ P \subseteq Items
  BY <1>1
<1>5. PICK M \in MatchSnapshots(P, G) :
         \E verdicts \in Verdicts(CandidatePairs(Left(P, M), Right(G, M))) :
            LET J == JudgeMatches(Left(P, M), Right(G, M), verdicts) IN
            /\ judge_cache' = verdicts
            /\ matched' = [g \in DOMAIN matched \cup {gold} |->
                 IF g # gold THEN matched[g]
                 ELSE [semantic |-> M, judge |-> J, extra |-> Left(Left(P, M), J), missing |-> Right(Right(G, M), J)]]
  BY <1>3, <1>4 DEF HybridMatch
<1>6. PICK verdicts \in Verdicts(CandidatePairs(Left(P, M), Right(G, M))) :
            LET J == JudgeMatches(Left(P, M), Right(G, M), verdicts) IN
            /\ judge_cache' = verdicts
            /\ matched' = [g \in DOMAIN matched \cup {gold} |->
                 IF g # gold THEN matched[g]
                 ELSE [semantic |-> M, judge |-> J, extra |-> Left(Left(P, M), J), missing |-> Right(Right(G, M), J)]]
  BY <1>5
<1>7. PICK J : J = JudgeMatches(Left(P, M), Right(G, M), verdicts)
  OBVIOUS
<1>8. PICK r : r = [semantic |-> M, judge |-> J, extra |-> Left(Left(P, M), J), missing |-> Right(Right(G, M), J)]
  OBVIOUS
<1>9. judge_cache' = verdicts /\ matched' = [g \in DOMAIN matched \cup {gold} |-> IF g # gold THEN matched[g] ELSE r]
  BY <1>6, <1>7, <1>8
<1>10. MatchedWell(P, G, r) /\ JudgedAll(CandidatePairs(Left(P, M), Right(G, M)), r, verdicts)
  BY <1>1, <1>3, <1>4, <1>5, <1>6, <1>7, <1>8, HybridMatchIs
<1>11. /\ DOMAIN judge_cache \subseteq DOMAIN verdicts
       /\ \A k \in DOMAIN judge_cache : verdicts[k] = judge_cache[k]
       /\ \A k \in DOMAIN verdicts : verdicts[k] \in BOOLEAN
  BY <1>1, <1>6, VerdictsAre
<1>12. DOMAIN matched' = DOMAIN matched \cup {gold} /\ matched'[gold] = r /\ \A g \in DOMAIN matched : g # gold => matched'[g] = matched[g]
  BY <1>9
<1>13. \A Q, H : CandidatePairs(Q, H)' = CandidatePairs(Q, H)
  BY <1>2 DEF CandidatePairs, Ahead, In
<1>14. ASSUME NEW g \in DOMAIN matched'
       PROVE  MatchedWell(predicted', case'[g], matched'[g]) /\ JudgedAll(LeftOver(g)', matched'[g], judge_cache')
  <2>1. CASE g = gold
    <3>1. matched'[g] = r /\ r.semantic = M /\ case'[g] = G /\ predicted' = P
      BY <1>2, <1>3, <1>4, <1>8, <1>12, <2>1
    <3>2. LeftOver(g)' = CandidatePairs(Left(P, M), Right(G, M))
      BY <1>13, <3>1 DEF LeftOver
    <3>3. QED
      BY <1>9, <1>10, <3>1, <3>2
  <2>2. CASE g # gold
    <3>1. g \in DOMAIN matched /\ matched'[g] = matched[g]
      BY <1>12, <1>14, <2>2
    <3>2. MatchedWell(predicted, case[g], matched[g]) /\ JudgedAll(LeftOver(g), matched[g], judge_cache)
      BY <3>1 DEF EvaluationInv
    <3>3. LeftOver(g)' = LeftOver(g)
      BY <1>2, <1>13, <3>1 DEF LeftOver
    <3>4. PICK C, s : C = LeftOver(g) /\ s = matched[g]
      OBVIOUS
    <3>5. JudgedAll(C, s, verdicts)
      BY <1>11, <3>2, <3>4 DEF JudgedAll
    <3>6. QED
      BY <1>2, <1>9, <3>1, <3>2, <3>3, <3>4, <3>5
  <2>3. QED
    BY <2>1, <2>2
<1>15. AllAlike' /\ IsCase(case)' /\ Snapshots' = Snapshots /\ ScoredWell(scored') /\ Len(scored') < MaxCases
  BY <1>1, <1>2 DEF AllAlike, IsCase, Snapshots, EvaluationInv
<1>16. DOMAIN matched' \subseteq Range(Golds) /\ \A k \in DOMAIN judge_cache' : judge_cache'[k] \in BOOLEAN
  BY <1>1, <1>9, <1>11, <1>12
<1>17. /\ case' # NoCase /\ predicted' \subseteq Items /\ predicted' \in Snapshots' /\ case'.final \in Snapshots'
  BY <1>1, <1>2, <1>15
<1>18. QED
  BY <1>14, <1>15, <1>16, <1>17 DEF EvaluationInv

\* The counts of a case stay within what a snapshot may hold.
LEMMA MetricsFit ==
    ASSUME EvaluationInv, case # NoCase, "final" \in DOMAIN matched
    PROVE  LET m == CaseMetrics IN
           m \in Counts /\ m.tp + m.fp \in 0..MaxItems(Len(scored) + 1) /\ m.tp + m.fn \in 0..MaxItems(Len(scored) + 1)
<1>1. PICK P, G, r : P = predicted /\ G = case["final"] /\ r = matched["final"]
  OBVIOUS
<1>2. /\ predicted \in Snapshots /\ case.final \in Snapshots /\ MatchedWell(P, G, r) /\ Len(scored) < MaxCases
      /\ scored \in Seq(Counts)
  BY <1>1 DEF EvaluationInv, ScoredWell
<1>3. PICK n \in Nat : n = MaxItems(Len(scored) + 1)
  <2>1. PICK l \in Nat, m \in Nat : l = Len(scored) /\ m = MaxCases
    BY <1>2, EvaluationAssumption DEF EvaluationAssumption
  <2>2. l + 1 \in 1..m
    BY <1>2, <2>1
  <2>3. QED
    BY <2>1, <2>2, EvaluationAssumption DEF EvaluationAssumption
<1>4. P \subseteq Items /\ G \subseteq Items /\ Cardinality(P) <= n /\ Cardinality(G) <= n
  BY <1>1, <1>2, <1>3, SnapshotsAre
<1>5. PICK M : M = r.semantic \cup r.judge
  OBVIOUS
<1>6. M \subseteq P \X G /\ OneToOne(M) /\ Left(P, M) = r.extra /\ Right(G, M) = r.missing
  BY <1>2, <1>5 DEF MatchedWell
<1>7. /\ Cardinality(M) \in Nat /\ Cardinality(r.extra) \in Nat /\ Cardinality(r.missing) \in Nat
      /\ Cardinality(P) \in Nat /\ Cardinality(G) \in Nat
      /\ Cardinality(M) + Cardinality(r.extra) = Cardinality(P)
      /\ Cardinality(M) + Cardinality(r.missing) = Cardinality(G)
  BY <1>4, <1>6, MatchedAndLeft
<1>8. PICK t \in Nat, u \in Nat, v \in Nat : t = Cardinality(M) /\ u = Cardinality(r.extra) /\ v = Cardinality(r.missing)
  BY <1>7
<1>9. t + u \in 0..n /\ t + v \in 0..n
  BY <1>4, <1>7, <1>8
<1>10. CaseMetrics = [tp |-> t, fp |-> u, fn |-> v]
  BY <1>1, <1>5, <1>8 DEF CaseMetrics, Accepted
<1>11. QED
  BY <1>3, <1>9, <1>10 DEF Counts

LEMMA ScoreCaseStep ==
    ASSUME EvaluationInv, ScoreCase
    PROVE  EvaluationInv'
<1>1. /\ scored' = Append(scored, CaseMetrics) /\ case' = NoCase /\ predicted' = {}
      /\ judge_cache' = <<>> /\ matched' = <<>> /\ DOMAIN matched = Range(Golds)
  BY DEF ScoreCase
<1>2. "final" \in DOMAIN matched
  <2>1. Golds[1] = "final" /\ 1 \in DOMAIN Golds
    BY DEF Golds
  <2>2. QED
    BY <1>1, <2>1 DEF Range
<1>3. case # NoCase /\ Len(scored) < MaxCases /\ ScoredWell(scored)
  BY <1>2 DEF EvaluationInv
<1>4. PICK m : m = CaseMetrics
  OBVIOUS
<1>5. m \in Counts /\ m.tp + m.fp \in 0..MaxItems(Len(scored) + 1) /\ m.tp + m.fn \in 0..MaxItems(Len(scored) + 1)
  BY <1>2, <1>3, <1>4, MetricsFit
<1>6. PICK s : s = scored /\ s \in Seq(Counts)
  BY <1>3 DEF ScoredWell
<1>7. PICK q : q = Append(s, m) /\ scored' = q
  BY <1>1, <1>4, <1>6
<1>8. /\ q \in Seq(Counts) /\ Len(q) = Len(s) + 1 /\ Len(s) \in Nat /\ DOMAIN q = 1..Len(q) /\ DOMAIN s = 1..Len(s)
      /\ \A i \in DOMAIN s : i \in DOMAIN q /\ q[i] = s[i]
      /\ q[Len(q)] = m /\ \A i \in DOMAIN q : i \in DOMAIN s \/ i = Len(q)
  BY <1>5, <1>6, <1>7, Appended
<1>9. ScoredWell(q)
  <2>1. Len(q) <= MaxCases
    BY <1>3, <1>6, <1>8, EvaluationAssumption DEF EvaluationAssumption
  <2>2. ASSUME NEW k \in DOMAIN q
        PROVE  q[k].tp + q[k].fp \in 0..MaxItems(k) /\ q[k].tp + q[k].fn \in 0..MaxItems(k)
    <3>1. CASE k \in DOMAIN s
      BY <1>3, <1>6, <1>8, <3>1 DEF ScoredWell
    <3>2. CASE k = Len(q)
      BY <1>5, <1>6, <1>8, <3>2
    <3>3. QED
      BY <1>8, <2>2, <3>1, <3>2
  <2>3. QED
    BY <1>8, <2>1, <2>2 DEF ScoredWell
<1>10. DOMAIN matched' = {} /\ DOMAIN judge_cache' = {}
  BY <1>1, NothingIn
<1>11. QED
  BY <1>1, <1>7, <1>9, <1>10 DEF EvaluationInv

LEMMA EvaluationStep ==
    ASSUME EvaluationInv, [EvaluationNext]_evaluation
    PROVE  EvaluationInv'
<1>1. CASE UNCHANGED evaluation
  <2>1. /\ scored' = scored /\ case' = case /\ predicted' = predicted /\ alike' = alike
        /\ judge_cache' = judge_cache /\ matched' = matched
    BY <1>1 DEF evaluation
  <2>2. \A g : LeftOver(g)' = LeftOver(g)
    BY <2>1 DEF LeftOver, CandidatePairs, Ahead, In
  <2>3. AllAlike' = AllAlike /\ IsCase(case)' = IsCase(case) /\ Snapshots' = Snapshots
    BY <2>1 DEF AllAlike, IsCase, Snapshots
  <2>4. QED
    BY <2>1, <2>2, <2>3 DEF EvaluationInv
<1>2. QED
  BY <1>1, ConsolidateStep, HybridMatchStep, ScoreCaseStep DEF EvaluationNext

\* agent/memory_semantic_eval.py: for any items, classes, texts, similarities, thresholds and answers of the
\* judging model, every item is counted once, a perfect snapshot is an exact match, nothing the
\* judge called the same is left over on both sides, and a report's rates lie between its cases'.
THEOREM ReportIsSoundAlways == EvaluationSpec => []ReportIsSound
<1>1. EvaluationInit => EvaluationInv
  BY InitEvaluation
<1>2. EvaluationInv /\ [EvaluationNext]_evaluation => EvaluationInv'
  BY EvaluationStep
<1>3. EvaluationInv => ReportIsSound
  BY InvariantShowsReport
<1>4. QED
  BY <1>1, <1>2, <1>3, PTL DEF EvaluationSpec

\* agent/memory_semantic_eval.py, agent/memory_query_eval.py: both evaluations, in the run where they and
\* the other parts stand side by side.
THEOREM EvaluationIsSoundAlways == MCSpec => []EvaluationIsSound
<1>1. MCInit => EvaluationInv /\ QueryInv
  BY InitEvaluation, InitQuery DEF MCInit
<1>2. ASSUME EvaluationInv, QueryInv, [MCNext]_mc
      PROVE  (EvaluationInv /\ QueryInv)'
  <2>1. [EvaluationNext]_evaluation /\ [QueryNext]_query
    BY <1>2 DEF MCNext, Agent, mc
  <2>2. QED
    BY <1>2, <2>1, EvaluationStep, QueryStep
<1>3. EvaluationInv /\ QueryInv => EvaluationIsSound
  BY InvariantShowsReport DEF EvaluationIsSound, QueryInv
<1>4. QED
  BY <1>1, <1>2, <1>3, PTL DEF MCSpec

===============================================================================
