----------------------------- MODULE EvalProofs -----------------------------
(* For every dataset, corpus, flag and question: what Retriever.Search      *)
(* promises to eval (fusion respects both lists, the temporal boost demotes *)
(* nobody unduly, the results are capped, distinct and maximal), what the   *)
(* loaders and rounds make of a file, how the ranking is credited, and that *)
(* the report counts every question and the gate means what it says.        *)
EXTENDS Eval, DataFacts, FiniteSetTheorems, TLAPS

-----------------------------------------------------------------------------
(* Rankings: sortScored yields every scored id once, best first.           *)

ScoredId == [id : Seq(Int), score : Int]

(* Two entries of S with one id are one entry. *)
DistinctIds(S) == \A x, y \in S : x.id = y.id => x = y

(* A list of candidates: scored, strictly ordered, each id once. *)
Ranking(s) ==
    /\ s \in Seq(ScoredId)
    /\ \A i, j \in DOMAIN s : i < j => Before(s[i], s[j]) /\ s[i].id # s[j].id

(* The tie-break of sortScored orders any two different ids. *)
LEMMA IdLessTotal ==
    ASSUME NEW a \in Seq(Int), NEW b \in Seq(Int), a # b
    PROVE  IdLess(a, b) \/ IdLess(b, a)
<1> DEFINE Differ == {i \in Nat : i > 0 /\ (i > Len(a) \/ i > Len(b) \/ a[i] # b[i])}
<1>1. Len(a) + 1 \in Differ
  OBVIOUS
<1>2. PICK i \in Differ : \A k \in Differ : i <= k
  BY <1>1, LeastNat
<1>3. i \in Nat /\ i > 0 /\ (i > Len(a) \/ i > Len(b) \/ a[i] # b[i])
  OBVIOUS
<1>4. \A j \in 1..(i - 1) : j <= Len(a) /\ j <= Len(b) /\ a[j] = b[j]
  BY <1>2, <1>3
<1> HIDE DEF Differ
<1>5. CASE i > Len(a) /\ i > Len(b)
  <2>1. Len(a) = i - 1 /\ Len(b) = i - 1
    <3>1. Len(a) \in Nat /\ Len(b) \in Nat
      OBVIOUS
    <3>2. ~(Len(a) < i - 1) /\ ~(Len(b) < i - 1)
      BY <1>3, <1>4, <3>1
    <3>3. i \in Nat /\ Len(a) <= i - 1 /\ Len(b) <= i - 1
      BY <1>3, <1>5, <3>1
    <3>4. QED  BY <3>1, <3>2, <3>3
  <2>2. \A j \in 1..Len(a) : a[j] = b[j]
    BY <1>4, <2>1
  <2>3. a = b
    BY <2>1, <2>2
  <2>4. QED  BY <2>3
<1>6. CASE i > Len(a) /\ i <= Len(b)
  <2>1. i \in 1..Len(b)
    BY <1>3, <1>6
  <2>2. QED  BY <1>4, <1>6, <2>1 DEF IdLess
<1>7. CASE i <= Len(a) /\ i > Len(b)
  <2>1. i \in 1..Len(a)
    BY <1>3, <1>7
  <2>2. QED  BY <1>4, <1>7, <2>1 DEF IdLess
<1>8. CASE i <= Len(a) /\ i <= Len(b)
  <2>1. a[i] \in Int /\ b[i] \in Int
    BY <1>3, <1>8
  <2>2. a[i] < b[i] \/ b[i] < a[i]
    BY <1>3, <1>8, <2>1
  <2>3. i \in 1..Len(a) /\ i \in 1..Len(b)
    BY <1>3, <1>8
  <2>4. a[i] < b[i] => IdLess(a, b)
    BY <1>4, <2>3 DEF IdLess
  <2>5. b[i] < a[i] => IdLess(b, a)
    BY <1>4, <2>3 DEF IdLess
  <2>6. QED  BY <2>2, <2>4, <2>5
<1>9. Len(a) \in Nat /\ Len(b) \in Nat
  OBVIOUS
<1>10. QED  BY <1>3, <1>5, <1>6, <1>7, <1>8, <1>9

(* The tie-break puts no id before itself. *)
LEMMA IdLessIrreflexive ==
    ASSUME NEW a \in Seq(Int)
    PROVE  ~IdLess(a, a)
<1>1. \A i \in 1..Len(a) : a[i] \in Int /\ ~(i > Len(a)) /\ ~(a[i] < a[i])
  OBVIOUS
<1>2. QED  BY <1>1 DEF IdLess

(* The tie-break is transitive: two ids differ where the first of the two  *)
(* differences is.                                                         *)
LEMMA IdLessTransitive ==
    ASSUME NEW a \in Seq(Int), NEW b \in Seq(Int), NEW c \in Seq(Int),
           IdLess(a, b), IdLess(b, c)
    PROVE  IdLess(a, c)
<1>1. PICK i \in 1..Len(b) :
         /\ \A j \in 1..(i - 1) : j <= Len(a) /\ a[j] = b[j]
         /\ i > Len(a) \/ a[i] < b[i]
  BY DEF IdLess
<1>2. PICK k \in 1..Len(c) :
         /\ \A j \in 1..(k - 1) : j <= Len(b) /\ b[j] = c[j]
         /\ k > Len(b) \/ b[k] < c[k]
  BY DEF IdLess
<1>3. /\ Len(a) \in Nat /\ Len(b) \in Nat /\ Len(c) \in Nat
      /\ i \in Nat /\ k \in Nat
      /\ \A n \in 1..Len(a) : a[n] \in Int
      /\ \A n \in 1..Len(b) : b[n] \in Int
      /\ \A n \in 1..Len(c) : c[n] \in Int
  OBVIOUS
<1>4. CASE i < k
  <2>1. /\ i \in 1..Len(c) /\ b[i] = c[i]
        /\ \A j \in 1..(i - 1) : j <= Len(a) /\ a[j] = c[j]
    <3>1. i \in 1..(k - 1) /\ i \in 1..Len(c)
      BY <1>3, <1>4
    <3>2. \A j \in 1..(i - 1) : j \in 1..(k - 1)
      BY <1>3, <1>4
    <3>3. QED  BY <1>1, <1>2, <3>1, <3>2
  <2>2. QED  BY <1>1, <2>1 DEF IdLess
<1>5. CASE k < i
  <2>1. k <= Len(a) /\ a[k] = b[k] /\ k <= Len(b)
    <3>1. k \in 1..(i - 1) /\ k <= Len(b)
      BY <1>3, <1>5
    <3>2. QED  BY <1>1, <3>1
  <2>2. a[k] < c[k]
    BY <1>2, <1>3, <2>1
  <2>3. \A j \in 1..(k - 1) : j <= Len(a) /\ a[j] = c[j]
    <3>1. \A j \in 1..(k - 1) : j \in 1..(i - 1)
      BY <1>3, <1>5
    <3>2. QED  BY <1>1, <1>2, <3>1
  <2>4. QED  BY <1>2, <2>2, <2>3 DEF IdLess
<1>6. CASE i = k
  <2>1. i <= Len(b) /\ b[i] < c[i]
    BY <1>2, <1>3, <1>6
  <2>2. i > Len(a) \/ a[i] < c[i]
    <3>1. CASE i <= Len(a)
      <4>1. a[i] \in Int /\ b[i] \in Int /\ c[i] \in Int /\ a[i] < b[i]
        BY <1>1, <1>3, <1>6, <3>1
      <4>2. QED  BY <2>1, <4>1
    <3>2. QED  BY <1>3, <3>1
  <2>3. \A j \in 1..(i - 1) : j <= Len(a) /\ a[j] = c[j]
    BY <1>1, <1>2, <1>6
  <2>4. QED  BY <1>2, <1>6, <2>2, <2>3 DEF IdLess
<1>7. QED  BY <1>3, <1>4, <1>5, <1>6

(* sortScored's order is a strict total order of entries with distinct     *)
(* ids.                                                                    *)
LEMMA BeforeOrders ==
    ASSUME NEW x \in ScoredId, NEW y \in ScoredId
    PROVE  /\ ~Before(x, x)
           /\ x.id # y.id => Before(x, y) \/ Before(y, x)
           /\ \A z \in ScoredId : Before(x, y) /\ Before(y, z) => Before(x, z)
           /\ ~(Before(x, y) /\ Before(y, x))
<1>1. \A z \in ScoredId : z.id \in Seq(Int) /\ z.score \in Int
  BY DEF ScoredId
<1>2. ~Before(x, x)
  BY <1>1, IdLessIrreflexive DEF Before
<1>3. x.id # y.id => Before(x, y) \/ Before(y, x)
  BY <1>1, IdLessTotal DEF Before
<1>4. ASSUME NEW z \in ScoredId, Before(x, y), Before(y, z)
      PROVE  Before(x, z)
  <2>1. x.score = y.score /\ y.score = z.score => IdLess(x.id, z.id)
    BY <1>1, <1>4, IdLessTransitive DEF Before
  <2>2. QED  BY <1>1, <1>4, <2>1 DEF Before
<1>5. ~(Before(x, y) /\ Before(y, x))
  BY <1>2, <1>4
<1>6. QED  BY <1>2, <1>3, <1>4, <1>5

(* The number of entries before x, which is what sortScored sorts by. *)
Ahead(S, x) == Cardinality({y \in S : Before(y, x)})

(* Entries of a finite set are numbered from 0, later ones higher. *)
LEMMA AheadCounts ==
    ASSUME NEW S \in SUBSET ScoredId, IsFiniteSet(S), NEW x \in S
    PROVE  /\ Ahead(S, x) \in 0..(Cardinality(S) - 1)
           /\ \A z \in S : Before(x, z) => Ahead(S, x) < Ahead(S, z)
<1> DEFINE A(z) == {y \in S : Before(y, z)}
<1>1. \A z \in S : /\ A(z) \in SUBSET S /\ IsFiniteSet(A(z))
                   /\ Cardinality(A(z)) \in Nat
  BY FS_Subset, FS_CardinalityType
<1>2. ASSUME NEW U, IsFiniteSet(U), NEW T \in SUBSET U, NEW e \in U, e \notin T
      PROVE  Cardinality(T) < Cardinality(U)
  <2>1. /\ IsFiniteSet(T) /\ Cardinality(T) <= Cardinality(U)
        /\ Cardinality(U) = Cardinality(T) => U = T
    BY <1>2, FS_Subset
  <2>2. Cardinality(T) \in Nat /\ Cardinality(U) \in Nat
    BY <1>2, <2>1, FS_CardinalityType
  <2>3. QED  BY <1>2, <2>1, <2>2
<1>3. x \notin A(x)
  BY BeforeOrders
<1>4. Cardinality(A(x)) < Cardinality(S)
  BY <1>1, <1>2, <1>3
<1>5. Cardinality(S) \in Nat
  BY FS_CardinalityType
<1>6. ASSUME NEW z \in S, Before(x, z)
      PROVE  Cardinality(A(x)) < Cardinality(A(z))
  <2>1. A(x) \subseteq A(z)
    BY <1>6, BeforeOrders
  <2>2. x \in A(z)
    BY <1>6
  <2> HIDE DEF A
  <2>3. QED  BY <1>1, <1>2, <1>3, <2>1, <2>2
<1>7. Ahead(S, x) = Cardinality(A(x))
  BY DEF Ahead
<1>8. \A z \in S : Ahead(S, z) = Cardinality(A(z))
  BY DEF Ahead
<1> HIDE DEF A
<1>9. QED  BY <1>1, <1>4, <1>5, <1>6, <1>7, <1>8

(* Every place has its entry: as many places as entries, and no two        *)
(* entries in one.                                                         *)
LEMMA EveryPlaceTaken ==
    ASSUME NEW S \in SUBSET ScoredId, IsFiniteSet(S), DistinctIds(S),
           NEW i \in 1..Cardinality(S)
    PROVE  \E x \in S : Ahead(S, x) = i - 1
<1> DEFINE n == Cardinality(S)
           P == 0..(n - 1)
           f == [x \in S |-> Ahead(S, x)]
<1>1. n \in Nat
  BY FS_CardinalityType
<1>2. IsFiniteSet(P) /\ Cardinality(P) = n
  <2>1. 0 \in Int /\ n - 1 \in Int
    BY <1>1
  <2>2. IsFiniteSet(P) /\ Cardinality(P) = IF 0 > n - 1 THEN 0 ELSE n - 1 - 0 + 1
    BY <2>1, FS_Interval
  <2>3. QED  BY <1>1, <2>2
<1>3. f \in [S -> P]
  BY AheadCounts
<1>4. ASSUME NEW x \in S, NEW y \in S, f[x] = f[y]  PROVE x = y
  <2>1. SUFFICES ASSUME x # y PROVE FALSE
    OBVIOUS
  <2>2. Before(x, y) \/ Before(y, x)
    BY <2>1, BeforeOrders DEF DistinctIds
  <2>3. Ahead(S, x) < Ahead(S, y) \/ Ahead(S, y) < Ahead(S, x)
    BY <2>2, AheadCounts
  <2>4. Ahead(S, x) = Ahead(S, y) /\ Ahead(S, x) \in Int
    BY <1>4, AheadCounts
  <2>5. QED  BY <2>3, <2>4
<1>5. f \in Injection(S, P)
  BY <1>3, <1>4 DEF Injection, IsInjective
<1>6. f \in Surjection(S, P)
  <2> HIDE DEF f, P
  <2>1. Cardinality(S) = Cardinality(P)
    BY <1>2 DEF n
  <2>2. Cardinality(S) = Cardinality(P) <=> f \in Surjection(S, P)
    BY <1>2, <1>5, FS_Injection
  <2>3. QED  BY <2>1, <2>2
<1>7. i - 1 \in P
  BY <1>1
<1>8. PICK x \in S : f[x] = i - 1
  BY <1>6, <1>7 DEF Surjection
<1>9. QED  BY <1>8

(* What sortScored returns: a ranking of exactly the entries given. *)
LEMMA SortScoredRanks ==
    ASSUME NEW S \in SUBSET ScoredId, IsFiniteSet(S), DistinctIds(S)
    PROVE  /\ Ranking(sortScored(S))
           /\ ElementsOf(sortScored(S)) = S
           /\ Len(sortScored(S)) = Cardinality(S)
<1> DEFINE n == Cardinality(S)
           s == sortScored(S)
<1>1. n \in Nat
  BY FS_CardinalityType
<1>2. /\ DOMAIN s = 1..n
      /\ \A i \in 1..n : s[i] = CHOOSE x \in S : Ahead(S, x) = i - 1
  BY DEF sortScored, Ahead
<1>3. \A i \in 1..n : s[i] \in S /\ Ahead(S, s[i]) = i - 1
  BY <1>2, EveryPlaceTaken
<1>4. s \in [1..n -> ScoredId]
  <2>1. \E g : s = [i \in 1..n |-> g[i]]
    <3> DEFINE h == [i \in 1..n |-> CHOOSE x \in S : Ahead(S, x) = i - 1]
    <3>1. s = h
      BY DEF sortScored, Ahead
    <3>2. h = [i \in 1..n |-> h[i]]
      OBVIOUS
    <3>3. QED  BY <3>1, <3>2
  <2>2. QED  BY <1>3, <2>1
<1> HIDE DEF s
<1>5. s \in Seq(ScoredId) /\ Len(s) = n
  BY <1>1, <1>2, <1>3, <1>4
<1>6. ASSUME NEW i \in 1..n, NEW j \in 1..n, i < j
      PROVE  Before(s[i], s[j]) /\ s[i].id # s[j].id
  <2>1. s[i] \in S /\ s[j] \in S /\ Ahead(S, s[i]) < Ahead(S, s[j])
    BY <1>3, <1>6
  <2>2. s[i] # s[j]
    BY <1>3, <1>6
  <2>3. s[i].id # s[j].id
    BY <2>1, <2>2 DEF DistinctIds
  <2>4. Before(s[i], s[j]) \/ Before(s[j], s[i])
    BY <2>1, <2>3, BeforeOrders
  <2>5. ~Before(s[j], s[i])
    <3>1. Before(s[j], s[i]) => Ahead(S, s[j]) < Ahead(S, s[i])
      BY <2>1, AheadCounts
    <3>2. Ahead(S, s[j]) \in Int /\ Ahead(S, s[i]) \in Int
      BY <2>1, AheadCounts
    <3>3. QED  BY <2>1, <3>1, <3>2
  <2>6. QED  BY <2>3, <2>4, <2>5
<1>7. ASSUME NEW x \in S  PROVE \E i \in 1..n : s[i] = x
  <2>1. PICK k \in 0..(n - 1) : k = Ahead(S, x)
    BY AheadCounts
  <2>2. k + 1 \in 1..n
    BY <1>1, <2>1
  <2>3. s[k + 1] \in S /\ Ahead(S, s[k + 1]) = k
    BY <1>3, <2>2
  <2>4. SUFFICES ASSUME s[k + 1] # x PROVE FALSE
    BY <2>2
  <2>5. Before(x, s[k + 1]) \/ Before(s[k + 1], x)
    BY <2>3, <2>4, BeforeOrders DEF DistinctIds
  <2>6. Ahead(S, x) < Ahead(S, s[k + 1]) \/ Ahead(S, s[k + 1]) < Ahead(S, x)
    BY <2>3, <2>5, AheadCounts
  <2>7. QED  BY <2>1, <2>3, <2>6
<1>8. ElementsOf(s) = S
  BY <1>2, <1>3, <1>7 DEF ElementsOf
<1>9. Ranking(s)
  BY <1>2, <1>5, <1>6 DEF Ranking
<1>10. QED  BY <1>5, <1>8, <1>9 DEF s

(* Where an id is in a ranking; an id that is not there has rank 0. *)
LEMMA RankInRanking ==
    ASSUME NEW s, Ranking(s)
    PROVE  /\ Len(s) \in Nat /\ DOMAIN s = 1..Len(s)
           /\ \A i \in DOMAIN s : s[i].id \in IdsOf(s) /\ RankIn(s, s[i].id) = i
           /\ \A id \in IdsOf(s) : /\ RankIn(s, id) \in DOMAIN s
                                   /\ s[RankIn(s, id)].id = id
           /\ \A id : id \notin IdsOf(s) => RankIn(s, id) = 0
<1>1. s \in Seq(ScoredId) /\ Len(s) \in Nat /\ DOMAIN s = 1..Len(s)
  BY DEF Ranking
<1>2. \A i, j \in DOMAIN s : s[i].id = s[j].id => i = j
  <2> SUFFICES ASSUME NEW i \in DOMAIN s, NEW j \in DOMAIN s,
                      s[i].id = s[j].id, i # j
               PROVE  FALSE
    OBVIOUS
  <2>1. i < j \/ j < i
    BY <1>1
  <2>2. QED  BY <2>1 DEF Ranking
<1>3. \A i \in DOMAIN s : s[i].id \in IdsOf(s)
  BY DEF IdsOf
<1>4. \A id \in IdsOf(s) : /\ RankIn(s, id) \in DOMAIN s
                           /\ s[RankIn(s, id)].id = id
  BY DEF RankIn, IdsOf
<1>5. \A i \in DOMAIN s : RankIn(s, s[i].id) = i
  BY <1>2, <1>3, <1>4
<1>6. QED  BY <1>1, <1>3, <1>4, <1>5 DEF RankIn

(* A ranking has as many ids as places. *)
LEMMA RankingCounts ==
    ASSUME NEW s, Ranking(s)
    PROVE  /\ IsFiniteSet(IdsOf(s)) /\ Cardinality(IdsOf(s)) = Len(s)
           /\ IsFiniteSet(ElementsOf(s))
<1>1. /\ Len(s) \in Nat /\ DOMAIN s = 1..Len(s)
      /\ \A i \in DOMAIN s : RankIn(s, s[i].id) = i
  BY RankInRanking
<1>2. IsFiniteSet(1..Len(s)) /\ Cardinality(1..Len(s)) = Len(s)
  <2>1. IsFiniteSet(1..Len(s))
          /\ Cardinality(1..Len(s)) = IF 1 > Len(s) THEN 0 ELSE Len(s) - 1 + 1
    BY <1>1, FS_Interval
  <2>2. QED  BY <1>1, <2>1
<1> DEFINE f == [i \in 1..Len(s) |-> s[i].id]
           g == [i \in 1..Len(s) |-> s[i]]
<1>3. f \in Surjection(1..Len(s), IdsOf(s))
  BY <1>1 DEF Surjection, IdsOf
<1>4. f \in Injection(1..Len(s), IdsOf(s))
  BY <1>1, <1>3 DEF Injection, IsInjective, Surjection
<1>5. g \in Surjection(1..Len(s), ElementsOf(s))
  BY <1>1 DEF Surjection, ElementsOf
<1> HIDE DEF f, g
<1>6. IsFiniteSet(ElementsOf(s))
  BY <1>2, <1>5, FS_Surjection
<1>7. /\ IsFiniteSet(IdsOf(s))
      /\ Cardinality(IdsOf(s)) = Cardinality(1..Len(s))
  BY <1>2, <1>3, <1>4, FS_Surjection
<1>8. QED  BY <1>2, <1>6, <1>7

(* The values of a function on a finite set are finitely many. *)
LEMMA FiniteValues ==
    ASSUME NEW I, IsFiniteSet(I), NEW f
    PROVE  IsFiniteSet({f[i] : i \in I})
<1> DEFINE V == {f[i] : i \in I}
           g == [i \in I |-> f[i]]
<1>1. g \in Surjection(I, V)
  BY DEF Surjection
<1> HIDE DEF g, V
<1>2. IsFiniteSet(V)
  BY <1>1, FS_Surjection
<1>3. QED  BY <1>2 DEF V

(* Cutting a list off leaves a ranking of some of its entries. *)
LEMMA TopRanks ==
    ASSUME NEW S \in SUBSET ScoredId, IsFiniteSet(S), DistinctIds(S), NEW n \in Nat
    PROVE  Ranking(Top(S, n)) /\ ElementsOf(Top(S, n)) \subseteq S
<1>1. PICK s : s = sortScored(S)
  OBVIOUS
<1>2. Ranking(s) /\ ElementsOf(s) = S
  BY <1>1, SortScoredRanks
<1>3. s \in Seq(ScoredId) /\ Len(s) \in Nat /\ DOMAIN s = 1..Len(s)
  BY <1>2, RankInRanking DEF Ranking
<1>4. CASE n > 0 /\ n < Len(s)
  <2>1. PICK t : t = SubSeq(s, 1, n)
    OBVIOUS
  <2>2. /\ t \in Seq(ScoredId) /\ DOMAIN t = 1..n
        /\ \A i \in 1..n : t[i] = s[i] /\ i \in DOMAIN s
    BY <1>3, <1>4, <2>1
  <2>3. Ranking(t)
    BY <1>2, <2>2 DEF Ranking
  <2>4. ElementsOf(t) \subseteq ElementsOf(s)
    BY <2>2 DEF ElementsOf
  <2>5. Top(S, n) = t
    BY <1>1, <1>4, <2>1 DEF Top
  <2>6. QED  BY <1>2, <2>3, <2>4, <2>5
<1>5. CASE ~(n > 0 /\ n < Len(s))
  <2>1. Top(S, n) = s
    BY <1>1, <1>5 DEF Top
  <2>2. QED  BY <1>2, <2>1
<1>6. QED  BY <1>4, <1>5

-----------------------------------------------------------------------------
(* Candidates.                                                             *)

Vector == Int \X Int

(* A corpus as NewCorpus makes it. *)
CorpusOK(C) ==
    /\ IsFiniteSet(C)
    /\ \A r \in C : r.id \in Seq(Int) /\ r.vec \in Vector
    /\ NewCorpusTakes(C)

CorpusIds == {r.id : r \in corpus}

(* Dot products are integers. *)
LEMMA DotType ==
    ASSUME NEW a \in Vector, NEW b \in Vector
    PROVE  Dot(a, b) \in Int
  BY DEF Vector, Dot

(* The dense scan ranks rows of the corpus. *)
LEMMA DenseRanks ==
    ASSUME CorpusOK(corpus), NEW v \in Vector, NEW n \in Nat
    PROVE  Ranking(DenseTopN(v, n)) /\ IdsOf(DenseTopN(v, n)) \subseteq CorpusIds
<1> DEFINE f == [r \in corpus |-> [id |-> r.id, score |-> Dot(r.vec, v)]]
           S == {[id |-> r.id, score |-> Dot(r.vec, v)] : r \in corpus}
<1>1. S = {f[r] : r \in corpus}
  OBVIOUS
<1>2. IsFiniteSet(S)
  <2>1. IsFiniteSet(corpus)
    BY DEF CorpusOK
  <2> HIDE DEF f, S
  <2>2. IsFiniteSet({f[r] : r \in corpus})
    BY <2>1, FiniteValues
  <2>3. QED  BY <1>1, <2>2
<1>3. S \in SUBSET ScoredId
  BY DotType DEF CorpusOK, ScoredId
<1>4. DistinctIds(S)
  BY DEF DistinctIds, CorpusOK, NewCorpusTakes
<1>5. \A x \in S : x.id \in CorpusIds
  BY DEF CorpusIds
<1>6. DenseTopN(v, n) = Top(S, n)
  BY DEF DenseTopN
<1> HIDE DEF S
<1>7. Ranking(Top(S, n)) /\ ElementsOf(Top(S, n)) \subseteq S
  BY <1>2, <1>3, <1>4, TopRanks
<1>8. IdsOf(Top(S, n)) \subseteq CorpusIds
  BY <1>5, <1>7 DEF IdsOf, ElementsOf
<1>9. QED  BY <1>6, <1>7, <1>8

(* BM25 ranks rows of the corpus, whatever scores it gives them. *)
LEMMA BM25Ranks ==
    ASSUME CorpusOK(corpus), NEW lex, NEW w \in [Matching(lex) -> 1..MaxBM25],
           NEW n \in Nat
    PROVE  Ranking(BM25TopN(w, n)) /\ IdsOf(BM25TopN(w, n)) \subseteq CorpusIds
<1> DEFINE M == Matching(lex)
           f == [i \in M |-> [id |-> i, score |-> w[i]]]
           g == [r \in corpus |-> r.id]
           S == {[id |-> i, score |-> w[i]] : i \in M}
<1>1. S = {f[i] : i \in M} /\ CorpusIds = {g[r] : r \in corpus}
  BY DEF CorpusIds
<1>2. M \subseteq CorpusIds
  BY DEF Matching, CorpusIds
<1>3. IsFiniteSet(S)
  <2>1. IsFiniteSet(corpus)
    BY DEF CorpusOK
  <2> HIDE DEF f, g, S, M
  <2>2. IsFiniteSet({g[r] : r \in corpus})
    BY <2>1, FiniteValues
  <2>3. IsFiniteSet(M)
    BY <1>1, <1>2, <2>2, FS_Subset
  <2>4. IsFiniteSet({f[i] : i \in M})
    BY <2>3, FiniteValues
  <2>5. QED  BY <1>1, <2>4
<1>4. \A i \in M : i \in Seq(Int) /\ w[i] \in Int
  BY <1>2, RetrieverAssumption DEF CorpusOK, CorpusIds
<1>5. S \in SUBSET ScoredId
  BY <1>4 DEF ScoredId
<1>6. DistinctIds(S)
  BY DEF DistinctIds
<1>7. \A x \in S : x.id \in CorpusIds
  BY <1>2
<1>8. BM25TopN(w, n) = Top(S, n)
  BY DEF BM25TopN
<1> HIDE DEF S
<1>9. Ranking(Top(S, n)) /\ ElementsOf(Top(S, n)) \subseteq S
  BY <1>3, <1>5, <1>6, TopRanks
<1>10. IdsOf(Top(S, n)) \subseteq CorpusIds
  BY <1>7, <1>9 DEF IdsOf, ElementsOf
<1>11. QED  BY <1>8, <1>9, <1>10

-----------------------------------------------------------------------------
(* Fusion.                                                                 *)

(* The recursive function that Denominator is defined by exists, and all   *)
(* its values are positive.                                                *)
LEMMA ProductExists ==
    ASSUME NEW k \in Nat, NEW n \in Nat
    PROVE  \E g \in [0..n -> Nat \ {0}] :
              g = [i \in 0..n |-> IF i = 0 THEN 1 ELSE g[i - 1] * (k + i)]
<1> DEFINE Good == {m \in Nat : \E g \in [0..m -> Nat \ {0}] :
                       /\ g[0] = 1
                       /\ \A i \in 1..m : g[i] = g[i - 1] * (k + i)}
<1>1. 0 \in Good
  <2> DEFINE g == [i \in 0..0 |-> 1]
  <2>1. g \in [0..0 -> Nat \ {0}] /\ g[0] = 1 /\ \A i \in 1..0 : FALSE
    OBVIOUS
  <2>2. QED  BY <2>1
<1>2. ASSUME NEW m \in Nat, m \in Good  PROVE m + 1 \in Good
  <2>1. PICK g \in [0..m -> Nat \ {0}] :
           g[0] = 1 /\ \A i \in 1..m : g[i] = g[i - 1] * (k + i)
    BY <1>2
  <2>2. PICK p \in Nat \ {0} : p = g[m] * (k + (m + 1))
    <3>1. PICK a \in Nat \ {0} : a = g[m]
      BY <2>1
    <3>2. PICK b \in Nat \ {0} : b = k + (m + 1)
      OBVIOUS
    <3>3. a * b \in Nat \ {0}
      BY <3>1, <3>2
    <3>4. QED  BY <3>1, <3>2, <3>3
  <2> DEFINE h == [i \in 0..(m + 1) |-> IF i = m + 1 THEN p ELSE g[i]]
  <2>3. h \in [0..(m + 1) -> Nat \ {0}]
    BY <2>1, <2>2
  <2>4. h[0] = 1
    BY <2>1
  <2>5. ASSUME NEW i \in 1..(m + 1)  PROVE h[i] = h[i - 1] * (k + i)
    <3>1. CASE i = m + 1
      <4>1. h[i] = p /\ h[i - 1] = g[m]
        BY <3>1
      <4>2. QED  BY <2>2, <3>1, <4>1
    <3>2. CASE i # m + 1
      <4>1. i \in 1..m /\ h[i] = g[i] /\ h[i - 1] = g[i - 1]
        BY <3>2
      <4>2. QED  BY <2>1, <4>1
    <3>3. QED  BY <3>1, <3>2
  <2> HIDE DEF h
  <2>6. \E e \in [0..(m + 1) -> Nat \ {0}] :
           e[0] = 1 /\ \A i \in 1..(m + 1) : e[i] = e[i - 1] * (k + i)
    <3>1. \A i \in 1..(m + 1) : h[i] = h[i - 1] * (k + i)
      BY <2>5
    <3>2. QED  BY <2>3, <2>4, <3>1
  <2>7. m + 1 \in Nat
    OBVIOUS
  <2>8. QED  BY <2>6, <2>7, Zenon
<1> HIDE DEF Good
<1>3. n \in Good
  BY <1>1, <1>2, NatSetInduction
<1>4. PICK g \in [0..n -> Nat \ {0}] :
         g[0] = 1 /\ \A i \in 1..n : g[i] = g[i - 1] * (k + i)
  BY <1>3 DEF Good
<1>5. \A i \in 0..n : g[i] = IF i = 0 THEN 1 ELSE g[i - 1] * (k + i)
  BY <1>4
<1>6. g = [i \in 0..n |-> IF i = 0 THEN 1 ELSE g[i - 1] * (k + i)]
  BY <1>4, <1>5
<1>7. QED  BY <1>4, <1>6

(* The denominator is positive and a multiple of k + r for every rank r.   *)
LEMMA DenominatorDivides ==
    ASSUME NEW k \in Nat, NEW n \in Nat
    PROVE  /\ Denominator(k, n) \in Nat \ {0}
           /\ \A r \in 1..n : \E q \in Nat \ {0} : Denominator(k, n) = (k + r) * q
<1> DEFINE f == CHOOSE g : g = [i \in 0..n |-> IF i = 0 THEN 1 ELSE g[i - 1] * (k + i)]
<1>1. f = [i \in 0..n |-> IF i = 0 THEN 1 ELSE f[i - 1] * (k + i)]
  <2>1. \E g : g = [i \in 0..n |-> IF i = 0 THEN 1 ELSE g[i - 1] * (k + i)]
    <3>1. \E g \in [0..n -> Nat \ {0}] :
             g = [i \in 0..n |-> IF i = 0 THEN 1 ELSE g[i - 1] * (k + i)]
      BY ProductExists
    <3>2. QED  BY <3>1, Zenon
  <2>2. QED  BY <2>1, Zenon
<1>2. Denominator(k, n) = f[n]
  BY DEF Denominator
<1> HIDE DEF f
<1>3. f[0] = 1 /\ \A i \in 1..n : f[i] = f[i - 1] * (k + i)
  <2>1. \A i \in 0..n : f[i] = IF i = 0 THEN 1 ELSE f[i - 1] * (k + i)
    BY <1>1
  <2>2. QED  BY <2>1
<1> DEFINE Good == {m \in Nat : m <= n =>
                      /\ f[m] \in Nat \ {0}
                      /\ \A r \in 1..m : \E q \in Nat \ {0} : f[m] = (k + r) * q}
<1>4. 0 \in Good
  BY <1>3
<1>5. ASSUME NEW m \in Nat, m \in Good  PROVE m + 1 \in Good
  <2> SUFFICES ASSUME m + 1 <= n
               PROVE  /\ f[m + 1] \in Nat \ {0}
                      /\ \A r \in 1..(m + 1) :
                            \E q \in Nat \ {0} : f[m + 1] = (k + r) * q
    OBVIOUS
  <2>0. /\ f[m] \in Nat \ {0}
        /\ \A r \in 1..m : \E q \in Nat \ {0} : f[m] = (k + r) * q
    <3>1. m <= n
      OBVIOUS
    <3>2. QED  BY <1>5, <3>1
  <2>1. PICK a \in Nat \ {0} : /\ a = f[m]
                               /\ \A r \in 1..m : \E q \in Nat \ {0} : a = (k + r) * q
    BY <2>0
  <2>2. PICK b \in Nat \ {0} : b = k + (m + 1)
    OBVIOUS
  <2>3. f[m + 1] = a * b
    BY <1>3, <2>1, <2>2
  <2>4. a * b \in Nat \ {0} /\ a * b = b * a
    BY <2>1, <2>2
  <2>5. ASSUME NEW r \in 1..(m + 1)
        PROVE  \E q \in Nat \ {0} : f[m + 1] = (k + r) * q
    <3>1. CASE r = m + 1
      BY <2>2, <2>3, <2>4, <3>1
    <3>2. CASE r # m + 1
      <4>1. r \in 1..m
        BY <3>2
      <4>2. PICK q \in Nat \ {0} : a = (k + r) * q
        BY <2>1, <4>1
      <4>3. PICK c \in Nat : c = k + r
        BY <4>1
      <4>4. q * b \in Nat \ {0} /\ (c * q) * b = c * (q * b)
        BY <2>2, <4>2, <4>3
      <4>5. f[m + 1] = (k + r) * (q * b)
        BY <2>3, <4>2, <4>3, <4>4
      <4>6. QED  BY <4>4, <4>5
    <3>3. QED  BY <3>1, <3>2
  <2>6. QED  BY <2>3, <2>4, <2>5
<1> HIDE DEF Good
<1>6. n \in Good
  BY <1>4, <1>5, NatSetInduction
<1>7. QED  BY <1>2, <1>6 DEF Good

(* A better rank in a list is worth strictly more, and any rank is worth   *)
(* more than none.                                                         *)
LEMMA ShareDecreases ==
    ASSUME NEW k \in Nat, NEW n \in Nat, NEW r \in 0..n
    PROVE  /\ Share(k, n, r) \in Nat
           /\ r > 0 => Share(k, n, r) > 0
           /\ \A t \in 1..n : 0 < r /\ r < t => Share(k, n, r) > Share(k, n, t)
<1> DEFINE d == Denominator(k, n)
<1>1. ASSUME NEW t \in 1..n
      PROVE  \E q \in Nat \ {0} : d = (k + t) * q /\ Share(k, n, t) = q
  <2>1. PICK q \in Nat \ {0} : d = (k + t) * q
    BY DenominatorDivides
  <2>2. PICK c \in Nat \ {0} : c = k + t
    OBVIOUS
  <2>3. (c * q) \div c = q
    BY <2>1, <2>2
  <2>4. t # 0
    OBVIOUS
  <2>5. Share(k, n, t) = q
    BY <2>1, <2>2, <2>3, <2>4 DEF Share
  <2>6. QED  BY <2>1, <2>5
<1>2. d \in Nat \ {0}
  BY DenominatorDivides
<1> HIDE DEF d
<1>3. CASE r = 0
  BY <1>3 DEF Share
<1>4. CASE r # 0
  <2>1. PICK q \in Nat \ {0} : d = (k + r) * q /\ Share(k, n, r) = q
    BY <1>1, <1>4
  <2>2. ASSUME NEW t \in 1..n, r < t  PROVE Share(k, n, t) < q
    <3>1. PICK p \in Nat \ {0} : d = (k + t) * p /\ Share(k, n, t) = p
      BY <1>1
    <3>2. SUFFICES ASSUME q <= p PROVE FALSE
      BY <3>1
    <3>3. PICK a \in Nat, b \in Nat : a = k + r /\ b = k + t /\ a < b
      BY <2>2
    <3>4. a * q <= a * p
      BY <3>2, <3>3
    <3>5. a * p < b * p
      BY <3>1, <3>3
    <3>6. a * q = b * p
      BY <2>1, <3>1, <3>3
    <3>7. a * q \in Int /\ a * p \in Int /\ b * p \in Int
      BY <3>3
    <3>8. QED  BY <3>4, <3>5, <3>6, <3>7
  <2>3. QED  BY <2>1, <2>2
<1>5. QED  BY <1>3, <1>4

(* In a ranking the ranks say what the order says. *)
LEMMA RankMeansBefore ==
    ASSUME NEW s, Ranking(s), NEW x \in ElementsOf(s), NEW y \in ElementsOf(s)
    PROVE  /\ x \in ScoredId /\ x.id \in IdsOf(s)
           /\ RankIn(s, x.id) < RankIn(s, y.id) <=> Before(x, y)
<1>1. /\ Len(s) \in Nat /\ DOMAIN s = 1..Len(s) /\ s \in Seq(ScoredId)
      /\ \A i \in DOMAIN s : s[i].id \in IdsOf(s) /\ RankIn(s, s[i].id) = i
  BY RankInRanking DEF Ranking
<1>2. PICK i \in DOMAIN s, j \in DOMAIN s : x = s[i] /\ y = s[j]
  BY DEF ElementsOf
<1>3. x \in ScoredId /\ y \in ScoredId
  BY <1>1, <1>2
<1>4. RankIn(s, x.id) = i /\ RankIn(s, y.id) = j /\ x.id \in IdsOf(s)
  BY <1>1, <1>2
<1>5. i \in Nat /\ j \in Nat
  BY <1>1
<1>6. i < j => Before(x, y)
  BY <1>2 DEF Ranking
<1>7. j < i => Before(y, x)
  BY <1>2 DEF Ranking
<1>8. Before(x, y) => i < j
  BY <1>2, <1>3, <1>5, <1>7, BeforeOrders
<1>9. QED  BY <1>3, <1>4, <1>6, <1>8

(* An id that does at least as well in a ranking gets at least as large a  *)
(* share; a strictly larger one if the other is in the list.               *)
LEMMA ShareOfBetter ==
    ASSUME NEW s, Ranking(s), NEW k \in Nat, NEW n \in Nat, Len(s) <= n,
           NEW x, NEW y, x # y, AtLeast(s, x, y)
    PROVE  /\ RankIn(s, x) \in 0..n /\ RankIn(s, y) \in 0..n
           /\ Share(k, n, RankIn(s, x)) \in Nat
           /\ Share(k, n, RankIn(s, y)) \in Nat
           /\ Share(k, n, RankIn(s, x)) >= Share(k, n, RankIn(s, y))
           /\ y \in IdsOf(s) =>
                 Share(k, n, RankIn(s, x)) > Share(k, n, RankIn(s, y))
<1>1. PICK a, b : a = RankIn(s, x) /\ b = RankIn(s, y)
  OBVIOUS
<1>2. /\ a \in 0..n /\ b \in 0..n
      /\ y \in IdsOf(s) <=> b # 0
      /\ b # 0 /\ a # 0 => a # b
  <2>1. /\ Len(s) \in Nat /\ DOMAIN s = 1..Len(s)
        /\ \A id \in IdsOf(s) : /\ RankIn(s, id) \in DOMAIN s
                                /\ s[RankIn(s, id)].id = id
        /\ \A id : id \notin IdsOf(s) => RankIn(s, id) = 0
    BY RankInRanking
  <2>2. x \in IdsOf(s) => a \in 1..n /\ s[a].id = x
    BY <1>1, <2>1
  <2>3. y \in IdsOf(s) => b \in 1..n /\ s[b].id = y
    BY <1>1, <2>1
  <2>4. /\ x \notin IdsOf(s) => a = 0
        /\ y \notin IdsOf(s) => b = 0
    BY <1>1, <2>1
  <2>5. QED  BY <2>2, <2>3, <2>4
<1>3. b # 0 => a # 0 /\ a <= b
  BY <1>1 DEF AtLeast
<1>4. Share(k, n, a) \in Nat /\ Share(k, n, b) \in Nat
  BY <1>2, ShareDecreases
<1>5. CASE b = 0
  <2>1. Share(k, n, b) = 0
    BY <1>5 DEF Share
  <2>2. QED  BY <1>1, <1>2, <1>4, <1>5, <2>1
<1>6. CASE b # 0
  <2>1. 0 < a /\ a < b /\ b \in 1..n
    BY <1>2, <1>3, <1>6
  <2>2. Share(k, n, a) > Share(k, n, b)
    BY <1>2, <2>1, ShareDecreases
  <2>3. QED  BY <1>1, <1>2, <1>4, <2>2
<1>7. QED  BY <1>5, <1>6

(* What fusion promises of two rankings. *)
LEMMA FusionRanks ==
    ASSUME NEW k \in Nat, NEW a, NEW b, Ranking(a), Ranking(b), NEW s,
           s = sortScored(RRF(k, a, b))
    PROVE  /\ Ranking(s) /\ IdsOf(s) = IdsOf(a) \cup IdsOf(b)
           /\ \A x, y \in IdsOf(s) :
                 x # y /\ AtLeast(a, x, y) /\ AtLeast(b, x, y)
                   => RankIn(s, x) < RankIn(s, y)
<1>1. PICK n \in Nat : /\ n = IF Len(a) > Len(b) THEN Len(a) ELSE Len(b)
                       /\ Len(a) <= n /\ Len(b) <= n
  BY RankInRanking
<1>2. PICK U : U = IdsOf(a) \cup IdsOf(b)
  OBVIOUS
<1> DEFINE v(i) == Share(k, n, RankIn(a, i)) + Share(k, n, RankIn(b, i))
           f == [i \in U |-> [id |-> i, score |-> v(i)]]
           S == {[id |-> i, score |-> v(i)] : i \in U}
<1>3. RRF(k, a, b) = S
  BY <1>1, <1>2 DEF RRF
<1>4. \A i \in U : i \in Seq(Int) /\ v(i) \in Int
  <2> SUFFICES ASSUME NEW i \in U  PROVE i \in Seq(Int) /\ v(i) \in Int
    OBVIOUS
  <2>1. i \in Seq(Int)
    <3>1. \A e \in ElementsOf(a) \cup ElementsOf(b) : e.id \in Seq(Int)
      <4>1. \A e \in ElementsOf(a) \cup ElementsOf(b) : e \in ScoredId
        BY RankMeansBefore
      <4>2. QED  BY <4>1 DEF ScoredId
    <3>2. \E e \in ElementsOf(a) \cup ElementsOf(b) : e.id = i
      BY <1>2 DEF ElementsOf, IdsOf
    <3>3. QED  BY <3>1, <3>2
  <2>2. RankIn(a, i) \in 0..n /\ RankIn(b, i) \in 0..n
    <3>1. RankIn(a, i) = 0 \/ RankIn(a, i) \in 1..Len(a)
      BY RankInRanking
    <3>2. RankIn(b, i) = 0 \/ RankIn(b, i) \in 1..Len(b)
      BY RankInRanking
    <3>3. Len(a) \in Nat /\ Len(b) \in Nat
      BY RankInRanking
    <3>4. QED  BY <1>1, <3>1, <3>2, <3>3
  <2>3. /\ Share(k, n, RankIn(a, i)) \in Nat
        /\ Share(k, n, RankIn(b, i)) \in Nat
    BY <2>2, ShareDecreases
  <2>4. QED  BY <2>1, <2>3
<1>5. S = {f[i] : i \in U}
  OBVIOUS
<1>6. IsFiniteSet(S)
  <2>1. IsFiniteSet(IdsOf(a)) /\ IsFiniteSet(IdsOf(b))
    BY RankingCounts
  <2>2. IsFiniteSet(U)
    BY <1>2, <2>1, FS_Union
  <2> HIDE DEF f, S
  <2>3. IsFiniteSet({f[i] : i \in U})
    BY <2>2, FiniteValues
  <2>4. QED  BY <1>5, <2>3
<1>7. S \in SUBSET ScoredId
  BY <1>4 DEF ScoredId
<1>8. DistinctIds(S)
  BY DEF DistinctIds
<1>9. Ranking(s) /\ ElementsOf(s) = S
  <2> HIDE DEF S
  <2>1. QED  BY <1>3, <1>6, <1>7, <1>8, SortScoredRanks
<1>10. IdsOf(s) = U
  <2>1. IdsOf(s) = {x.id : x \in ElementsOf(s)}
    BY DEF IdsOf, ElementsOf
  <2>2. {x.id : x \in S} = U
    <3> HIDE DEF v
    <3>1. \A i \in U : [id |-> i, score |-> v(i)].id = i
      OBVIOUS
    <3>2. QED  BY <3>1
  <2>3. QED  BY <1>9, <2>1, <2>2
<1>11. ASSUME NEW x \in U, NEW y \in U, x # y, AtLeast(a, x, y), AtLeast(b, x, y)
       PROVE  RankIn(s, x) < RankIn(s, y)
  <2>1. v(x) > v(y)
    <3>1. /\ Share(k, n, RankIn(a, x)) \in Nat /\ Share(k, n, RankIn(a, y)) \in Nat
          /\ Share(k, n, RankIn(a, x)) >= Share(k, n, RankIn(a, y))
          /\ y \in IdsOf(a) =>
                Share(k, n, RankIn(a, x)) > Share(k, n, RankIn(a, y))
      BY <1>1, <1>11, ShareOfBetter
    <3>2. /\ Share(k, n, RankIn(b, x)) \in Nat /\ Share(k, n, RankIn(b, y)) \in Nat
          /\ Share(k, n, RankIn(b, x)) >= Share(k, n, RankIn(b, y))
          /\ y \in IdsOf(b) =>
                Share(k, n, RankIn(b, x)) > Share(k, n, RankIn(b, y))
      BY <1>1, <1>11, ShareOfBetter
    <3>3. y \in IdsOf(a) \/ y \in IdsOf(b)
      BY <1>2
    <3>4. QED  BY <3>1, <3>2, <3>3
  <2>2. PICK p \in S, q \in S : p.id = x /\ p.score = v(x) /\ q.id = y /\ q.score = v(y)
    <3> HIDE DEF v
    <3>1. [id |-> x, score |-> v(x)] \in S /\ [id |-> y, score |-> v(y)] \in S
      OBVIOUS
    <3>2. QED  BY <3>1
  <2>3. Before(p, q)
    BY <2>1, <2>2 DEF Before
  <2> HIDE DEF S, v
  <2>4. QED  BY <1>9, <2>2, <2>3, RankMeansBefore
<1>12. QED  BY <1>2, <1>9, <1>10, <1>11

-----------------------------------------------------------------------------
(* The temporal boost.                                                     *)

(* What the boost promises of a ranking: it keeps the candidates, and one  *)
(* falls behind another only when the window is between them and the sign  *)
(* of the boosted score says so.                                           *)
LEMMA BoostRanks ==
    ASSUME NEW c, Ranking(c), NEW t, NEW s, s = TemporalAdjust(c, t)
    PROVE  /\ Ranking(s) /\ IdsOf(s) = IdsOf(c) /\ Len(s) = Len(c)
           /\ \A i, j \in DOMAIN c :
                 /\ i < j
                 /\ RankIn(s, c[i].id) > RankIn(s, c[j].id)
                 => MayOvertake(c[j], c[i], t)
<1>0. /\ Len(c) \in Nat /\ DOMAIN c = 1..Len(c) /\ c \in Seq(ScoredId)
      /\ \A i \in DOMAIN c : RankIn(c, c[i].id) = i
  BY RankInRanking DEF Ranking
<1>1. CASE t = NoTime
  <2>1. s = c
    BY <1>1 DEF TemporalAdjust
  <2>2. QED  BY <1>0, <2>1
<1>2. CASE t # NoTime
  <2> DEFINE E == ElementsOf(c)
             m(x) == IF InWindow(x.id, t) THEN 13 ELSE 10
             f == [x \in E |-> [id |-> x.id, score |-> x.score * m(x)]]
             S == {[id |-> x.id, score |-> x.score * m(x)] : x \in E}
  <2>1. E \subseteq ScoredId /\ IsFiniteSet(E)
    BY <1>0, RankingCounts DEF ElementsOf
  <2>2. \A x \in E : [x EXCEPT !.score = x.score * m(x)]
                        = [id |-> x.id, score |-> x.score * m(x)]
    BY <2>1 DEF ScoredId
  <2>3. s = sortScored(S)
    <3>1. s = sortScored({[x EXCEPT !.score = x.score * m(x)] : x \in E})
      BY <1>2 DEF TemporalAdjust
    <3>2. {[x EXCEPT !.score = x.score * m(x)] : x \in E} = S
      <4> HIDE DEF E, m
      <4>1. QED  BY <2>2, Zenon
    <3>3. QED  BY <3>1, <3>2
  <2>4. \A x \in E : m(x) \in {10, 13} /\ x.score \in Int /\ x.id \in Seq(Int)
    BY <2>1 DEF ScoredId
  <2>5. \A x \in E : x.score * m(x) \in Int
    BY <2>4
  <2>6. S \in SUBSET ScoredId
    <3> HIDE DEF m
    <3>1. QED  BY <2>4, <2>5 DEF ScoredId
  <2>7. IsFiniteSet(S)
    <3>1. S = {f[x] : x \in E}
      OBVIOUS
    <3> HIDE DEF f, S, E
    <3>2. IsFiniteSet({f[x] : x \in E})
      BY <2>1, FiniteValues
    <3>3. QED  BY <3>1, <3>2
  <2>8. DistinctIds(E)
    <3>1. \A x \in E : \E i \in DOMAIN c : x = c[i]
      BY DEF ElementsOf
    <3>2. QED  BY <1>0, <3>1 DEF DistinctIds
  <2>9. DistinctIds(S)
    <3> HIDE DEF m, E
    <3>1. QED  BY <2>8 DEF DistinctIds
  <2>10. Ranking(s) /\ ElementsOf(s) = S
    <3> HIDE DEF S
    <3>1. QED  BY <2>3, <2>6, <2>7, <2>9, SortScoredRanks
  <2>11. IdsOf(s) = IdsOf(c)
    <3>1. IdsOf(s) = {x.id : x \in ElementsOf(s)} /\ IdsOf(c) = {x.id : x \in E}
      BY DEF IdsOf, ElementsOf
    <3>2. {x.id : x \in S} = {x.id : x \in E}
      <4> DEFINE g(x) == [id |-> x.id, score |-> x.score * m(x)]
      <4>1. S = {g(x) : x \in E} /\ \A x \in E : g(x).id = x.id
        OBVIOUS
      <4> HIDE DEF E, S, g
      <4>2. \A y \in S : \E x \in E : y = g(x)
        BY <4>1
      <4>3. \A x \in E : g(x) \in S
        BY <4>1
      <4>4. QED  BY <4>1, <4>2, <4>3
    <3>3. QED  BY <2>10, <3>1, <3>2
  <2>12. Len(s) = Len(c)
    BY <2>10, <2>11, RankingCounts
  <2>13. ASSUME NEW i \in DOMAIN c, NEW j \in DOMAIN c, i < j,
                RankIn(s, c[i].id) > RankIn(s, c[j].id)
         PROVE  MayOvertake(c[j], c[i], t)
    <3>1. PICK x \in E, y \in E : x = c[i] /\ y = c[j]
      BY DEF ElementsOf
    <3>2. PICK p \in S, q \in S :
             /\ p.id = x.id /\ p.score = x.score * m(x)
             /\ q.id = y.id /\ q.score = y.score * m(y)
      <4> HIDE DEF E, m
      <4>1. /\ [id |-> x.id, score |-> x.score * m(x)] \in S
            /\ [id |-> y.id, score |-> y.score * m(y)] \in S
        OBVIOUS
      <4>2. QED  BY <4>1
    <3>3. Before(x, y)
      BY <2>13, <3>1 DEF Ranking
    <3>4. Before(q, p)
      <4>1. RankIn(s, q.id) < RankIn(s, p.id)
        <5>1. /\ Len(s) \in Nat /\ DOMAIN s = 1..Len(s)
              /\ \A id \in IdsOf(s) : RankIn(s, id) \in DOMAIN s
          BY <2>10, RankInRanking
        <5>2. p.id \in IdsOf(s) /\ q.id \in IdsOf(s)
          <6> HIDE DEF S
          <6>1. QED  BY <2>10, RankMeansBefore
        <5>3. QED  BY <2>13, <3>1, <3>2, <5>1, <5>2
      <4> HIDE DEF S
      <4>2. QED  BY <2>10, <4>1, RankMeansBefore
    <3>5. x \in ScoredId /\ y \in ScoredId /\ ~(IdLess(x.id, y.id) /\ IdLess(y.id, x.id))
      <4>1. x \in ScoredId /\ y \in ScoredId /\ x.id \in Seq(Int) /\ y.id \in Seq(Int)
        BY <2>1, <2>4
      <4>2. QED  BY <4>1, IdLessTransitive, IdLessIrreflexive
    <3>6. PICK u \in Int, w \in Int :
             u = x.score /\ w = y.score /\ u >= w
             /\ (u = w => IdLess(x.id, y.id))
      <4>1. x.score \in Int /\ y.score \in Int
        BY <2>4
      <4>2. QED  BY <2>13, <3>1, <3>3, <4>1 DEF Before
    <3>7. PICK g \in {10, 13}, h \in {10, 13} : g = m(x) /\ h = m(y)
      OBVIOUS
    <3>8. u * g <= w * h /\ (u * g = w * h => IdLess(y.id, x.id))
      <4>1. p.score = u * g /\ q.score = w * h
        BY <3>2, <3>6, <3>7
      <4>2. u * g \in Int /\ w * h \in Int
        BY <3>6, <3>7
      <4>3. QED  BY <3>2, <3>4, <4>1, <4>2 DEF Before
    <3>9. (g = 10 /\ h = 13 /\ w > 0) \/ (g = 13 /\ h = 10 /\ u < 0)
      <4>1. CASE g = 13 /\ h = 13
        BY <3>5, <3>6, <3>8, <4>1
      <4>2. CASE g = 10 /\ h = 10
        BY <3>5, <3>6, <3>8, <4>2
      <4>3. CASE g = 13 /\ h = 10
        BY <3>5, <3>6, <3>8, <4>3
      <4>4. CASE g = 10 /\ h = 13
        BY <3>5, <3>6, <3>8, <4>4
      <4>5. QED  BY <3>7, <4>1, <4>2, <4>3, <4>4
    <3>10. QED  BY <1>2, <3>1, <3>6, <3>7, <3>9 DEF MayOvertake
  <2>14. QED  BY <1>2, <2>10, <2>11, <2>12, <2>13
<1>3. QED  BY <1>1, <1>2

-----------------------------------------------------------------------------
(* MMR.                                                                    *)

(* Ids name rows. *)
LEMMA RowOfId ==
    ASSUME CorpusOK(corpus)
    PROVE  /\ \A id \in CorpusIds : RowOf(id) \in corpus /\ RowOf(id).id = id
           /\ \A r \in corpus : RowOf(r.id) = r
<1>1. \A id \in CorpusIds : RowOf(id) \in corpus /\ RowOf(id).id = id
  BY DEF CorpusIds, RowOf
<1>2. \A r \in corpus : r.id \in CorpusIds
  BY DEF CorpusIds
<1>3. QED  BY <1>1, <1>2 DEF CorpusOK, NewCorpusTakes

(* A best candidate exists: of those with the greatest objective, the      *)
(* first.                                                                  *)
LEMMA FirstGreatest ==
    ASSUME NEW O \in SUBSET Nat, IsFiniteSet(O), O # {}, NEW f,
           \A i \in O : f[i] \in Int
    PROVE  \E i \in O : \A j \in O : f[j] < f[i] \/ (f[j] = f[i] /\ i <= j)
<1>1. PICK V : V = {f[i] : i \in O}
  OBVIOUS
<1>2. V \in SUBSET Int /\ V # {}
  BY <1>1
<1>3. IsFiniteSet(V)
  BY <1>1, FiniteValues
<1>4. PICK x \in V : \A y \in V : y <= x
  BY <1>2, <1>3, GreatestInt
<1>5. PICK T \in SUBSET Nat : T = {i \in O : f[i] = x}
  OBVIOUS
<1>6. T # {}
  BY <1>1, <1>4, <1>5
<1>7. PICK i \in T : \A j \in T : i <= j
  BY <1>6, LeastNat
<1>8. ASSUME NEW j \in O
      PROVE  f[j] < f[i] \/ (f[j] = f[i] /\ i <= j)
  <2>1. f[j] \in V /\ f[j] \in Int /\ x \in Int /\ f[i] = x
    BY <1>1, <1>2, <1>5
  <2>2. f[j] <= x
    BY <1>4, <2>1
  <2>3. CASE f[j] = x
    BY <1>5, <1>7, <2>1, <2>3
  <2>4. CASE f[j] # x
    BY <2>1, <2>2, <2>4
  <2>5. QED  BY <2>3, <2>4
<1>9. QED  BY <1>5, <1>8

(* A search at its MMR stage works on a ranking of rows of the corpus. *)
RankedOK ==
    /\ CorpusOK(corpus) /\ Ranking(ranked) /\ IdsOf(ranked) \subseteq CorpusIds
    /\ Picked \subseteq DOMAIN ranked

(* The candidates of a ranking, and those picked, are finitely many rows. *)
LEMMA RankedRows ==
    ASSUME RankedOK
    PROVE  /\ Len(ranked) \in Nat /\ DOMAIN ranked = 1..Len(ranked)
           /\ IsFiniteSet(DOMAIN ranked) /\ IsFiniteSet(Picked)
           /\ \A i \in DOMAIN ranked :
                 /\ ranked[i].score \in Int /\ ranked[i].id \in CorpusIds
                 /\ RowOf(ranked[i].id) \in corpus
                 /\ RowOf(ranked[i].id).vec \in Vector
<1>1. /\ Len(ranked) \in Nat /\ DOMAIN ranked = 1..Len(ranked)
      /\ ranked \in Seq(ScoredId)
      /\ \A i \in DOMAIN ranked : ranked[i].id \in IdsOf(ranked)
  BY RankInRanking DEF RankedOK, Ranking
<1>2. IsFiniteSet(DOMAIN ranked)
  BY <1>1, FS_Interval
<1>3. IsFiniteSet(Picked)
  BY <1>2, FS_Subset DEF RankedOK
<1>4. ASSUME NEW i \in DOMAIN ranked
      PROVE  /\ ranked[i].score \in Int /\ ranked[i].id \in CorpusIds
             /\ RowOf(ranked[i].id) \in corpus
             /\ RowOf(ranked[i].id).vec \in Vector
  <2>1. ranked[i] \in ScoredId /\ ranked[i].id \in CorpusIds
    BY <1>1 DEF RankedOK
  <2>2. RowOf(ranked[i].id) \in corpus
    BY <2>1, RowOfId DEF RankedOK
  <2>3. QED  BY <2>1, <2>2 DEF ScoredId, RankedOK, CorpusOK
<1>5. QED  BY <1>1, <1>2, <1>3, <1>4

(* What MMR maximises is an integer for every candidate. *)
LEMMA ObjectiveType ==
    ASSUME RankedOK, NEW i \in DOMAIN ranked
    PROVE  MaxSim(i) \in Int /\ Objective(i) \in Int
<1>1. \A j \in DOMAIN ranked : Similarity(i, j) \in Int
  BY RankedRows, DotType DEF Similarity
<1>2. MaxSim(i) \in Int
  <2>1. CASE Picked = {}
    BY <2>1 DEF MaxSim
  <2>2. CASE Picked # {}
    <3> DEFINE f == [j \in Picked |-> Similarity(i, j)]
    <3>1. PICK V : V = {Similarity(i, j) : j \in Picked}
      OBVIOUS
    <3>2. V = {f[j] : j \in Picked}
      BY <3>1
    <3>3. V \in SUBSET Int /\ V # {}
      BY <1>1, <2>2, <3>1 DEF RankedOK
    <3> HIDE DEF f
    <3>4. IsFiniteSet(Picked)
      BY RankedRows
    <3>5. IsFiniteSet(V)
      BY <3>2, <3>4, FiniteValues
    <3>6. PICK x \in V : \A y \in V : y <= x
      BY <3>3, <3>5, GreatestInt
    <3>7. \A j \in Picked : Similarity(i, j) <= x
      BY <3>1, <3>6
    <3>8. MaxSim(i) \in V
      BY <2>2, <3>1, <3>6, <3>7 DEF MaxSim
    <3>9. QED  BY <3>3, <3>8
  <2>3. QED  BY <2>1, <2>2
<1>3. ranked[1].score \in Int /\ ranked[i].score \in Int
  <2>1. 1 \in DOMAIN ranked
    BY RankedRows
  <2>2. QED  BY <2>1, RankedRows
<1>4. PICK a \in Int, b \in Int, c \in Int :
         a = ranked[1].score /\ b = ranked[i].score /\ c = MaxSim(i)
  BY <1>2, <1>3
<1>5. PICK e \in {1, 10} : e = IF QueryTime(query) = NoTime THEN 1 ELSE 10
  OBVIOUS
<1>6. Objective(i) = IF a > 0 THEN 7 * UnitSq * b - 3 * a * c ELSE 7 * b - 3 * e * c
  BY <1>4, <1>5 DEF Objective
<1>7. QED  BY <1>2, <1>6, RetrieverAssumption

(* MMR's choice is a candidate still open, and none is better. *)
LEMMA BestIsOpen ==
    ASSUME RankedOK, Open # {}
    PROVE  /\ Best \in Open
           /\ \A j \in Open : \/ Objective(j) < Objective(Best)
                              \/ Objective(j) = Objective(Best) /\ Best <= j
<1> DEFINE f == [i \in Open |-> Objective(i)]
<1>1. Open \subseteq DOMAIN ranked
  BY DEF Open
<1>2. Open \in SUBSET Nat /\ IsFiniteSet(Open)
  BY <1>1, RankedRows, FS_Subset
<1>3. \A i \in Open : f[i] \in Int /\ f[i] = Objective(i)
  BY <1>1, ObjectiveType
<1> HIDE DEF f
<1>4. \E i \in Open : \A j \in Open : f[j] < f[i] \/ (f[j] = f[i] /\ i <= j)
  BY <1>2, <1>3, FirstGreatest
<1>5. \E i \in Open : \A j \in Open :
         Objective(j) < Objective(i) \/ (Objective(j) = Objective(i) /\ i <= j)
  BY <1>3, <1>4
<1>6. QED  BY <1>5 DEF Best

(* The first pick is the best candidate. *)
LEMMA FirstPick ==
    ASSUME RankedOK, Open # {}, Picked = {}
    PROVE  Best = 1
<1>1. Best \in Open /\ Best \in DOMAIN ranked
  BY BestIsOpen DEF Open
<1>2. 1 \in DOMAIN ranked /\ Best \in Nat /\ Best >= 1
  BY <1>1, RankedRows
<1>3. 1 \in Open
  <2>1. PerSession(SessionAt(1)) = 0
    <3>1. {i \in Picked : SessionAt(i) = SessionAt(1)} = {}
      OBVIOUS
    <3>2. QED  BY <3>1, FS_EmptySet DEF PerSession
  <2>2. QED  BY <1>2, <2>1 DEF Open
<1>4. PICK a \in Int, b \in Int : a = ranked[1].score /\ b = ranked[Best].score
  BY <1>1, <1>2, RankedRows
<1>5. a >= b
  <2>1. CASE Best = 1
    BY <1>4, <2>1
  <2>2. CASE Best # 1
    <3>1. Before(ranked[1], ranked[Best])
      BY <1>1, <1>2, <2>2 DEF RankedOK, Ranking
    <3>2. QED  BY <1>4, <3>1 DEF Before
  <2>3. QED  BY <2>1, <2>2
<1>6. Objective(1) >= Objective(Best)
  <2>1. MaxSim(1) = 0 /\ MaxSim(Best) = 0
    BY DEF MaxSim
  <2>2. CASE a > 0
    <3>1. /\ Objective(1) = 7 * UnitSq * a - 3 * a * 0
          /\ Objective(Best) = 7 * UnitSq * b - 3 * a * 0
      BY <1>4, <2>1, <2>2 DEF Objective
    <3>2. PICK u \in Nat : u = UnitSq
      BY RetrieverAssumption
    <3>3. PICK e \in Nat : e = a - b
      BY <1>5
    <3>4. u * e \in Nat
      BY <3>2, <3>3
    <3>5. u * a = u * b + u * e /\ u * a \in Int /\ u * b \in Int
      BY <3>2, <3>3
    <3>6. Objective(1) = 7 * (u * a) /\ Objective(Best) = 7 * (u * b)
      BY <3>1, <3>2
    <3>7. QED  BY <3>4, <3>5, <3>6
  <2>3. CASE ~(a > 0)
    <3>1. PICK e \in {1, 10} : e = IF QueryTime(query) = NoTime THEN 1 ELSE 10
      OBVIOUS
    <3>2. /\ Objective(1) = 7 * a - 3 * e * 0
          /\ Objective(Best) = 7 * b - 3 * e * 0
      BY <1>4, <2>1, <2>3, <3>1 DEF Objective
    <3>3. QED  BY <1>5, <3>1, <3>2
  <2>4. QED  BY <2>2, <2>3
<1>7. Objective(1) \in Int /\ Objective(Best) \in Int
  BY <1>1, <1>2, ObjectiveType
<1>8. Objective(1) < Objective(Best) \/ Best <= 1
  BY <1>3, BestIsOpen
<1>9. QED  BY <1>2, <1>6, <1>7, <1>8

-----------------------------------------------------------------------------
(* Flattening.                                                             *)

(* FlattenSeq is the concatenation of all. *)
LEMMA FlattenIsJoin ==
    ASSUME NEW S, NEW s \in Seq(Seq(S)), NEW g \in [0..Len(s) -> Seq(S)], IsJoin(s, g)
    PROVE  FlattenSeq(s) = g[Len(s)]
<1>1. PICK n \in Nat : n = Len(s)
  OBVIOUS
<1>2. \A i \in 1..n : s[i] \in Seq(S)
  BY <1>1
<1>3. g[0] = <<>> /\ \A i \in 1..n : g[i] = g[i - 1] \o s[i]
  BY <1>1 DEF IsJoin
<1>4. CASE n = 0
  <2>1. Len(s) = 0
    BY <1>1, <1>4
  <2>2. s = <<>>
    BY <2>1
  <2>3. FlattenSeq(s) = s
    BY <2>1 DEF FlattenSeq
  <2>4. QED  BY <1>1, <1>3, <1>4, <2>2, <2>3
<1>5. CASE n # 0
  <2> DEFINE F(f) == [i \in 1..Len(s) |-> IF i = 1 THEN s[i] ELSE f[i - 1] \o s[i]]
             h == [i \in 1..n |-> g[i]]
  <2>1. ASSUME NEW i \in 1..n
        PROVE  h[i] = IF i = 1 THEN s[i] ELSE h[i - 1] \o s[i]
    <3>1. g[i] = g[i - 1] \o s[i] /\ s[i] \in Seq(S)
      BY <1>2, <1>3
    <3>2. CASE i = 1
      <4>1. g[i - 1] = <<>>
        BY <1>3, <3>2
      <4>2. <<>> \o s[i] = s[i]
        BY <3>1
      <4>3. QED  BY <3>1, <3>2, <4>1, <4>2
    <3>3. CASE i # 1
      <4>1. i - 1 \in 1..n
        BY <3>3
      <4>2. QED  BY <3>1, <3>3, <4>1
    <3>4. QED  BY <3>2, <3>3
  <2>2. h = F(h)
    BY <1>1, <2>1
  <2>3. PICK f : f = (CHOOSE x : x = F(x))
    OBVIOUS
  <2>4. f = F(f)
    BY <2>2, <2>3
  <2>5. FlattenSeq(s) = f[n]
    BY <1>1, <1>5, <2>3 DEF FlattenSeq
  <2>6. \A i \in 1..n : f[i] = IF i = 1 THEN s[i] ELSE f[i - 1] \o s[i]
    BY <1>1, <2>4
  <2> HIDE DEF F
  <2> DEFINE Good == {i \in 0..n : i # 0 => f[i] = h[i]}
  <2>7. 0 \in Good
    OBVIOUS
  <2>8. ASSUME NEW i \in 0..(n - 1), i \in Good  PROVE i + 1 \in Good
    <3>1. i + 1 \in 1..n /\ (i + 1) - 1 = i /\ (i + 1 = 1 <=> i = 0)
      OBVIOUS
    <3>2. f[i + 1] = h[i + 1]
      <4> HIDE DEF h
      <4>1. /\ f[i + 1] = IF i = 0 THEN s[i + 1] ELSE f[i] \o s[i + 1]
            /\ h[i + 1] = IF i = 0 THEN s[i + 1] ELSE h[i] \o s[i + 1]
        BY <2>1, <2>6, <3>1
      <4>2. QED  BY <2>8, <4>1
    <3>3. i + 1 \in 0..n
      BY <3>1
    <3>4. QED  BY <3>2, <3>3
  <2> HIDE DEF Good
  <2>9. n \in Good
    <3>1. \A i \in 0..n : i \in Good
      BY <2>7, <2>8, UpTo
    <3>2. QED  BY <3>1
  <2>10. f[n] = h[n] /\ n \in 1..n
    BY <1>5, <2>9 DEF Good
  <2>11. QED  BY <1>1, <2>5, <2>10
<1>6. QED  BY <1>4, <1>5

(* It consists of blocks. *)
LEMMA FlattenBlocks ==
    ASSUME NEW S, NEW s \in Seq(Seq(S))
    PROVE  /\ FlattenSeq(s) \in Seq(S)
           /\ \E B \in [1..Len(FlattenSeq(s)) -> 1..Len(s)] :
                 Blocks(s, FlattenSeq(s), Len(s), B)
<1>1. PICK g \in [0..Len(s) -> Seq(S)] : IsJoin(s, g)
  BY JoinExists
<1>2. PICK t : t = FlattenSeq(s)
  OBVIOUS
<1>3. t = g[Len(s)]
  BY <1>1, <1>2, FlattenIsJoin
<1>4. t \in Seq(S)
  <2>1. Len(s) \in 0..Len(s)
    OBVIOUS
  <2>2. QED  BY <1>3, <2>1
<1>5. \E B \in [1..Len(t) -> 1..Len(s)] : Blocks(s, t, Len(s), B)
  BY <1>1, <1>3, JoinBlocks
<1>6. QED  BY <1>2, <1>4, <1>5

(* The last sequence is flattened last. *)
LEMMA FlattenLast ==
    ASSUME NEW S, NEW s \in Seq(Seq(S)), NEW p \in Seq(Seq(S)), NEW k \in Nat,
           Len(p) = k, Len(s) = k + 1, \A i \in 1..k : p[i] = s[i]
    PROVE  FlattenSeq(s) = FlattenSeq(p) \o s[k + 1]
<1>1. PICK g \in [0..(k + 1) -> Seq(S)] : IsJoin(s, g)
  BY JoinExists
<1>2. /\ g[0] = <<>>
      /\ \A i \in 1..(k + 1) : g[i] = g[i - 1] \o s[i]
  BY <1>1 DEF IsJoin
<1>3. PICK h \in [0..k -> Seq(S)] : \A i \in 0..k : h[i] = g[i]
  <2> DEFINE h == [i \in 0..k |-> g[i]]
  <2>1. \A i \in 0..k : i \in 0..(k + 1)
    OBVIOUS
  <2>2. h \in [0..k -> Seq(S)]
    BY <2>1
  <2>3. QED  BY <2>2
<1>4. IsJoin(p, h)
  <2>1. h[0] = <<>>
    BY <1>2, <1>3
  <2>2. ASSUME NEW i \in 1..k  PROVE h[i] = h[i - 1] \o p[i]
    <3>1. i \in 0..k /\ i - 1 \in 0..k /\ i \in 1..(k + 1)
      OBVIOUS
    <3>2. g[i] = g[i - 1] \o s[i]
      BY <1>2, <3>1
    <3>3. QED  BY <1>3, <3>1, <3>2
  <2>3. QED  BY <2>1, <2>2 DEF IsJoin
<1>5. FlattenSeq(p) = h[k]
  BY <1>4, FlattenIsJoin
<1>6. FlattenSeq(s) = g[k + 1]
  BY <1>1, FlattenIsJoin
<1>7. g[k + 1] = g[k] \o s[k + 1]
  <2>1. k + 1 \in 1..(k + 1) /\ (k + 1) - 1 = k
    OBVIOUS
  <2>2. g[k + 1] = g[(k + 1) - 1] \o s[k + 1]
    BY <1>2, <2>1, Zenon
  <2>3. QED  BY <2>1, <2>2
<1>8. h[k] = g[k]
  BY <1>3
<1>9. QED  BY <1>5, <1>6, <1>7, <1>8

-----------------------------------------------------------------------------
(* Rounds.                                                                 *)

(* Round i of a dialog: one or two turns, an exchange if two, and the     *)
(* round before it is no single turn that this one answers.               *)
Exchange(rs, i) ==
    /\ Len(rs[i]) \in {1, 2}
    /\ Len(rs[i]) = 2 => /\ rs[i][1].session = rs[i][2].session
                         /\ rs[i][1].speaker # rs[i][2].speaker
    /\ i > 1 /\ Len(rs[i - 1]) = 1 =>
          \/ rs[i - 1][1].session # rs[i][1].session
          \/ rs[i - 1][1].speaker = rs[i][1].speaker
Exchanges(rs) == \A i \in DOMAIN rs : Exchange(rs, i)

(* Turn t answers round r. *)
Answers(r, t) ==
    Len(r) < 2 /\ r[1].session = t.session /\ r[1].speaker # t.speaker

(* A turn that opens a round. *)
LEMMA TurnOpens ==
    ASSUME NEW S, NEW rs \in Seq(Seq(S)), NEW t \in S, Exchanges(rs), NEW k \in Nat,
           k = Len(rs), ~(k > 0 /\ Answers(rs[k], t))
    PROVE  /\ Append(rs, <<t>>) \in Seq(Seq(S)) /\ Exchanges(Append(rs, <<t>>))
           /\ FlattenSeq(Append(rs, <<t>>)) = FlattenSeq(rs) \o <<t>>
<1>1. PICK u \in Seq(S) : u = <<t>> /\ Len(u) = 1 /\ u[1] = t
  <2>1. <<>> \in Seq(S)
    OBVIOUS
  <2>2. QED  BY <2>1, OneMore
<1>2. PICK out \in Seq(Seq(S)) : out = Append(rs, u)
  BY OneMore
<1>3. /\ Len(out) = k + 1 /\ DOMAIN out = 1..(k + 1) /\ DOMAIN rs = 1..k
      /\ out[k + 1] = u /\ \A i \in 1..k : out[i] = rs[i]
  <2>1. /\ Len(out) = k + 1 /\ out[k + 1] = u /\ \A i \in 1..k : out[i] = rs[i]
    BY <1>2, OneMore
  <2>2. DOMAIN out = 1..Len(out) /\ DOMAIN rs = 1..Len(rs)
    OBVIOUS
  <2>3. QED  BY <2>1, <2>2
<1>4. ASSUME NEW i \in 1..(k + 1)  PROVE Exchange(out, i)
  <2>1. CASE i \in 1..k
    <3>1. out[i] = rs[i] /\ (i > 1 => out[i - 1] = rs[i - 1])
      BY <1>3, <2>1
    <3>2. Exchange(rs, i)
      BY <1>3, <2>1 DEF Exchanges
    <3>3. QED  BY <3>1, <3>2 DEF Exchange
  <2>2. CASE i = k + 1
    <3>1. out[i] = u /\ (i > 1 => k > 0 /\ out[i - 1] = rs[k])
      BY <1>3, <2>2
    <3>2. Len(out[i]) = 1 /\ out[i][1] = t
      BY <1>1, <3>1
    <3>3. i > 1 => ~Answers(out[i - 1], t)
      BY <3>1
    <3>4. i > 1 /\ Len(out[i - 1]) = 1 => \/ out[i - 1][1].session # t.session
                                          \/ out[i - 1][1].speaker = t.speaker
      BY <3>3 DEF Answers
    <3>5. QED  BY <3>2, <3>4 DEF Exchange
  <2>3. QED  BY <2>1, <2>2
<1>5. Exchanges(out)
  BY <1>3, <1>4 DEF Exchanges
<1>6. FlattenSeq(out) = FlattenSeq(rs) \o u
  <2>1. FlattenSeq(out) = FlattenSeq(rs) \o out[k + 1]
    BY <1>3, FlattenLast
  <2>2. QED  BY <1>3, <2>1
<1>7. QED  BY <1>1, <1>2, <1>5, <1>6

(* out is the k rounds rs with t added to the last. *)
LastJoined(rs, k, t, out) ==
    /\ Len(rs) = k /\ Len(out) = k /\ k > 0 /\ out[k] = Append(rs[k], t)
    /\ \A i \in 1..k : i # k => out[i] = rs[i]

(* A turn that answers the last one. *)
LEMMA TurnAnswers ==
    ASSUME NEW S, NEW rs \in Seq(Seq(S)), NEW t \in S, Exchanges(rs), NEW k \in Nat,
           Answers(rs[k], t), NEW out \in Seq(Seq(S)), LastJoined(rs, k, t, out)
    PROVE  Exchanges(out) /\ FlattenSeq(out) = FlattenSeq(rs) \o <<t>>
<1>0. /\ Len(rs) = k /\ Len(out) = k /\ k > 0 /\ out[k] = Append(rs[k], t)
      /\ \A i \in 1..k : i # k => out[i] = rs[i]
  BY DEF LastJoined
<1>1. k \in 1..Len(rs) /\ DOMAIN rs = 1..k
  BY <1>0
<1>2. PICK r \in Seq(S) : r = rs[k]
  BY <1>1
<1>3. Len(r) = 1
  <2>1. PICK m : m = Len(r)
    OBVIOUS
  <2>2. m = 1 \/ m = 2
    <3>1. k \in DOMAIN rs
      BY <1>1
    <3>2. Exchange(rs, k)
      BY <3>1 DEF Exchanges
    <3>3. QED  BY <1>2, <2>1, <3>2 DEF Exchange
  <2>3. m < 2
    BY <1>2, <2>1 DEF Answers
  <2>4. QED  BY <2>1, <2>2, <2>3
<1>4. PICK u \in Seq(S) : u = Append(r, t)
  BY OneMore
<1>5. Len(u) = 2 /\ u[1] = r[1] /\ u[2] = t
  <2>1. /\ Len(u) = Len(r) + 1 /\ u[Len(r) + 1] = t
        /\ \A i \in 1..Len(r) : u[i] = r[i]
    BY <1>4, OneMore
  <2>2. QED  BY <1>3, <2>1
<1>6. out[k] = u
  BY <1>0, <1>2, <1>4
<1>7. DOMAIN out = 1..k /\ \A i \in 1..k : i # k => out[i] = rs[i]
  BY <1>0
<1>8. ASSUME NEW i \in 1..k  PROVE Exchange(out, i)
  <2>1. i > 1 => out[i - 1] = rs[i - 1]
    BY <1>7
  <2>2. Exchange(rs, i)
    BY <1>1 DEF Exchanges
  <2>3. CASE i # k
    <3>1. out[i] = rs[i]
      BY <1>7, <2>3
    <3>2. QED  BY <2>1, <2>2, <3>1 DEF Exchange
  <2>4. CASE i = k
    <3>1. out[i][1] = rs[i][1] /\ out[i][2] = t /\ Len(out[i]) = 2
      BY <1>2, <1>5, <1>6, <2>4
    <3>2. rs[i][1].session = t.session /\ rs[i][1].speaker # t.speaker
      BY <2>4 DEF Answers
    <3>3. QED  BY <2>1, <2>2, <3>1, <3>2 DEF Exchange
  <2>5. QED  BY <2>3, <2>4
<1>9. Exchanges(out)
  BY <1>7, <1>8 DEF Exchanges
<1>10. FlattenSeq(out) = FlattenSeq(rs) \o <<t>>
  <2>1. PICK j \in Nat : j + 1 = k
    <3>1. k - 1 \in Nat /\ (k - 1) + 1 = k
      BY <1>0
    <3>2. QED  BY <3>1
  <2>2. PICK p \in Seq(Seq(S)) : Len(p) = j /\ \A i \in 1..j : p[i] = rs[i]
    <3> DEFINE p == [i \in 1..j |-> rs[i]]
    <3>1. \A i \in 1..j : rs[i] \in Seq(S)
      BY <1>0, <2>1
    <3>2. p \in [1..j -> Seq(S)]
      BY <3>1
    <3>3. p \in Seq(Seq(S)) /\ Len(p) = j
      BY <3>2, FunctionIsSeq
    <3>4. QED  BY <3>3
  <2>3. \A i \in 1..j : p[i] = out[i]
    <3>1. \A i \in 1..j : i \in 1..k /\ i # k
      BY <2>1
    <3>2. QED  BY <1>7, <2>2, <3>1
  <2>4. FlattenSeq(out) = FlattenSeq(p) \o u
    <3>1. Len(out) = j + 1 /\ out[j + 1] = u
      BY <1>0, <1>6, <2>1
    <3>2. FlattenSeq(out) = FlattenSeq(p) \o out[j + 1]
      BY <2>2, <2>3, <3>1, FlattenLast
    <3>3. QED  BY <3>1, <3>2
  <2>5. FlattenSeq(rs) = FlattenSeq(p) \o r
    <3>1. Len(rs) = j + 1 /\ rs[j + 1] = r
      BY <1>0, <1>2, <2>1
    <3>2. FlattenSeq(rs) = FlattenSeq(p) \o rs[j + 1]
      BY <2>2, <3>1, FlattenLast
    <3>3. QED  BY <3>1, <3>2
  <2>6. PICK q \in Seq(S) : q = FlattenSeq(p)
    BY FlattenBlocks
  <2>7. q \o Append(r, t) = (q \o r) \o <<t>>
    BY AppendInside, SMTT(30)
  <2>8. QED  BY <1>4, <2>4, <2>5, <2>6, <2>7
<1>11. QED  BY <1>9, <1>10

(* Adding a turn puts it last and keeps the rounds one or two turns each. *)
LEMMA AddTurnKeeps ==
    ASSUME NEW S, NEW rs \in Seq(Seq(S)), NEW t \in S, Exchanges(rs)
    PROVE  /\ D!AddTurn(rs, t) \in Seq(Seq(S)) /\ Exchanges(D!AddTurn(rs, t))
           /\ FlattenSeq(D!AddTurn(rs, t)) = FlattenSeq(rs) \o <<t>>
<1>1. PICK k \in Nat : k = Len(rs)
  OBVIOUS
<1>2. rs # <<>> <=> k > 0
  BY <1>1
<1>3. CASE k > 0 /\ Answers(rs[k], t)
  <2>1. PICK out : out = [rs EXCEPT ![k] = Append(rs[k], t)]
    OBVIOUS
  <2>2. D!AddTurn(rs, t) = out
    BY <1>1, <1>2, <1>3, <2>1 DEF D!AddTurn, Answers
  <2>3. k \in 1..Len(rs) /\ rs[k] \in Seq(S)
    BY <1>1, <1>3
  <2>4. Append(rs[k], t) \in Seq(S)
    BY <2>3, OneMore
  <2>5. /\ out \in Seq(Seq(S)) /\ Len(out) = k /\ out[k] = Append(rs[k], t)
        /\ \A i \in 1..k : i # k => out[i] = rs[i]
    BY <1>1, <2>1, <2>3, <2>4, OneReplaced
  <2>6. Exchanges(out) /\ FlattenSeq(out) = FlattenSeq(rs) \o <<t>>
    <3>1. LastJoined(rs, k, t, out) /\ Answers(rs[k], t) /\ out \in Seq(Seq(S))
      BY <1>1, <1>3, <2>5 DEF LastJoined
    <3>2. QED  BY <3>1, TurnAnswers
  <2>7. QED  BY <2>2, <2>5, <2>6
<1>4. CASE ~(k > 0 /\ Answers(rs[k], t))
  <2>1. D!AddTurn(rs, t) = Append(rs, <<t>>)
    BY <1>1, <1>2, <1>4 DEF D!AddTurn, Answers
  <2>2. QED  BY <1>1, <1>4, <2>1, TurnOpens
<1>5. QED  BY <1>3, <1>4

(* The rounds of a dialog are its turns in order, in ones and twos. *)
LEMMA RoundsOfTurns ==
    ASSUME NEW S, NEW turns \in Seq(S)
    PROVE  /\ D!AssembleRounds(turns) \in Seq(Seq(S))
           /\ Exchanges(D!AssembleRounds(turns))
           /\ FlattenSeq(D!AssembleRounds(turns)) = turns
<1>1. PICK n \in Nat : n = Len(turns)
  OBVIOUS
<1>2. \A i \in 1..n : turns[i] \in S
  BY <1>1
<1> DEFINE F(f) == [i \in 0..Len(turns) |->
                       IF i = 0 THEN <<>> ELSE D!AddTurn(f[i - 1], turns[i])]
           T == {rs \in Seq(Seq(S)) : Exchanges(rs)}
           G == [i \in 1..n |-> [rs \in T |-> D!AddTurn(rs, turns[i])]]
<1>3. \A rs \in T, t \in S : /\ D!AddTurn(rs, t) \in T
                             /\ FlattenSeq(D!AddTurn(rs, t)) = FlattenSeq(rs) \o <<t>>
  BY AddTurnKeeps
<1>4. PICK b \in T : b = <<>>
  <2>1. <<>> \in Seq(Seq(S)) /\ Exchanges(<<>>)
    BY DEF Exchanges
  <2>2. QED  BY <2>1
<1> HIDE DEF T
<1>5. G \in [1..n -> [T -> T]]
  BY <1>2, <1>3
<1>6. PICK g \in [0..n -> T] : IsRecursion(n, b, G, g)
  <2>1. PICK H : H = G
    OBVIOUS
  <2>2. PICK g \in [0..n -> T] : IsRecursion(n, b, H, g)
    <3> HIDE DEF G
    <3>1. QED  BY <1>5, <2>1, RecursionExists
  <2>3. QED  BY <2>1, <2>2
<1>7. ASSUME NEW i \in 0..n
      PROVE  g[i] = IF i = 0 THEN <<>> ELSE D!AddTurn(g[i - 1], turns[i])
  <2>1. CASE i = 0
    BY <1>4, <1>6, <2>1 DEF IsRecursion
  <2>2. CASE i # 0
    <3>1. i \in 1..n /\ i - 1 \in 0..n
      BY <2>2
    <3>2. g[i - 1] \in T /\ g[i] = G[i][g[i - 1]]
      BY <1>6, <3>1 DEF IsRecursion
    <3>3. QED  BY <2>2, <3>1, <3>2
  <2>3. QED  BY <2>1, <2>2
<1>8. g = F(g)
  BY <1>1, <1>7
<1>9. PICK f : f = (CHOOSE x : x = F(x))
  OBVIOUS
<1>10. f = F(f)
  BY <1>8, <1>9
<1>11. D!AssembleRounds(turns) = f[n]
  BY <1>1, <1>9 DEF D!AssembleRounds
<1>12. f[0] = b /\ \A i \in 1..n : f[i] = D!AddTurn(f[i - 1], turns[i])
  BY <1>1, <1>4, <1>10
<1> HIDE DEF F, G
<1> DEFINE Good == {i \in 0..n : /\ f[i] \in T
                                 /\ FlattenSeq(f[i]) \in Seq(S)
                                 /\ Len(FlattenSeq(f[i])) = i
                                 /\ \A j \in 1..i : FlattenSeq(f[i])[j] = turns[j]}
<1>13. 0 \in Good
  <2>1. FlattenSeq(<<>>) = <<>>
    BY DEF FlattenSeq
  <2>2. FlattenSeq(f[0]) = <<>>
    BY <1>4, <1>12, <2>1
  <2>3. f[0] \in T
    BY <1>4, <1>12
  <2>4. <<>> \in Seq(S) /\ Len(<<>>) = 0
    OBVIOUS
  <2>5. \A j \in 1..0 : FALSE
    OBVIOUS
  <2>6. QED  BY <2>2, <2>3, <2>4, <2>5
<1>14. ASSUME NEW i \in 0..(n - 1), i \in Good  PROVE i + 1 \in Good
  <2>1. i + 1 \in 1..n /\ (i + 1) - 1 = i /\ i + 1 \in 0..n
    OBVIOUS
  <2>2. PICK t \in S : t = turns[i + 1]
    BY <1>2, <2>1
  <2>3. f[i + 1] = D!AddTurn(f[i], t)
    <3>1. f[i + 1] = D!AddTurn(f[(i + 1) - 1], turns[i + 1])
      BY <1>12, <2>1, Zenon
    <3>2. QED  BY <2>1, <2>2, <3>1
  <2>4. f[i] \in T
    BY <1>14
  <2>5. f[i + 1] \in T /\ FlattenSeq(f[i + 1]) = FlattenSeq(f[i]) \o <<t>>
    BY <1>3, <2>3, <2>4
  <2>6. PICK q \in Seq(S) : q = FlattenSeq(f[i])
    BY <1>14
  <2>7. Len(q) = i /\ \A j \in 1..i : q[j] = turns[j]
    BY <1>14, <2>6
  <2>8. PICK w : w = FlattenSeq(f[i + 1])
    OBVIOUS
  <2>9. w = q \o <<t>>
    BY <2>5, <2>6, <2>8
  <2>10. /\ w \in Seq(S) /\ Len(w) = i + 1 /\ w[i + 1] = t
         /\ \A j \in 1..i : w[j] = q[j]
    <3>1. w = Append(q, t)
      BY <2>9, OneMore
    <3>2. QED  BY <2>7, <3>1, OneMore
  <2>11. \A j \in 1..(i + 1) : w[j] = turns[j]
    <3>1. \A j \in 1..(i + 1) : j \in 1..i \/ j = i + 1
      OBVIOUS
    <3>2. QED  BY <2>2, <2>7, <2>10, <3>1
  <2>12. QED  BY <2>1, <2>5, <2>8, <2>10, <2>11
<1> HIDE DEF Good
<1>15. n \in Good
  <2>1. \A i \in 0..n : i \in Good
    BY <1>13, <1>14, UpTo
  <2>2. QED  BY <2>1
<1>16. PICK q : q = FlattenSeq(f[n])
  OBVIOUS
<1>17. f[n] \in T /\ q \in Seq(S) /\ Len(q) = n /\ \A j \in 1..n : q[j] = turns[j]
  BY <1>15, <1>16 DEF Good
<1>18. q = turns
  BY <1>1, <1>17
<1>19. QED  BY <1>11, <1>16, <1>17, <1>18 DEF T

-----------------------------------------------------------------------------
(* Loaders.                                                                *)

(* The dataset's module has its own copies of these. *)
LEMMA SameOperators ==
    /\ \A s : D!FlattenSeq(s) = FlattenSeq(s) /\ D!ToSet(s) = ToSet(s)
    /\ \A S : /\ D!Cardinality(S) = Cardinality(S)
              /\ D!IsFiniteSet(S) <=> IsFiniteSet(S)
<1>1. \A s : D!FlattenSeq(s) = FlattenSeq(s) /\ D!ToSet(s) = ToSet(s)
  BY DEF D!FlattenSeq, FlattenSeq, D!ToSet, ToSet
<1>2. ASSUME NEW S  PROVE D!Cardinality(S) = Cardinality(S)
  BY Zenon DEF D!Cardinality, Cardinality
<1>3. ASSUME NEW S  PROVE D!IsFiniteSet(S) <=> IsFiniteSet(S)
  BY Zenon DEF D!IsFiniteSet, IsFiniteSet
<1>4. QED  BY <1>1, <1>2, <1>3

(* What is a sequence, and that everything given by numbers up to n is. *)
LEMMA SeqFacts ==
    ASSUME NEW s, D!IsSeq(s)
    PROVE  /\ Len(s) \in Nat /\ DOMAIN s = 1..Len(s) /\ s \in Seq(ToSet(s))
           /\ \A i \in 1..Len(s) : s[i] \in ToSet(s)
           /\ \A x \in ToSet(s) : \E i \in 1..Len(s) : x = s[i]
<1>1. s \in Seq(ToSet(s))
  BY SameOperators DEF D!IsSeq
<1>2. PICK S : S = ToSet(s)
  OBVIOUS
<1>3. s \in Seq(S)
  BY <1>1, <1>2
<1>4. Len(s) \in Nat /\ DOMAIN s = 1..Len(s)
  BY <1>3
<1>5. QED  BY <1>1, <1>4 DEF ToSet

LEMMA FunctionSeq ==
    ASSUME NEW n \in Nat, NEW f, f = [i \in 1..n |-> f[i]]
    PROVE  D!IsSeq(f) /\ Len(f) = n /\ DOMAIN f = 1..n
<1>1. PICK S : S = ToSet(f)
  OBVIOUS
<1>2. DOMAIN f = 1..n
  OBVIOUS
<1>3. \A i \in 1..n : f[i] \in S
  BY <1>1, <1>2 DEF ToSet
<1>4. f \in [1..n -> S]
  BY <1>3
<1>5. f \in Seq(S) /\ Len(f) = n
  BY <1>4, FunctionIsSeq
<1>6. QED  BY <1>1, <1>2, <1>5, SameOperators DEF D!IsSeq

(* The members of a sequence are finitely many. *)
LEMMA FiniteMembers ==
    ASSUME NEW s, D!IsSeq(s)
    PROVE  IsFiniteSet(ToSet(s))
<1>1. PICK n \in Nat : n = Len(s) /\ DOMAIN s = 1..n
  BY SeqFacts
<1>2. IsFiniteSet(1..n)
  BY FS_Interval
<1>3. ToSet(s) = {s[i] : i \in 1..n}
  BY <1>1 DEF ToSet
<1>4. QED  BY <1>2, <1>3, FiniteValues

(* Flattening n sequences yields all they have and nothing else. *)
LEMMA FlattenAll ==
    ASSUME NEW n \in Nat, NEW s, s = [i \in 1..n |-> s[i]],
           \A i \in 1..n : D!IsSeq(s[i])
    PROVE  /\ D!IsSeq(FlattenSeq(s))
           /\ \A x \in ToSet(FlattenSeq(s)) : \E i \in 1..n : x \in ToSet(s[i])
           /\ \A i \in 1..n : ToSet(s[i]) \subseteq ToSet(FlattenSeq(s))
<1>1. PICK S : S = UNION {ToSet(s[i]) : i \in 1..n}
  OBVIOUS
<1>2. ASSUME NEW i \in 1..n  PROVE s[i] \in Seq(S)
  <2>1. PICK U : U = ToSet(s[i])
    OBVIOUS
  <2>2. U \subseteq S
    BY <1>1, <2>1
  <2>3. PICK u : u = s[i]
    OBVIOUS
  <2>4. u \in Seq(U)
    BY <2>1, <2>3, SeqFacts
  <2>5. u \in Seq(S)
    BY <2>2, <2>4
  <2>6. QED  BY <2>3, <2>5
<1>3. s \in [1..n -> Seq(S)]
  BY <1>2
<1>4. s \in Seq(Seq(S)) /\ Len(s) = n
  BY <1>3, FunctionIsSeq
<1>5. PICK t : t = FlattenSeq(s)
  OBVIOUS
<1>6. PICK m \in Nat : t \in Seq(S) /\ m = Len(t) /\ DOMAIN t = 1..m
  <2>1. t \in Seq(S)
    BY <1>4, <1>5, FlattenBlocks
  <2>2. Len(t) \in Nat /\ DOMAIN t = 1..Len(t)
    BY <2>1
  <2>3. QED  BY <2>1, <2>2
<1>7. PICK B \in [1..m -> 1..n] : Blocks(s, t, n, B)
  <2>1. \E B \in [1..Len(t) -> 1..Len(s)] : Blocks(s, t, Len(s), B)
    BY <1>4, <1>5, FlattenBlocks
  <2>2. QED  BY <1>4, <1>6, <2>1
<1>8. D!IsSeq(t)
  <2>1. PICK U : U = ToSet(t)
    OBVIOUS
  <2>2. \A p \in 1..m : t[p] \in U
    BY <1>6, <2>1 DEF ToSet
  <2>3. t = [p \in 1..m |-> t[p]]
    BY <1>6
  <2>4. QED  BY <2>3, FunctionSeq
<1>9. ASSUME NEW x \in ToSet(t)  PROVE \E i \in 1..n : x \in ToSet(s[i])
  <2>1. PICK p \in 1..m : x = t[p]
    BY <1>6 DEF ToSet
  <2>2. PICK j : j \in DOMAIN s[B[p]] /\ t[p] = s[B[p]][j]
    BY <1>6, <1>7 DEF Blocks
  <2>3. x \in ToSet(s[B[p]])
    BY <2>1, <2>2 DEF ToSet
  <2>4. B[p] \in 1..n
    BY <1>7
  <2>5. QED  BY <2>3, <2>4
<1>10. ASSUME NEW i \in 1..n, NEW x \in ToSet(s[i])  PROVE x \in ToSet(t)
  <2>1. PICK j \in DOMAIN s[i] : x = s[i][j]
    BY DEF ToSet
  <2>2. PICK p \in 1..m : t[p] = s[i][j]
    BY <1>6, <1>7 DEF Blocks
  <2>3. QED  BY <1>6, <2>1, <2>2 DEF ToSet
<1>11. QED  BY <1>5, <1>8, <1>9, <1>10

(* Picking entries by number, in order. *)
LEMMA PickedInOrder ==
    ASSUME NEW I \in SUBSET Int, IsFiniteSet(I)
    PROVE  /\ Cardinality(I) \in Nat
           /\ D!InOrder(I) \in Seq(I) /\ Len(D!InOrder(I)) = Cardinality(I)
           /\ \A m, n \in 1..Len(D!InOrder(I)) :
                 m < n => D!InOrder(I)[m] < D!InOrder(I)[n]
           /\ \A x \in I : \E n \in 1..Len(D!InOrder(I)) : D!InOrder(I)[n] = x
           /\ I \subseteq Nat \ {0} =>
                 \A n \in 1..Len(D!InOrder(I)) : n <= D!InOrder(I)[n]
<1>1. PICK e : e = D!InOrder(I)
  OBVIOUS
<1>2. Numbers(I, e)
  <2>1. e = [n \in 1..Cardinality(I) |->
                CHOOSE i \in I : D!Cardinality({j \in I : j < i}) = n - 1]
    <3>1. D!Cardinality(I) = Cardinality(I)
      BY SameOperators
    <3>2. QED  BY <1>1, <3>1 DEF D!InOrder
  <2>2. \A i \in I : D!Cardinality({j \in I : j < i}) = Below(I, i)
    BY SameOperators DEF Below
  <2>3. ASSUME NEW n \in 1..Cardinality(I), NEW i \in I, Below(I, i) = n - 1
        PROVE  e[n] \in I /\ Below(I, e[n]) = n - 1
    <3>1. PICK k : k = n - 1
      OBVIOUS
    <3>2. e[n] = CHOOSE x \in I : D!Cardinality({j \in I : j < x}) = k
      BY <2>1, <3>1
    <3>3. D!Cardinality({j \in I : j < i}) = k
      BY <2>2, <2>3, <3>1
    <3>4. e[n] \in I /\ D!Cardinality({j \in I : j < e[n]}) = k
      BY <3>2, <3>3, Zenon
    <3>5. QED  BY <2>2, <3>1, <3>4
  <2>4. e = [n \in 1..Cardinality(I) |-> e[n]]
    <3> DEFINE nth(n) == CHOOSE i \in I : D!Cardinality({j \in I : j < i}) = n - 1
    <3>1. PICK N : N = 1..Cardinality(I)
      OBVIOUS
    <3>2. e = [n \in N |-> nth(n)]
      BY <2>1, <3>1
    <3> HIDE DEF nth
    <3>3. e = [n \in N |-> e[n]]
      BY <3>2
    <3>4. QED  BY <3>1, <3>3
  <2>5. QED  BY <2>3, <2>4 DEF Numbers
<1>3. /\ Cardinality(I) \in Nat /\ e \in Seq(I) /\ Len(e) = Cardinality(I)
      /\ \A m, n \in 1..Len(e) : m < n => e[m] < e[n]
      /\ \A x \in I : \E n \in 1..Len(e) : e[n] = x
      /\ I \subseteq Nat \ {0} => \A n \in 1..Len(e) : n <= e[n]
  BY <1>2, IncreasingOrder
<1>4. QED  BY <1>1, <1>3

LEMMA PickedAt ==
    ASSUME NEW I \in SUBSET Int, IsFiniteSet(I), NEW s
    PROVE  \E k \in Nat : \E e \in [1..k -> I] :
              /\ k = Cardinality(I)
              /\ D!PickAt(s, I) = [n \in 1..k |-> s[e[n]]]
              /\ \A m, n \in 1..k : m < n => e[m] < e[n]
              /\ \A x \in I : \E n \in 1..k : e[n] = x
              /\ I \subseteq Nat \ {0} => \A n \in 1..k : n <= e[n]
<1>1. PICK e : e = D!InOrder(I)
  OBVIOUS
<1>2. PICK k \in Nat : k = Cardinality(I)
  BY PickedInOrder
<1>3. /\ e \in Seq(I) /\ Len(e) = k
      /\ \A m, n \in 1..k : m < n => e[m] < e[n]
      /\ \A x \in I : \E n \in 1..k : e[n] = x
      /\ I \subseteq Nat \ {0} => \A n \in 1..k : n <= e[n]
  BY <1>1, <1>2, PickedInOrder
<1>4. e \in [1..k -> I]
  BY <1>3
<1>5. D!PickAt(s, I) = [n \in 1..k |-> s[e[n]]]
  BY <1>1, <1>2, SameOperators DEF D!PickAt
<1>6. QED  BY <1>2, <1>3, <1>4, <1>5

(* A conversation as loaded: turns with one number as id, and questions    *)
(* with their evidence.                                                    *)
ConversationOK(c) ==
    /\ D!IsSeq(c.items) /\ \A it \in ToSet(c.items) : \E k \in Int : it.id = <<k>>
    /\ D!IsSeq(c.questions) /\ \A q \in ToSet(c.questions) : q.evidence \in Seq(Int)

(* The one conversation of a fixtures file has its turns and its evidence. *)
TurnsAndEvidence(f, c) ==
    /\ \A t \in ToSet(f.turns) : \E it \in ToSet(c.items) : it.id = <<t.id>>
    /\ \A q \in ToSet(c.questions) : \E p \in ToSet(f.questions) :
          q.evidence = p.evidence

LEMMA FixturesLoaded ==
    ASSUME NEW f, D!FixturesFile(f), NEW c, c = D!loadFixtures(f)
    PROVE  /\ D!IsSeq(c)
           /\ \A i \in 1..Len(c) : ConversationOK(c[i]) /\ TurnsAndEvidence(f, c[i])
<1>1. PICK n \in Nat : n = Len(f.turns) /\ DOMAIN f.turns = 1..n
                       /\ \A i \in 1..n : f.turns[i].id \in Int
  <2>1. D!IsSeq(f.turns) /\ \A t \in ToSet(f.turns) : t.id \in Int
    BY SameOperators DEF D!FixturesFile
  <2>2. QED  BY <2>1, SeqFacts
<1>2. PICK m \in Nat : m = Len(f.questions) /\ DOMAIN f.questions = 1..m
                       /\ \A i \in 1..m : f.questions[i].evidence \in Seq(Int)
  <2>1. D!IsSeq(f.questions) /\ \A q \in ToSet(f.questions) : q.evidence \in Seq(Int)
    BY SameOperators DEF D!FixturesFile
  <2>2. QED  BY <2>1, SeqFacts
<1>3. PICK conv : conv = [items |-> [i \in DOMAIN f.turns |->
                LET t == f.turns[i]
                IN  D!item(t.id, t.session, t.speaker, t.text, t.date)],
            questions |-> [i \in DOMAIN f.questions |->
                LET q == f.questions[i]
                IN  D!question(q.text, q.date, q.evidence, "fixtures")]]
  OBVIOUS
<1>4. c = <<conv>>
  BY <1>3 DEF D!loadFixtures
<1>5. /\ conv.items = [i \in 1..n |-> conv.items[i]]
      /\ \A i \in 1..n : conv.items[i].id = <<f.turns[i].id>>
  BY <1>1, <1>3 DEF D!item
<1>6. /\ conv.questions = [i \in 1..m |-> conv.questions[i]]
      /\ \A i \in 1..m : conv.questions[i].evidence = f.questions[i].evidence
  BY <1>2, <1>3 DEF D!question
<1>7. /\ D!IsSeq(conv.items) /\ DOMAIN conv.items = 1..n
      /\ D!IsSeq(conv.questions) /\ DOMAIN conv.questions = 1..m
  BY <1>5, <1>6, FunctionSeq
<1>8. ConversationOK(conv)
  <2>1. ASSUME NEW it \in ToSet(conv.items)  PROVE \E k \in Int : it.id = <<k>>
    <3>1. PICK i \in 1..n : it = conv.items[i]
      BY <1>7 DEF ToSet
    <3>2. QED  BY <1>1, <1>5, <3>1
  <2>2. ASSUME NEW q \in ToSet(conv.questions)  PROVE q.evidence \in Seq(Int)
    <3>1. PICK i \in 1..m : q = conv.questions[i]
      BY <1>7 DEF ToSet
    <3>2. QED  BY <1>2, <1>6, <3>1
  <2>3. QED  BY <1>7, <2>1, <2>2 DEF ConversationOK
<1>9. c = [i \in 1..1 |-> c[i]] /\ c[1] = conv
  BY <1>4
<1>10. D!IsSeq(c) /\ Len(c) = 1
  BY <1>9, FunctionSeq
<1>11. TurnsAndEvidence(f, conv)
  <2>1. ASSUME NEW t \in ToSet(f.turns)
        PROVE  \E it \in ToSet(conv.items) : it.id = <<t.id>>
    <3>1. PICK i \in 1..n : t = f.turns[i]
      BY <1>1 DEF ToSet
    <3>2. conv.items[i] \in ToSet(conv.items) /\ conv.items[i].id = <<t.id>>
      BY <1>5, <1>7, <3>1 DEF ToSet
    <3>3. QED  BY <3>2
  <2>2. ASSUME NEW q \in ToSet(conv.questions)
        PROVE  \E p \in ToSet(f.questions) : q.evidence = p.evidence
    <3>1. PICK i \in 1..m : q = conv.questions[i]
      BY <1>7 DEF ToSet
    <3>2. f.questions[i] \in ToSet(f.questions) /\ q.evidence = f.questions[i].evidence
      BY <1>2, <1>6, <3>1 DEF ToSet
    <3>3. QED  BY <3>2
  <2>3. QED  BY <2>1, <2>2 DEF TurnsAndEvidence
<1>12. QED  BY <1>8, <1>9, <1>10, <1>11

(* The sessions of a LoCoMo sample, in order. *)
LEMMA SessionsLoaded ==
    ASSUME NEW s, DOMAIN s.turns \cup DOMAIN s.dates \subseteq Nat,
           IsFiniteSet(DOMAIN s.turns \cup DOMAIN s.dates),
           \A n \in DOMAIN s.turns : D!IsSeq(s.turns[n])
    PROVE  \E k \in Nat :
              /\ DOMAIN D!Sessions(s) = 1..k
              /\ \A j \in 1..k :
                    /\ D!IsSeq(D!Sessions(s)[j].turns)
                    /\ D!Sessions(s)[j].turns # <<>> =>
                          \E n \in DOMAIN s.turns : D!Sessions(s)[j].turns = s.turns[n]
              /\ \A n \in DOMAIN s.turns : \E j \in 1..k :
                    D!Sessions(s)[j].turns = s.turns[n]
<1>1. PICK I : I = DOMAIN s.turns \cup DOMAIN s.dates
  OBVIOUS
<1>2. I \in SUBSET Int /\ IsFiniteSet(I)
  BY <1>1
<1>3. PICK nth : nth = D!InOrder(I)
  OBVIOUS
<1>4. PICK k \in Nat : /\ nth \in Seq(I) /\ Len(nth) = k
                       /\ \A x \in I : \E n \in 1..k : nth[n] = x
  BY <1>2, <1>3, PickedInOrder
<1>5. DOMAIN nth = 1..k
  BY <1>4
<1>6. PICK ss : ss = D!Sessions(s)
  OBVIOUS
<1>7. ss = [i \in 1..k |->
              [index |-> nth[i],
               turns |-> IF nth[i] \in DOMAIN s.turns THEN s.turns[nth[i]] ELSE <<>>,
               date  |-> IF nth[i] \in DOMAIN s.dates THEN s.dates[nth[i]] ELSE NoTime]]
  BY <1>1, <1>3, <1>5, <1>6 DEF D!Sessions
<1>8. DOMAIN ss = 1..k /\ \A j \in 1..k :
         ss[j].turns = IF nth[j] \in DOMAIN s.turns THEN s.turns[nth[j]] ELSE <<>>
  BY <1>7
<1>9. D!IsSeq(<<>>)
  BY SameOperators DEF D!IsSeq, ToSet
<1>10. ASSUME NEW j \in 1..k
       PROVE  /\ D!IsSeq(ss[j].turns)
              /\ ss[j].turns # <<>> => \E n \in DOMAIN s.turns : ss[j].turns = s.turns[n]
  <2>1. CASE nth[j] \in DOMAIN s.turns
    BY <1>8, <2>1
  <2>2. CASE nth[j] \notin DOMAIN s.turns
    BY <1>8, <1>9, <2>2
  <2>3. QED  BY <2>1, <2>2
<1>11. ASSUME NEW n \in DOMAIN s.turns  PROVE \E j \in 1..k : ss[j].turns = s.turns[n]
  <2>1. n \in I
    BY <1>1
  <2>2. PICK j \in 1..k : nth[j] = n
    BY <1>4, <2>1
  <2>3. QED  BY <1>8, <2>2
<1>12. QED  BY <1>6, <1>8, <1>10, <1>11

(* A sample of a LoCoMo file, and what a loader makes of it. *)
SampleOK(s) ==
    /\ DOMAIN s.turns \cup DOMAIN s.dates \subseteq Nat
    /\ IsFiniteSet(DOMAIN s.turns \cup DOMAIN s.dates)
    /\ \A n \in DOMAIN s.turns :
          D!IsSeq(s.turns[n]) /\ \A t \in ToSet(s.turns[n]) : t.id \in Int
    /\ D!IsSeq(s.qa) /\ \A qa \in ToSet(s.qa) : qa.evidence \in Seq(Seq(Int))

SampleItems(s, ss) ==
    [j \in DOMAIN ss |-> [k \in DOMAIN ss[j].turns |->
        LET t == ss[j].turns[k]
        IN  D!item(t.id, ss[j].index, t.speaker, t.text, ss[j].date)]]

SampleQuestions(s) ==
    [j \in DOMAIN s.qa |->
        LET qa == s.qa[j]
        IN  D!question(qa.text, NoTime, FlattenSeq(qa.evidence), qa.category)]

LEMMA SampleItemsLoaded ==
    ASSUME NEW s, SampleOK(s), NEW items,
           items = FlattenSeq(SampleItems(s, D!Sessions(s)))
    PROVE  /\ D!IsSeq(items)
           /\ \A it \in ToSet(items) : \E k \in Int : it.id = <<k>>
           /\ \A n \in DOMAIN s.turns : \A t \in ToSet(s.turns[n]) :
                 \E it \in ToSet(items) : it.id = <<t.id>>
<1>1. PICK ss : ss = D!Sessions(s)
  OBVIOUS
<1>2. /\ DOMAIN s.turns \cup DOMAIN s.dates \subseteq Nat
      /\ IsFiniteSet(DOMAIN s.turns \cup DOMAIN s.dates)
      /\ \A n \in DOMAIN s.turns :
            D!IsSeq(s.turns[n]) /\ \A t \in ToSet(s.turns[n]) : t.id \in Int
  BY DEF SampleOK
<1>3. PICK k \in Nat :
         /\ DOMAIN ss = 1..k
         /\ \A j \in 1..k :
               /\ D!IsSeq(ss[j].turns)
               /\ ss[j].turns # <<>> => \E n \in DOMAIN s.turns : ss[j].turns = s.turns[n]
         /\ \A n \in DOMAIN s.turns : \E j \in 1..k : ss[j].turns = s.turns[n]
  BY <1>1, <1>2, SessionsLoaded
<1>4. PICK b : b = SampleItems(s, ss)
  OBVIOUS
<1>5. /\ b = [j \in 1..k |-> b[j]]
      /\ \A j \in 1..k : /\ b[j] = [i \in DOMAIN ss[j].turns |-> b[j][i]]
                         /\ \A i \in DOMAIN ss[j].turns :
                               b[j][i].id = <<ss[j].turns[i].id>>
  BY <1>3, <1>4 DEF SampleItems, D!item
<1>6. ASSUME NEW j \in 1..k
      PROVE  /\ D!IsSeq(b[j]) /\ DOMAIN b[j] = DOMAIN ss[j].turns
             /\ \A i \in DOMAIN b[j] : \E n \in DOMAIN s.turns :
                   ss[j].turns[i] \in ToSet(s.turns[n])
  <2>1. PICK m \in Nat : DOMAIN ss[j].turns = 1..m /\ m = Len(ss[j].turns)
    BY <1>3, SeqFacts
  <2>2. PICK u : u = b[j]
    OBVIOUS
  <2>3. u = [i \in 1..m |-> u[i]]
    BY <1>5, <2>1, <2>2
  <2>4. D!IsSeq(u) /\ DOMAIN u = 1..m
    BY <2>3, FunctionSeq
  <2>5. ASSUME NEW i \in 1..m
        PROVE  \E n \in DOMAIN s.turns : ss[j].turns[i] \in ToSet(s.turns[n])
    <3>1. ss[j].turns # <<>>
      BY <2>1
    <3>2. PICK n \in DOMAIN s.turns : ss[j].turns = s.turns[n]
      BY <1>3, <3>1
    <3>3. ss[j].turns[i] \in ToSet(s.turns[n])
      BY <2>1, <3>2 DEF ToSet
    <3>4. QED  BY <3>3
  <2>6. QED  BY <2>1, <2>2, <2>4, <2>5
<1>7. /\ D!IsSeq(items)
      /\ \A x \in ToSet(items) : \E j \in 1..k : x \in ToSet(b[j])
      /\ \A j \in 1..k : ToSet(b[j]) \subseteq ToSet(items)
  <2>1. items = FlattenSeq(b)
    BY <1>1, <1>4
  <2>2. b = [j \in 1..k |-> b[j]] /\ \A j \in 1..k : D!IsSeq(b[j])
    BY <1>5, <1>6
  <2>3. QED  BY <2>1, <2>2, FlattenAll
<1>8. ASSUME NEW it \in ToSet(items)  PROVE \E x \in Int : it.id = <<x>>
  <2>1. PICK j \in 1..k : it \in ToSet(b[j])
    BY <1>7
  <2>2. PICK i \in DOMAIN b[j] : it = b[j][i]
    BY <2>1 DEF ToSet
  <2>3. PICK n \in DOMAIN s.turns : ss[j].turns[i] \in ToSet(s.turns[n])
    BY <1>6, <2>2
  <2>4. ss[j].turns[i].id \in Int
    BY <1>2, <2>3
  <2>5. it.id = <<ss[j].turns[i].id>>
    BY <1>5, <1>6, <2>2
  <2>6. QED  BY <2>4, <2>5
<1>9. ASSUME NEW n \in DOMAIN s.turns, NEW t \in ToSet(s.turns[n])
      PROVE  \E it \in ToSet(items) : it.id = <<t.id>>
  <2>1. PICK j \in 1..k : ss[j].turns = s.turns[n]
    BY <1>3
  <2>2. PICK i \in DOMAIN ss[j].turns : t = ss[j].turns[i]
    BY <2>1 DEF ToSet
  <2>3. b[j][i] \in ToSet(b[j]) /\ b[j][i].id = <<t.id>>
    BY <1>5, <1>6, <2>2 DEF ToSet
  <2>4. b[j][i] \in ToSet(items)
    BY <1>7, <2>3
  <2>5. QED  BY <2>3, <2>4
<1>10. QED  BY <1>7, <1>8, <1>9

LEMMA SampleQuestionsLoaded ==
    ASSUME NEW s, SampleOK(s), NEW qs, qs = SampleQuestions(s)
    PROVE  /\ D!IsSeq(qs)
           /\ \A q \in ToSet(qs) :
                 /\ q.evidence \in Seq(Int)
                 /\ \A e \in ToSet(q.evidence) : \E qa \in ToSet(s.qa) :
                       \E l \in ToSet(qa.evidence) : e \in ToSet(l)
<1>1. D!IsSeq(s.qa) /\ \A qa \in ToSet(s.qa) : qa.evidence \in Seq(Seq(Int))
  BY DEF SampleOK
<1>2. PICK m \in Nat : m = Len(s.qa) /\ DOMAIN s.qa = 1..m
                       /\ \A i \in 1..m : s.qa[i] \in ToSet(s.qa)
  BY <1>1, SeqFacts
<1>3. /\ qs = [i \in 1..m |-> qs[i]]
      /\ \A i \in 1..m : qs[i].evidence = FlattenSeq(s.qa[i].evidence)
  BY <1>2 DEF SampleQuestions, D!question
<1>4. D!IsSeq(qs) /\ DOMAIN qs = 1..m
  BY <1>3, FunctionSeq
<1>5. ASSUME NEW q \in ToSet(qs)
      PROVE  /\ q.evidence \in Seq(Int)
             /\ \A e \in ToSet(q.evidence) : \E qa \in ToSet(s.qa) :
                   \E l \in ToSet(qa.evidence) : e \in ToSet(l)
  <2>1. PICK i \in 1..m : q = qs[i]
    BY <1>4 DEF ToSet
  <2>2. PICK ev : ev = s.qa[i].evidence
    OBVIOUS
  <2>3. ev \in Seq(Seq(Int)) /\ q.evidence = FlattenSeq(ev)
    BY <1>1, <1>2, <1>3, <2>1, <2>2
  <2>4. q.evidence \in Seq(Int)
    BY <2>3, FlattenBlocks
  <2>5. ASSUME NEW e \in ToSet(q.evidence)
        PROVE  \E l \in ToSet(ev) : e \in ToSet(l)
    <3>1. PICK n \in Nat : n = Len(ev) /\ DOMAIN ev = 1..n /\ ev = [j \in 1..n |-> ev[j]]
      BY <2>3
    <3>2. ASSUME NEW j \in 1..n  PROVE D!IsSeq(ev[j])
      <4>1. PICK u \in Seq(Int) : u = ev[j]
        BY <2>3, <3>1
      <4>2. u = [x \in 1..Len(u) |-> u[x]] /\ Len(u) \in Nat
        OBVIOUS
      <4>3. QED  BY <4>1, <4>2, FunctionSeq
    <3>3. \E j \in 1..n : e \in ToSet(ev[j])
      BY <2>3, <3>1, <3>2, FlattenAll
    <3>4. QED  BY <3>1, <3>3 DEF ToSet
  <2>6. s.qa[i] \in ToSet(s.qa)
    BY <1>2
  <2>7. QED  BY <2>2, <2>4, <2>5, <2>6
<1>6. QED  BY <1>4, <1>5

LEMMA LoCoMoLoaded ==
    ASSUME NEW f, D!LoCoMoFile(f), NEW c, c = D!loadLoCoMo(f)
    PROVE  /\ D!IsSeq(c) /\ D!IsSeq(f) /\ Len(c) = Len(f)
           /\ \A i \in 1..Len(c) :
                 /\ ConversationOK(c[i]) /\ SampleOK(f[i])
                 /\ c[i].items = FlattenSeq(SampleItems(f[i], D!Sessions(f[i])))
                 /\ c[i].questions = SampleQuestions(f[i])
<1>1. /\ D!IsSeq(f) /\ \A s \in ToSet(f) : SampleOK(s)
  BY SameOperators DEF D!LoCoMoFile, SampleOK
<1>2. PICK n \in Nat : n = Len(f) /\ DOMAIN f = 1..n /\ \A i \in 1..n : SampleOK(f[i])
  BY <1>1, SeqFacts
<1>3. /\ c = [i \in 1..n |-> c[i]]
      /\ \A i \in 1..n :
            /\ c[i].items = FlattenSeq(SampleItems(f[i], D!Sessions(f[i])))
            /\ c[i].questions = SampleQuestions(f[i])
  BY <1>2, SameOperators
     DEF D!loadLoCoMo, D!flattenStrings, SampleItems, SampleQuestions
<1>4. D!IsSeq(c) /\ Len(c) = n
  BY <1>3, FunctionSeq
<1>5. ASSUME NEW i \in 1..n  PROVE ConversationOK(c[i])
  <2>1. PICK items, qs : items = c[i].items /\ qs = c[i].questions
    OBVIOUS
  <2>2. D!IsSeq(items) /\ \A it \in ToSet(items) : \E k \in Int : it.id = <<k>>
    BY <1>2, <1>3, <2>1, SampleItemsLoaded
  <2>3. D!IsSeq(qs) /\ \A q \in ToSet(qs) : q.evidence \in Seq(Int)
    BY <1>2, <1>3, <2>1, SampleQuestionsLoaded
  <2>4. QED  BY <2>1, <2>2, <2>3 DEF ConversationOK
<1>6. QED  BY <1>1, <1>2, <1>3, <1>4, <1>5

(* A question of a LongMemEval file, and what a loader makes of it. *)
HaystackOK(q) ==
    /\ q.sids \in Seq(Int) /\ D!IsSeq(q.sessions)
    /\ \A s \in ToSet(q.sessions) : D!IsSeq(s)

LEMMA HaystackSessions ==
    ASSUME NEW q, HaystackOK(q)
    PROVE  \E n \in Nat : /\ D!Haystack(q) = 1..n
                          /\ \A si \in 1..n : /\ q.sids[si] \in Int
                                              /\ D!IsSeq(q.sessions[si])
<1>1. /\ Len(q.sessions) \in Nat
      /\ \A i \in 1..Len(q.sessions) : D!IsSeq(q.sessions[i])
  BY SeqFacts DEF HaystackOK
<1>2. Len(q.sids) \in Nat /\ \A i \in 1..Len(q.sids) : q.sids[i] \in Int
  BY DEF HaystackOK
<1>3. PICK n \in Nat : /\ n <= Len(q.sessions) /\ n <= Len(q.sids)
                       /\ D!Haystack(q) = 1..n
  BY <1>1, <1>2 DEF D!Haystack
<1>4. \A si \in 1..n : si \in 1..Len(q.sessions) /\ si \in 1..Len(q.sids)
  BY <1>1, <1>2, <1>3
<1>5. QED  BY <1>1, <1>2, <1>3, <1>4

HaystackItems(q) ==
    [si \in D!Haystack(q) |-> [k \in DOMAIN q.sessions[si] |->
        LET t == q.sessions[si][k]
        IN  D!item(D!TurnID(q.sids[si], k - 1), q.sids[si], t.role, t.text,
                   IF si <= Len(q.dates) THEN q.dates[si] ELSE NoTime)]]

LEMMA HaystackItemsLoaded ==
    ASSUME NEW q, HaystackOK(q), NEW items, items = FlattenSeq(HaystackItems(q))
    PROVE  /\ D!IsSeq(items)
           /\ \A it \in ToSet(items) : \E k \in Int : it.id = <<k>>
           /\ \A si \in D!Haystack(q) : \A k \in DOMAIN q.sessions[si] :
                 \E it \in ToSet(items) : it.id = <<D!TurnID(q.sids[si], k - 1)>>
<1>1. PICK n \in Nat : /\ D!Haystack(q) = 1..n
                       /\ \A si \in 1..n : /\ q.sids[si] \in Int
                                           /\ D!IsSeq(q.sessions[si])
  BY HaystackSessions
<1>2. PICK b : b = HaystackItems(q)
  OBVIOUS
<1>3. /\ b = [si \in 1..n |-> b[si]]
      /\ \A si \in 1..n :
            /\ b[si] = [k \in DOMAIN q.sessions[si] |-> b[si][k]]
            /\ \A k \in DOMAIN q.sessions[si] :
                  b[si][k].id = <<D!TurnID(q.sids[si], k - 1)>>
  BY <1>1, <1>2 DEF HaystackItems, D!item
<1>4. ASSUME NEW si \in 1..n
      PROVE  /\ D!IsSeq(b[si]) /\ DOMAIN b[si] = DOMAIN q.sessions[si]
             /\ DOMAIN b[si] \subseteq Int
  <2>1. PICK m \in Nat : DOMAIN q.sessions[si] = 1..m
    BY <1>1, SeqFacts
  <2>2. PICK u : u = b[si]
    OBVIOUS
  <2>3. u = [k \in 1..m |-> u[k]]
    BY <1>3, <2>1, <2>2
  <2>4. D!IsSeq(u) /\ DOMAIN u = 1..m
    BY <2>3, FunctionSeq
  <2>5. QED  BY <2>1, <2>2, <2>4
<1>5. /\ D!IsSeq(items)
      /\ \A x \in ToSet(items) : \E si \in 1..n : x \in ToSet(b[si])
      /\ \A si \in 1..n : ToSet(b[si]) \subseteq ToSet(items)
  <2>1. b = [si \in 1..n |-> b[si]] /\ \A si \in 1..n : D!IsSeq(b[si])
    BY <1>3, <1>4
  <2>2. QED  BY <1>2, <2>1, FlattenAll
<1>6. ASSUME NEW it \in ToSet(items)  PROVE \E k \in Int : it.id = <<k>>
  <2>1. PICK si \in 1..n : it \in ToSet(b[si])
    BY <1>5
  <2>2. PICK k \in DOMAIN b[si] : it = b[si][k]
    BY <2>1 DEF ToSet
  <2>3. k \in Int /\ k \in DOMAIN q.sessions[si] /\ q.sids[si] \in Int
    BY <1>1, <1>4, <2>2
  <2>4. it.id = <<D!TurnID(q.sids[si], k - 1)>>
    BY <1>3, <2>2, <2>3
  <2>5. D!TurnID(q.sids[si], k - 1) \in Int
    BY <2>3 DEF D!TurnID
  <2>6. QED  BY <2>4, <2>5
<1>7. ASSUME NEW si \in 1..n, NEW k \in DOMAIN q.sessions[si]
      PROVE  \E it \in ToSet(items) : it.id = <<D!TurnID(q.sids[si], k - 1)>>
  <2>1. b[si][k] \in ToSet(b[si]) /\ b[si][k].id = <<D!TurnID(q.sids[si], k - 1)>>
    BY <1>3, <1>4 DEF ToSet
  <2>2. b[si][k] \in ToSet(items)
    BY <1>5, <2>1
  <2>3. QED  BY <2>1, <2>2
<1>8. QED  BY <1>1, <1>5, <1>6, <1>7

(* The evidence of a question: turns of the sessions kept. *)
LEMMA GoldTurnsLoaded ==
    ASSUME NEW q, HaystackOK(q), NEW ev, ev = D!GoldTurnIDs(q)
    PROVE  /\ ev \in Seq(Int)
           /\ \A e \in ToSet(ev) : \E si \in D!Haystack(q) :
                 \E k \in DOMAIN q.sessions[si] : e = D!TurnID(q.sids[si], k - 1)
<1>1. PICK n \in Nat : /\ D!Haystack(q) = 1..n
                       /\ \A si \in 1..n : /\ q.sids[si] \in Int
                                           /\ D!IsSeq(q.sessions[si])
  BY HaystackSessions
<1>2. CASE q.abstention
  <2>1. ev = <<>>
    BY <1>2 DEF D!GoldTurnIDs
  <2>2. QED  BY <2>1 DEF ToSet
<1>3. CASE ~q.abstention
  <2> DEFINE has(si) == D!InOrder({k \in DOMAIN q.sessions[si] :
                                      q.sessions[si][k].hasAnswer})
  <2>1. PICK b : b = [si \in 1..n |->
                        [k \in DOMAIN has(si) |-> D!TurnID(q.sids[si], has(si)[k] - 1)]]
    OBVIOUS
  <2>2. ev = FlattenSeq(b)
    BY <1>1, <1>3, <2>1, SameOperators DEF D!GoldTurnIDs
  <2>3. ASSUME NEW si \in 1..n
        PROVE  \E k \in Nat : /\ DOMAIN has(si) = 1..k
                              /\ \A i \in 1..k : /\ has(si)[i] \in Int
                                                 /\ has(si)[i] \in DOMAIN q.sessions[si]
    <3>1. PICK I : I = {k \in DOMAIN q.sessions[si] : q.sessions[si][k].hasAnswer}
      OBVIOUS
    <3>2. PICK m \in Nat : DOMAIN q.sessions[si] = 1..m
      BY <1>1, SeqFacts
    <3>3. I \in SUBSET (1..m) /\ I \in SUBSET Int
      BY <3>1, <3>2
    <3>4. IsFiniteSet(I)
      <4>1. IsFiniteSet(1..m)
        BY FS_Interval
      <4>2. QED  BY <3>3, <4>1, FS_Subset
    <3>5. PICK h : h = D!InOrder(I)
      OBVIOUS
    <3>6. Cardinality(I) \in Nat /\ h \in Seq(I) /\ Len(h) = Cardinality(I)
      BY <3>3, <3>4, <3>5, PickedInOrder
    <3>7. PICK k \in Nat : k = Len(h) /\ DOMAIN h = 1..k /\ \A i \in 1..k : h[i] \in I
      BY <3>6
    <3>8. h = has(si)
      BY <3>1, <3>5
    <3>9. QED  BY <3>2, <3>3, <3>7, <3>8
  <2> HIDE DEF has
  <2>4. ASSUME NEW si \in 1..n
        PROVE  /\ D!IsSeq(b[si])
               /\ \A x \in ToSet(b[si]) :
                     /\ x \in Int
                     /\ \E k \in DOMAIN q.sessions[si] : x = D!TurnID(q.sids[si], k - 1)
    <3>1. PICK k \in Nat : /\ DOMAIN has(si) = 1..k
                           /\ \A i \in 1..k : /\ has(si)[i] \in Int
                                              /\ has(si)[i] \in DOMAIN q.sessions[si]
      BY <2>3
    <3>2. PICK u : u = b[si]
      OBVIOUS
    <3>3. u = [i \in 1..k |-> D!TurnID(q.sids[si], has(si)[i] - 1)]
      BY <2>1, <3>1, <3>2
    <3>4. u = [i \in 1..k |-> u[i]]
      BY <3>3
    <3>5. D!IsSeq(u) /\ DOMAIN u = 1..k
      BY <3>4, FunctionSeq
    <3>6. ASSUME NEW x \in ToSet(u)
          PROVE  /\ x \in Int
                 /\ \E i \in DOMAIN q.sessions[si] : x = D!TurnID(q.sids[si], i - 1)
      <4>1. PICK i \in 1..k : x = D!TurnID(q.sids[si], has(si)[i] - 1)
        BY <3>3, <3>5 DEF ToSet
      <4>2. has(si)[i] \in Int /\ q.sids[si] \in Int
        BY <1>1, <3>1
      <4>3. x \in Int
        BY <4>1, <4>2 DEF D!TurnID
      <4>4. QED  BY <3>1, <4>1, <4>3
    <3>7. QED  BY <3>2, <3>5, <3>6
  <2>5. /\ D!IsSeq(ev)
        /\ \A x \in ToSet(ev) : \E si \in 1..n : x \in ToSet(b[si])
    <3>1. b = [si \in 1..n |-> b[si]]
      BY <2>1
    <3>2. QED  BY <2>2, <2>4, <3>1, FlattenAll
  <2>6. ev \in Seq(Int)
    <3>1. PICK m \in Nat : m = Len(ev) /\ DOMAIN ev = 1..m /\ ev \in Seq(ToSet(ev))
      BY <2>5, SeqFacts
    <3>2. PICK U : U = ToSet(ev)
      OBVIOUS
    <3>3. U \subseteq Int
      BY <2>4, <2>5, <3>2
    <3>4. QED  BY <3>1, <3>2, <3>3
  <2>7. QED  BY <1>1, <2>4, <2>5, <2>6
<1>4. QED  BY <1>2, <1>3

LEMMA LongMemEvalLoaded ==
    ASSUME NEW f, D!LongMemEvalFile(f), NEW c, c = D!loadLongMemEval(f)
    PROVE  /\ D!IsSeq(c) /\ Len(c) = Len(f)
           /\ \A i \in 1..Len(c) :
                 /\ ConversationOK(c[i]) /\ HaystackOK(f[i])
                 /\ c[i].items = FlattenSeq(HaystackItems(f[i]))
                 /\ \A q \in ToSet(c[i].questions) : q.evidence = D!GoldTurnIDs(f[i])
<1>1. /\ D!IsSeq(f) /\ \A q \in ToSet(f) : HaystackOK(q)
  BY SameOperators DEF D!LongMemEvalFile, HaystackOK
<1>2. PICK n \in Nat : n = Len(f) /\ DOMAIN f = 1..n /\ \A i \in 1..n : HaystackOK(f[i])
  BY <1>1, SeqFacts
<1>3. /\ c = [i \in 1..n |-> c[i]]
      /\ \A i \in 1..n :
            /\ c[i].items = FlattenSeq(HaystackItems(f[i]))
            /\ c[i].questions = << D!question(f[i].text, f[i].date,
                                              D!GoldTurnIDs(f[i]), f[i].type) >>
  BY <1>2, SameOperators DEF D!loadLongMemEval, HaystackItems
<1>4. D!IsSeq(c) /\ Len(c) = n
  BY <1>3, FunctionSeq
<1>5. ASSUME NEW i \in 1..n
      PROVE  /\ ConversationOK(c[i])
             /\ \A q \in ToSet(c[i].questions) : q.evidence = D!GoldTurnIDs(f[i])
  <2>1. PICK items, qs : items = c[i].items /\ qs = c[i].questions
    OBVIOUS
  <2>2. D!IsSeq(items) /\ \A it \in ToSet(items) : \E k \in Int : it.id = <<k>>
    BY <1>2, <1>3, <2>1, HaystackItemsLoaded
  <2>3. PICK q : qs = <<q>> /\ q.evidence = D!GoldTurnIDs(f[i])
    <3>1. PICK q : q = D!question(f[i].text, f[i].date, D!GoldTurnIDs(f[i]), f[i].type)
      OBVIOUS
    <3>2. qs = <<q>>
      BY <1>3, <2>1, <3>1
    <3>3. q.evidence = D!GoldTurnIDs(f[i])
      BY <3>1 DEF D!question
    <3>4. QED  BY <3>2, <3>3
  <2>4. qs = [j \in 1..1 |-> qs[j]] /\ qs[1] = q
    BY <2>3
  <2>5. D!IsSeq(qs) /\ DOMAIN qs = 1..1
    BY <2>4, FunctionSeq
  <2>6. \A x \in ToSet(qs) : x = q
    BY <2>4, <2>5 DEF ToSet
  <2>7. D!GoldTurnIDs(f[i]) \in Seq(Int)
    BY <1>2, GoldTurnsLoaded
  <2>8. QED  BY <2>1, <2>2, <2>3, <2>5, <2>6, <2>7 DEF ConversationOK
<1>6. QED  BY <1>2, <1>3, <1>4, <1>5

(* Every dataset that loads is a sequence of such conversations. *)
LEMMA DatasetLoaded ==
    ASSUME NEW f, D!DatasetFile(f)
    PROVE  /\ D!IsSeq(D!loadDataset(f))
           /\ \A i \in 1..Len(D!loadDataset(f)) : ConversationOK(D!loadDataset(f)[i])
<1>1. PICK c : c = D!loadDataset(f)
  OBVIOUS
<1>2. CASE f.name = "fixtures"
  <2>1. D!FixturesFile(f.data) /\ c = D!loadFixtures(f.data)
    BY <1>1, <1>2 DEF D!DatasetFile, D!loadDataset
  <2>2. QED  BY <1>1, <2>1, FixturesLoaded
<1>3. CASE f.name = "locomo"
  <2>1. D!LoCoMoFile(f.data) /\ c = D!loadLoCoMo(f.data)
    BY <1>1, <1>3 DEF D!DatasetFile, D!loadDataset
  <2>2. QED  BY <1>1, <2>1, LoCoMoLoaded
<1>4. CASE f.name = "longmemeval_s"
  <2>1. D!LongMemEvalFile(f.data) /\ c = D!loadLongMemEval(f.data)
    BY <1>1, <1>4 DEF D!DatasetFile, D!loadDataset
  <2>2. QED  BY <1>1, <2>1, LongMemEvalLoaded
<1>5. QED  BY <1>2, <1>3, <1>4 DEF D!DatasetFile

(* The round items of a conversation have two numbers as their id, which   *)
(* stand for the two turns of the round.                                   *)
LEMMA RoundItems ==
    ASSUME NEW c, ConversationOK(c)
    PROVE  /\ D!IsSeq(D!roundItemsOf(c))
           /\ \A r \in ToSet(D!roundItemsOf(c)) : r.id \in Seq(Int) /\ Len(r.id) = 2
<1>1. PICK S, turns : S = ToSet(c.items) /\ turns = c.items
  OBVIOUS
<1>2. turns \in Seq(S) /\ \A it \in S : \E k \in Int : it.id = <<k>>
  BY <1>1, SeqFacts DEF ConversationOK
<1>3. PICK all \in Seq(Seq(S)) : all = D!AssembleRounds(turns) /\ Exchanges(all)
  BY <1>2, RoundsOfTurns
<1>4. PICK I : I = {i \in DOMAIN all : Len(all[i]) >= 2}
  OBVIOUS
<1>5. I \in SUBSET (1..Len(all)) /\ I \in SUBSET Int /\ Len(all) \in Nat
  BY <1>4
<1>6. IsFiniteSet(I)
  <2>1. IsFiniteSet(1..Len(all))
    BY <1>5, FS_Interval
  <2>2. QED  BY <1>5, <2>1, FS_Subset
<1>7. PICK rounds : rounds = D!PickAt(all, I)
  OBVIOUS
<1>8. PICK k \in Nat : /\ rounds = [n \in 1..k |-> rounds[n]]
                       /\ \A n \in 1..k : \E i \in I : rounds[n] = all[i]
  <2>1. PICK k \in Nat : \E e \in [1..k -> I] : rounds = [n \in 1..k |-> all[e[n]]]
    BY <1>5, <1>6, <1>7, PickedAt
  <2>2. PICK e \in [1..k -> I] : rounds = [n \in 1..k |-> all[e[n]]]
    BY <2>1
  <2>3. QED  BY <2>2
<1>9. PICK rs : rs = D!roundItemsOf(c)
  OBVIOUS
<1>10. /\ rs = [i \in 1..k |-> rs[i]]
       /\ \A i \in 1..k : rs[i].id = D!RoundID(rounds[i])
  <2>1. DOMAIN rounds = 1..k
    BY <1>8
  <2>2. QED  BY <1>1, <1>3, <1>4, <1>7, <1>9, <2>1 DEF D!roundItemsOf
<1>11. D!IsSeq(rs) /\ DOMAIN rs = 1..k
  BY <1>10, FunctionSeq
<1>12. ASSUME NEW r \in ToSet(rs)  PROVE r.id \in Seq(Int) /\ Len(r.id) = 2
  <2>1. PICK n \in 1..k : r = rs[n]
    BY <1>11 DEF ToSet
  <2>2. PICK i \in I : rounds[n] = all[i]
    BY <1>8
  <2>3. PICK u \in Seq(S) : u = all[i]
    BY <1>4, <2>2
  <2>4. Len(u) = 2
    <3>1. Exchange(all, i) /\ Len(all[i]) >= 2
      BY <1>3, <1>4 DEF Exchanges
    <3>2. PICK m : m = Len(u)
      OBVIOUS
    <3>3. (m = 1 \/ m = 2) /\ m >= 2
      BY <2>3, <3>1, <3>2 DEF Exchange
    <3>4. QED  BY <3>2, <3>3
  <2>5. DOMAIN u = 1..2 /\ u[1] \in S /\ u[2] \in S
    BY <2>4
  <2>6. r.id = [j \in 1..2 |-> u[j].id[1]]
    BY <1>10, <2>1, <2>2, <2>3, <2>5 DEF D!RoundID
  <2>7. \A j \in 1..2 : u[j].id[1] \in Int
    <3>1. \A it \in S : it.id[1] \in Int
      BY <1>2
    <3>2. \A j \in 1..2 : j = 1 \/ j = 2
      OBVIOUS
    <3>3. QED  BY <2>5, <3>1, <3>2
  <2>8. r.id \in [1..2 -> Int]
    BY <2>6, <2>7
  <2>9. QED  BY <2>8, FunctionIsSeq
<1>13. QED  BY <1>9, <1>11, <1>12

(* What rounds expand to: two turns each. *)
LEMMA ExpandedRounds ==
    ASSUME NEW c, ConversationOK(c), NEW x, x = D!expandOf(c)
    PROVE  \A id \in DOMAIN x :
              /\ id \in Seq(Int) /\ Len(id) = 2
              /\ x[id] \in Seq(Seq(Int)) /\ Len(x[id]) = 2
<1>1. /\ DOMAIN x = {r.id : r \in ToSet(D!roundItemsOf(c))}
      /\ \A id \in DOMAIN x : x[id] = [i \in DOMAIN id |-> <<id[i]>>]
  BY SameOperators DEF D!expandOf
<1>2. ASSUME NEW id \in DOMAIN x
      PROVE  /\ id \in Seq(Int) /\ Len(id) = 2
             /\ x[id] \in Seq(Seq(Int)) /\ Len(x[id]) = 2
  <2>1. id \in Seq(Int) /\ Len(id) = 2
    BY <1>1, RoundItems
  <2>2. DOMAIN id = 1..2 /\ \A i \in 1..2 : id[i] \in Int
    BY <2>1
  <2>3. \A i \in 1..2 : <<id[i]>> \in Seq(Int)
    BY <2>2
  <2>4. x[id] = [i \in 1..2 |-> <<id[i]>>]
    BY <1>1, <2>2
  <2>5. x[id] \in [1..2 -> Seq(Int)]
    BY <2>3, <2>4
  <2>6. QED  BY <2>1, <2>5, FunctionIsSeq
<1>3. QED  BY <1>2

(* The items of a conversation are finitely many, with sequences of        *)
(* numbers as ids, and no turn is named like a round.                      *)
LEMMA LocalItems ==
    ASSUME NEW c, ConversationOK(c)
    PROVE  /\ IsFiniteSet(D!localItems(c))
           /\ \A it \in D!localItems(c) : it.id \in Seq(Int)
           /\ \A it \in ToSet(c.items) : it.id \notin DOMAIN D!expandOf(c)
<1>1. D!localItems(c) = ToSet(c.items) \cup ToSet(D!roundItemsOf(c))
  BY SameOperators DEF D!localItems
<1>2. ASSUME NEW it \in ToSet(c.items)  PROVE it.id \in Seq(Int) /\ Len(it.id) = 1
  <2>1. PICK k \in Int : it.id = <<k>>
    BY DEF ConversationOK
  <2>2. QED  BY <2>1
<1>3. IsFiniteSet(ToSet(c.items)) /\ IsFiniteSet(ToSet(D!roundItemsOf(c)))
  BY RoundItems, FiniteMembers DEF ConversationOK
<1>4. IsFiniteSet(D!localItems(c))
  BY <1>1, <1>3, FS_Union
<1>5. \A it \in D!localItems(c) : it.id \in Seq(Int)
  BY <1>1, <1>2, RoundItems
<1>6. \A id \in DOMAIN D!expandOf(c) : Len(id) = 2
  BY ExpandedRounds
<1>7. ASSUME NEW it \in ToSet(c.items), it.id \in DOMAIN D!expandOf(c)  PROVE FALSE
  <2>1. Len(it.id) = 1 /\ Len(it.id) = 2
    BY <1>2, <1>6, <1>7
  <2>2. QED  BY <2>1
<1>8. QED  BY <1>4, <1>5, <1>7

-----------------------------------------------------------------------------
(* The invariant.                                                          *)

OptsOK ==
    /\ opts.mode \in {"bm25", "dense", "hybrid"}
    /\ opts.topK \in Nat /\ opts.candidateN \in Nat /\ opts.rrfK \in Nat
    /\ opts.maxPerSession \in Int

(* What MMR has picked so far. *)
SelectedOK ==
    /\ selected \in Seq(DOMAIN ranked) /\ Len(selected) <= opts.topK
    /\ \A i, j \in DOMAIN selected : selected[i] = selected[j] => i = j
    /\ selected # <<>> => selected[1] = 1
    /\ opts.maxPerSession > 0 =>
          \A r \in corpus : PerSession(r.session) <= opts.maxPerSession

(* A search, stage by stage. *)
SearchInv ==
    /\ stage \in {"idle", "fuse", "adjust", "mmr", "done", "error"}
    /\ stage \in {"idle", "fuse", "adjust", "error"} =>
          ranked = <<>> /\ selected = <<>>
    /\ stage = "fuse" =>
          /\ Ranking(lists.bm25) /\ Ranking(lists.dense)
          /\ IdsOf(lists.bm25) \cup IdsOf(lists.dense) \subseteq CorpusIds
    /\ stage \in {"adjust", "mmr", "done"} =>
          Ranking(fused) /\ IdsOf(fused) \subseteq CorpusIds
    /\ stage \in {"mmr", "done"} =>
          Ranking(ranked) /\ IdsOf(ranked) = IdsOf(fused) /\ SelectedOK
    /\ stage = "done" => ~(Len(selected) < opts.topK /\ Open # {})
    /\ FusionRespectsBothLists /\ BoostCrossesWindowOnly

(* The command around it: while a search runs, its question is one of the  *)
(* conversation's and the corpus stays.                                    *)
EvalInv ==
    /\ file \in Files /\ flags \in Flags
    /\ ci \in Nat \ {0} /\ qi \in Nat \ {0}
    /\ pc \in {"corpus", "ask"} =>
          file.present /\ convs = D!loadDataset(file) /\ OptsOK
    /\ pc = "ask" => ci <= Len(convs)
    /\ CorpusOK(corpus)
    /\ stage # "idle" => pc = "ask" /\ qi <= Len(convs[ci].questions)
    /\ SearchInv

(* The conversation at hand is one of a file that loads. *)
LEMMA CurrentConversation ==
    ASSUME EvalInv, pc \in {"corpus", "ask"}, ci <= Len(convs)
    PROVE  /\ Len(convs) \in Nat /\ ci \in 1..Len(convs)
           /\ ConversationOK(convs[ci]) /\ Len(convs[ci].questions) \in Nat
           /\ IsFiniteSet(D!localItems(convs[ci]))
           /\ \A it \in D!localItems(convs[ci]) :
                 it.id \in Seq(Int) /\ Vec(it.text) \in Vector
           /\ \A q \in 1..Len(convs[ci].questions) :
                 /\ "vec" \in DOMAIN convs[ci].questions[q].text
                 /\ convs[ci].questions[q].text.vec \in Vector
<1>1. /\ file \in Files /\ file.present /\ convs = D!loadDataset(file)
      /\ ci \in Nat \ {0}
  BY DEF EvalInv
<1>2. D!DatasetFile(file)
  BY <1>1, EvalAssumption
<1>3. PICK f : f = file
  OBVIOUS
<1>4. /\ D!IsSeq(D!loadDataset(f))
      /\ \A i \in 1..Len(D!loadDataset(f)) : ConversationOK(D!loadDataset(f)[i])
  BY <1>2, <1>3, DatasetLoaded
<1>5. Len(convs) \in Nat
  BY <1>1, <1>3, <1>4, SeqFacts
<1>6. ci \in 1..Len(convs)
  BY <1>1, <1>5
<1>7. ConversationOK(convs[ci])
  BY <1>1, <1>3, <1>4, <1>6
<1>8. PICK c : c = convs[ci]
  OBVIOUS
<1>9. Len(c.questions) \in Nat
  BY <1>7, <1>8, SeqFacts DEF ConversationOK
<1>10. IsFiniteSet(D!localItems(c)) /\ \A it \in D!localItems(c) : it.id \in Seq(Int)
  BY <1>7, <1>8, LocalItems
<1>11. /\ \A it \in D!localItems(c) : Vec(it.text) \in Vector
       /\ \A q \in 1..Len(c.questions) :
             "vec" \in DOMAIN c.questions[q].text /\ c.questions[q].text.vec \in Vector
  BY <1>1, <1>6, <1>8, EvalAssumption DEF Vector
<1>12. QED  BY <1>5, <1>6, <1>7, <1>8, <1>9, <1>10, <1>11

(* The empty list is a ranking of nothing. *)
LEMMA EmptyRanking ==
    /\ Ranking(<<>>) /\ IdsOf(<<>>) = {} /\ DOMAIN <<>> = {}
    /\ Len(<<>>) = 0 /\ ElementsOf(<<>>) = {}
  BY DEF Ranking, IdsOf, ElementsOf

(* Candidates come from the corpus, ranked. *)
LEMMA CandidatesInv ==
    ASSUME EvalInv, OptsOK, NEW q, q.vec \in Vector, Candidates(q),
           UNCHANGED <<corpus, opts>>
    PROVE  SearchInv' /\ stage' = "fuse"
<1>1. /\ stage = "idle" /\ stage' = "fuse" /\ CorpusOK(corpus)
      /\ ranked' = <<>> /\ selected' = <<>>
  BY DEF Candidates, EvalInv, SearchInv
<1>2. PICK w \in [Matching(q.lex) -> 1..MaxBM25] :
         lists' = [bm25 |-> IF opts.mode = "dense" THEN <<>>
                            ELSE BM25TopN(w, opts.candidateN),
                   dense |-> IF opts.mode = "bm25" THEN <<>>
                             ELSE DenseTopN(q.vec, opts.candidateN)]
  BY DEF Candidates
<1>3. opts.candidateN \in Nat
  BY DEF OptsOK
<1>4. /\ Ranking(BM25TopN(w, opts.candidateN))
      /\ IdsOf(BM25TopN(w, opts.candidateN)) \subseteq CorpusIds
  BY <1>1, <1>2, <1>3, BM25Ranks
<1>5. /\ Ranking(DenseTopN(q.vec, opts.candidateN))
      /\ IdsOf(DenseTopN(q.vec, opts.candidateN)) \subseteq CorpusIds
  BY <1>1, <1>3, DenseRanks
<1>6. /\ Ranking(lists'.bm25) /\ IdsOf(lists'.bm25) \subseteq CorpusIds
      /\ Ranking(lists'.dense) /\ IdsOf(lists'.dense) \subseteq CorpusIds
  BY <1>2, <1>4, <1>5, EmptyRanking
<1>7. CorpusIds' = CorpusIds
  BY DEF CorpusIds
<1>8. QED
  BY <1>1, <1>6, <1>7 DEF SearchInv, FusionRespectsBothLists, BoostCrossesWindowOnly

(* Fusing two rankings, or taking the one there is. *)
LEMMA FuseInv ==
    ASSUME EvalInv, OptsOK, Fuse, UNCHANGED <<corpus, opts>>
    PROVE  SearchInv'
<1>1. /\ stage = "fuse" /\ Ranking(lists.bm25) /\ Ranking(lists.dense)
      /\ IdsOf(lists.bm25) \cup IdsOf(lists.dense) \subseteq CorpusIds
      /\ ranked' = <<>> /\ selected' = <<>> /\ lists' = lists
      /\ stage' = IF fused' = <<>> THEN "done" ELSE "adjust"
      /\ opts.rrfK \in Nat /\ opts.topK \in Nat
      /\ opts.mode \in {"bm25", "dense", "hybrid"}
  BY DEF Fuse, EvalInv, SearchInv, OptsOK
<1>2. PICK a, b, s : a = lists.bm25 /\ b = lists.dense /\ s = fused'
  OBVIOUS
<1>3. /\ Ranking(s) /\ IdsOf(s) \subseteq CorpusIds
      /\ opts.mode = "hybrid" =>
            /\ IdsOf(s) = IdsOf(a) \cup IdsOf(b)
            /\ \A x, y \in IdsOf(s) :
                  x # y /\ AtLeast(a, x, y) /\ AtLeast(b, x, y)
                    => RankIn(s, x) < RankIn(s, y)
  <2>1. CASE opts.mode = "bm25"
    BY <1>1, <1>2, <2>1 DEF Fuse
  <2>2. CASE opts.mode = "dense"
    BY <1>1, <1>2, <2>2 DEF Fuse
  <2>3. CASE opts.mode = "hybrid"
    <3>1. s = sortScored(RRF(opts.rrfK, a, b)) /\ Ranking(a) /\ Ranking(b)
      BY <1>1, <1>2, <2>3 DEF Fuse
    <3>2. QED  BY <1>1, <1>2, <3>1, FusionRanks
  <2>4. QED  BY <1>1, <2>1, <2>2, <2>3
<1>4. Len(s) = Cardinality(IdsOf(s))
  BY <1>3, RankingCounts
<1>5. CorpusIds' = CorpusIds
  BY DEF CorpusIds
<1>6. FusionRespectsBothLists' /\ BoostCrossesWindowOnly'
  BY <1>1, <1>2, <1>3, <1>4 DEF FusionRespectsBothLists, BoostCrossesWindowOnly
<1>7. CASE s # <<>>
  BY <1>1, <1>2, <1>3, <1>5, <1>6, <1>7 DEF SearchInv
<1>8. CASE s = <<>>
  <2>1. Picked' = {} /\ Open' = {}
    BY <1>1, EmptyRanking DEF Picked, Open
  <2>2. \A r \in corpus' : PerSession(r.session)' = 0
    <3>1. {} = {i \in {} : TRUE} /\ Cardinality({}) = 0
      BY FS_EmptySet
    <3>2. \A r \in corpus' : {i \in Picked' : SessionAt(i)' = r.session} = {}
      BY <2>1
    <3>3. QED  BY <3>1, <3>2 DEF PerSession
  <2>3. SelectedOK'
    <3>1. <<>> \in Seq(DOMAIN ranked')
      OBVIOUS
    <3>2. opts'.maxPerSession \in Int /\ opts'.topK \in Nat
      BY DEF OptsOK
    <3>3. QED  BY <1>1, <2>2, <3>1, <3>2, EmptyRanking DEF SelectedOK
  <2>4. QED
    BY <1>1, <1>2, <1>3, <1>5, <1>6, <1>8, <2>1, <2>3, EmptyRanking DEF SearchInv
<1>9. QED  BY <1>7, <1>8

(* The boost, and nothing picked yet. *)
LEMMA AdjustInv ==
    ASSUME EvalInv, OptsOK, Adjust, UNCHANGED <<corpus, opts>>
    PROVE  SearchInv'
<1>1. /\ stage = "adjust" /\ stage' = "mmr" /\ Ranking(fused)
      /\ IdsOf(fused) \subseteq CorpusIds /\ selected' = <<>>
      /\ UNCHANGED <<fused, query, lists>>
      /\ ranked' = TemporalAdjust(fused, QueryTime(query))
      /\ opts.topK \in Nat
  BY DEF Adjust, EvalInv, SearchInv, OptsOK
<1>2. PICK c, t, s : c = fused /\ t = QueryTime(query) /\ s = ranked'
  OBVIOUS
<1>3. /\ Ranking(s) /\ IdsOf(s) = IdsOf(c) /\ Len(s) = Len(c)
      /\ \A i, j \in DOMAIN c :
            /\ i < j
            /\ RankIn(s, c[i].id) > RankIn(s, c[j].id)
            => MayOvertake(c[j], c[i], t)
  BY <1>1, <1>2, BoostRanks
<1>4. CorpusIds' = CorpusIds
  BY DEF CorpusIds
<1>5. QueryTime(query') = t /\ \A id : InWindow(id, t)' <=> InWindow(id, t)
  BY <1>1, <1>2 DEF InWindow, RowOf
<1>6. BoostCrossesWindowOnly'
  BY <1>1, <1>2, <1>3, <1>5 DEF BoostCrossesWindowOnly, MayOvertake
<1>7. FusionRespectsBothLists'
  BY <1>1 DEF FusionRespectsBothLists
<1>8. \A r \in corpus' : PerSession(r.session)' = 0
  <2>1. Picked' = {}
    BY <1>1, EmptyRanking DEF Picked
  <2>2. \A r \in corpus' : {i \in Picked' : SessionAt(i)' = r.session} = {}
    BY <2>1
  <2>3. QED  BY <2>2, FS_EmptySet DEF PerSession
<1>9. SelectedOK'
  <2>1. <<>> \in Seq(DOMAIN ranked')
    OBVIOUS
  <2>2. opts'.maxPerSession \in Int /\ opts'.topK \in Nat
    BY DEF OptsOK
  <2>3. QED  BY <1>1, <1>8, <2>1, <2>2, EmptyRanking DEF SelectedOK
<1>10. QED
  BY <1>1, <1>2, <1>3, <1>4, <1>6, <1>7, <1>9 DEF SearchInv

(* One more pick: it is new, of a session below its cap, and the first one *)
(* is the best candidate.                                                  *)
LEMMA PickInv ==
    ASSUME EvalInv, OptsOK, Pick, UNCHANGED <<corpus, opts>>
    PROVE  SearchInv'
<1>1. /\ stage = "mmr" /\ CorpusOK(corpus) /\ Ranking(fused) /\ Ranking(ranked)
      /\ IdsOf(ranked) = IdsOf(fused) /\ IdsOf(fused) \subseteq CorpusIds
      /\ SelectedOK /\ BoostCrossesWindowOnly
      /\ UNCHANGED <<query, lists, fused, ranked>>
  BY DEF Pick, EvalInv, SearchInv
<1>2. RankedOK
  BY <1>1 DEF RankedOK, SelectedOK, Picked, ElementsOf
<1>3. /\ CorpusIds' = CorpusIds /\ \A i : SessionAt(i)' = SessionAt(i)
      /\ \A id, t : InWindow(id, t)' <=> InWindow(id, t)
  BY <1>1 DEF CorpusIds, SessionAt, RowOf, InWindow
<1>4. BoostCrossesWindowOnly' /\ FusionRespectsBothLists'
  BY <1>1, <1>3 DEF Pick, BoostCrossesWindowOnly, MayOvertake,
       FusionRespectsBothLists
<1>5. CASE Len(selected) < opts.topK /\ Open # {}
  <2>1. PICK b : b = Best
    OBVIOUS
  <2>2. /\ b \in Open /\ b \in DOMAIN ranked /\ b \notin Picked
        /\ selected' = Append(selected, b) /\ stage' = "mmr"
    BY <1>1, <1>2, <1>5, <2>1, BestIsOpen DEF Open, Pick
  <2>3. PICK n \in Nat : n = Len(selected) /\ DOMAIN selected = 1..n
    BY <1>1 DEF SelectedOK
  <2>4. /\ selected' \in Seq(DOMAIN ranked') /\ Len(selected') = n + 1
        /\ DOMAIN selected' = 1..(n + 1) /\ selected'[n + 1] = b
        /\ \A i \in 1..n : selected'[i] = selected[i] /\ i \in DOMAIN selected
    BY <1>1, <2>2, <2>3 DEF SelectedOK
  <2>5. \A i \in 1..n : selected[i] # b
    BY <2>2, <2>3 DEF Picked, ElementsOf
  <2>6. ASSUME NEW i \in DOMAIN selected', NEW j \in DOMAIN selected',
               selected'[i] = selected'[j]
        PROVE  i = j
    <3>1. i \in 1..n \/ i = n + 1
      BY <2>4
    <3>2. j \in 1..n \/ j = n + 1
      BY <2>4
    <3>3. QED  BY <1>1, <2>4, <2>5, <2>6, <3>1, <3>2 DEF SelectedOK
  <2>7. selected'[1] = 1
    <3>1. CASE n = 0
      <4>1. Picked = {}
        BY <2>3, <3>1 DEF Picked, ElementsOf
      <4>2. b = 1
        BY <1>2, <1>5, <2>1, <4>1, FirstPick
      <4>3. QED  BY <2>4, <3>1, <4>2
    <3>2. CASE n # 0
      <4>1. selected # <<>> /\ 1 \in 1..n
        BY <2>3, <3>2
      <4>2. QED  BY <1>1, <2>4, <4>1 DEF SelectedOK
    <3>3. QED  BY <3>1, <3>2
  <2>8. Picked' = Picked \cup {b}
    <3>1. Picked' = {selected'[i] : i \in 1..(n + 1)}
      BY <2>4 DEF Picked, ElementsOf
    <3>2. Picked = {selected[i] : i \in 1..n}
      BY <2>3 DEF Picked, ElementsOf
    <3>3. \A i \in 1..(n + 1) : i \in 1..n \/ i = n + 1
      BY <2>3
    <3>4. n + 1 \in 1..(n + 1) /\ \A i \in 1..n : i \in 1..(n + 1)
      BY <2>3
    <3>5. QED  BY <2>4, <3>1, <3>2, <3>3, <3>4
  <2>9. ASSUME NEW r \in corpus, opts.maxPerSession > 0
        PROVE  PerSession(r.session)' <= opts.maxPerSession
    <3>1. PICK A, B : /\ A = {i \in Picked : SessionAt(i) = r.session}
                      /\ B = {i \in Picked' : SessionAt(i)' = r.session}
      OBVIOUS
    <3>2. /\ PerSession(r.session) = Cardinality(A)
          /\ PerSession(r.session)' = Cardinality(B)
      BY <3>1 DEF PerSession
    <3>3. IsFiniteSet(A) /\ Cardinality(A) \in Nat
      <4>1. IsFiniteSet(Picked)
        BY <1>2, RankedRows
      <4>2. IsFiniteSet(A)
        BY <3>1, <4>1, FS_Subset
      <4>3. QED  BY <4>2, FS_CardinalityType
    <3>4. Cardinality(A) <= opts.maxPerSession /\ opts.maxPerSession \in Int
      BY <1>1, <2>9, <3>2 DEF SelectedOK, OptsOK
    <3>5. CASE SessionAt(b) = r.session
      <4>1. B = A \cup {b} /\ b \notin A
        BY <1>3, <2>2, <2>8, <3>1, <3>5
      <4>2. Cardinality(B) = Cardinality(A) + 1
        BY <3>3, <4>1, FS_AddElement
      <4>3. Cardinality(A) < opts.maxPerSession
        BY <2>2, <2>9, <3>2, <3>5 DEF Open
      <4>4. QED  BY <3>2, <3>3, <3>4, <4>2, <4>3
    <3>6. CASE SessionAt(b) # r.session
      <4>1. B = A
        BY <1>3, <2>8, <3>1, <3>6
      <4>2. QED  BY <3>2, <3>4, <4>1
    <3>7. QED  BY <3>5, <3>6
  <2>10. Len(selected') <= opts.topK
    BY <1>5, <2>3, <2>4 DEF OptsOK
  <2>11. SelectedOK'
    BY <2>4, <2>6, <2>7, <2>9, <2>10 DEF SelectedOK
  <2>12. QED
    BY <1>1, <1>3, <1>4, <2>2, <2>11 DEF SearchInv
<1>6. CASE ~(Len(selected) < opts.topK /\ Open # {})
  <2>1. stage' = "done" /\ selected' = selected
    BY <1>1, <1>6 DEF Pick
  <2>2. Picked' = Picked
    BY <2>1 DEF Picked
  <2>3. \A s : PerSession(s)' = PerSession(s)
    BY <1>3, <2>2 DEF PerSession
  <2>4. Open' = Open
    BY <1>1, <1>3, <2>2, <2>3 DEF Open
  <2>5. SelectedOK'
    BY <1>1, <2>1, <2>3 DEF SelectedOK
  <2>6. QED
    BY <1>1, <1>3, <1>4, <1>6, <2>1, <2>4, <2>5 DEF SearchInv
<1>7. QED  BY <1>5, <1>6

(* No search is on: nothing to keep. *)
LEMMA IdleInv ==
    ASSUME stage = "idle", ranked = <<>>, selected = <<>>
    PROVE  SearchInv
  BY DEF SearchInv, FusionRespectsBothLists, BoostCrossesWindowOnly

(* While no search is on, the search's variables stay as they are. *)
LEMMA IdleStays ==
    ASSUME EvalInv, stage = "idle", UNCHANGED searchvars
    PROVE  SearchInv' /\ stage' = "idle"
<1>1. stage' = "idle" /\ ranked' = <<>> /\ selected' = <<>>
  BY DEF EvalInv, SearchInv, searchvars
<1>2. QED
  BY <1>1 DEF SearchInv, FusionRespectsBothLists, BoostCrossesWindowOnly

(* The search is over. *)
LEMMA EndSearchInv ==
    ASSUME EndSearch
    PROVE  SearchInv' /\ stage' = "idle"
  BY DEF EndSearch, SearchInv, FusionRespectsBothLists, BoostCrossesWindowOnly

(* NewRetriever's options are positive. *)
LEMMA StartInv ==
    ASSUME EvalInv, Start
    PROVE  EvalInv'
<1>1. /\ pc = "start" /\ stage = "idle"
      /\ UNCHANGED <<file, flags, ci, qi, corpus, searchvars>>
  BY DEF EvalInv, Start, SearchInv
<1>2. SearchInv' /\ stage' = "idle"
  BY <1>1, IdleStays
<1>3. CASE FlagsAccepted /\ file.present
  <2>1. PICK t : t = Tuning(flags, file.name)
    OBVIOUS
  <2>2. /\ convs' = D!loadDataset(file) /\ pc' = "corpus"
        /\ opts' = NewRetriever(
                     [mode |-> t.mode, topK |-> t.topK, candidateN |-> t.candidates,
                      rrfK |-> t.rrfK, maxPerSession |-> t.maxPerSession])
    BY <1>3, <2>1 DEF Start
  <2>3. /\ flags.rrfK \in Int /\ flags.candidates \in Int /\ flags.topK \in Int
        /\ flags.maxPerSession \in Int
    BY EvalAssumption DEF EvalInv
  <2>4. /\ evalDefaults(file.name).rrfK \in Nat
        /\ evalDefaults(file.name).candidates \in Nat
        /\ evalDefaults(file.name).topK \in Nat
        /\ evalDefaults(file.name).maxPerSession \in Nat
    BY DEF evalDefaults, DefaultRRFK, DefaultCandidateN, DefaultTopK
  <2>5. /\ t.mode \in {"bm25", "dense", "hybrid"}
        /\ t.rrfK \in Nat /\ t.candidates \in Nat /\ t.topK \in Nat
        /\ t.maxPerSession \in Int
    <3>1. PICK d : d = evalDefaults(file.name)
      OBVIOUS
    <3>2. /\ t.mode = flags.mode
          /\ t.rrfK = Positive(flags.rrfK, d.rrfK)
          /\ t.candidates = Positive(flags.candidates, d.candidates)
          /\ t.topK = Positive(flags.topK, d.topK)
          /\ t.maxPerSession = IF flags.maxPerSession >= 0
                               THEN flags.maxPerSession ELSE d.maxPerSession
      BY <2>1, <3>1 DEF Tuning
    <3>3. flags.mode \in {"bm25", "dense", "hybrid"}
      BY <1>3 DEF FlagsAccepted, ParseMode
    <3>4. QED  BY <2>3, <2>4, <3>1, <3>2, <3>3 DEF Positive
  <2>6. /\ opts'.mode = t.mode /\ opts'.maxPerSession = t.maxPerSession
        /\ opts'.topK \in Nat /\ opts'.candidateN \in Nat /\ opts'.rrfK \in Nat
    BY <2>2, <2>5 DEF NewRetriever, Positive, DefaultRRFK, DefaultCandidateN,
                      DefaultTopK
  <2>7. OptsOK'
    BY <2>5, <2>6 DEF OptsOK
  <2>8. QED  BY <1>1, <1>2, <1>3, <2>2, <2>7 DEF EvalInv
<1>4. CASE ~(FlagsAccepted /\ file.present)
  <2>1. pc' = "failed"
    BY <1>4 DEF Start
  <2>2. QED  BY <1>1, <1>2, <2>1 DEF EvalInv
<1>5. QED  BY <1>3, <1>4

(* The rows of the items sent, as far as the granularity lets them in. *)
LEMMA BuildCorpusInv ==
    ASSUME EvalInv, BuildCorpus
    PROVE  EvalInv'
<1>1. /\ pc = "corpus" /\ stage = "idle" /\ ci <= Len(convs)
      /\ UNCHANGED <<file, flags, ci, convs, opts, searchvars>>
      /\ pc' \in {"ask", "failed"}
  BY DEF EvalInv, BuildCorpus, SearchInv
<1>2. SearchInv' /\ stage' = "idle"
  BY <1>1, IdleStays
<1>3. CorpusOK(corpus') /\ qi' \in Nat \ {0}
  <2>1. CASE corpus' = corpus /\ qi' = qi
    BY <2>1 DEF EvalInv
  <2>2. ASSUME NEW sent \in SUBSET D!localItems(convs[ci]),
               corpus' = {RowFrom(it) : it \in
                             filterGranularity(sent, expand', granularity)},
               NewCorpusTakes(corpus'), qi' = 1
        PROVE  CorpusOK(corpus') /\ qi' \in Nat \ {0}
    <3>1. PICK F : F = filterGranularity(sent, expand', granularity)
      OBVIOUS
    <3>2. F \subseteq D!localItems(convs[ci])
      BY <3>1 DEF filterGranularity
    <3>3. /\ IsFiniteSet(D!localItems(convs[ci]))
          /\ \A it \in D!localItems(convs[ci]) :
                it.id \in Seq(Int) /\ Vec(it.text) \in Vector
      BY <1>1, CurrentConversation
    <3> DEFINE f == [it \in F |-> RowFrom(it)]
    <3>4. corpus' = {f[it] : it \in F}
      BY <2>2, <3>1
    <3>5. IsFiniteSet(F)
      BY <3>2, <3>3, FS_Subset
    <3>6. \A it \in F : f[it].id = it.id /\ f[it].vec = Vec(it.text)
      BY DEF RowFrom
    <3> HIDE DEF f
    <3>7. IsFiniteSet(corpus')
      BY <3>4, <3>5, FiniteValues
    <3>8. \A r \in corpus' : r.id \in Seq(Int) /\ r.vec \in Vector
      BY <3>2, <3>3, <3>4, <3>6
    <3>9. QED  BY <2>2, <3>7, <3>8 DEF CorpusOK
  <2>3. QED  BY <2>1, <2>2 DEF BuildCorpus
<1>4. OptsOK'
  BY <1>1 DEF EvalInv, OptsOK
<1>5. QED  BY <1>1, <1>2, <1>3, <1>4 DEF EvalInv

(* A question of the conversation is searched for. *)
LEMMA AskInv ==
    ASSUME EvalInv, Ask
    PROVE  EvalInv'
<1>1. /\ pc = "ask" /\ stage = "idle" /\ qi <= Len(convs[ci].questions)
      /\ ci <= Len(convs) /\ OptsOK
      /\ UNCHANGED <<file, flags, pc, convs, ci, qi, corpus, opts>>
      /\ Candidates(QueryFrom(Question)) \/ EmbedFails(QueryFrom(Question))
  BY DEF EvalInv, Ask
<1>2. QueryFrom(Question).vec \in Vector
  <2>1. qi \in 1..Len(convs[ci].questions)
    BY <1>1, CurrentConversation DEF EvalInv
  <2>2. "vec" \in DOMAIN Question.text /\ Question.text.vec \in Vector
    BY <1>1, <2>1, CurrentConversation DEF Question
  <2>3. QueryFrom(Question).vec = Question.text.vec
    BY <2>2 DEF QueryFrom
  <2>4. QED  BY <2>2, <2>3
<1>3. SearchInv'
  <2>1. CASE Candidates(QueryFrom(Question))
    <3>1. PICK q : q = QueryFrom(Question)
      OBVIOUS
    <3>2. QED  BY <1>1, <1>2, <2>1, <3>1, CandidatesInv
  <2>2. CASE EmbedFails(QueryFrom(Question))
    <3>1. stage' = "error" /\ ranked' = <<>> /\ selected' = <<>>
      BY <1>1, <2>2 DEF EmbedFails, EvalInv, SearchInv
    <3>2. QED
      BY <3>1 DEF SearchInv, FusionRespectsBothLists, BoostCrossesWindowOnly
  <2>3. QED  BY <1>1, <2>1, <2>2
<1>4. OptsOK' /\ CorpusOK(corpus')
  BY <1>1 DEF EvalInv, OptsOK
<1>5. QED  BY <1>1, <1>3, <1>4 DEF EvalInv

(* The search's own steps. *)
LEMMA SearchOnInv ==
    ASSUME EvalInv, SearchOn
    PROVE  EvalInv'
<1>1. /\ stage # "idle" /\ OptsOK
      /\ UNCHANGED <<file, flags, pc, convs, ci, qi, corpus, opts>>
  BY DEF EvalInv, SearchOn, SearchStep, Fuse, Adjust, Pick, evars
<1>2. SearchInv'
  BY <1>1, FuseInv, AdjustInv, PickInv DEF SearchOn, SearchStep
<1>3. OptsOK' /\ CorpusOK(corpus')
  BY <1>1 DEF EvalInv, OptsOK
<1>4. QED  BY <1>1, <1>2, <1>3 DEF EvalInv

(* The remaining steps of the command, none of which meets a search. *)
LEMMA CommandInv ==
    ASSUME EvalInv, Record \/ SearchFailed \/ NextConversation \/ Report
    PROVE  EvalInv'
<1>1. CASE Record
  <2>1. SearchInv' /\ stage' = "idle"
    BY <1>1, EndSearchInv DEF Record
  <2>2. /\ UNCHANGED <<file, flags, pc, convs, ci, corpus, opts>>
        /\ qi' \in Nat \ {0} /\ OptsOK'
    BY <1>1 DEF Record, EvalInv, OptsOK
  <2>3. QED  BY <2>1, <2>2 DEF EvalInv
<1>2. CASE SearchFailed
  <2>1. SearchInv' /\ stage' = "idle"
    BY <1>2, EndSearchInv DEF SearchFailed
  <2>2. /\ UNCHANGED <<file, flags, convs, ci, corpus, opts>>
        /\ pc' = pc \/ pc' = "failed"
        /\ qi' \in Nat \ {0} /\ pc = "ask" /\ OptsOK'
    BY <1>2 DEF SearchFailed, EvalInv, OptsOK
  <2>3. QED  BY <2>1, <2>2 DEF EvalInv
<1>3. CASE NextConversation
  <2>1. /\ pc = "ask" /\ qi > Len(convs[ci].questions) /\ pc' = "corpus"
        /\ ci' = ci + 1 /\ corpus' = {} /\ ci <= Len(convs)
        /\ UNCHANGED <<file, flags, convs, qi, opts, searchvars>>
    BY <1>3 DEF NextConversation, EvalInv
  <2>2. stage = "idle"
    <3>1. Len(convs[ci].questions) \in Nat /\ qi \in Nat
      BY <2>1, CurrentConversation DEF EvalInv
    <3>2. QED  BY <2>1, <3>1 DEF EvalInv
  <2>3. SearchInv' /\ stage' = "idle"
    BY <2>1, <2>2, IdleStays
  <2>4. CorpusOK(corpus') /\ OptsOK'
    BY <2>1, FS_EmptySet DEF EvalInv, OptsOK, CorpusOK, NewCorpusTakes
  <2>5. QED  BY <2>1, <2>3, <2>4 DEF EvalInv
<1>4. CASE Report
  <2>1. /\ pc = "corpus" /\ pc' \in {"ok", "failed"}
        /\ UNCHANGED <<file, flags, convs, ci, qi, corpus, opts, searchvars>>
    BY <1>4 DEF Report, rvars, searchvars
  <2>2. stage = "idle"
    BY <2>1 DEF EvalInv
  <2>3. SearchInv' /\ stage' = "idle"
    BY <2>1, <2>2, IdleStays
  <2>4. QED  BY <2>1, <2>3 DEF EvalInv
<1>5. QED  BY <1>1, <1>2, <1>3, <1>4

(* The invariant of the eval command and of every Search it makes, for     *)
(* every file, flag and question, and for any part of the memories that    *)
(* the server sends.                                                       *)
THEOREM EvalInvariance == ESpec => []EvalInv
<1>1. EInit => EvalInv
  <2> SUFFICES ASSUME EInit  PROVE EvalInv
    OBVIOUS
  <2>1. SearchInv
    BY IdleInv DEF EInit, SearchIdle
  <2>2. CorpusOK(corpus)
    BY FS_EmptySet DEF EInit, CorpusOK, NewCorpusTakes
  <2>3. QED  BY <2>1, <2>2 DEF EInit, SearchIdle, EvalInv
<1>2. EvalInv /\ [ENext]_<<evars, rvars>> => EvalInv'
  <2> SUFFICES ASSUME EvalInv, [ENext]_<<evars, rvars>>  PROVE EvalInv'
    OBVIOUS
  <2>1. CASE UNCHANGED <<evars, rvars>>
    <3>1. SearchInv'
      <4>1. /\ UNCHANGED <<corpus, opts, query, stage, lists, fused, ranked,
                            selected>>
            /\ UNCHANGED <<CorpusIds, Picked>>
        BY <2>1 DEF rvars, CorpusIds, Picked
      <4>2. \A i : SessionAt(i)' = SessionAt(i)
        BY <4>1 DEF SessionAt, RowOf
      <4>3. \A k : PerSession(k)' = PerSession(k)
        BY <4>1, <4>2 DEF PerSession
      <4>4. Open' = Open
        BY <4>1, <4>2, <4>3 DEF Open
      <4>5. SelectedOK => SelectedOK'
        BY <4>1, <4>3 DEF SelectedOK
      <4>6. FusionRespectsBothLists => FusionRespectsBothLists'
        BY <4>1 DEF FusionRespectsBothLists
      <4>7. \A id, t : InWindow(id, t)' <=> InWindow(id, t)
        BY <4>1 DEF InWindow, RowOf
      <4>8. BoostCrossesWindowOnly => BoostCrossesWindowOnly'
        BY <4>1, <4>7 DEF BoostCrossesWindowOnly, MayOvertake
      <4>9. QED  BY <4>1, <4>4, <4>5, <4>6, <4>8 DEF EvalInv, SearchInv
    <3>2. QED  BY <2>1, <3>1 DEF EvalInv, OptsOK, evars, rvars
  <2>2. QED
    BY <2>1, StartInv, BuildCorpusInv, AskInv, SearchOnInv, CommandInv DEF ENext
<1>3. QED  BY <1>1, <1>2, PTL DEF ESpec

(* Rank fusion, for any two candidate lists: the fused list holds every    *)
(* candidate once, and an id that both lists rank at least as well as      *)
(* another is ahead of it.                                                 *)
THEOREM FusionIsFair == ESpec => []FusionRespectsBothLists
<1>1. EvalInv => FusionRespectsBothLists
  BY DEF EvalInv, SearchInv
<1>2. QED  BY <1>1, EvalInvariance, PTL

(* The temporal boost, for any candidates, scores and date: nothing is     *)
(* lost, and a candidate falls behind another only across the edge of the  *)
(* window, the way the sign of the score in the window makes it go.        *)
THEOREM BoostIsFair == ESpec => []BoostCrossesWindowOnly
<1>1. EvalInv => BoostCrossesWindowOnly
  BY DEF EvalInv, SearchInv
<1>2. QED  BY <1>1, EvalInvariance, PTL

(* The places of what was picked are as many as the ids of a session among *)
(* the results.                                                            *)
LEMMA ResultsOfSession ==
    ASSUME RankedOK, SelectedOK, NEW k
    PROVE  Cardinality({id \in ElementsOf(Results) : RowOf(id).session = k})
              = PerSession(k)
<1>1. PICK A, B : /\ A = {i \in Picked : SessionAt(i) = k}
                  /\ B = {id \in ElementsOf(Results) : RowOf(id).session = k}
  OBVIOUS
<1>2. Picked \subseteq DOMAIN ranked /\ IsFiniteSet(Picked)
  BY RankedRows DEF RankedOK
<1>3. ElementsOf(Results) = {ranked[i].id : i \in Picked}
  BY DEF ElementsOf, Results, Picked
<1>4. \A i, j \in DOMAIN ranked : ranked[i].id = ranked[j].id => i = j
  BY RankInRanking DEF RankedOK
<1> DEFINE f == [i \in A |-> ranked[i].id]
<1>5. f \in Surjection(A, B)
  BY <1>1, <1>3 DEF Surjection, SessionAt
<1>6. f \in Injection(A, B)
  <2>1. f \in [A -> B]
    BY <1>5 DEF Surjection
  <2>2. \A i, j \in A : f[i] = f[j] => i = j
    BY <1>1, <1>2, <1>4
  <2>3. QED  BY <2>1, <2>2 DEF Injection, IsInjective
<1> HIDE DEF f
<1>7. IsFiniteSet(A)
  BY <1>1, <1>2, FS_Subset
<1>8. Cardinality(B) = Cardinality(A)
  BY <1>5, <1>6, <1>7, FS_Surjection
<1>9. QED  BY <1>1, <1>8 DEF PerSession

(* What Search returns, for every corpus, query and options: at most topK  *)
(* distinct ids of the corpus, the best candidate first, no session above  *)
(* its cap, and no candidate left out that the caps would have let in.     *)
THEOREM SearchIsMaximal == ESpec => []ResultsAreMaximal
<1>1. EvalInv => ResultsAreMaximal
  <2> SUFFICES ASSUME EvalInv, stage = "done"  PROVE ResultsAreMaximal
    BY DEF ResultsAreMaximal
  <2>1. /\ CorpusOK(corpus) /\ OptsOK /\ SelectedOK /\ Ranking(ranked)
        /\ IdsOf(ranked) = IdsOf(fused) /\ IdsOf(fused) \subseteq CorpusIds
        /\ ~(Len(selected) < opts.topK /\ Open # {})
    BY DEF EvalInv, SearchInv
  <2>2. RankedOK
    BY <2>1 DEF RankedOK, SelectedOK, Picked, ElementsOf
  <2>3. PICK n \in Nat : n = Len(selected) /\ DOMAIN selected = 1..n
    BY <2>1 DEF SelectedOK
  <2>4. /\ Picked \subseteq DOMAIN ranked
        /\ \A i \in 1..n : selected[i] \in Picked
        /\ \A i \in DOMAIN ranked : ranked[i].id \in CorpusIds
        /\ \A i, j \in DOMAIN ranked : ranked[i].id = ranked[j].id => i = j
    <3>1. \A i, j \in DOMAIN ranked : ranked[i].id = ranked[j].id => i = j
      BY <2>1, RankInRanking
    <3>2. \A i \in DOMAIN ranked : ranked[i].id \in CorpusIds
      BY <2>2, RankedRows
    <3>3. QED  BY <2>2, <2>3, <3>1, <3>2 DEF RankedOK, Picked, ElementsOf
  <2>5. /\ Results \in Seq(CorpusIds) /\ Len(Results) = n
        /\ DOMAIN Results = 1..n
        /\ \A i \in 1..n : Results[i] = ranked[selected[i]].id
    <3>1. Results = [i \in 1..n |-> ranked[selected[i]].id]
      BY <2>3 DEF Results
    <3>2. \A i \in 1..n : ranked[selected[i]].id \in CorpusIds
      BY <2>4
    <3>3. QED  BY <3>1, <3>2
  <2>6. ElementsOf(Results) = {ranked[i].id : i \in Picked}
    BY <2>3, <2>5 DEF ElementsOf, Picked
  <2>7. Len(Results) <= opts.topK
    BY <2>1, <2>3, <2>5 DEF SelectedOK
  <2>8. ElementsOf(Results) \subseteq {r.id : r \in corpus}
    BY <2>5 DEF ElementsOf, CorpusIds
  <2>9. Cardinality(ElementsOf(Results)) = Len(Results)
    <3> DEFINE f == [i \in 1..n |-> Results[i]]
    <3>1. f \in Surjection(1..n, ElementsOf(Results))
      BY <2>5 DEF Surjection, ElementsOf
    <3>2. \A i, j \in 1..n : Results[i] = Results[j] => i = j
      BY <2>1, <2>3, <2>4, <2>5 DEF SelectedOK
    <3>3. f \in Injection(1..n, ElementsOf(Results))
      BY <3>1, <3>2 DEF Injection, IsInjective, Surjection
    <3>4. f \in Bijection(1..n, ElementsOf(Results))
      BY <3>1, <3>3 DEF Bijection
    <3> HIDE DEF f
    <3>5. ExistsBijection(1..n, ElementsOf(Results))
      BY <3>4 DEF ExistsBijection
    <3>6. QED  BY <2>5, <3>5, FS_CountingElements
  <2>10. Results # <<>> => Results[1] = ranked[1].id
    <3> SUFFICES ASSUME Results # <<>>  PROVE Results[1] = ranked[1].id
      OBVIOUS
    <3>1. n # 0
      BY <2>5
    <3>2. selected # <<>> /\ 1 \in 1..n
      BY <2>3, <3>1
    <3>3. QED  BY <2>1, <2>5, <3>2 DEF SelectedOK
  <2>11. ASSUME NEW r \in corpus
         PROVE  LET m == Cardinality({id \in ElementsOf(Results) :
                                        RowOf(id).session = r.session})
                IN  /\ opts.maxPerSession > 0 => m <= opts.maxPerSession
                    /\ /\ r.id \in IdsOf(fused) \ ElementsOf(Results)
                       /\ Len(Results) < opts.topK
                       => opts.maxPerSession > 0 /\ m = opts.maxPerSession
    <3>1. PICK m : m = Cardinality({id \in ElementsOf(Results) :
                                      RowOf(id).session = r.session})
      OBVIOUS
    <3>2. m = PerSession(r.session)
      BY <2>1, <2>2, <3>1, ResultsOfSession
    <3>3. opts.maxPerSession > 0 => m <= opts.maxPerSession
      BY <2>1, <3>2 DEF SelectedOK
    <3>4. ASSUME r.id \in IdsOf(fused) \ ElementsOf(Results),
                 Len(Results) < opts.topK
          PROVE  opts.maxPerSession > 0 /\ m = opts.maxPerSession
      <4>1. PICK i \in DOMAIN ranked : ranked[i].id = r.id
        BY <2>1, <3>4 DEF IdsOf
      <4>2. i \notin Picked
        BY <2>6, <3>4, <4>1
      <4>3. i \notin Open
        BY <2>1, <2>3, <2>5, <3>4
      <4>4. /\ opts.maxPerSession > 0
            /\ ~(PerSession(SessionAt(i)) < opts.maxPerSession)
        BY <4>1, <4>2, <4>3 DEF Open
      <4>5. SessionAt(i) = r.session
        BY <2>1, <4>1, RowOfId DEF SessionAt
      <4>6. m \in Int /\ opts.maxPerSession \in Int
        <5>1. IsFiniteSet({j \in Picked : SessionAt(j) = r.session})
          BY <2>2, RankedRows, FS_Subset
        <5>2. PerSession(r.session) \in Nat
          BY <5>1, FS_CardinalityType DEF PerSession
        <5>3. QED  BY <2>1, <3>2, <5>2 DEF OptsOK
      <4>7. QED  BY <3>2, <3>3, <4>4, <4>5, <4>6
    <3>5. QED  BY <3>1, <3>3, <3>4
  <2>12. QED
    BY <2>7, <2>8, <2>9, <2>10, <2>11 DEF ResultsAreMaximal
<1>2. QED  BY <1>1, EvalInvariance, PTL

-----------------------------------------------------------------------------
(* Granularity.                                                            *)

(* While questions are asked, the corpus is what was fetched, filtered.    *)
CorpusInv ==
    /\ pc \in {"corpus", "ask"} => granularity \in {"turn", "round", "all"}
    /\ pc = "ask" =>
          /\ expand = D!expandOf(convs[ci])
          /\ corpus = {RowFrom(it) : it \in
                          filterGranularity(fetched, expand, granularity)}

(* CorpusInv holds of every behaviour. *)
LEMMA CorpusInvariance == ESpec => []CorpusInv
<1>1. EInit => CorpusInv
  BY DEF EInit, CorpusInv
<1>2. CorpusInv /\ [ENext]_<<evars, rvars>> => CorpusInv'
  <2> SUFFICES ASSUME CorpusInv, [ENext]_<<evars, rvars>>  PROVE CorpusInv'
    OBVIOUS
  <2>1. CASE UNCHANGED <<pc, granularity, convs, ci, expand, fetched, corpus>>
    BY <2>1 DEF CorpusInv
  <2>2. CASE Start
    BY <2>2 DEF Start, FlagsAccepted, CorpusInv
  <2>3. CASE BuildCorpus
    BY <2>3 DEF BuildCorpus, CorpusInv
  <2>4. CASE SearchFailed
    BY <2>4 DEF SearchFailed, CorpusInv
  <2>5. CASE NextConversation
    BY <2>5 DEF NextConversation, CorpusInv
  <2>6. CASE Report
    BY <2>6 DEF Report, CorpusInv
  <2>7. CASE UNCHANGED <<evars, rvars>>
    BY <2>1, <2>7 DEF evars, rvars
  <2>8. CASE Ask \/ Record \/ SearchOn
    BY <2>1, <2>8 DEF Ask, Record, SearchOn, evars
  <2>9. QED
    BY <2>2, <2>3, <2>4, <2>5, <2>6, <2>7, <2>8 DEF ENext
<1>3. QED  BY <1>1, <1>2, PTL DEF ESpec

(* Filtering by granularity, for every dataset, granularity and part of it *)
(* that was fetched: a turn that was fetched is held by a row of the       *)
(* corpus, unless rounds are asked for, the turn is in one, and no row of  *)
(* its rounds was fetched.                                                 *)
THEOREM TurnsStayCreditable == ESpec => []EveryTurnCreditable
<1>1. EvalInv /\ CorpusInv => EveryTurnCreditable
  <2> SUFFICES ASSUME EvalInv, CorpusInv, pc = "ask",
                      NEW it \in ToSet(convs[ci].items),
                      it.id \in {x.id : x \in fetched},
                      ~\E row \in corpus : it.id \in ToSet(Members(row.id, expand))
               PROVE  /\ granularity = "round"
                      /\ \E r \in DOMAIN expand : it.id \in ToSet(expand[r])
                      /\ \A r \in DOMAIN expand : it.id \in ToSet(expand[r])
                            => r \notin {x.id : x \in fetched}
    BY DEF EveryTurnCreditable
  <2>1. it.id \notin DOMAIN expand
    <3>1. PICK c : c = convs[ci]
      OBVIOUS
    <3>2. ConversationOK(c) /\ expand = D!expandOf(c) /\ it \in ToSet(c.items)
      BY <3>1, CurrentConversation DEF EvalInv, CorpusInv
    <3>3. QED  BY <3>2, LocalItems
  <2>2. PICK F : F = filterGranularity(fetched, expand, granularity)
    OBVIOUS
  <2>3. corpus = {RowFrom(x) : x \in F} /\ granularity \in {"turn", "round", "all"}
    BY <2>2 DEF CorpusInv
  <2>4. \A x \in F : \E row \in corpus : row.id = x.id
    <3>1. \A x \in F : RowFrom(x) \in corpus
      BY <2>3
    <3>2. \A x : RowFrom(x).id = x.id
      BY DEF RowFrom
    <3>3. QED  BY <3>1, <3>2
  <2>5. ASSUME NEW x \in F, x.id = it.id
        PROVE  \E row \in corpus : it.id \in ToSet(Members(row.id, expand))
    <3>1. Members(it.id, expand) = <<it.id>>
      BY <2>1 DEF Members
    <3>2. it.id \in ToSet(<<it.id>>)
      BY DEF ToSet
    <3>3. QED  BY <2>4, <2>5, <3>1, <3>2
  <2>6. ASSUME NEW r \in DOMAIN expand, it.id \in ToSet(expand[r]),
               NEW x \in F, x.id = r
        PROVE  \E row \in corpus : it.id \in ToSet(Members(row.id, expand))
    BY <2>4, <2>6 DEF Members
  <2>7. PICK x \in fetched : x.id = it.id
    OBVIOUS
  <2>8. x \notin F
    BY <2>5, <2>7
  <2>9. granularity = "round"
    BY <2>1, <2>2, <2>3, <2>7, <2>8 DEF filterGranularity
  <2>10. \E r \in DOMAIN expand : it.id \in ToSet(expand[r])
    BY <2>2, <2>7, <2>8, <2>9 DEF filterGranularity
  <2>11. ASSUME NEW r \in DOMAIN expand, it.id \in ToSet(expand[r]),
                NEW y \in fetched, y.id = r
         PROVE  FALSE
    <3>1. y \in F
      BY <2>2, <2>9, <2>11 DEF filterGranularity
    <3>2. QED  BY <2>6, <2>11, <3>1
  <2>12. QED  BY <2>9, <2>10, <2>11
<1>2. QED  BY <1>1, EvalInvariance, CorpusInvariance, PTL

-----------------------------------------------------------------------------
(* What is loaded.                                                         *)

(* Before a corpus is built, the conversations are those of a file.        *)
LEMMA ConversationsLoaded ==
    ASSUME EvalInv, pc = "corpus"
    PROVE  /\ file \in Files /\ file.present /\ D!DatasetFile(file)
           /\ convs = D!loadDataset(file)
           /\ D!IsSeq(convs) /\ DOMAIN convs = 1..Len(convs)
           /\ \A c \in DOMAIN convs : ConversationOK(convs[c])
<1>1. file \in Files /\ file.present /\ convs = D!loadDataset(file)
  BY DEF EvalInv
<1>2. D!DatasetFile(file)
  BY <1>1, EvalAssumption
<1>3. PICK f : f = file
  OBVIOUS
<1>4. /\ D!IsSeq(D!loadDataset(f))
      /\ \A i \in 1..Len(D!loadDataset(f)) : ConversationOK(D!loadDataset(f)[i])
  BY <1>2, <1>3, DatasetLoaded
<1>5. PICK cs : cs = D!loadDataset(f)
  OBVIOUS
<1>6. D!IsSeq(cs) /\ DOMAIN cs = 1..Len(cs)
  BY <1>4, <1>5, SeqFacts
<1>7. QED  BY <1>1, <1>2, <1>3, <1>4, <1>5, <1>6

(* Rounds partition the dialog of every conversation, whatever its turns:  *)
(* each turn once and in order, alone or in an exchange of two speakers of *)
(* a session, and none left alone that could have answered.                *)
THEOREM RoundsPartition == ESpec => []RoundsPartitionTurns
<1>1. EvalInv => RoundsPartitionTurns
  <2> SUFFICES ASSUME EvalInv, pc = "corpus", NEW c \in DOMAIN convs,
                      NEW rs, rs = D!AssembleRounds(convs[c].items)
               PROVE  FlattenSeq(rs) = convs[c].items /\ Exchanges(rs)
    BY DEF RoundsPartitionTurns, Exchanges, Exchange
  <2>1. PICK turns : turns = convs[c].items
    OBVIOUS
  <2>2. ConversationOK(convs[c])
    BY ConversationsLoaded
  <2>3. turns \in Seq(ToSet(turns))
    BY <2>1, <2>2, SeqFacts DEF ConversationOK
  <2>4. QED  BY <2>1, <2>3, RoundsOfTurns
<1>2. QED  BY <1>1, EvalInvariance, PTL

(* The evidence of a conversation is among its items. *)
EvidenceIndexed(c) ==
    \A q \in ToSet(c.questions) : \A e \in ToSet(q.evidence) :
        \E it \in ToSet(c.items) : it.id = <<e>>

(* So it is in fixtures, where the file names its own turns. *)
LEMMA FixturesEvidence ==
    ASSUME NEW f, D!FixturesFile(f.data), f.name = "fixtures", D!EvidenceNamesTurns(f),
           NEW i \in 1..Len(D!loadFixtures(f.data))
    PROVE  EvidenceIndexed(D!loadFixtures(f.data)[i])
<1>1. PICK d : d = f.data
  OBVIOUS
<1>2. PICK c : c = D!loadFixtures(d)
  OBVIOUS
<1>3. TurnsAndEvidence(d, c[i])
  BY <1>1, <1>2, FixturesLoaded
<1>4. \A p \in ToSet(d.questions) : \A e \in ToSet(p.evidence) :
         \E t \in ToSet(d.turns) : t.id = e
  BY <1>1, SameOperators DEF D!EvidenceNamesTurns
<1>5. \A q \in ToSet(c[i].questions) : \A e \in ToSet(q.evidence) :
         \E it \in ToSet(c[i].items) : it.id = <<e>>
  <2> SUFFICES ASSUME NEW q \in ToSet(c[i].questions), NEW e \in ToSet(q.evidence)
               PROVE  \E it \in ToSet(c[i].items) : it.id = <<e>>
    OBVIOUS
  <2>1. PICK p \in ToSet(d.questions) : q.evidence = p.evidence
    BY <1>3 DEF TurnsAndEvidence
  <2>2. PICK t \in ToSet(d.turns) : t.id = e
    BY <1>4, <2>1
  <2>3. QED  BY <1>3, <2>2 DEF TurnsAndEvidence
<1>6. QED  BY <1>1, <1>2, <1>5 DEF EvidenceIndexed

(* So it is in LoCoMo, whose nested evidence names turns of some session. *)
LEMMA LoCoMoEvidence ==
    ASSUME NEW f, D!LoCoMoFile(f.data), f.name = "locomo", D!EvidenceNamesTurns(f),
           NEW i \in 1..Len(D!loadLoCoMo(f.data))
    PROVE  EvidenceIndexed(D!loadLoCoMo(f.data)[i])
<1>1. PICK d : d = f.data
  OBVIOUS
<1>2. PICK c : c = D!loadLoCoMo(d)
  OBVIOUS
<1>3. /\ D!IsSeq(d) /\ Len(c) = Len(d) /\ SampleOK(d[i])
      /\ c[i].items = FlattenSeq(SampleItems(d[i], D!Sessions(d[i])))
      /\ c[i].questions = SampleQuestions(d[i])
  BY <1>1, <1>2, LoCoMoLoaded
<1>4. PICK s : s = d[i]
  OBVIOUS
<1>5. s \in ToSet(d)
  BY <1>1, <1>2, <1>3, <1>4, SeqFacts
<1>6. \A n \in DOMAIN s.turns : \A t \in ToSet(s.turns[n]) :
         \E it \in ToSet(c[i].items) : it.id = <<t.id>>
  BY <1>3, <1>4, SampleItemsLoaded
<1>7. \A q \in ToSet(c[i].questions) : \A e \in ToSet(q.evidence) :
         \E qa \in ToSet(s.qa) : \E l \in ToSet(qa.evidence) : e \in ToSet(l)
  BY <1>3, <1>4, SampleQuestionsLoaded
<1>8. \A qa \in ToSet(s.qa) : \A l \in ToSet(qa.evidence) : \A e \in ToSet(l) :
         \E n \in DOMAIN s.turns : \E t \in ToSet(s.turns[n]) : t.id = e
  BY <1>1, <1>5, SameOperators DEF D!EvidenceNamesTurns
<1>9. ASSUME NEW q \in ToSet(c[i].questions), NEW e \in ToSet(q.evidence)
      PROVE  \E it \in ToSet(c[i].items) : it.id = <<e>>
  <2>1. PICK n \in DOMAIN s.turns : \E t \in ToSet(s.turns[n]) : t.id = e
    BY <1>7, <1>8
  <2>2. PICK t \in ToSet(s.turns[n]) : t.id = e
    BY <2>1
  <2>3. QED  BY <1>6, <2>2
<1>10. QED  BY <1>1, <1>2, <1>9 DEF EvidenceIndexed

(* So it is in LongMemEval, whatever the lengths of its parallel arrays:   *)
(* the ids of evidence are made as those of the turns are.                 *)
LEMMA LongMemEvalEvidence ==
    ASSUME NEW f, D!LongMemEvalFile(f.data),
           NEW i \in 1..Len(D!loadLongMemEval(f.data))
    PROVE  EvidenceIndexed(D!loadLongMemEval(f.data)[i])
<1>1. PICK d : d = f.data
  OBVIOUS
<1>2. PICK c : c = D!loadLongMemEval(d)
  OBVIOUS
<1>3. PICK q : q = d[i]
  OBVIOUS
<1>4. /\ HaystackOK(q) /\ c[i].items = FlattenSeq(HaystackItems(q))
      /\ \A p \in ToSet(c[i].questions) : p.evidence = D!GoldTurnIDs(q)
  BY <1>1, <1>2, <1>3, LongMemEvalLoaded
<1>5. \A si \in D!Haystack(q) : \A k \in DOMAIN q.sessions[si] :
         \E it \in ToSet(c[i].items) : it.id = <<D!TurnID(q.sids[si], k - 1)>>
  BY <1>4, HaystackItemsLoaded
<1>6. \A e \in ToSet(D!GoldTurnIDs(q)) : \E si \in D!Haystack(q) :
         \E k \in DOMAIN q.sessions[si] : e = D!TurnID(q.sids[si], k - 1)
  BY <1>4, GoldTurnsLoaded
<1>7. ASSUME NEW p \in ToSet(c[i].questions), NEW e \in ToSet(p.evidence)
      PROVE  \E it \in ToSet(c[i].items) : it.id = <<e>>
  <2>1. PICK si \in D!Haystack(q) :
           \E k \in DOMAIN q.sessions[si] : e = D!TurnID(q.sids[si], k - 1)
    BY <1>4, <1>6
  <2>2. PICK k \in DOMAIN q.sessions[si] : e = D!TurnID(q.sids[si], k - 1)
    BY <2>1
  <2>3. QED  BY <1>5, <2>2
<1>8. QED  BY <1>1, <1>2, <1>7 DEF EvidenceIndexed

(* Evidence can be found: every turn that a loader lists as evidence is an *)
(* item of the question's conversation, for every file of the three        *)
(* formats whose explicit evidence names turns of its own.                 *)
THEOREM EvidenceIsIndexed == ESpec => []GoldIsIndexed
<1>1. EvalInv => GoldIsIndexed
  <2> SUFFICES ASSUME EvalInv, pc = "corpus", NEW c \in DOMAIN convs
               PROVE  EvidenceIndexed(convs[c])
    BY DEF GoldIsIndexed, QuestionsOf, EvidenceIndexed
  <2>1. PICK f : f = file
    OBVIOUS
  <2>2. /\ f \in Files /\ f.present /\ D!DatasetFile(f)
        /\ convs = D!loadDataset(f) /\ c \in 1..Len(D!loadDataset(f))
    BY <2>1, ConversationsLoaded
  <2>3. D!EvidenceNamesTurns(f)
    BY <2>2, EvidenceAssumption
  <2>4. CASE f.name = "fixtures"
    <3>1. D!FixturesFile(f.data) /\ D!loadDataset(f) = D!loadFixtures(f.data)
      BY <2>2, <2>4 DEF D!DatasetFile, D!loadDataset
    <3>2. QED  BY <2>2, <2>3, <2>4, <3>1, FixturesEvidence
  <2>5. CASE f.name = "locomo"
    <3>1. D!LoCoMoFile(f.data) /\ D!loadDataset(f) = D!loadLoCoMo(f.data)
      BY <2>2, <2>5 DEF D!DatasetFile, D!loadDataset
    <3>2. QED  BY <2>2, <2>3, <2>5, <3>1, LoCoMoEvidence
  <2>6. CASE f.name = "longmemeval_s"
    <3>1. D!LongMemEvalFile(f.data) /\ D!loadDataset(f) = D!loadLongMemEval(f.data)
      BY <2>2, <2>6 DEF D!DatasetFile, D!loadDataset
    <3>2. QED  BY <2>2, <3>1, LongMemEvalEvidence
  <2>7. QED  BY <2>2, <2>4, <2>5, <2>6 DEF D!DatasetFile
<1>2. QED  BY <1>1, EvalInvariance, PTL

-----------------------------------------------------------------------------
(* Credit.                                                                 *)

(* e[1] < ... < e[k] are the places of the first mentions in s. *)
FirstMentions(s, k, e) ==
    /\ \A i, j \in 1..k : i < j => e[i] < e[j] /\ s[e[i]] # s[e[j]]
    /\ \A i \in 1..k : i <= e[i] /\ \A j \in 1..(e[i] - 1) : s[j] # s[e[i]]
    /\ \A j \in 1..Len(s) : \E i \in 1..k : s[e[i]] = s[j]

(* What is left when only first mentions stay. *)
LEMMA DedupKeepsFirst ==
    ASSUME NEW S, NEW s \in Seq(S)
    PROVE  \E k \in Nat : \E e \in [1..k -> 1..Len(s)] :
              Dedup(s) = [i \in 1..k |-> s[e[i]]] /\ FirstMentions(s, k, e)
<1>1. PICK I : I = {i \in DOMAIN s : \A j \in 1..(i - 1) : s[j] # s[i]}
  OBVIOUS
<1>2. /\ Len(s) \in Nat /\ I \in SUBSET (1..Len(s)) /\ I \in SUBSET Int
      /\ I \subseteq Nat \ {0}
  BY <1>1
<1>3. IsFiniteSet(I)
  <2>1. IsFiniteSet(1..Len(s))
    BY <1>2, FS_Interval
  <2>2. QED  BY <1>2, <2>1, FS_Subset
<1>4. Dedup(s) = D!PickAt(s, I)
  BY <1>1 DEF Dedup
<1>5. PICK k \in Nat : \E e \in [1..k -> I] :
         /\ D!PickAt(s, I) = [n \in 1..k |-> s[e[n]]]
         /\ \A m, n \in 1..k : m < n => e[m] < e[n]
         /\ \A x \in I : \E n \in 1..k : e[n] = x
         /\ \A n \in 1..k : n <= e[n]
  BY <1>2, <1>3, PickedAt
<1>6. PICK e \in [1..k -> I] :
         /\ D!PickAt(s, I) = [n \in 1..k |-> s[e[n]]]
         /\ \A m, n \in 1..k : m < n => e[m] < e[n]
         /\ \A x \in I : \E n \in 1..k : e[n] = x
         /\ \A n \in 1..k : n <= e[n]
  BY <1>5
<1>7. \A i \in 1..k : e[i] \in 1..Len(s) /\ \A j \in 1..(e[i] - 1) : s[j] # s[e[i]]
  <2>1. \A i \in 1..k : e[i] \in I
    OBVIOUS
  <2>2. QED  BY <1>1, <1>2, <2>1
<1>8. ASSUME NEW j \in 1..Len(s)  PROVE \E i \in 1..k : s[e[i]] = s[j]
  <2> DEFINE T == {i \in 1..Len(s) : s[i] = s[j]}
  <2>1. T \in SUBSET Nat /\ T # {}
    OBVIOUS
  <2>2. PICK x \in T : \A y \in T : x <= y
    BY <2>1, LeastNat
  <2>3. x \in I
    BY <1>1, <1>2, <2>2
  <2>4. PICK i \in 1..k : e[i] = x
    BY <1>6, <2>3
  <2>5. QED  BY <2>2, <2>4
<1>9. ASSUME NEW i \in 1..k, NEW j \in 1..k, i < j
      PROVE  e[i] < e[j] /\ s[e[i]] # s[e[j]]
  <2>1. e[i] < e[j] /\ e[i] \in 1..Len(s) /\ e[j] \in 1..Len(s)
    BY <1>6, <1>7, <1>9
  <2>2. e[i] \in 1..(e[j] - 1)
    BY <1>2, <2>1
  <2>3. QED  BY <1>7, <2>1, <2>2
<1>10. FirstMentions(s, k, e)
  BY <1>6, <1>7, <1>8, <1>9 DEF FirstMentions
<1>11. e \in [1..k -> 1..Len(s)]
  BY <1>2
<1>12. QED  BY <1>4, <1>6, <1>10, <1>11

(* b[i] is the first of the sequences m that holds entry i of out; out     *)
(* goes by these, and misses nothing.                                      *)
Credited(m, out, k, b) ==
    /\ \A i \in 1..k :
          /\ out[i] \in ToSet(m[b[i]]) /\ i <= 2 * b[i]
          /\ \A h \in 1..Len(m) : out[i] \in ToSet(m[h]) => b[i] <= h
    /\ \A i, j \in 1..k : i < j => out[i] # out[j] /\ b[i] <= b[j]
    /\ \A h \in 1..Len(m) : \A x \in ToSet(m[h]) : \E i \in 1..k : out[i] = x

(* The first mentions in a concatenation of ones and twos. *)
LEMMA CreditFirst ==
    ASSUME NEW S, NEW m \in Seq(Seq(S)), \A h \in 1..Len(m) : Len(m[h]) <= 2,
           NEW out, out = Dedup(FlattenSeq(m))
    PROVE  \E k \in Nat : \E b \in [1..k -> 1..Len(m)] :
              DOMAIN out = 1..k /\ Credited(m, out, k, b)
<1>1. PICK t : t = FlattenSeq(m)
  OBVIOUS
<1>2. t \in Seq(S) /\ \E B \in [1..Len(t) -> 1..Len(m)] : Blocks(m, t, Len(m), B)
  BY <1>1, FlattenBlocks
<1>3. PICK B \in [1..Len(t) -> 1..Len(m)] : Blocks(m, t, Len(m), B)
  BY <1>2
<1>4. PICK k \in Nat : \E e \in [1..k -> 1..Len(t)] :
         Dedup(t) = [i \in 1..k |-> t[e[i]]] /\ FirstMentions(t, k, e)
  BY <1>2, DedupKeepsFirst
<1>5. PICK e \in [1..k -> 1..Len(t)] :
         Dedup(t) = [i \in 1..k |-> t[e[i]]] /\ FirstMentions(t, k, e)
  BY <1>4
<1>6. PICK n \in Nat : n = Len(m)
  OBVIOUS
<1>7. PICK l \in Nat : l = Len(t)
  BY <1>2
<1>8. DOMAIN out = 1..k /\ \A i \in 1..k : out[i] = t[e[i]] /\ e[i] \in 1..l
  BY <1>1, <1>5, <1>7
<1>9. /\ \A p, q \in 1..l : p <= q => B[p] <= B[q]
      /\ \A p \in 1..l : \E i \in DOMAIN m[B[p]] : t[p] = m[B[p]][i]
      /\ \A j \in 1..n : \A i \in DOMAIN m[j] :
            \E p \in 1..l : B[p] = j /\ t[p] = m[j][i]
      /\ \A p \in 1..l : p <= 2 * B[p] /\ B[p] \in 1..n
  BY <1>3, <1>6, <1>7 DEF Blocks
<1>10. /\ \A i, j \in 1..k : i < j => e[i] < e[j] /\ t[e[i]] # t[e[j]]
       /\ \A i \in 1..k : i <= e[i] /\ \A j \in 1..(e[i] - 1) : t[j] # t[e[i]]
       /\ \A j \in 1..l : \E i \in 1..k : t[e[i]] = t[j]
  BY <1>5, <1>7 DEF FirstMentions
<1> DEFINE b == [i \in 1..k |-> B[e[i]]]
<1>11. b \in [1..k -> 1..n] /\ \A i \in 1..k : b[i] = B[e[i]]
  BY <1>8, <1>9
<1> HIDE DEF b
<1>12. ASSUME NEW i \in 1..k
       PROVE  /\ out[i] \in ToSet(m[b[i]]) /\ i <= 2 * b[i]
              /\ \A h \in 1..n : out[i] \in ToSet(m[h]) => b[i] <= h
  <2>1. e[i] \in 1..l /\ i <= e[i] /\ b[i] = B[e[i]] /\ out[i] = t[e[i]]
    BY <1>8, <1>10, <1>11
  <2>2. out[i] \in ToSet(m[b[i]])
    <3>1. PICK x \in DOMAIN m[B[e[i]]] : t[e[i]] = m[B[e[i]]][x]
      BY <1>9, <2>1
    <3>2. QED  BY <2>1, <3>1 DEF ToSet
  <2>3. i <= 2 * b[i]
    <3>1. e[i] <= 2 * B[e[i]] /\ B[e[i]] \in 1..n
      BY <1>9, <2>1
    <3>2. QED  BY <2>1, <3>1
  <2>4. ASSUME NEW h \in 1..n, out[i] \in ToSet(m[h])  PROVE b[i] <= h
    <3>1. PICK x \in DOMAIN m[h] : out[i] = m[h][x]
      BY <2>4 DEF ToSet
    <3>2. PICK p \in 1..l : B[p] = h /\ t[p] = out[i]
      BY <1>9, <3>1
    <3>3. p \notin 1..(e[i] - 1)
      BY <1>10, <2>1, <3>2
    <3>4. e[i] <= p
      BY <2>1, <3>3
    <3>5. B[e[i]] <= B[p]
      BY <1>9, <2>1, <3>4
    <3>6. QED  BY <2>1, <3>2, <3>5
  <2>5. QED  BY <2>2, <2>3, <2>4
<1>13. ASSUME NEW i \in 1..k, NEW j \in 1..k, i < j
       PROVE  out[i] # out[j] /\ b[i] <= b[j]
  <2>1. e[i] < e[j] /\ t[e[i]] # t[e[j]] /\ e[i] \in 1..l /\ e[j] \in 1..l
    BY <1>8, <1>10, <1>13
  <2>2. e[i] <= e[j]
    BY <2>1
  <2>3. QED  BY <1>8, <1>9, <1>11, <2>1, <2>2
<1>14. ASSUME NEW h \in 1..n, NEW x \in ToSet(m[h])
       PROVE  \E i \in 1..k : out[i] = x
  <2>1. PICK y \in DOMAIN m[h] : x = m[h][y]
    BY DEF ToSet
  <2>2. PICK p \in 1..l : t[p] = x
    BY <1>9, <2>1
  <2>3. PICK i \in 1..k : t[e[i]] = t[p]
    BY <1>10
  <2>4. QED  BY <1>8, <2>2, <2>3
<1>15. Credited(m, out, k, b)
  BY <1>6, <1>12, <1>13, <1>14 DEF Credited
<1>16. QED  BY <1>6, <1>8, <1>11, <1>15

(* What Search returns are ids, and each stands for one or two turns. *)
LEMMA ResultMembers ==
    ASSUME EvalInv, CorpusInv, stage = "done",
           NEW m, m = [i \in DOMAIN Results |-> Members(Results[i], expand)]
    PROVE  /\ m \in Seq(Seq(Seq(Int))) /\ Len(m) = Len(selected)
           /\ DOMAIN Results = 1..Len(m) /\ Len(m) \in Nat
           /\ \A h \in 1..Len(m) : Len(m[h]) <= 2 /\ m[h] = Members(Results[h], expand)
<1>1. /\ pc = "ask" /\ ci <= Len(convs) /\ Ranking(ranked) /\ SelectedOK
  BY DEF EvalInv, SearchInv
<1>2. PICK n \in Nat : n = Len(selected) /\ DOMAIN selected = 1..n
  BY <1>1 DEF SelectedOK
<1>3. DOMAIN Results = 1..n /\ \A i \in 1..n : Results[i] \in Seq(Int)
  <2>1. \A i \in 1..n : selected[i] \in DOMAIN ranked
    BY <1>1, <1>2 DEF SelectedOK
  <2>2. \A i \in DOMAIN ranked : ranked[i].id \in Seq(Int)
    <3>1. \A i \in DOMAIN ranked : ranked[i] \in ScoredId
      BY <1>1 DEF Ranking
    <3>2. QED  BY <3>1 DEF ScoredId
  <2>3. QED  BY <1>2, <2>1, <2>2 DEF Results
<1>4. PICK c, x : c = convs[ci] /\ x = expand
  OBVIOUS
<1>5. ConversationOK(c) /\ x = D!expandOf(c)
  BY <1>1, <1>4, CurrentConversation DEF CorpusInv
<1>6. \A id \in DOMAIN x : x[id] \in Seq(Seq(Int)) /\ Len(x[id]) = 2
  BY <1>5, ExpandedRounds
<1>7. ASSUME NEW id \in Seq(Int)
      PROVE  Members(id, x) \in Seq(Seq(Int)) /\ Len(Members(id, x)) <= 2
  <2>1. CASE id \in DOMAIN x
    <3>1. Members(id, x) = x[id]
      BY <2>1 DEF Members
    <3>2. x[id] \in Seq(Seq(Int)) /\ Len(x[id]) = 2
      BY <1>6, <2>1
    <3>3. QED  BY <3>1, <3>2
  <2>2. CASE id \notin DOMAIN x
    BY <2>2 DEF Members
  <2>3. QED  BY <2>1, <2>2
<1>8. m \in [1..n -> Seq(Seq(Int))] /\ \A h \in 1..n :
         m[h] = Members(Results[h], expand) /\ Len(m[h]) <= 2
  BY <1>3, <1>4, <1>7
<1>9. m \in Seq(Seq(Seq(Int))) /\ Len(m) = n
  BY <1>8, FunctionIsSeq
<1>10. QED  BY <1>2, <1>3, <1>8, <1>9

(* Credit of every ranking, of any rounds: each turn counts once and at    *)
(* the rank of the best row that holds it, a row at rank j puts its turns  *)
(* among the first 2j, and nothing retrieved is lost.                      *)
THEOREM CreditIsAtBestRank == ESpec => []CreditAtBestRank
<1>1. EvalInv /\ CorpusInv => CreditAtBestRank
  <2> SUFFICES ASSUME EvalInv, CorpusInv, stage = "done"  PROVE CreditAtBestRank
    BY DEF CreditAtBestRank
  <2>1. PICK m : m = [i \in DOMAIN Results |-> Members(Results[i], expand)]
    OBVIOUS
  <2>2. /\ m \in Seq(Seq(Seq(Int))) /\ DOMAIN Results = 1..Len(m) /\ Len(m) \in Nat
        /\ \A h \in 1..Len(m) : Len(m[h]) <= 2 /\ m[h] = Members(Results[h], expand)
    BY <2>1, ResultMembers
  <2>3. PICK out : out = expandRetrieved(Results, expand)
    OBVIOUS
  <2>4. out = Dedup(FlattenSeq(m))
    BY <2>1, <2>3 DEF expandRetrieved
  <2>5. PICK k \in Nat : \E b \in [1..k -> 1..Len(m)] :
           DOMAIN out = 1..k /\ Credited(m, out, k, b)
    BY <2>2, <2>4, CreditFirst
  <2>6. PICK b \in [1..k -> 1..Len(m)] : DOMAIN out = 1..k /\ Credited(m, out, k, b)
    BY <2>5
  <2> DEFINE Holders(t) ==
               {j \in DOMAIN Results : t \in ToSet(Members(Results[j], expand))}
             BestOf(t) == CHOOSE j \in Holders(t) : \A h \in Holders(t) : j <= h
  <2>7. ASSUME NEW i \in 1..k  PROVE BestOf(out[i]) = b[i]
    <3>1. /\ b[i] \in 1..Len(m) /\ out[i] \in ToSet(m[b[i]])
          /\ \A h \in 1..Len(m) : out[i] \in ToSet(m[h]) => b[i] <= h
      BY <2>6 DEF Credited
    <3>2. b[i] \in Holders(out[i]) /\ \A h \in Holders(out[i]) : b[i] <= h
      BY <2>2, <3>1
    <3>3. Holders(out[i]) \in SUBSET Nat
      BY <2>2
    <3> HIDE DEF Holders
    <3>4. /\ BestOf(out[i]) \in Holders(out[i])
          /\ \A h \in Holders(out[i]) : BestOf(out[i]) <= h
      BY <3>2
    <3>5. QED  BY <3>2, <3>3, <3>4
  <2> HIDE DEF BestOf
  <2>8. \A i, j \in DOMAIN out : i < j =>
           out[i] # out[j] /\ BestOf(out[i]) <= BestOf(out[j])
    BY <2>6, <2>7 DEF Credited
  <2>9. \A i \in DOMAIN out : i <= 2 * BestOf(out[i])
    BY <2>6, <2>7 DEF Credited
  <2>10. ToSet(out) = UNION {ToSet(Members(id, expand)) : id \in ToSet(Results)}
    <3>1. ASSUME NEW t \in ToSet(out)
          PROVE  \E h \in 1..Len(m) : t \in ToSet(m[h])
      <4>1. PICK i \in 1..k : t = out[i]
        BY <2>6 DEF ToSet
      <4>2. b[i] \in 1..Len(m) /\ t \in ToSet(m[b[i]])
        BY <2>6, <4>1 DEF Credited
      <4>3. QED  BY <4>2
    <3>2. ASSUME NEW h \in 1..Len(m), NEW t \in ToSet(m[h])  PROVE t \in ToSet(out)
      <4>1. PICK i \in 1..k : out[i] = t
        BY <2>6 DEF Credited
      <4>2. QED  BY <2>6, <4>1 DEF ToSet
    <3>3. \A h \in 1..Len(m) : Results[h] \in ToSet(Results)
      BY <2>2 DEF ToSet
    <3>4. \A id \in ToSet(Results) : \E h \in 1..Len(m) : id = Results[h]
      BY <2>2 DEF ToSet
    <3>5. \A t \in ToSet(out) : \E id \in ToSet(Results) :
             t \in ToSet(Members(id, expand))
      BY <2>2, <3>1, <3>3
    <3>6. \A id \in ToSet(Results) : \A t \in ToSet(Members(id, expand)) :
             t \in ToSet(out)
      BY <2>2, <3>2, <3>4
    <3>7. QED  BY <3>5, <3>6
  <2>11. QED  BY <2>3, <2>8, <2>9, <2>10 DEF CreditAtBestRank, BestOf
<1>2. QED  BY <1>1, EvalInvariance, CorpusInvariance, PTL

-----------------------------------------------------------------------------
(* Metrics.                                                                *)

(* A result of a question: finitely many turns of evidence, and a list. *)
ResultOK(r) ==
    /\ IsFiniteSet(r.gold)
    /\ Len(r.retrieved) \in Nat /\ DOMAIN r.retrieved = 1..Len(r.retrieved)

(* A part of c, as a share of s: at most s, and s only for the whole. *)
LEMMA ShareOfWhole ==
    ASSUME NEW s \in Nat, s > 0, NEW c \in Nat, c > 0, NEW h \in 0..c
    PROVE  /\ (s * h) \div c \in 0..s
           /\ (s * h) \div c = s => h = c
           /\ h = 0 => (s * h) \div c = 0
<1>1. PICK p \in Nat : p = s * h
  OBVIOUS
<1>2. PICK q \in Int : q = p \div c
  OBVIOUS
<1>3. q * c <= p /\ p < (q + 1) * c /\ q >= 0
  BY <1>2
<1>4. p <= s * c
  BY <1>1
<1>5. q <= s
  <2>1. q * c <= s * c
    BY <1>3, <1>4
  <2>2. QED  BY <2>1
<1>6. q = s => h = c
  <2>1. ASSUME q = s  PROVE h = c
    <3>1. s * c <= s * h
      BY <1>1, <1>3, <2>1
    <3>2. h >= c
      BY <3>1
    <3>3. QED  BY <3>2
  <2>2. QED  BY <2>1
<1>7. h = 0 => q = 0
  <2>1. ASSUME h = 0  PROVE q = 0
    <3>1. p = 0
      BY <1>1, <2>1
    <3>2. QED  BY <1>2, <3>1
  <2>2. QED  BY <2>1
<1>8. QED  BY <1>1, <1>2, <1>3, <1>5, <1>6, <1>7

(* An earlier rank is worth no less, and the cutoff's worth times the      *)
(* cutoff is the scale.                                                    *)
LEMMA WorthOfRank ==
    ASSUME NEW s \in Nat, NEW k \in Nat, k > 0, s % k = 0, NEW i \in 1..k
    PROVE  s \div i \in Nat /\ (s \div i) * k >= s
<1>1. PICK c \in Int : c = s \div k
  OBVIOUS
<1>2. s = c * k /\ c \in Nat
  BY <1>1
<1>3. PICK q \in Int : q = s \div i
  OBVIOUS
<1>4. q * i <= s /\ s < (q + 1) * i /\ q >= 0
  BY <1>3
<1>5. q >= c
  <2>1. SUFFICES ASSUME q + 1 <= c  PROVE FALSE
    BY <1>2, <1>3
  <2>2. (q + 1) * i <= c * i
    BY <1>2, <1>3, <2>1
  <2>3. c * i <= c * k
    BY <1>2
  <2>4. QED  BY <1>2, <1>3, <1>4, <2>2, <2>3
<1>6. q * k >= c * k
  BY <1>2, <1>3, <1>5
<1>7. QED  BY <1>2, <1>3, <1>4, <1>6

(* The evidence found is evidence; up to a later place, more of it is. *)
LEMMA HitsGrow ==
    ASSUME NEW r, NEW k \in Int, NEW l \in Int, k <= l, ResultOK(r)
    PROVE  /\ Hits(r, k) \subseteq r.gold /\ Hits(r, k) \subseteq Hits(r, l)
           /\ Hits(r, k) \subseteq Hits(r, Len(r.retrieved))
  BY DEF Hits, ResultOK

(* Recall is a share of the evidence, and full only for all of it. *)
LEMMA RecallRange ==
    ASSUME NEW r, ResultOK(r), r.gold # {}
    PROVE  /\ RecallAtK(r, Cut) \in 0..Scale
           /\ RecallAtK(r, Cut) = Scale => Hits(r, Cut) = r.gold
           /\ Hits(r, Cut) = {} => RecallAtK(r, Cut) = 0
<1>1. PICK H, G : H = Hits(r, Cut) /\ G = r.gold
  OBVIOUS
<1>2. IsFiniteSet(G) /\ H \in SUBSET G /\ G # {}
  BY <1>1 DEF ResultOK, Hits
<1>3. /\ IsFiniteSet(H) /\ Cardinality(H) <= Cardinality(G)
      /\ Cardinality(G) = Cardinality(H) => G = H
  BY <1>2, FS_Subset
<1>4. Cardinality(H) \in Nat /\ Cardinality(G) \in Nat
  BY <1>2, <1>3, FS_CardinalityType
<1>5. Cardinality(G) # 0 /\ (H = {} => Cardinality(H) = 0)
  BY <1>2, FS_EmptySet
<1>6. PICK h, g : h = Cardinality(H) /\ g = Cardinality(G)
  OBVIOUS
<1>7. h \in 0..g /\ g \in Nat /\ g > 0 /\ (h = g => H = G) /\ (H = {} => h = 0)
  BY <1>3, <1>4, <1>5, <1>6
<1>8. RecallAtK(r, Cut) = (Scale * h) \div g
  BY <1>1, <1>6 DEF RecallAtK
<1>9. Scale \in Nat /\ Scale > 0
  BY DEF Scale
<1>10. /\ (Scale * h) \div g \in 0..Scale
       /\ (Scale * h) \div g = Scale => h = g
       /\ h = 0 => (Scale * h) \div g = 0
  BY <1>7, <1>9, ShareOfWhole
<1>11. QED  BY <1>1, <1>7, <1>8, <1>10

(* The reciprocal rank of the first evidence found; it is at least the one *)
(* of the cutoff if recall counts anything.                                *)
LEMMA MRRRange ==
    ASSUME NEW r, ResultOK(r), r.gold # {}
    PROVE  MRR(r) \in 0..Scale /\ RecallAtK(r, Cut) <= MRR(r) * Cut
<1>1. PICK n \in Nat : n = Len(r.retrieved) /\ DOMAIN r.retrieved = 1..n
  BY DEF ResultOK
<1>2. /\ Cut \in Nat /\ Cut > 0 /\ Scale % Cut = 0
      /\ Scale \in Nat /\ Scale > 0 /\ RecallAtK(r, Cut) \in 0..Scale
  <2>1. Scale \in Nat /\ Scale > 0
    BY DEF Scale
  <2>2. Cut \in Nat /\ Cut > 0 /\ Scale % Cut = 0
    BY EvalAssumption
  <2>3. QED  BY <2>1, <2>2, RecallRange
<1>3. CASE Hits(r, n) = {}
  <2>1. MRR(r) = 0
    BY <1>1, <1>3 DEF MRR
  <2>2. Hits(r, Cut) = {}
    BY <1>1, <1>3 DEF Hits
  <2>3. RecallAtK(r, Cut) = 0
    BY <2>2, RecallRange
  <2>4. QED  BY <1>2, <2>1, <2>3
<1>4. CASE Hits(r, n) # {}
  <2> DEFINE T == {i \in 1..n : r.retrieved[i] \in r.gold}
             First(i) == r.retrieved[i] \in r.gold /\ Hits(r, i - 1) = {}
  <2>1. T \in SUBSET Nat /\ T # {}
    BY <1>1, <1>4 DEF Hits
  <2>2. PICK x \in T : \A y \in T : x <= y
    BY <2>1, LeastNat
  <2>3. x \in 1..n /\ First(x)
    <3>1. ASSUME NEW id \in Hits(r, x - 1)  PROVE FALSE
      <4>1. PICK i \in 1..n : i <= x - 1 /\ r.retrieved[i] = id /\ id \in r.gold
        BY <1>1 DEF Hits
      <4>2. QED  BY <2>2, <4>1
    <3>2. QED  BY <2>2, <3>1
  <2>4. PICK i : i = CHOOSE j \in 1..n : First(j)
    OBVIOUS
  <2>5. i \in 1..n /\ First(i)
    BY <2>3, <2>4
  <2>6. MRR(r) = Scale \div i
    BY <1>1, <1>4, <2>4 DEF MRR
  <2>7. MRR(r) \in 0..Scale
    <3>1. (Scale * 1) \div i \in 0..Scale
      BY <1>2, <2>5, ShareOfWhole
    <3>2. QED  BY <1>2, <2>6, <3>1
  <2>8. CASE i <= Cut
    <3>1. i \in 1..Cut
      BY <1>2, <2>5, <2>8
    <3>2. (Scale \div i) * Cut >= Scale
      BY <1>2, <3>1, WorthOfRank
    <3>3. PICK m \in Int : m = MRR(r) * Cut
      BY <1>2, <2>7
    <3>4. QED  BY <1>2, <2>6, <2>7, <3>2, <3>3
  <2>9. CASE ~(i <= Cut)
    <3>1. Cut <= i - 1 /\ i - 1 \in Int /\ Cut \in Int
      BY <1>2, <2>5, <2>9
    <3>2. Hits(r, Cut) \subseteq Hits(r, i - 1)
      BY <3>1, HitsGrow
    <3>3. RecallAtK(r, Cut) = 0
      BY <2>5, <3>2, RecallRange
    <3>4. PICK m \in Int : m = MRR(r)
      BY <1>2, <2>7
    <3>5. m * Cut \in Nat
      BY <1>2, <2>7, <3>4
    <3>6. PICK p \in Nat : p = MRR(r) * Cut
      BY <3>4, <3>5
    <3>7. RecallAtK(r, Cut) <= p
      BY <3>3
    <3>8. QED  BY <2>7, <3>6, <3>7
  <2>10. QED  BY <2>7, <2>8, <2>9
<1>5. QED  BY <1>3, <1>4

(* SumOver is the sum. *)
LEMMA SumOverSums ==
    ASSUME NEW n \in Nat, NEW v \in [1..n -> Int]
    PROVE  \E f \in [0..n -> Int] : IsSum(n, v, f) /\ SumOver(v) = f[n]
<1>1. Len(v) = n /\ \A i \in 1..n : v[i] \in Int
  BY FunctionIsSeq
<1> DEFINE F(f) == [i \in 0..Len(v) |-> IF i = 0 THEN 0 ELSE f[i - 1] + v[i]]
           G == [i \in 1..n |-> [x \in Int |-> x + v[i]]]
<1>2. G \in [1..n -> [Int -> Int]]
  BY <1>1
<1>3. PICK g \in [0..n -> Int] : IsRecursion(n, 0, G, g)
  <2>1. PICK H, T : H = G /\ T = Int
    OBVIOUS
  <2>2. H \in [1..n -> [T -> T]] /\ 0 \in T
    BY <1>2, <2>1
  <2>3. PICK b \in T : b = 0
    BY <2>2
  <2>4. PICK g \in [0..n -> T] : IsRecursion(n, b, H, g)
    BY <2>2, RecursionExists
  <2>5. QED  BY <2>1, <2>3, <2>4
<1>4. ASSUME NEW i \in 0..n
      PROVE  g[i] = IF i = 0 THEN 0 ELSE g[i - 1] + v[i]
  <2>1. CASE i = 0
    BY <1>3, <2>1 DEF IsRecursion
  <2>2. CASE i # 0
    <3>1. i \in 1..n /\ i - 1 \in 0..n
      BY <2>2
    <3>2. g[i - 1] \in Int /\ g[i] = G[i][g[i - 1]]
      BY <1>3, <3>1 DEF IsRecursion
    <3>3. QED  BY <2>2, <3>1, <3>2
  <2>3. QED  BY <2>1, <2>2
<1>5. g = F(g)
  BY <1>1, <1>4
<1>6. PICK f : f = (CHOOSE x : x = F(x))
  OBVIOUS
<1>7. f = F(f)
  BY <1>5, <1>6
<1>8. SumOver(v) = f[n]
  BY <1>1, <1>6 DEF SumOver
<1>9. /\ f[0] = 0 /\ f = [i \in 0..n |-> f[i]]
      /\ \A i \in 1..n : f[i] = f[i - 1] + v[i]
  <2>1. f = [i \in 0..n |-> IF i = 0 THEN 0 ELSE f[i - 1] + v[i]]
    BY <1>1, <1>7
  <2>2. \A i \in 0..n : f[i] = IF i = 0 THEN 0 ELSE f[i - 1] + v[i]
    BY <2>1
  <2>3. f = [i \in 0..n |-> f[i]]
    BY <2>1
  <2>4. 0 \in 0..n /\ \A i \in 1..n : i \in 0..n /\ i # 0
    OBVIOUS
  <2>5. f[0] = 0
    BY <2>2, <2>4
  <2>6. \A i \in 1..n : f[i] = f[i - 1] + v[i]
    BY <2>2, <2>4
  <2>7. QED  BY <2>3, <2>5, <2>6
<1> HIDE DEF F, G
<1> DEFINE Good == {i \in 0..n : f[i] \in Int}
<1>10. 0 \in Good
  BY <1>9
<1>11. ASSUME NEW i \in 0..(n - 1), i \in Good  PROVE i + 1 \in Good
  <2>1. i + 1 \in 1..n /\ (i + 1) - 1 = i /\ i + 1 \in 0..n
    OBVIOUS
  <2>2. f[i + 1] = f[(i + 1) - 1] + v[i + 1]
    BY <1>9, <2>1, Zenon
  <2>3. f[i] \in Int /\ v[i + 1] \in Int
    BY <1>1, <1>11, <2>1
  <2>4. QED  BY <2>1, <2>2, <2>3
<1> HIDE DEF Good
<1>12. \A i \in 0..n : i \in Good
  BY <1>10, <1>11, UpTo
<1>13. f \in [0..n -> Int]
  BY <1>9, <1>12 DEF Good
<1>14. QED  BY <1>8, <1>9, <1>13 DEF IsSum

(* The places at which h has the value g. *)
PlacesOf(h, k, g) == {i \in 1..k : h[i] = g}

(* by gives the number of places of every value of h. *)
CountsOf(h, k, by) ==
    /\ DOMAIN by = {h[i] : i \in 1..k}
    /\ \A g \in DOMAIN by : by[g] = Cardinality(PlacesOf(h, k, g))

(* Counted group by group, k members are k. *)
LEMMA GroupsSplit ==
    ASSUME NEW k \in Nat, NEW h, NEW by, CountsOf(h, k, by)
    PROVE  Cardinality(UNION {{g} \X (1..by[g]) : g \in DOMAIN by}) = k
<1>0. /\ DOMAIN by = {h[i] : i \in 1..k}
      /\ \A g \in DOMAIN by : by[g] = Cardinality(PlacesOf(h, k, g))
  BY DEF CountsOf
<1>1. PICK U : U = UNION {{g} \X (1..by[g]) : g \in DOMAIN by}
  OBVIOUS
<1>2. \A u : u \in U <=> \E g \in DOMAIN by : \E n \in 1..by[g] : u = <<g, n>>
  BY <1>1
<1>3. IsFiniteSet(1..k) /\ Cardinality(1..k) = k
  BY FS_Interval
<1>4. ASSUME NEW g  PROVE IsFiniteSet(PlacesOf(h, k, g))
  <2>1. PlacesOf(h, k, g) \in SUBSET (1..k)
    BY DEF PlacesOf
  <2>2. QED  BY <1>3, <2>1, FS_Subset
<1>5. \A g : PlacesOf(h, k, g) \in SUBSET Int
  BY DEF PlacesOf
<1>6. \A i \in 1..k : i \in PlacesOf(h, k, h[i]) /\ h[i] \in DOMAIN by
  BY <1>0 DEF PlacesOf
<1> DEFINE no(i) == Below(PlacesOf(h, k, h[i]), i)
           f == [i \in 1..k |-> <<h[i], no(i) + 1>>]
<1>7. ASSUME NEW i \in 1..k
      PROVE  /\ no(i) + 1 \in 1..by[h[i]] /\ no(i) \in Int
             /\ \A j \in 1..k : h[j] = h[i] /\ i < j => no(i) < no(j)
  <2>1. PICK I : I = PlacesOf(h, k, h[i])
    OBVIOUS
  <2>2. I \in SUBSET Int /\ IsFiniteSet(I) /\ i \in I
    BY <1>4, <1>5, <1>6, <2>1
  <2>3. /\ Below(I, i) \in 0..(Cardinality(I) - 1)
        /\ \A z \in I : i < z => Below(I, i) < Below(I, z)
    BY <2>2, BelowCounts
  <2>4. Cardinality(I) \in Nat
    BY <2>2, FS_CardinalityType
  <2>5. by[h[i]] = Cardinality(I)
    BY <1>0, <1>6, <2>1
  <2>6. no(i) + 1 \in 1..by[h[i]] /\ no(i) \in Int
    BY <2>1, <2>3, <2>4, <2>5
  <2>7. ASSUME NEW j \in 1..k, h[j] = h[i], i < j  PROVE no(i) < no(j)
    <3>1. j \in I /\ PlacesOf(h, k, h[j]) = I
      BY <2>1, <2>7 DEF PlacesOf
    <3>2. QED  BY <2>1, <2>3, <2>7, <3>1
  <2>8. QED  BY <2>6, <2>7
<1>8. \A g \in DOMAIN by : \A n \in 1..by[g] :
         \E i \in 1..k : h[i] = g /\ no(i) = n - 1
  <2> SUFFICES ASSUME NEW g \in DOMAIN by, NEW n \in 1..by[g]
               PROVE  \E i \in 1..k : h[i] = g /\ no(i) = n - 1
    OBVIOUS
  <2>1. PICK I : I = PlacesOf(h, k, g)
    OBVIOUS
  <2>2. I \in SUBSET Int /\ IsFiniteSet(I) /\ n \in 1..Cardinality(I)
    BY <1>0, <1>4, <1>5, <2>1
  <2>3. PICK i \in I : Below(I, i) = n - 1
    BY <2>2, EveryNumberTaken
  <2>4. i \in 1..k /\ h[i] = g
    BY <2>1 DEF PlacesOf
  <2>5. QED  BY <2>1, <2>3, <2>4
<1> HIDE DEF no
<1>9. \A i \in 1..k : f[i] = <<h[i], no(i) + 1>>
  OBVIOUS
<1>10. f \in [1..k -> U]
  BY <1>2, <1>6, <1>7
<1> HIDE DEF f
<1>11. \A i, j \in 1..k : f[i] = f[j] => i = j
  <2> SUFFICES ASSUME NEW i \in 1..k, NEW j \in 1..k, f[i] = f[j]  PROVE i = j
    OBVIOUS
  <2>1. h[i] = h[j] /\ no(i) + 1 = no(j) + 1
    BY <1>9
  <2>2. no(i) = no(j) /\ no(i) \in Int /\ no(j) \in Int
    BY <1>7, <2>1
  <2>3. ~(i < j) /\ ~(j < i)
    BY <1>7, <2>1, <2>2
  <2>4. QED  BY <2>3
<1>12. \A u \in U : \E i \in 1..k : f[i] = u
  <2> SUFFICES ASSUME NEW u \in U  PROVE \E i \in 1..k : f[i] = u
    OBVIOUS
  <2>1. PICK g \in DOMAIN by : \E n \in 1..by[g] : u = <<g, n>>
    BY <1>2
  <2>2. PICK n \in 1..by[g] : u = <<g, n>>
    BY <2>1
  <2>3. PICK i \in 1..k : h[i] = g /\ no(i) = n - 1
    BY <1>8
  <2>4. no(i) + 1 = n
    BY <2>3
  <2>5. QED  BY <1>9, <2>2, <2>3, <2>4
<1>13. f \in Bijection(1..k, U)
  BY <1>10, <1>11, <1>12 DEF Bijection, Injection, IsInjective, Surjection
<1>14. Cardinality(U) = Cardinality(1..k)
  BY <1>3, <1>13, FS_Bijection DEF ExistsBijection
<1>15. QED  BY <1>1, <1>3, <1>14

(* k results with evidence: each with what metrics need, and all there are *)
(* in rs.                                                                  *)
ScoredOf(rs, sc, k) ==
    /\ sc = [n \in 1..k |-> sc[n]] /\ k <= Len(rs)
    /\ \A n \in 1..k : ResultOK(sc[n]) /\ sc[n].gold # {}
    /\ \A i \in 1..Len(rs) : rs[i].gold # {} => \E n \in 1..k : sc[n] = rs[i]

(* What is scored. *)
LEMMA ScoredResults ==
    ASSUME NEW rs, D!IsSeq(rs), \A i \in 1..Len(rs) : ResultOK(rs[i]),
           NEW sc, sc = Scored(rs)
    PROVE  \E k \in Nat : ScoredOf(rs, sc, k)
<1>1. PICK l \in Nat : l = Len(rs) /\ DOMAIN rs = 1..l
  BY SeqFacts
<1>2. PICK I : I = {i \in DOMAIN rs : rs[i].gold # {}}
  OBVIOUS
<1>3. I \in SUBSET (1..l) /\ I \in SUBSET Int
  BY <1>1, <1>2
<1>4. IsFiniteSet(1..l) /\ Cardinality(1..l) = l
  BY FS_Interval
<1>5. IsFiniteSet(I) /\ Cardinality(I) <= Cardinality(1..l)
  BY <1>3, <1>4, FS_Subset
<1>6. sc = D!PickAt(rs, I)
  BY <1>2 DEF Scored
<1>7. PICK k \in Nat : \E e \in [1..k -> I] :
         /\ k = Cardinality(I) /\ D!PickAt(rs, I) = [n \in 1..k |-> rs[e[n]]]
         /\ \A x \in I : \E n \in 1..k : e[n] = x
  BY <1>3, <1>5, PickedAt
<1>8. PICK e \in [1..k -> I] :
         /\ k = Cardinality(I) /\ D!PickAt(rs, I) = [n \in 1..k |-> rs[e[n]]]
         /\ \A x \in I : \E n \in 1..k : e[n] = x
  BY <1>7
<1>9. sc = [n \in 1..k |-> sc[n]] /\ \A n \in 1..k : sc[n] = rs[e[n]] /\ e[n] \in I
  BY <1>6, <1>8
<1>10. k <= Len(rs)
  BY <1>1, <1>4, <1>5, <1>8
<1>11. \A n \in 1..k : ResultOK(sc[n]) /\ sc[n].gold # {}
  BY <1>1, <1>2, <1>3, <1>9
<1>12. ASSUME NEW i \in 1..Len(rs), rs[i].gold # {}  PROVE \E n \in 1..k : sc[n] = rs[i]
  <2>1. i \in I
    BY <1>1, <1>2, <1>12
  <2>2. QED  BY <1>8, <1>9, <2>1
<1>13. QED  BY <1>9, <1>10, <1>11, <1>12 DEF ScoredOf

(* What the report of a list of results says. *)
ReportOK(p, rs) ==
    /\ p.n \in Nat /\ p.n + p.skipped = Len(rs)
    /\ p.n = Cardinality(UNION {{g} \X (1..p.byGroup[g]) : g \in DOMAIN p.byGroup})
    /\ p.recall \in Int /\ p.recall <= p.n * Scale /\ p.mrr <= p.n * Scale
    /\ p.mrr * Cut >= p.recall
    /\ p.recall >= p.n * Scale =>
          \A i \in 1..Len(rs) : Hits(rs[i], Cut) = rs[i].gold

(* Evaluate counts every result once and adds up the metrics. *)
LEMMA EvaluateReports ==
    ASSUME NEW rs, D!IsSeq(rs), \A i \in 1..Len(rs) : ResultOK(rs[i])
    PROVE  ReportOK(Evaluate(rs), rs)
<1>1. PICK p, sc : p = Evaluate(rs) /\ sc = Scored(rs)
  OBVIOUS
<1>2. PICK k \in Nat : ScoredOf(rs, sc, k)
  BY <1>1, ScoredResults
<1>3. Len(sc) = k /\ DOMAIN sc = 1..k
  BY <1>2, FunctionSeq DEF ScoredOf
<1> DEFINE h == [i \in 1..k |-> sc[i].group]
           v == [i \in 1..k |-> RecallAtK(sc[i], Cut)]
           w == [i \in 1..k |-> MRR(sc[i])]
<1>4. /\ p.n = k /\ p.skipped = Len(rs) - k
      /\ p.recall = SumOver(v) /\ p.mrr = SumOver(w)
  BY <1>1, <1>3 DEF Evaluate
<1>5. /\ DOMAIN p.byGroup = {h[i] : i \in 1..k}
      /\ \A g \in DOMAIN p.byGroup : p.byGroup[g] = Cardinality(PlacesOf(h, k, g))
  <2>1. PICK G : G = {r.group : r \in ToSet(sc)}
    OBVIOUS
  <2>2. p.byGroup = [g \in G |-> Cardinality({i \in 1..k : sc[i].group = g})]
    BY <1>1, <1>3, <2>1 DEF Evaluate
  <2>3. ToSet(sc) = {sc[i] : i \in 1..k}
    BY <1>3 DEF ToSet
  <2>4. G = {h[i] : i \in 1..k}
    BY <2>1, <2>3
  <2>5. \A g : PlacesOf(h, k, g) = {i \in 1..k : sc[i].group = g}
    BY DEF PlacesOf
  <2>6. QED  BY <2>2, <2>4, <2>5
<1>6. \A i \in 1..k : ResultOK(sc[i]) /\ sc[i].gold # {}
  BY <1>2 DEF ScoredOf
<1>7. ASSUME NEW i \in 1..k
      PROVE  /\ v[i] \in 0..Scale /\ w[i] \in 0..Scale /\ v[i] <= w[i] * Cut
             /\ v[i] = Scale => Hits(sc[i], Cut) = sc[i].gold
  BY <1>6, RecallRange, MRRRange
<1>8. Scale \in Nat /\ Cut \in Int
  BY EvalAssumption DEF Scale
<1>9. v \in [1..k -> Int] /\ w \in [1..k -> Int]
  BY <1>7, <1>8
<1>10. \A i \in 1..k : v[i] <= Scale /\ w[i] <= Scale
  BY <1>7, <1>8
<1> HIDE DEF h, v, w
<1>11. PICK f \in [0..k -> Int] : IsSum(k, v, f) /\ SumOver(v) = f[k]
  BY <1>9, SumOverSums
<1>12. PICK g \in [0..k -> Int] : IsSum(k, w, g) /\ SumOver(w) = g[k]
  BY <1>9, SumOverSums
<1>13. f[k] <= k * Scale /\ g[k] <= k * Scale
  <2>1. PICK c \in Int : c = Scale
    BY <1>8
  <2>2. \A i \in 1..k : v[i] <= c
    BY <1>10, <2>1
  <2>3. \A i \in 0..k : f[i] <= i * c
    BY <1>9, <1>11, <2>2, SumAtMost
  <2>4. \A i \in 1..k : w[i] <= c
    BY <1>10, <2>1
  <2>5. \A i \in 0..k : g[i] <= i * c
    BY <1>9, <1>12, <2>4, SumAtMost
  <2>6. k \in 0..k
    OBVIOUS
  <2>7. QED  BY <2>1, <2>3, <2>5, <2>6
<1>14. f[k] <= g[k] * Cut
  BY <1>7, <1>8, <1>9, <1>11, <1>12, SumCompare
<1>15. ASSUME f[k] >= k * Scale, NEW i \in 1..Len(rs)
       PROVE  Hits(rs[i], Cut) = rs[i].gold
  <2>1. CASE rs[i].gold = {}
    BY <2>1 DEF Hits
  <2>2. CASE rs[i].gold # {}
    <3>1. PICK n \in 1..k : sc[n] = rs[i]
      BY <1>2, <2>2 DEF ScoredOf
    <3>2. PICK c \in Int : c = Scale
      BY <1>8
    <3>3. \A j \in 1..k : v[j] <= c
      BY <1>10, <3>2
    <3>4. f[k] >= k * c
      BY <1>15, <3>2
    <3>5. v \in [1..k -> Int] /\ IsSum(k, v, f)
      BY <1>9, <1>11
    <3>6. \A j \in 1..k : v[j] = c
      BY <3>3, <3>4, <3>5, SumFull, Zenon
    <3>7. QED  BY <1>7, <3>1, <3>2, <3>6
  <2>3. QED  BY <2>1, <2>2
<1>16. p.n = Cardinality(UNION {{x} \X (1..p.byGroup[x]) : x \in DOMAIN p.byGroup})
  <2>1. PICK by, gs : by = p.byGroup /\ gs = h
    OBVIOUS
  <2>2. Cardinality(UNION {{x} \X (1..by[x]) : x \in DOMAIN by}) = k
    <3>1. CountsOf(gs, k, by)
      BY <1>5, <2>1 DEF CountsOf
    <3>2. QED  BY <3>1, GroupsSplit
  <2>3. QED  BY <1>4, <2>1, <2>2
<1>17. k + (Len(rs) - k) = Len(rs)
  BY SeqFacts
<1>18. /\ f[k] \in Int /\ p.recall = f[k] /\ p.mrr = g[k]
  BY <1>4, <1>11, <1>12
<1>19. ReportOK(p, rs)
  BY <1>4, <1>13, <1>14, <1>15, <1>16, <1>17, <1>18 DEF ReportOK
<1>20. QED  BY <1>1, <1>19

-----------------------------------------------------------------------------
(* Accounting.                                                             *)

(* The questions of all conversations, and those that come before question *)
(* q of conversation c.                                                    *)
Pairs(cs) == UNION {{c} \X (DOMAIN cs[c].questions) : c \in DOMAIN cs}
AskedUntil(cs, c, q) == {p \in Pairs(cs) : p[1] < c \/ (p[1] = c /\ p[2] < q)}

Searching == IF stage = "idle" THEN 0 ELSE 1

(* The report is that of the results, and every question is in them or was *)
(* skipped.                                                                *)
Reported ==
    /\ rep = Evaluate(results)
    /\ total = Cardinality(Asked) /\ total = Len(results) + embedSkipped

(* What total, results and embedSkipped say at every point of the loops. *)
AccountInv ==
    /\ total \in Nat /\ embedSkipped \in Nat /\ D!IsSeq(results)
    /\ \A i \in 1..Len(results) : ResultOK(results[i])
    /\ pc \in {"start", "corpus", "ask", "ok", "failed"}
    /\ pc # "failed" => total = Len(results) + embedSkipped + Searching
    /\ pc = "start" => ci = 1 /\ total = 0
    /\ pc = "corpus" =>
          /\ IsFiniteSet(AskedUntil(convs, ci, 1))
          /\ total = Cardinality(AskedUntil(convs, ci, 1))
    /\ pc = "ask" =>
          /\ IsFiniteSet(AskedUntil(convs, ci, qi))
          /\ total = Cardinality(AskedUntil(convs, ci, qi)) + Searching
    /\ pc \notin {"ok", "failed"} => rep = NoReport
    /\ rep # NoReport => Reported
    /\ pc = "ok" => Reported /\ ~OverBudget /\ (file.name = "fixtures" => ~GateFails(rep))

(* Conversations with their questions. *)
Questioned(cs) ==
    D!IsSeq(cs) /\ \A c \in 1..Len(cs) : D!IsSeq(cs[c].questions)

(* What a question's number is. *)
LEMMA PairsOf ==
    ASSUME NEW cs, Questioned(cs), NEW p
    PROVE  p \in Pairs(cs) <=>
              \E c \in 1..Len(cs) : \E q \in 1..Len(cs[c].questions) : p = <<c, q>>
<1>1. DOMAIN cs = 1..Len(cs)
  BY SeqFacts DEF Questioned
<1>2. ASSUME NEW c \in 1..Len(cs)
      PROVE  DOMAIN cs[c].questions = 1..Len(cs[c].questions)
  <2>1. PICK s : s = cs[c].questions
    OBVIOUS
  <2>2. D!IsSeq(s)
    BY <2>1 DEF Questioned
  <2>3. QED  BY <2>1, <2>2, SeqFacts
<1>3. p \in Pairs(cs) <=> \E c \in DOMAIN cs : p \in {c} \X (DOMAIN cs[c].questions)
  BY DEF Pairs
<1>4. QED  BY <1>1, <1>2, <1>3

(* Numbers of conversations and of questions start at 1. *)
LEMMA Counted ==
    ASSUME NEW cs, Questioned(cs)
    PROVE  /\ Len(cs) \in Nat
           /\ \A c \in 1..Len(cs) : Len(cs[c].questions) \in Nat
<1>1. Len(cs) \in Nat
  BY SeqFacts DEF Questioned
<1>2. ASSUME NEW c \in 1..Len(cs)  PROVE Len(cs[c].questions) \in Nat
  <2>1. PICK s : s = cs[c].questions
    OBVIOUS
  <2>2. D!IsSeq(s)
    BY <2>1 DEF Questioned
  <2>3. QED  BY <2>1, <2>2, SeqFacts
<1>3. QED  BY <1>1, <1>2

(* Nothing comes before the first question. *)
LEMMA UntilFirst ==
    ASSUME NEW cs, Questioned(cs)
    PROVE  AskedUntil(cs, 1, 1) = {}
<1>1. SUFFICES ASSUME NEW p \in AskedUntil(cs, 1, 1)  PROVE FALSE
  OBVIOUS
<1>2. p \in Pairs(cs) /\ (p[1] < 1 \/ (p[1] = 1 /\ p[2] < 1))
  BY DEF AskedUntil
<1>3. PICK c \in 1..Len(cs) : \E q \in 1..Len(cs[c].questions) : p = <<c, q>>
  BY <1>2, PairsOf
<1>4. PICK q \in 1..Len(cs[c].questions) : p = <<c, q>>
  BY <1>3
<1>5. c \in Nat /\ c >= 1 /\ q \in Nat /\ q >= 1
  BY Counted
<1>6. QED  BY <1>2, <1>4, <1>5

(* After a question come the same ones and that question. *)
LEMMA UntilNext ==
    ASSUME NEW cs, Questioned(cs), NEW c \in 1..Len(cs),
           NEW q \in 1..Len(cs[c].questions)
    PROVE  /\ AskedUntil(cs, c, q + 1) = AskedUntil(cs, c, q) \cup {<<c, q>>}
           /\ <<c, q>> \notin AskedUntil(cs, c, q)
<1>1. c \in Nat /\ q \in Nat
  BY Counted
<1>2. <<c, q>> \in Pairs(cs)
  BY PairsOf
<1>3. <<c, q>> \notin AskedUntil(cs, c, q)
  BY <1>1 DEF AskedUntil
<1>4. ASSUME NEW p \in Pairs(cs)
      PROVE  p \in AskedUntil(cs, c, q + 1) <=>
                p \in AskedUntil(cs, c, q) \/ p = <<c, q>>
  <2>1. PICK d \in 1..Len(cs) : \E r \in 1..Len(cs[d].questions) : p = <<d, r>>
    BY PairsOf
  <2>2. PICK r \in 1..Len(cs[d].questions) : p = <<d, r>>
    BY <2>1
  <2>3. d \in Nat /\ r \in Nat /\ p[1] = d /\ p[2] = r
    BY <2>2, Counted
  <2>4. p \in AskedUntil(cs, c, q + 1) <=> d < c \/ (d = c /\ r < q + 1)
    BY <2>3 DEF AskedUntil
  <2>5. p \in AskedUntil(cs, c, q) <=> d < c \/ (d = c /\ r < q)
    BY <2>3 DEF AskedUntil
  <2>6. p = <<c, q>> <=> d = c /\ r = q
    BY <2>2
  <2>7. QED  BY <1>1, <2>3, <2>4, <2>5, <2>6
<1>5. /\ AskedUntil(cs, c, q + 1) \subseteq Pairs(cs)
      /\ AskedUntil(cs, c, q) \subseteq Pairs(cs)
  BY DEF AskedUntil
<1>6. QED  BY <1>2, <1>3, <1>4, <1>5

(* After the last question of a conversation comes the next one. *)
LEMMA UntilNextConversation ==
    ASSUME NEW cs, Questioned(cs), NEW c \in 1..Len(cs), NEW q \in Nat,
           q > Len(cs[c].questions)
    PROVE  AskedUntil(cs, c + 1, 1) = AskedUntil(cs, c, q)
<1>1. c \in Nat
  BY Counted
<1>2. ASSUME NEW p \in Pairs(cs)
      PROVE  p \in AskedUntil(cs, c + 1, 1) <=> p \in AskedUntil(cs, c, q)
  <2>1. PICK d \in 1..Len(cs) : \E r \in 1..Len(cs[d].questions) : p = <<d, r>>
    BY PairsOf
  <2>2. PICK r \in 1..Len(cs[d].questions) : p = <<d, r>>
    BY <2>1
  <2>3. d \in Nat /\ r \in Nat /\ r >= 1 /\ p[1] = d /\ p[2] = r
    BY <2>2, Counted
  <2>4. p \in AskedUntil(cs, c + 1, 1) <=> d < c + 1 \/ (d = c + 1 /\ r < 1)
    BY <2>3 DEF AskedUntil
  <2>5. p \in AskedUntil(cs, c, q) <=> d < c \/ (d = c /\ r < q)
    BY <2>3 DEF AskedUntil
  <2>6. d = c => r < q
    BY <2>2, <2>3, Counted
  <2>7. QED  BY <1>1, <2>3, <2>4, <2>5, <2>6
<1>3. /\ AskedUntil(cs, c + 1, 1) \subseteq Pairs(cs)
      /\ AskedUntil(cs, c, q) \subseteq Pairs(cs)
  BY DEF AskedUntil
<1>4. QED  BY <1>2, <1>3

(* After the last conversation all have been asked. *)
LEMMA UntilEnd ==
    ASSUME NEW cs, Questioned(cs), NEW c \in Nat, c > Len(cs)
    PROVE  AskedUntil(cs, c, 1) = Pairs(cs)
<1>1. ASSUME NEW p \in Pairs(cs)  PROVE p \in AskedUntil(cs, c, 1)
  <2>1. PICK d \in 1..Len(cs) : \E r \in 1..Len(cs[d].questions) : p = <<d, r>>
    BY PairsOf
  <2>2. d < c /\ p[1] = d
    BY <2>1, Counted
  <2>3. QED  BY <2>2 DEF AskedUntil
<1>2. AskedUntil(cs, c, 1) \subseteq Pairs(cs)
  BY DEF AskedUntil
<1>3. QED  BY <1>1, <1>2

(* The conversations of a file have questions. *)
LEMMA LoadedQuestions ==
    ASSUME NEW f \in Files, f.present
    PROVE  Questioned(D!loadDataset(f))
<1>1. D!DatasetFile(f)
  BY EvalAssumption
<1>2. /\ D!IsSeq(D!loadDataset(f))
      /\ \A i \in 1..Len(D!loadDataset(f)) : ConversationOK(D!loadDataset(f)[i])
  BY <1>1, DatasetLoaded
<1>3. QED  BY <1>2 DEF Questioned, ConversationOK

(* What is recorded of a question that was searched. *)
LEMMA RecordedResult ==
    ASSUME EvalInv, CorpusInv, stage = "done",
           NEW r, r = [group |-> Question.group,
                       retrieved |-> expandRetrieved(Results, expand),
                       gold |-> {<<Question.evidence[i]>> : i \in DOMAIN Question.evidence}]
    PROVE  ResultOK(r)
<1>1. pc = "ask" /\ ci <= Len(convs) /\ qi \in Nat \ {0} /\ qi <= Len(convs[ci].questions)
  BY DEF EvalInv
<1>2. PICK ev : ev = Question.evidence
  OBVIOUS
<1>3. ev \in Seq(Int)
  <2>1. PICK qs : qs = convs[ci].questions
    OBVIOUS
  <2>2. D!IsSeq(qs) /\ \A q \in ToSet(qs) : q.evidence \in Seq(Int)
    BY <1>1, <2>1, CurrentConversation DEF ConversationOK
  <2>3. qi \in 1..Len(qs)
    BY <1>1, <2>1, <2>2, SeqFacts
  <2>4. qs[qi] \in ToSet(qs)
    BY <2>2, <2>3, SeqFacts
  <2>5. QED  BY <1>2, <2>1, <2>2, <2>4 DEF Question
<1>4. IsFiniteSet(r.gold)
  <2> DEFINE f == [i \in DOMAIN ev |-> <<ev[i]>>]
  <2>1. Len(ev) \in Nat /\ DOMAIN ev = 1..Len(ev)
    BY <1>3
  <2>2. IsFiniteSet(DOMAIN ev)
    BY <2>1, FS_Interval
  <2>3. r.gold = {f[i] : i \in DOMAIN ev}
    BY <1>2
  <2> HIDE DEF f
  <2>4. QED  BY <2>2, <2>3, FiniteValues
<1>5. PICK m : m = [i \in DOMAIN Results |-> Members(Results[i], expand)]
  OBVIOUS
<1>6. m \in Seq(Seq(Seq(Int)))
  BY <1>5, ResultMembers
<1>7. PICK t, T : t = FlattenSeq(m) /\ T = Seq(Int)
  OBVIOUS
<1>8. t \in Seq(T)
  BY <1>6, <1>7, FlattenBlocks
<1>9. PICK k \in Nat : \E e \in [1..k -> 1..Len(t)] :
         Dedup(t) = [i \in 1..k |-> t[e[i]]] /\ FirstMentions(t, k, e)
  BY <1>8, DedupKeepsFirst
<1>10. PICK e : Dedup(t) = [i \in 1..k |-> t[e[i]]]
  BY <1>9
<1>11. PICK s : s = Dedup(t)
  OBVIOUS
<1>12. s = [i \in 1..k |-> s[i]]
  BY <1>10, <1>11
<1>13. Len(s) = k /\ DOMAIN s = 1..k
  BY <1>12, FunctionSeq
<1>14. r.retrieved = s
  BY <1>5, <1>7, <1>11 DEF expandRetrieved
<1>15. QED  BY <1>4, <1>13, <1>14 DEF ResultOK

(* One more result. *)
LEMMA OneMoreResult ==
    ASSUME NEW rs, D!IsSeq(rs), \A i \in 1..Len(rs) : ResultOK(rs[i]),
           NEW r, ResultOK(r), NEW w, w = Append(rs, r)
    PROVE  /\ D!IsSeq(w) /\ Len(w) = Len(rs) + 1 /\ Len(rs) \in Nat
           /\ \A i \in 1..Len(w) : ResultOK(w[i])
<1>1. PICK S : S = ToSet(rs) \cup {r}
  OBVIOUS
<1>2. PICK n \in Nat : n = Len(rs)
  BY SeqFacts
<1>3. rs \in Seq(S) /\ r \in S
  <2>1. rs \in Seq(ToSet(rs)) /\ ToSet(rs) \subseteq S
    BY <1>1, SeqFacts
  <2>2. QED  BY <1>1, <2>1
<1>4. /\ w \in Seq(S) /\ Len(w) = n + 1 /\ w[n + 1] = r
      /\ \A i \in 1..n : w[i] = rs[i]
  BY <1>2, <1>3, OneMore
<1>5. PICK l \in Nat : l = n + 1 /\ w = [i \in 1..l |-> w[i]]
  <2>1. PICK l \in Nat : l = n + 1
    OBVIOUS
  <2>2. w \in Seq(S) /\ Len(w) = l
    BY <1>4, <2>1
  <2>3. w \in [1..l -> S]
    BY <2>2, LenProperties
  <2>4. w = [i \in 1..l |-> w[i]]
    BY <2>3
  <2>5. QED  BY <2>1, <2>4
<1>6. D!IsSeq(w)
  BY <1>5, FunctionSeq
<1>7. ASSUME NEW i \in 1..(n + 1)  PROVE ResultOK(w[i])
  <2>1. CASE i = n + 1
    BY <1>4, <2>1
  <2>2. CASE i \in 1..n
    BY <1>2, <1>4, <2>2
  <2>3. i = n + 1 \/ i \in 1..n
    OBVIOUS
  <2>4. QED  BY <2>1, <2>2, <2>3
<1>8. QED  BY <1>2, <1>4, <1>6, <1>7

(* The parts of the account that only the report and the results decide. *)
ResultsOK ==
    /\ total \in Nat /\ embedSkipped \in Nat /\ D!IsSeq(results)
    /\ \A i \in 1..Len(results) : ResultOK(results[i])

(* Nothing that counts changes. *)
LEMMA AccountStays ==
    ASSUME AccountInv, Searching' = Searching,
           UNCHANGED <<file, pc, convs, ci, qi, total, embedSkipped, results, rep>>
    PROVE  AccountInv'
<1>1. Reported => Reported'
  BY DEF Reported, Asked
<1>2. ~OverBudget => ~OverBudget'
  BY DEF OverBudget
<1>3. QED  BY <1>1, <1>2 DEF AccountInv

(* Loading: nothing has been asked. *)
LEMMA StartAccounts ==
    ASSUME AccountInv, EvalInv, Start
    PROVE  AccountInv'
<1>1. /\ pc = "start" /\ pc' \in {"corpus", "failed"} /\ rep = NoReport /\ ci = 1
      /\ total = 0 /\ stage = "idle" /\ rep' = rep /\ ci' = ci /\ stage' = stage
      /\ UNCHANGED <<total, embedSkipped, results>>
  BY DEF AccountInv, Start, EvalInv, searchvars
<1>2. ASSUME pc' = "corpus"
      PROVE  /\ IsFiniteSet(AskedUntil(convs', ci', 1))
             /\ total' = Cardinality(AskedUntil(convs', ci', 1))
  <2>1. Questioned(convs')
    <3>1. file \in Files /\ file.present /\ convs' = D!loadDataset(file)
      BY <1>2 DEF Start, EvalInv
    <3>2. QED  BY <3>1, LoadedQuestions
  <2>2. AskedUntil(convs', ci', 1) = {}
    BY <1>1, <2>1, UntilFirst
  <2>3. QED  BY <1>1, <2>2, FS_EmptySet
<1>3. Searching' = Searching
  BY <1>1 DEF Searching
<1>4. total' = Len(results') + embedSkipped' + Searching'
  BY <1>1, <1>3 DEF AccountInv
<1>5. ResultsOK'
  BY <1>1 DEF AccountInv, ResultsOK
<1>6. QED  BY <1>1, <1>2, <1>4, <1>5 DEF AccountInv, ResultsOK

(* A corpus: the next question is the first of the conversation. *)
LEMMA BuildCorpusAccounts ==
    ASSUME AccountInv, EvalInv, BuildCorpus
    PROVE  AccountInv'
<1>1. /\ pc = "corpus" /\ rep = NoReport /\ stage = "idle" /\ stage' = stage
      /\ UNCHANGED <<convs, ci, total, embedSkipped, results, rep>>
      /\ \/ pc' = "ask" /\ qi' = 1
         \/ pc' = "failed"
  BY DEF AccountInv, BuildCorpus, EvalInv, searchvars
<1>2. Searching' = Searching /\ Searching = 0
  BY <1>1 DEF Searching
<1>3. /\ IsFiniteSet(AskedUntil(convs, ci, 1))
      /\ total = Cardinality(AskedUntil(convs, ci, 1)) /\ total \in Nat
      /\ total = Len(results) + embedSkipped + Searching
  BY <1>1 DEF AccountInv
<1>4. ResultsOK'
  BY <1>1 DEF AccountInv, ResultsOK
<1>5. QED  BY <1>1, <1>2, <1>3, <1>4 DEF AccountInv, ResultsOK

(* A question is asked: it is the one being searched. *)
LEMMA AskAccounts ==
    ASSUME AccountInv, EvalInv, Ask
    PROVE  AccountInv'
<1>1. /\ pc = "ask" /\ pc' = "ask" /\ rep = NoReport /\ stage = "idle"
      /\ total' = total + 1
      /\ UNCHANGED <<convs, ci, qi, embedSkipped, results, rep>>
  BY DEF AccountInv, Ask
<1>2. stage' # "idle"
  BY DEF Ask, Candidates, EmbedFails
<1>3. Searching' = 1 /\ Searching = 0
  BY <1>1, <1>2 DEF Searching
<1>4. /\ IsFiniteSet(AskedUntil(convs, ci, qi)) /\ total \in Nat
      /\ total = Cardinality(AskedUntil(convs, ci, qi)) + Searching
      /\ total = Len(results) + embedSkipped + Searching
  BY <1>1 DEF AccountInv
<1>5. Len(results) \in Nat /\ embedSkipped \in Nat
  BY SeqFacts DEF AccountInv
<1>6. /\ total' = Len(results) + embedSkipped + 1
      /\ total' = Cardinality(AskedUntil(convs, ci, qi)) + 1 /\ total' \in Nat
  <2>1. Cardinality(AskedUntil(convs, ci, qi)) \in Nat
    BY <1>4, FS_CardinalityType
  <2>2. QED  BY <1>1, <1>3, <1>4, <1>5, <2>1
<1>7. ResultsOK'
  BY <1>1, <1>6 DEF AccountInv, ResultsOK
<1>8. QED  BY <1>1, <1>3, <1>4, <1>6, <1>7 DEF AccountInv, ResultsOK

(* A question is done with: it is one more of those asked. *)
LEMMA NextQuestion ==
    ASSUME AccountInv, EvalInv, stage # "idle", stage' = "idle",
           pc' = pc, UNCHANGED <<convs, ci, total, rep>>, qi' = qi + 1, ResultsOK',
           Len(results') + embedSkipped' = Len(results) + embedSkipped + 1
    PROVE  AccountInv'
<1>1. pc = "ask" /\ rep = NoReport /\ ci <= Len(convs) /\ qi \in Nat \ {0}
  BY DEF AccountInv, EvalInv
<1>2. Searching = 1 /\ Searching' = 0
  BY DEF Searching
<1>3. PICK cs, c, q : cs = convs /\ c = ci /\ q = qi
  OBVIOUS
<1>4. PICK A : A = AskedUntil(cs, c, q)
  OBVIOUS
<1>5. /\ IsFiniteSet(A) /\ total \in Nat /\ total = Cardinality(A) + 1
      /\ total = Len(results) + embedSkipped + 1
  BY <1>1, <1>2, <1>3, <1>4 DEF AccountInv
<1>6. Questioned(cs)
  BY <1>1, <1>3, LoadedQuestions DEF EvalInv
<1>7. c \in 1..Len(cs) /\ q \in 1..Len(cs[c].questions)
  BY <1>1, <1>3, CurrentConversation DEF EvalInv
<1>8. AskedUntil(cs, c, q + 1) = A \cup {<<c, q>>} /\ <<c, q>> \notin A
  BY <1>4, <1>6, <1>7, UntilNext
<1>9. IsFiniteSet(A \cup {<<c, q>>}) /\ Cardinality(A \cup {<<c, q>>}) = Cardinality(A) + 1
  BY <1>5, <1>8, FS_AddElement
<1>10. /\ IsFiniteSet(AskedUntil(convs', ci', qi'))
       /\ total' = Cardinality(AskedUntil(convs', ci', qi'))
  BY <1>3, <1>5, <1>8, <1>9
<1>11. /\ total' = Len(results') + embedSkipped' + Searching'
       /\ total' = Cardinality(AskedUntil(convs', ci', qi')) + Searching'
  BY <1>2, <1>5, <1>10
<1>12. QED  BY <1>1, <1>10, <1>11 DEF AccountInv, ResultsOK

(* A question is recorded. *)
LEMMA RecordAccounts ==
    ASSUME AccountInv, EvalInv, CorpusInv, Record
    PROVE  AccountInv'
<1>1. /\ stage = "done" /\ stage' = "idle" /\ qi' = qi + 1
      /\ pc' = pc /\ UNCHANGED <<convs, ci, total, rep>> /\ embedSkipped' = embedSkipped
  BY DEF Record, EndSearch
<1>2. PICK r : r = [group |-> Question.group,
                    retrieved |-> expandRetrieved(Results, expand),
                    gold |-> {<<Question.evidence[i]>> : i \in DOMAIN Question.evidence}]
  OBVIOUS
<1>3. results' = Append(results, r)
  BY <1>2 DEF Record
<1>4. ResultOK(r)
  BY <1>1, <1>2, RecordedResult
<1>5. PICK rs, w : rs = results /\ w = results'
  OBVIOUS
<1>6. D!IsSeq(rs) /\ \A i \in 1..Len(rs) : ResultOK(rs[i])
  BY <1>5 DEF AccountInv
<1>7. w = Append(rs, r)
  BY <1>3, <1>5
<1>8. /\ D!IsSeq(w) /\ Len(w) = Len(rs) + 1 /\ Len(rs) \in Nat
      /\ \A i \in 1..Len(w) : ResultOK(w[i])
  BY <1>4, <1>6, <1>7, OneMoreResult
<1>9. ResultsOK'
  BY <1>1, <1>5, <1>8 DEF ResultsOK, AccountInv
<1>10. Len(results') + embedSkipped' = Len(results) + embedSkipped + 1
  <2>1. embedSkipped \in Nat
    BY DEF AccountInv
  <2>2. QED  BY <1>1, <1>5, <1>8, <2>1
<1>11. QED  BY <1>1, <1>9, <1>10, NextQuestion

(* A question is skipped, or eval gives up. *)
LEMMA SearchFailedAccounts ==
    ASSUME AccountInv, EvalInv, SearchFailed
    PROVE  AccountInv'
<1>1. /\ stage = "error" /\ stage' = "idle" /\ UNCHANGED <<convs, ci, total, rep, results>>
      /\ \/ pc' = "failed" /\ embedSkipped' = embedSkipped
         \/ embedSkipped' = embedSkipped + 1 /\ qi' = qi + 1 /\ pc' = pc
  BY DEF SearchFailed, EndSearch
<1>2. embedSkipped \in Nat /\ Len(results) \in Nat /\ rep = NoReport
  BY <1>1, SeqFacts DEF AccountInv, EvalInv
<1>3. ResultsOK'
  BY <1>1, <1>2 DEF AccountInv, ResultsOK
<1>4. CASE pc' = "failed" /\ embedSkipped' = embedSkipped
  BY <1>1, <1>2, <1>3, <1>4 DEF AccountInv, ResultsOK
<1>5. CASE embedSkipped' = embedSkipped + 1 /\ qi' = qi + 1 /\ pc' = pc
  <2>1. Len(results') + embedSkipped' = Len(results) + embedSkipped + 1
    BY <1>1, <1>2, <1>5
  <2>2. QED  BY <1>1, <1>3, <1>5, <2>1, NextQuestion
<1>6. QED  BY <1>1, <1>4, <1>5

(* The next conversation. *)
LEMMA NextConversationAccounts ==
    ASSUME AccountInv, EvalInv, NextConversation
    PROVE  AccountInv'
<1>1. /\ pc = "ask" /\ pc' = "corpus" /\ qi > Len(convs[ci].questions) /\ ci' = ci + 1
      /\ UNCHANGED <<convs, qi, total, embedSkipped, results, rep>> /\ stage' = stage
  BY DEF NextConversation, searchvars
<1>2. ci <= Len(convs) /\ qi \in Nat /\ rep = NoReport
  BY <1>1 DEF EvalInv, AccountInv
<1>3. ci \in 1..Len(convs) /\ Len(convs[ci].questions) \in Nat
  BY <1>1, <1>2, CurrentConversation
<1>4. stage = "idle"
  BY <1>1, <1>2, <1>3 DEF EvalInv
<1>5. Searching = 0 /\ Searching' = 0
  BY <1>1, <1>4 DEF Searching
<1>6. PICK cs, c, q : cs = convs /\ c = ci /\ q = qi
  OBVIOUS
<1>7. Questioned(cs)
  BY <1>1, <1>6, LoadedQuestions DEF EvalInv
<1>8. AskedUntil(cs, c + 1, 1) = AskedUntil(cs, c, q)
  BY <1>1, <1>2, <1>3, <1>6, <1>7, UntilNextConversation
<1>9. /\ IsFiniteSet(AskedUntil(cs, c, q))
      /\ total = Cardinality(AskedUntil(cs, c, q)) + 0 /\ total \in Nat
      /\ total = Len(results) + embedSkipped + 0
  BY <1>1, <1>5, <1>6 DEF AccountInv
<1>10. /\ IsFiniteSet(AskedUntil(convs', ci', 1))
       /\ total' = Cardinality(AskedUntil(convs', ci', 1))
  <2>1. Cardinality(AskedUntil(cs, c, q)) \in Nat
    BY <1>9, FS_CardinalityType
  <2>2. total = Cardinality(AskedUntil(cs, c, q))
    BY <1>9, <2>1
  <2>3. QED  BY <1>1, <1>6, <1>8, <1>9, <2>2
<1>11. ResultsOK' /\ total' = Len(results') + embedSkipped' + Searching'
  BY <1>1, <1>5, <1>9 DEF AccountInv, ResultsOK
<1>12. QED  BY <1>1, <1>2, <1>10, <1>11 DEF AccountInv, ResultsOK

(* The report. *)
LEMMA ReportAccounts ==
    ASSUME AccountInv, EvalInv, Report
    PROVE  AccountInv'
<1>1. /\ pc = "corpus" /\ ci > Len(convs) /\ rep' = Evaluate(results)
      /\ pc' = IF OverBudget \/ (file.name = "fixtures" /\ GateFails(rep'))
               THEN "failed" ELSE "ok"
      /\ UNCHANGED <<file, convs, ci, qi, total, embedSkipped, results>> /\ stage' = stage
  BY DEF Report, rvars
<1>2. stage = "idle" /\ ci \in Nat
  BY <1>1 DEF EvalInv
<1>3. Searching = 0 /\ Searching' = 0
  BY <1>1, <1>2 DEF Searching
<1>4. PICK cs, c : cs = convs /\ c = ci
  OBVIOUS
<1>5. Questioned(cs)
  BY <1>1, <1>4, LoadedQuestions DEF EvalInv
<1>6. AskedUntil(cs, c, 1) = Pairs(cs)
  BY <1>1, <1>2, <1>4, <1>5, UntilEnd
<1>7. total = Cardinality(Asked)
  <2>1. Asked = Pairs(convs)
    BY DEF Asked, Pairs
  <2>2. total = Cardinality(AskedUntil(convs, ci, 1))
    BY <1>1 DEF AccountInv
  <2>3. QED  BY <1>4, <1>6, <2>1, <2>2
<1>8. total = Len(results) + embedSkipped
  <2>1. Len(results) \in Nat /\ embedSkipped \in Nat
    BY SeqFacts DEF AccountInv
  <2>2. QED  BY <1>1, <1>3, <2>1 DEF AccountInv
<1>9. Reported'
  BY <1>1, <1>7, <1>8 DEF Reported, Asked
<1>10. OverBudget' <=> OverBudget
  BY <1>1 DEF OverBudget
<1>11. pc' = "ok" => ~OverBudget' /\ (file'.name = "fixtures" => ~GateFails(rep'))
  BY <1>1, <1>10
<1>12. ResultsOK' /\ total' = Len(results') + embedSkipped' + Searching'
  BY <1>1, <1>3 DEF AccountInv, ResultsOK
<1>13. pc' \in {"ok", "failed"}
  BY <1>1
<1>14. QED  BY <1>9, <1>11, <1>12, <1>13 DEF AccountInv, ResultsOK

(* The account holds of every behaviour: the questions that cmdEval has    *)
(* asked are those before the current one, each recorded, skipped or being *)
(* searched, and a report is Evaluate of all of them.                      *)
THEOREM AccountInvariance == ESpec => []AccountInv
<1>1. EInit => AccountInv
  <2> SUFFICES ASSUME EInit  PROVE AccountInv
    OBVIOUS
  <2>1. /\ results = <<>> /\ total = 0 /\ embedSkipped = 0 /\ pc = "start" /\ ci = 1
        /\ rep = NoReport /\ stage = "idle"
    BY DEF EInit, SearchIdle
  <2>2. D!IsSeq(results) /\ Len(results) = 0
    <3>1. PICK s : s = results
      OBVIOUS
    <3>2. s = [i \in 1..0 |-> s[i]]
      BY <2>1, <3>1
    <3>3. D!IsSeq(s) /\ Len(s) = 0
      BY <3>2, FunctionSeq
    <3>4. QED  BY <3>1, <3>3
  <2>3. Searching = 0
    BY <2>1 DEF Searching
  <2>4. QED  BY <2>1, <2>2, <2>3 DEF AccountInv
<1>2. AccountInv /\ EvalInv /\ CorpusInv /\ [ENext]_<<evars, rvars>> => AccountInv'
  <2> SUFFICES ASSUME AccountInv, EvalInv, CorpusInv, [ENext]_<<evars, rvars>>
               PROVE  AccountInv'
    OBVIOUS
  <2>1. CASE UNCHANGED <<evars, rvars>>
    BY <2>1, AccountStays DEF evars, rvars, Searching
  <2>2. CASE SearchOn
    <3>1. stage # "idle" /\ stage' # "idle"
      BY <2>2 DEF SearchOn, SearchStep, Fuse, Adjust, Pick
    <3>2. QED  BY <2>2, <3>1, AccountStays DEF SearchOn, evars, Searching
  <2>3. QED
    BY <2>1, <2>2, StartAccounts, BuildCorpusAccounts, AskAccounts, RecordAccounts,
       SearchFailedAccounts, NextConversationAccounts, ReportAccounts DEF ENext
<1>3. QED  BY <1>1, <1>2, EvalInvariance, CorpusInvariance, PTL DEF ESpec

(* No question of any file is lost or counted twice, whatever Search finds *)
(* and however often the embedder fails: the report accounts for each of   *)
(* them once, its groups split the scored ones, and its two metrics agree. *)
THEOREM QuestionsAreCounted == ESpec => []EveryQuestionCounted
<1>1. AccountInv => EveryQuestionCounted
  <2> SUFFICES ASSUME AccountInv  PROVE EveryQuestionCounted
    OBVIOUS
  <2>1. pc # "failed" =>
           total = Len(results) + embedSkipped + (IF stage = "idle" THEN 0 ELSE 1)
    BY DEF AccountInv, Searching
  <2>2. ASSUME rep # NoReport
        PROVE  /\ rep.n + rep.skipped + embedSkipped = Cardinality(Asked)
               /\ total = Cardinality(Asked)
               /\ rep.n = Cardinality(UNION {{g} \X (1..rep.byGroup[g]) :
                                                 g \in DOMAIN rep.byGroup})
               /\ rep.recall <= rep.n * Scale /\ rep.mrr <= rep.n * Scale
               /\ rep.mrr * Cut >= rep.recall
    <3>1. /\ rep = Evaluate(results) /\ total = Cardinality(Asked)
          /\ total = Len(results) + embedSkipped
      BY <2>2 DEF AccountInv, Reported
    <3>2. PICK rs : rs = results
      OBVIOUS
    <3>3. D!IsSeq(rs) /\ \A i \in 1..Len(rs) : ResultOK(rs[i])
      BY <3>2 DEF AccountInv
    <3>4. ReportOK(rep, rs)
      BY <3>1, <3>2, <3>3, EvaluateReports
    <3>5. rep.n + rep.skipped + embedSkipped = Cardinality(Asked)
      BY <3>1, <3>2, <3>4 DEF ReportOK
    <3>6. QED  BY <3>1, <3>4, <3>5 DEF ReportOK
  <2>3. QED  BY <2>1, <2>2 DEF EveryQuestionCounted
<1>2. QED  BY <1>1, AccountInvariance, PTL

(* The gate, for every fixtures file of fewer than SkipDenom questions:    *)
(* exit code 0 means that every question was searched and has all its      *)
(* evidence among the first Cut turns.                                     *)
THEOREM GateHolds == ESpec => []GateMeansAllGold
<1>1. AccountInv => GateMeansAllGold
  <2> SUFFICES ASSUME AccountInv, pc = "ok", file.name = "fixtures",
                      Cardinality(Asked) < SkipDenom
               PROVE  /\ Len(results) = Cardinality(Asked)
                      /\ \A i \in DOMAIN results : \A g \in results[i].gold :
                            \E j \in 1..Cut : /\ j \in DOMAIN results[i].retrieved
                                              /\ results[i].retrieved[j] = g
    BY DEF GateMeansAllGold
  <2>1. PICK rs : rs = results
    OBVIOUS
  <2>2. /\ rep = Evaluate(rs) /\ total = Cardinality(Asked) /\ total \in Nat
        /\ total = Len(rs) + embedSkipped /\ embedSkipped \in Nat
        /\ ~OverBudget /\ ~GateFails(rep)
        /\ D!IsSeq(rs) /\ \A i \in 1..Len(rs) : ResultOK(rs[i])
    BY <2>1 DEF AccountInv, Reported
  <2>3. Len(rs) \in Nat /\ DOMAIN rs = 1..Len(rs)
    BY <2>2, SeqFacts
  <2>4. embedSkipped = 0
    <3>1. SkipDenom \in Nat /\ total < SkipDenom
      BY <2>2, EvalAssumption
    <3>2. CASE total = 0
      BY <2>2, <2>3, <3>2
    <3>3. CASE total # 0
      <4>1. embedSkipped * SkipDenom <= total
        BY <2>2, <3>1, <3>3 DEF OverBudget
      <4>2. SUFFICES ASSUME embedSkipped >= 1  PROVE FALSE
        BY <2>2
      <4>3. embedSkipped * SkipDenom >= SkipDenom
        BY <2>2, <3>1, <4>2
      <4>4. PICK x \in Int : x = embedSkipped * SkipDenom
        BY <2>2, <3>1
      <4>5. QED  BY <2>2, <3>1, <4>1, <4>3, <4>4
    <3>4. QED  BY <3>2, <3>3
  <2>5. Len(results) = Cardinality(Asked)
    BY <2>1, <2>2, <2>3, <2>4
  <2>6. \A i \in 1..Len(rs) : Hits(rs[i], Cut) = rs[i].gold
    <3>1. ReportOK(rep, rs)
      BY <2>2, EvaluateReports
    <3>2. PICK x, y : x = rep.recall /\ y = rep.n * Scale
      OBVIOUS
    <3>3. x \in Int /\ y \in Int
      BY <3>1, <3>2 DEF ReportOK, Scale
    <3>4. x >= y
      BY <2>2, <3>2, <3>3 DEF GateFails
    <3>5. QED  BY <3>1, <3>2, <3>4 DEF ReportOK
  <2>7. ASSUME NEW i \in DOMAIN rs, NEW g \in rs[i].gold
        PROVE  \E j \in 1..Cut : j \in DOMAIN rs[i].retrieved /\ rs[i].retrieved[j] = g
    <3>1. g \in Hits(rs[i], Cut) /\ ResultOK(rs[i])
      BY <2>2, <2>3, <2>6
    <3>2. PICK j \in DOMAIN rs[i].retrieved : j <= Cut /\ rs[i].retrieved[j] = g
      BY <3>1 DEF Hits
    <3>3. j \in 1..Cut
      BY <3>1, <3>2, EvalAssumption DEF ResultOK
    <3>4. QED  BY <3>2, <3>3
  <2>8. QED  BY <2>1, <2>5, <2>7
<1>2. QED  BY <1>1, AccountInvariance, PTL
=============================================================================
