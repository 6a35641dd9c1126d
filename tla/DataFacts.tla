----------------------------- MODULE DataFacts ------------------------------
(* Induction over numbers and what follows for recursive functions, finite *)
(* sets of numbers in increasing order, concatenations and sums: stated    *)
(* with sets and functions instead of predicates and operators, so that    *)
(* every instance is first-order.                                          *)
EXTENDS Integers, Sequences, FiniteSets, FiniteSetTheorems, SequenceTheorems,
        WellFoundedInduction, TLAPS

(* A nonempty set of naturals has a least element. *)
LEMMA LeastNat ==
    ASSUME NEW T \in SUBSET Nat, T # {}
    PROVE  \E x \in T : \A y \in T : x <= y
<1> DEFINE R == {ss \in Nat \X Nat : ss[1] < ss[2]}
<1>1. OpToRel(<, Nat) = R
  BY DEF OpToRel
<1>2. IsWellFoundedOn(R, Nat)
  BY <1>1, NatLessThanWellFounded
<1> HIDE DEF R
<1>3. PICK x \in T : \A y \in T : ~(<<y, x>> \in R)
  BY <1>2, WFMin
<1>4. \A y \in T : ~(y < x)
  BY <1>3 DEF R
<1>5. QED  BY <1>4

(* Induction: a set of naturals with 0 that is closed under successor is   *)
(* all of them.                                                            *)
LEMMA NatSetInduction ==
    ASSUME NEW S, 0 \in S, \A n \in Nat : n \in S => n + 1 \in S
    PROVE  \A n \in Nat : n \in S
<1> DEFINE T == {n \in Nat : n \notin S}
<1> SUFFICES ASSUME T # {} PROVE FALSE
  OBVIOUS
<1>1. PICK x \in T : \A y \in T : x <= y
  BY LeastNat
<1>2. x # 0 /\ x - 1 \in Nat
  BY <1>1
<1>3. x - 1 \notin T
  BY <1>1, <1>2
<1>4. QED  BY <1>1, <1>2, <1>3

(* A nonempty finite set of integers has a greatest element. *)
LEMMA GreatestInt ==
    ASSUME NEW S \in SUBSET Int, IsFiniteSet(S), S # {}
    PROVE  \E x \in S : \A y \in S : y <= x
<1> DEFINE Good == {n \in Nat : \A T \in SUBSET Int :
                       IsFiniteSet(T) /\ Cardinality(T) = n /\ T # {} =>
                           \E x \in T : \A y \in T : y <= x}
<1>1. 0 \in Good
  <2> SUFFICES ASSUME NEW T \in SUBSET Int, IsFiniteSet(T), Cardinality(T) = 0
               PROVE  T = {}
    OBVIOUS
  <2>1. QED  BY FS_EmptySet
<1>2. ASSUME NEW n \in Nat, n \in Good PROVE n + 1 \in Good
  <2> SUFFICES ASSUME NEW T \in SUBSET Int, IsFiniteSet(T),
                      Cardinality(T) = n + 1, T # {}
               PROVE  \E x \in T : \A y \in T : y <= x
    OBVIOUS
  <2>1. PICK t \in T : TRUE
    OBVIOUS
  <2> DEFINE U == T \ {t}
  <2>2. IsFiniteSet(U) /\ Cardinality(U) = n /\ U \in SUBSET Int
    <3>1. IsFiniteSet(U) /\ Cardinality(U) = Cardinality(T) - 1
      BY <2>1, FS_RemoveElement
    <3>2. QED  BY <3>1
  <2>3. CASE U = {}
    BY <2>1, <2>3
  <2>4. CASE U # {}
    <3>1. PICK x \in U : \A y \in U : y <= x
      BY <1>2, <2>2, <2>4
    <3>2. CASE t <= x
      BY <3>1, <3>2
    <3>3. CASE ~(t <= x)
      BY <3>1, <3>3
    <3>4. QED  BY <3>2, <3>3
  <2>5. QED  BY <2>3, <2>4
<1> HIDE DEF Good
<1>3. \A n \in Nat : n \in Good
  BY <1>1, <1>2, NatSetInduction
<1>4. Cardinality(S) \in Good
  BY <1>3, FS_CardinalityType
<1>5. QED  BY <1>4 DEF Good

-----------------------------------------------------------------------------
(* Recursive functions.                                                    *)

(* g starts with b, and each value follows from the one before by G. *)
IsRecursion(n, b, G, g) == g[0] = b /\ \A i \in 1..n : g[i] = G[i][g[i - 1]]

(* A function on 0..n can be defined by its value at 0 and by a function G *)
(* that gives each value from the one before.                              *)
LEMMA RecursionExists ==
    ASSUME NEW n \in Nat, NEW T, NEW b \in T, NEW G \in [1..n -> [T -> T]]
    PROVE  \E g \in [0..n -> T] : IsRecursion(n, b, G, g)
<1> DEFINE Up(m, g) == g[0] = b /\ \A i \in 1..m : g[i] = G[i][g[i - 1]]
           Good == {m \in Nat : m <= n => \E g \in [0..m -> T] : Up(m, g)}
<1>1. 0 \in Good
  <2> DEFINE g == [i \in 0..0 |-> b]
  <2>1. g \in [0..0 -> T] /\ Up(0, g)
    OBVIOUS
  <2>2. QED  BY <2>1
<1>2. ASSUME NEW m \in Nat, m \in Good  PROVE m + 1 \in Good
  <2> SUFFICES ASSUME m + 1 <= n
               PROVE  \E g \in [0..(m + 1) -> T] : Up(m + 1, g)
    OBVIOUS
  <2>1. PICK g \in [0..m -> T] : Up(m, g)
    BY <1>2
  <2>2. m + 1 \in 1..n /\ m \in 0..m
    OBVIOUS
  <2>3. PICK x \in T : x = G[m + 1][g[m]]
    BY <2>2
  <2> DEFINE h == [i \in 0..(m + 1) |-> IF i = m + 1 THEN x ELSE g[i]]
  <2>4. h \in [0..(m + 1) -> T]
    OBVIOUS
  <2>5. h[0] = b
    BY <2>1
  <2>6. ASSUME NEW i \in 1..(m + 1)  PROVE h[i] = G[i][h[i - 1]]
    <3>1. CASE i = m + 1
      <4>1. h[i] = x /\ h[i - 1] = g[m]
        BY <3>1
      <4>2. QED  BY <2>3, <3>1, <4>1
    <3>2. CASE i # m + 1
      <4>1. i \in 1..m /\ h[i] = g[i] /\ h[i - 1] = g[i - 1]
        BY <3>2
      <4>2. QED  BY <2>1, <4>1
    <3>3. QED  BY <3>1, <3>2
  <2> HIDE DEF h
  <2>7. QED  BY <2>4, <2>5, <2>6
<1> HIDE DEF Good
<1>3. n \in Good
  BY <1>1, <1>2, NatSetInduction
<1>4. PICK g \in [0..n -> T] : Up(n, g)
  BY <1>3 DEF Good
<1>5. QED  BY <1>4 DEF IsRecursion

(* Induction up to a bound. *)
LEMMA UpTo ==
    ASSUME NEW n \in Nat, NEW S, 0 \in S,
           \A m \in 0..(n - 1) : m \in S => m + 1 \in S
    PROVE  \A m \in 0..n : m \in S
<1> DEFINE Good == {m \in Nat : m <= n => m \in S}
<1>1. 0 \in Good
  OBVIOUS
<1>2. \A m \in Nat : m \in Good => m + 1 \in Good
  OBVIOUS
<1> HIDE DEF Good
<1>3. \A m \in Nat : m \in Good
  BY <1>1, <1>2, NatSetInduction
<1>4. QED  BY <1>3 DEF Good

(* A function on 1..n is a sequence. *)
LEMMA FunctionIsSeq ==
    ASSUME NEW n \in Nat, NEW S, NEW f \in [1..n -> S]
    PROVE  f \in Seq(S) /\ Len(f) = n /\ DOMAIN f = 1..n
  OBVIOUS

-----------------------------------------------------------------------------
(* Finite sets of numbers in increasing order.                             *)

(* A proper subset of a finite set has fewer members. *)
LEMMA FewerMembers ==
    ASSUME NEW U, IsFiniteSet(U), NEW T \in SUBSET U, NEW e \in U, e \notin T
    PROVE  /\ IsFiniteSet(T) /\ Cardinality(T) \in Nat /\ Cardinality(U) \in Nat
           /\ Cardinality(T) < Cardinality(U)
<1>1. /\ IsFiniteSet(T) /\ Cardinality(T) <= Cardinality(U)
      /\ Cardinality(U) = Cardinality(T) => U = T
  BY FS_Subset
<1>2. Cardinality(T) \in Nat /\ Cardinality(U) \in Nat
  BY <1>1, FS_CardinalityType
<1>3. QED  BY <1>1, <1>2

(* The number of members of I below x. *)
Below(I, x) == Cardinality({j \in I : j < x})

(* The members of a finite set are numbered from 0, larger ones higher. *)
LEMMA BelowCounts ==
    ASSUME NEW I \in SUBSET Int, IsFiniteSet(I), NEW x \in I
    PROVE  /\ Below(I, x) \in 0..(Cardinality(I) - 1)
           /\ \A z \in I : x < z => Below(I, x) < Below(I, z)
<1> DEFINE A(z) == {j \in I : j < z}
<1>1. \A z \in I : A(z) \in SUBSET I /\ Below(I, z) = Cardinality(A(z))
  BY DEF Below
<1>2. x \notin A(x) /\ \A z \in I : x < z => A(x) \subseteq A(z) /\ x \in A(z)
  <2>1. x \notin A(x) /\ \A z \in I : x < z => x \in A(z)
    OBVIOUS
  <2>2. ASSUME NEW z \in I, x < z, NEW y \in A(x)  PROVE y \in A(z)
    <3>1. y \in I /\ y \in Int /\ x \in Int /\ z \in Int /\ y < x
      OBVIOUS
    <3>2. y < z
      BY <2>2, <3>1
    <3>3. QED  BY <3>1, <3>2
  <2>3. QED  BY <2>1, <2>2
<1> HIDE DEF A
<1>3. /\ Cardinality(A(x)) < Cardinality(I)
      /\ Cardinality(A(x)) \in Nat /\ Cardinality(I) \in Nat
  BY <1>1, <1>2, FewerMembers
<1>4. ASSUME NEW z \in I, x < z  PROVE Cardinality(A(x)) < Cardinality(A(z))
  <2>1. IsFiniteSet(A(z))
    BY <1>1, FS_Subset
  <2>2. A(x) \in SUBSET A(z) /\ x \in A(z) /\ x \notin A(x)
    BY <1>2, <1>4
  <2>3. QED  BY <2>1, <2>2, FewerMembers
<1>5. QED  BY <1>1, <1>3, <1>4

(* As many numbers as members: every number is taken. *)
LEMMA EveryNumberTaken ==
    ASSUME NEW I \in SUBSET Int, IsFiniteSet(I), NEW n \in 1..Cardinality(I)
    PROVE  \E x \in I : Below(I, x) = n - 1
<1> DEFINE c == Cardinality(I)
           P == 0..(c - 1)
           f == [x \in I |-> Below(I, x)]
<1>1. c \in Nat
  BY FS_CardinalityType
<1>2. IsFiniteSet(P) /\ Cardinality(P) = c
  <2>1. 0 \in Int /\ c - 1 \in Int
    BY <1>1
  <2>2. IsFiniteSet(P) /\ Cardinality(P) = IF 0 > c - 1 THEN 0 ELSE c - 1 - 0 + 1
    BY <2>1, FS_Interval
  <2>3. QED  BY <1>1, <2>2
<1>3. f \in [I -> P]
  BY BelowCounts
<1>4. ASSUME NEW x \in I, NEW y \in I, f[x] = f[y]  PROVE x = y
  <2>1. Below(I, x) = Below(I, y) /\ Below(I, x) \in Int
    BY <1>4, BelowCounts
  <2>2. ~(x < y) /\ ~(y < x)
    BY <2>1, BelowCounts
  <2>3. QED  BY <2>2
<1>5. f \in Injection(I, P)
  BY <1>3, <1>4 DEF Injection, IsInjective
<1>6. f \in Surjection(I, P)
  <2> HIDE DEF f, P
  <2>1. Cardinality(I) = Cardinality(P)
    BY <1>2 DEF c
  <2>2. Cardinality(I) = Cardinality(P) <=> f \in Surjection(I, P)
    BY <1>2, <1>5, FS_Injection
  <2>3. QED  BY <2>1, <2>2
<1>7. n - 1 \in P
  BY <1>1
<1>8. PICK x \in I : f[x] = n - 1
  BY <1>6, <1>7 DEF Surjection
<1>9. QED  BY <1>8

(* Entry n of e has n - 1 members of I below it. *)
InPlace(I, c, e) == \A n \in 1..c : Below(I, e[n]) = n - 1

(* A sequence whose n-th entry is the member with n - 1 members below it   *)
(* increases, holds every member, and runs ahead of its positions if all   *)
(* members are positive.                                                   *)
LEMMA NumberedOrder ==
    ASSUME NEW I \in SUBSET Int, IsFiniteSet(I), NEW c \in Nat, c = Cardinality(I),
           NEW e \in [1..c -> I], InPlace(I, c, e)
    PROVE  /\ \A m, n \in 1..c : m < n => e[m] < e[n]
           /\ \A x \in I : \E n \in 1..c : e[n] = x
           /\ I \subseteq Nat \ {0} => \A n \in 1..c : n <= e[n]
<1>3. \A n \in 1..c : e[n] \in I /\ e[n] \in Int /\ Below(I, e[n]) = n - 1
  BY DEF InPlace
<1>6. ASSUME NEW m \in 1..c, NEW n \in 1..c, m < n  PROVE e[m] < e[n]
  <2>1. e[m] \in I /\ e[n] \in I /\ e[m] \in Int /\ e[n] \in Int
    BY <1>3
  <2>2. Below(I, e[m]) = m - 1 /\ Below(I, e[n]) = n - 1
    BY <1>3
  <2>3. e[m] # e[n]
    BY <1>6, <2>2
  <2>4. e[n] < e[m] => Below(I, e[n]) < Below(I, e[m])
    BY <2>1, BelowCounts
  <2>5. ~(e[n] < e[m])
    BY <1>6, <2>2, <2>4
  <2>6. QED  BY <2>1, <2>3, <2>5
<1>7. ASSUME NEW x \in I  PROVE \E n \in 1..c : e[n] = x
  <2>1. PICK k \in 0..(c - 1) : k = Below(I, x)
    BY BelowCounts
  <2>2. k + 1 \in 1..c
    OBVIOUS
  <2>3. e[k + 1] \in I /\ Below(I, e[k + 1]) = k
    <3>1. e[k + 1] \in I /\ Below(I, e[k + 1]) = (k + 1) - 1
      BY <1>3, <2>2
    <3>2. QED  BY <3>1
  <2>4. ~(e[k + 1] < x) /\ ~(x < e[k + 1])
    <3>1. e[k + 1] < x => k < k
      BY <2>1, <2>3, BelowCounts
    <3>2. x < e[k + 1] => k < k
      BY <2>1, <2>3, BelowCounts
    <3>3. QED  BY <3>1, <3>2
  <2>5. e[k + 1] \in Int /\ x \in Int
    BY <2>3
  <2>6. e[k + 1] = x
    BY <2>4, <2>5
  <2>7. QED  BY <2>2, <2>6
<1>8. ASSUME I \subseteq Nat \ {0}  PROVE \A n \in 1..c : n <= e[n]
  <2> DEFINE S == {n \in Nat : n \in 1..c => n <= e[n]}
  <2>1. 0 \in S
    OBVIOUS
  <2>2. ASSUME NEW m \in 0..(c - 1), m \in S  PROVE m + 1 \in S
    <3>1. m + 1 \in 1..c /\ e[m + 1] \in Nat \ {0}
      BY <1>3, <1>8
    <3>2. CASE m = 0
      BY <3>1, <3>2
    <3>3. CASE m # 0
      <4>1. m \in 1..c /\ m <= e[m] /\ e[m] < e[m + 1] /\ e[m] \in Nat
        BY <1>3, <1>6, <1>8, <2>2, <3>1, <3>3
      <4>2. QED  BY <3>1, <4>1
    <3>4. QED  BY <3>2, <3>3
  <2> HIDE DEF S
  <2>3. \A n \in 0..c : n \in S
    BY <2>1, <2>2, UpTo
  <2>4. QED  BY <2>3 DEF S
<1>9. QED  BY <1>6, <1>7, <1>8

(* e numbers the members of I: entry n is one with n - 1 below it. *)
Numbers(I, e) ==
    /\ e = [n \in 1..Cardinality(I) |-> e[n]]
    /\ \A n \in 1..Cardinality(I) : \A i \in I :
          Below(I, i) = n - 1 => e[n] \in I /\ Below(I, e[n]) = n - 1

(* The members of a finite set of numbers in increasing order. *)
LEMMA IncreasingOrder ==
    ASSUME NEW I \in SUBSET Int, IsFiniteSet(I), NEW e, Numbers(I, e)
    PROVE  /\ Cardinality(I) \in Nat /\ e \in Seq(I) /\ Len(e) = Cardinality(I)
           /\ \A m, n \in 1..Len(e) : m < n => e[m] < e[n]
           /\ \A x \in I : \E n \in 1..Len(e) : e[n] = x
           /\ I \subseteq Nat \ {0} => \A n \in 1..Len(e) : n <= e[n]
<1>1. PICK c \in Nat : c = Cardinality(I)
  BY FS_CardinalityType
<1>2. e = [n \in 1..c |-> e[n]]
  BY <1>1 DEF Numbers
<1>3. \A n \in 1..c : \E i \in I : Below(I, i) = n - 1
  BY <1>1, EveryNumberTaken
<1>4. \A n \in 1..c : e[n] \in I /\ Below(I, e[n]) = n - 1
  BY <1>1, <1>3 DEF Numbers
<1>5. e \in [1..c -> I]
  BY <1>2, <1>4
<1>6. e \in Seq(I) /\ Len(e) = c
  BY <1>5, FunctionIsSeq
<1>7. /\ \A m, n \in 1..c : m < n => e[m] < e[n]
      /\ \A x \in I : \E n \in 1..c : e[n] = x
      /\ I \subseteq Nat \ {0} => \A n \in 1..c : n <= e[n]
  <2>1. InPlace(I, c, e)
    BY <1>4 DEF InPlace
  <2>2. QED  BY <1>1, <1>5, <2>1, NumberedOrder
<1>8. QED  BY <1>1, <1>6, <1>7

-----------------------------------------------------------------------------
(* Entries of sequences.                                                   *)

(* A sequence with one entry more. *)
LEMMA OneMore ==
    ASSUME NEW S, NEW q \in Seq(S), NEW t \in S
    PROVE  /\ <<t>> \in Seq(S) /\ Len(<<t>>) = 1 /\ <<t>>[1] = t
           /\ Append(q, t) \in Seq(S) /\ Len(Append(q, t)) = Len(q) + 1
           /\ Append(q, t)[Len(q) + 1] = t
           /\ \A i \in 1..Len(q) : Append(q, t)[i] = q[i]
           /\ q \o <<t>> = Append(q, t)
<1>1. <<t>> \in Seq(S) /\ Len(<<t>>) = 1 /\ <<t>>[1] = t
  OBVIOUS
<1>2. /\ Append(q, t) \in Seq(S) /\ Len(Append(q, t)) = Len(q) + 1
      /\ Append(q, t)[Len(q) + 1] = t
      /\ \A i \in 1..Len(q) : Append(q, t)[i] = q[i]
  OBVIOUS
<1>3. q \o <<t>> = Append(q, t)
  OBVIOUS
<1>4. QED  BY <1>1, <1>2, <1>3

(* One entry replaced. *)
LEMMA OneReplaced ==
    ASSUME NEW S, NEW q \in Seq(S), NEW t \in S, NEW k \in 1..Len(q)
    PROVE  LET w == [q EXCEPT ![k] = t]
           IN  /\ w \in Seq(S) /\ Len(w) = Len(q) /\ w[k] = t
               /\ \A i \in 1..Len(q) : i # k => w[i] = q[i]
  OBVIOUS

(* Appending inside. *)
LEMMA AppendInside ==
    ASSUME NEW S, NEW q \in Seq(S), NEW r \in Seq(S), NEW t \in S
    PROVE  q \o Append(r, t) = (q \o r) \o <<t>>
  OBVIOUS

(* Two sequences with the same entries. *)
LEMMA SameEntries ==
    ASSUME NEW S, NEW q \in Seq(S), NEW r \in Seq(S), Len(q) = Len(r),
           \A i \in 1..Len(q) : q[i] = r[i]
    PROVE  q = r
  OBVIOUS

-----------------------------------------------------------------------------
(* Concatenations.                                                         *)

(* g gives the concatenation of the first k sequences in s, for every k. *)
IsJoin(s, g) == g[0] = <<>> /\ \A k \in 1..Len(s) : g[k] = g[k - 1] \o s[k]

(* Any number of sequences can be concatenated. *)
LEMMA JoinExists ==
    ASSUME NEW S, NEW s \in Seq(Seq(S))
    PROVE  \E g \in [0..Len(s) -> Seq(S)] : IsJoin(s, g)
<1> DEFINE G == [k \in 1..Len(s) |-> [x \in Seq(S) |-> x \o s[k]]]
<1>1. Len(s) \in Nat /\ <<>> \in Seq(S) /\ \A k \in 1..Len(s) : s[k] \in Seq(S)
  OBVIOUS
<1>2. G \in [1..Len(s) -> [Seq(S) -> Seq(S)]]
  BY <1>1
<1>3. \A k \in 1..Len(s), x \in Seq(S) : G[k][x] = x \o s[k]
  OBVIOUS
<1> HIDE DEF G
<1>4. PICK g \in [0..Len(s) -> Seq(S)] :
         g[0] = <<>> /\ \A k \in 1..Len(s) : g[k] = G[k][g[k - 1]]
  <2>1. PICK n \in Nat : n = Len(s)
    BY <1>1
  <2>2. PICK T : T = Seq(S)
    OBVIOUS
  <2>3. PICK b : b = <<>>
    OBVIOUS
  <2>4. PICK H : H = G
    OBVIOUS
  <2>5. b \in T /\ H \in [1..n -> [T -> T]]
    BY <1>1, <1>2, <2>1, <2>2, <2>3, <2>4
  <2>6. PICK g \in [0..n -> T] : IsRecursion(n, b, H, g)
    BY <2>5, RecursionExists
  <2>7. QED  BY <2>1, <2>2, <2>3, <2>4, <2>6 DEF IsRecursion
<1>5. ASSUME NEW k \in 1..Len(s)  PROVE g[k] = g[k - 1] \o s[k]
  <2>1. k - 1 \in 0..Len(s)
    BY <1>1
  <2>2. g[k - 1] \in Seq(S)
    BY <2>1
  <2>3. QED  BY <1>3, <1>4, <2>2
<1>6. QED  BY <1>4, <1>5 DEF IsJoin

(* t is the first k sequences of s in a row, B[p] being the one that entry *)
(* p comes from: blocks follow each other, hold what their sequence holds, *)
(* and blocks of at most two end early enough.                             *)
Blocks(s, t, k, B) ==
    /\ \A p, q \in 1..Len(t) : p <= q => B[p] <= B[q]
    /\ \A p \in 1..Len(t) : \E i \in DOMAIN s[B[p]] : t[p] = s[B[p]][i]
    /\ \A j \in 1..k : \A i \in DOMAIN s[j] :
          \E p \in 1..Len(t) : B[p] = j /\ t[p] = s[j][i]
    /\ (\A j \in 1..k : Len(s[j]) <= 2) =>
          Len(t) <= 2 * k /\ \A p \in 1..Len(t) : p <= 2 * B[p]

(* One more sequence is one more block. *)
LEMMA BlocksStep ==
    ASSUME NEW S, NEW s \in Seq(Seq(S)), NEW t \in Seq(S), NEW k \in Nat,
           k + 1 <= Len(s), NEW n \in Nat, n = Len(t),
           NEW B \in [1..n -> 1..k], Blocks(s, t, k, B)
    PROVE  \E C \in [1..Len(t \o s[k + 1]) -> 1..(k + 1)] :
              Blocks(s, t \o s[k + 1], k + 1, C)
<1>1. PICK u \in Seq(S) : u = s[k + 1]
  OBVIOUS
<1>2. \A p \in 1..n : B[p] \in 1..k
  OBVIOUS
<1>3. PICK m \in Nat : m = Len(u)
  OBVIOUS
<1>4. PICK w \in Seq(S) : w = t \o u
  BY ConcatProperties
<1>5. /\ Len(w) = n + m
      /\ \A p \in 1..n : w[p] = t[p]
      /\ \A i \in 1..m : w[n + i] = u[i]
  BY <1>2, <1>3, <1>4
<1>6. PICK C \in [1..(n + m) -> 1..(k + 1)] :
         C = [p \in 1..(n + m) |-> IF p <= n THEN B[p] ELSE k + 1]
  <2> DEFINE C == [p \in 1..(n + m) |-> IF p <= n THEN B[p] ELSE k + 1]
  <2>1. \A p \in 1..(n + m) : p <= n => p \in 1..n /\ B[p] \in 1..k
    BY <1>2
  <2>2. C \in [1..(n + m) -> 1..(k + 1)]
    BY <2>1
  <2>3. QED  BY <2>2
<1>7. /\ \A p \in 1..n : C[p] = B[p] /\ C[p] \in 1..k
      /\ \A p \in 1..(n + m) : p > n => C[p] = k + 1 /\ p - n \in 1..m /\ w[p] = u[p - n]
  <2>1. \A p \in 1..n : p \in 1..(n + m) /\ p <= n /\ B[p] \in 1..k
    BY <1>2
  <2>2. \A p \in 1..n : C[p] = B[p] /\ C[p] \in 1..k
    BY <1>6, <2>1
  <2>3. ASSUME NEW p \in 1..(n + m), p > n
        PROVE  C[p] = k + 1 /\ p - n \in 1..m /\ w[p] = u[p - n]
    <3>1. p - n \in 1..m /\ p = n + (p - n)
      BY <2>3
    <3>2. C[p] = k + 1
      BY <1>6, <2>3
    <3>3. QED  BY <1>5, <3>1, <3>2
  <2>4. QED  BY <2>2, <2>3
<1>8. /\ \A p, q \in 1..n : p <= q => B[p] <= B[q]
      /\ \A p \in 1..n : \E i \in DOMAIN s[B[p]] : t[p] = s[B[p]][i]
      /\ \A j \in 1..k : \A i \in DOMAIN s[j] :
            \E p \in 1..n : B[p] = j /\ t[p] = s[j][i]
      /\ (\A j \in 1..k : Len(s[j]) <= 2) =>
            n <= 2 * k /\ \A p \in 1..n : p <= 2 * B[p]
  BY <1>2 DEF Blocks
<1>9. ASSUME NEW p \in 1..(n + m), NEW q \in 1..(n + m), p <= q
      PROVE  C[p] <= C[q]
  <2>1. CASE q <= n
    <3>1. p \in 1..n /\ q \in 1..n
      BY <1>9, <2>1
    <3>2. QED  BY <1>7, <1>8, <1>9, <3>1
  <2>2. CASE q > n
    <3>1. C[q] = k + 1 /\ C[p] \in 1..(k + 1)
      BY <1>7, <2>2
    <3>2. QED  BY <3>1
  <2>3. QED  BY <2>1, <2>2
<1>10. ASSUME NEW p \in 1..(n + m)
      PROVE  \E i \in DOMAIN s[C[p]] : w[p] = s[C[p]][i]
  <2>1. CASE p <= n
    <3>1. p \in 1..n
      BY <2>1
    <3>2. w[p] = t[p] /\ C[p] = B[p]
      BY <1>5, <1>7, <3>1
    <3>3. \E i \in DOMAIN s[B[p]] : t[p] = s[B[p]][i]
      BY <1>8, <3>1
    <3>4. QED  BY <3>2, <3>3
  <2>2. CASE p > n
    <3>1. C[p] = k + 1 /\ p - n \in 1..m /\ w[p] = u[p - n]
      BY <1>7, <2>2
    <3>2. p - n \in DOMAIN u
      BY <1>3, <3>1
    <3>3. QED  BY <1>1, <3>1, <3>2
  <2>3. QED  BY <2>1, <2>2
<1>11. ASSUME NEW j \in 1..(k + 1), NEW i \in DOMAIN s[j]
       PROVE  \E p \in 1..(n + m) : C[p] = j /\ w[p] = s[j][i]
  <2>1. CASE j \in 1..k
    <3>1. PICK p \in 1..n : B[p] = j /\ t[p] = s[j][i]
      BY <1>8, <1>11, <2>1
    <3>2. p \in 1..(n + m)
      OBVIOUS
    <3>3. C[p] = j /\ w[p] = s[j][i]
      BY <1>5, <1>7, <3>1
    <3>4. QED  BY <3>2, <3>3
  <2>2. CASE j = k + 1
    <3>1. i \in 1..m
      BY <1>1, <1>3, <1>11, <2>2
    <3>2. n + i \in 1..(n + m) /\ n + i > n
      BY <3>1
    <3>3. C[n + i] = j /\ w[n + i] = u[i]
      BY <1>5, <1>7, <2>2, <3>1, <3>2
    <3>4. QED  BY <1>1, <2>2, <3>2, <3>3
  <2>3. j \in 1..k \/ j = k + 1
    OBVIOUS
  <2>4. QED  BY <2>1, <2>2, <2>3
<1>12. ASSUME \A j \in 1..(k + 1) : Len(s[j]) <= 2
       PROVE  n + m <= 2 * (k + 1) /\ \A p \in 1..(n + m) : p <= 2 * C[p]
  <2>1. m <= 2 /\ \A j \in 1..k : Len(s[j]) <= 2
    <3>1. k + 1 \in 1..(k + 1) /\ \A j \in 1..k : j \in 1..(k + 1)
      OBVIOUS
    <3>2. QED  BY <1>1, <1>3, <1>12, <3>1
  <2>2. n <= 2 * k /\ \A p \in 1..n : p <= 2 * B[p]
    BY <1>8, <2>1
  <2>3. ASSUME NEW p \in 1..(n + m)  PROVE p <= 2 * C[p]
    <3>1. CASE p <= n
      <4>1. p \in 1..n
        BY <3>1
      <4>2. QED  BY <1>7, <2>2, <4>1
    <3>2. CASE p > n
      <4>1. C[p] = k + 1
        BY <1>7, <3>2
      <4>2. QED  BY <2>1, <2>2, <4>1
    <3>3. QED  BY <3>1, <3>2
  <2>4. QED  BY <2>1, <2>2, <2>3
<1>13. Blocks(s, w, k + 1, C)
  BY <1>5, <1>9, <1>10, <1>11, <1>12 DEF Blocks
<1>14. w = t \o s[k + 1] /\ C \in [1..Len(w) -> 1..(k + 1)]
  BY <1>1, <1>4, <1>5
<1>15. QED  BY <1>13, <1>14

(* Every concatenation consists of its blocks. *)
LEMMA JoinBlocks ==
    ASSUME NEW S, NEW s \in Seq(Seq(S)), NEW g \in [0..Len(s) -> Seq(S)], IsJoin(s, g)
    PROVE  \E B \in [1..Len(g[Len(s)]) -> 1..Len(s)] :
              Blocks(s, g[Len(s)], Len(s), B)
<1> DEFINE Good == {k \in 0..Len(s) :
                      \E B \in [1..Len(g[k]) -> 1..k] : Blocks(s, g[k], k, B)}
<1>1. Len(s) \in Nat
  OBVIOUS
<1>2. 0 \in Good
  <2>1. g[0] = <<>> /\ Len(g[0]) = 0 /\ 0 \in 0..Len(s)
    BY <1>1 DEF IsJoin
  <2>2. PICK B \in [1..0 -> 1..0] : TRUE
    <3>1. [p \in 1..0 |-> p] \in [1..0 -> 1..0]
      OBVIOUS
    <3>2. QED  BY <3>1
  <2>3. \A p \in 1..0 : FALSE
    OBVIOUS
  <2>4. Blocks(s, g[0], 0, B)
    BY <2>1, <2>3 DEF Blocks
  <2>5. QED  BY <2>1, <2>2, <2>4
<1>3. ASSUME NEW k \in 0..(Len(s) - 1), k \in Good  PROVE k + 1 \in Good
  <2>1. k \in 0..Len(s) /\ k + 1 \in 1..Len(s) /\ k + 1 \in 0..Len(s) /\ k \in Nat
    BY <1>1
  <2>2. PICK B \in [1..Len(g[k]) -> 1..k] : Blocks(s, g[k], k, B)
    BY <1>3
  <2>3. PICK t \in Seq(S) : t = g[k]
    BY <2>1
  <2>4. g[k + 1] = t \o s[k + 1]
    <3>1. \A i \in 1..Len(s) : g[i] = g[i - 1] \o s[i]
      BY DEF IsJoin
    <3>2. (k + 1) - 1 = k
      BY <2>1
    <3>3. g[k + 1] = g[(k + 1) - 1] \o s[k + 1]
      BY <2>1, <3>1, Zenon
    <3>4. QED  BY <2>3, <3>2, <3>3
  <2>5. B \in [1..Len(t) -> 1..k] /\ Blocks(s, t, k, B) /\ k + 1 <= Len(s)
    BY <2>1, <2>2, <2>3
  <2>6. \E C \in [1..Len(t \o s[k + 1]) -> 1..(k + 1)] :
           Blocks(s, t \o s[k + 1], k + 1, C)
    <3>1. PICK n \in Nat : n = Len(t)
      OBVIOUS
    <3>2. B \in [1..n -> 1..k]
      BY <2>5, <3>1
    <3>3. QED  BY <2>1, <2>5, <3>1, <3>2, BlocksStep
  <2>7. QED  BY <2>1, <2>4, <2>6
<1> HIDE DEF Good
<1>4. Len(s) \in Good
  <2>1. \A k \in 0..Len(s) : k \in Good
    BY <1>1, <1>2, <1>3, UpTo
  <2>2. QED  BY <1>1, <2>1
<1>5. QED  BY <1>4 DEF Good

-----------------------------------------------------------------------------
(* Sums.                                                                   *)

(* f gives the sum of the first i of n numbers v, for every i. *)
IsSum(n, v, f) == f[0] = 0 /\ \A i \in 1..n : f[i] = f[i - 1] + v[i]

(* One step of a sum, at the place before. *)
LEMMA SumStep ==
    ASSUME NEW n \in Nat, NEW v \in [1..n -> Int], NEW f \in [0..n -> Int],
           IsSum(n, v, f), NEW i \in 0..(n - 1)
    PROVE  /\ i \in 0..n /\ i + 1 \in 1..n /\ f[i + 1] = f[i] + v[i + 1]
           /\ f[i] \in Int /\ v[i + 1] \in Int
<1>1. i \in 0..n /\ i + 1 \in 1..n /\ (i + 1) - 1 = i
  OBVIOUS
<1>2. \A j \in 1..n : f[j] = f[j - 1] + v[j]
  BY DEF IsSum
<1>3. f[i + 1] = f[(i + 1) - 1] + v[i + 1]
  BY <1>1, <1>2, Zenon
<1>4. QED  BY <1>1, <1>3

(* Numbers of at most c sum up to at most c times as many. *)
LEMMA SumAtMost ==
    ASSUME NEW n \in Nat, NEW v \in [1..n -> Int], NEW f \in [0..n -> Int],
           IsSum(n, v, f), NEW c \in Int, \A i \in 1..n : v[i] <= c
    PROVE  \A i \in 0..n : f[i] <= i * c
<1> DEFINE Good == {i \in 0..n : f[i] <= i * c}
<1>1. 0 \in Good
  <2>1. f[0] = 0 /\ 0 * c = 0 /\ 0 \in 0..n
    BY DEF IsSum
  <2>2. QED  BY <2>1
<1>2. ASSUME NEW i \in 0..(n - 1), i \in Good  PROVE i + 1 \in Good
  <2>1. /\ i \in 0..n /\ i + 1 \in 1..n /\ f[i + 1] = f[i] + v[i + 1]
        /\ f[i] \in Int /\ v[i + 1] \in Int
    BY SumStep
  <2>2. (i + 1) * c = i * c + c /\ i * c \in Int
    OBVIOUS
  <2>3. v[i + 1] <= c /\ f[i] <= i * c
    BY <1>2, <2>1
  <2>4. f[i + 1] <= (i + 1) * c
    BY <2>1, <2>2, <2>3
  <2>5. QED  BY <2>1, <2>4
<1> HIDE DEF Good
<1>3. \A i \in 0..n : i \in Good
  BY <1>1, <1>2, UpTo
<1>4. QED  BY <1>3 DEF Good

(* If such a sum reaches that bound, so does each number. *)
LEMMA SumFull ==
    ASSUME NEW n \in Nat, NEW v \in [1..n -> Int], NEW f \in [0..n -> Int],
           IsSum(n, v, f), NEW c \in Int, \A i \in 1..n : v[i] <= c, f[n] >= n * c
    PROVE  \A i \in 1..n : v[i] = c
<1> DEFINE Good == {i \in 0..n : f[i] >= i * c => \A j \in 1..i : v[j] = c}
<1>1. 0 \in Good
  OBVIOUS
<1>2. ASSUME NEW i \in 0..(n - 1), i \in Good  PROVE i + 1 \in Good
  <2>1. /\ i \in 0..n /\ i + 1 \in 1..n /\ f[i + 1] = f[i] + v[i + 1]
        /\ f[i] \in Int /\ v[i + 1] \in Int
    BY SumStep
  <2>2. (i + 1) * c = i * c + c /\ i * c \in Int
    OBVIOUS
  <2>3. f[i] <= i * c
    BY <2>1, SumAtMost
  <2>4. v[i + 1] <= c
    BY <2>1
  <2>5. ASSUME f[i + 1] >= (i + 1) * c  PROVE \A j \in 1..(i + 1) : v[j] = c
    <3>1. v[i + 1] = c /\ f[i] >= i * c
      BY <2>1, <2>2, <2>3, <2>4, <2>5
    <3>2. \A j \in 1..i : v[j] = c
      BY <1>2, <3>1
    <3>3. \A j \in 1..(i + 1) : j \in 1..i \/ j = i + 1
      OBVIOUS
    <3>4. QED  BY <3>1, <3>2, <3>3
  <2>6. i + 1 \in 0..n
    BY <2>1
  <2>7. QED  BY <2>5, <2>6
<1> HIDE DEF Good
<1>3. n \in Good
  <2>1. \A i \in 0..n : i \in Good
    BY <1>1, <1>2, UpTo
  <2>2. QED  BY <2>1
<1>4. QED  BY <1>3 DEF Good

(* Sums compare as their numbers do. *)
LEMMA SumCompare ==
    ASSUME NEW n \in Nat, NEW v \in [1..n -> Int], NEW f \in [0..n -> Int],
           IsSum(n, v, f), NEW w \in [1..n -> Int], NEW g \in [0..n -> Int],
           IsSum(n, w, g), NEW c \in Int, \A i \in 1..n : v[i] <= w[i] * c
    PROVE  f[n] <= g[n] * c
<1> DEFINE Good == {i \in 0..n : f[i] <= g[i] * c}
<1>1. 0 \in Good
  <2>1. f[0] = 0 /\ g[0] = 0 /\ 0 * c = 0 /\ 0 \in 0..n
    BY DEF IsSum
  <2>2. QED  BY <2>1
<1>2. ASSUME NEW i \in 0..(n - 1), i \in Good  PROVE i + 1 \in Good
  <2>1. /\ i \in 0..n /\ i + 1 \in 1..n /\ f[i + 1] = f[i] + v[i + 1]
        /\ f[i] \in Int /\ v[i + 1] \in Int
    BY SumStep
  <2>2. g[i + 1] = g[i] + w[i + 1] /\ g[i] \in Int /\ w[i + 1] \in Int
    BY SumStep
  <2>3. PICK a \in Int : a = g[i]
    BY <2>2
  <2>4. PICK b \in Int : b = w[i + 1]
    BY <2>2
  <2>5. (a + b) * c = a * c + b * c /\ a * c \in Int /\ b * c \in Int
    OBVIOUS
  <2>6. v[i + 1] <= b * c /\ f[i] <= a * c
    BY <1>2, <2>1, <2>3, <2>4
  <2>7. f[i] + v[i + 1] <= a * c + b * c
    <3>1. PICK x \in Int : x = a * c
      BY <2>5
    <3>2. PICK y \in Int : y = b * c
      BY <2>5
    <3>3. PICK p \in Int : p = f[i]
      BY <2>1
    <3>4. PICK q \in Int : q = v[i + 1]
      BY <2>1
    <3>5. q <= y /\ p <= x
      BY <2>6, <3>1, <3>2, <3>3, <3>4
    <3>6. p + q <= x + y
      BY <3>5
    <3>7. QED  BY <3>1, <3>2, <3>3, <3>4, <3>6
  <2>8. f[i + 1] <= g[i + 1] * c
    BY <2>1, <2>2, <2>3, <2>4, <2>5, <2>7
  <2>9. QED  BY <2>1, <2>8
<1> HIDE DEF Good
<1>3. n \in Good
  <2>1. \A i \in 0..n : i \in Good
    BY <1>1, <1>2, UpTo
  <2>2. QED  BY <2>1
<1>4. QED  BY <1>3 DEF Good
=============================================================================
