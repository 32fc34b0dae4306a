------------------------------- MODULE Induction -------------------------------
(***************************************************************************)
(* Induction for what is defined recursively.  The lemmas are about sets   *)
(* of numbers: of every such set there is a least one, because the         *)
(* intervals 1..n are finite sets and inclusion of finite sets is          *)
(* well-founded.  From it, what FlattenSeq is and where it puts things,    *)
(* and that sums and products over a finite set do not depend on an order. *)
(***************************************************************************)
EXTENDS Integers, SequencesExt, FiniteSetTheorems, WellFoundedInduction, SequenceTheorems, TLAPS

LEMMA LeastNumber ==
  ASSUME NEW T \in SUBSET Nat, T # {}
  PROVE  \E n \in T : \A m \in T : n <= m
<1> DEFINE R == StrictSubsetOrdering(Nat)
           U == {1..n : n \in T}
<1>1. IsWellFoundedOn(R, FiniteSubsetsOf(Nat))
  BY FS_StrictSubsetOrderingWellFounded
<1>2. U \subseteq FiniteSubsetsOf(Nat)
  <2>1. ASSUME NEW n \in T PROVE 1..n \in FiniteSubsetsOf(Nat)
    <3>1. IsFiniteSet(1..n) /\ 1..n \in SUBSET Nat
      BY FS_Interval
    <3> QED BY <3>1 DEF FiniteSubsetsOf
  <2> QED BY <2>1
<1>3. U # {}
  OBVIOUS
<1>4. PICK x \in U : \A y \in U : ~(<<y, x>> \in R)
  <2> HIDE DEF R, U
  <2> QED BY <1>1, <1>2, <1>3, WFMin
<1>5. PICK n \in T : x = 1..n
  OBVIOUS
<1>6. ASSUME NEW m \in T, m < n PROVE FALSE
  <2>1. 1..m \subseteq 1..n /\ n \in 1..n /\ n \notin 1..m
    BY <1>6
  <2>2. <<1..m, x>> \in R
    BY <2>1, <1>5 DEF StrictSubsetOrdering
  <2> QED BY <1>4, <2>2
<1> QED BY <1>5, <1>6

LEMMA InductionOverSet ==
  ASSUME NEW T, 0 \in T, \A n \in Nat : n \in T => n + 1 \in T
  PROVE  Nat \subseteq T
<1> SUFFICES ASSUME Nat \ T # {} PROVE FALSE
  OBVIOUS
<1>1. PICK n \in Nat \ T : \A m \in Nat \ T : n <= m
  BY LeastNumber
<1>2. n - 1 \in Nat /\ n - 1 \in T
  BY <1>1
<1> QED BY <1>1, <1>2

-------------------------------------------------------------------------------
(* What FlattenSeq computes on its way. *)
IsFlatten(f, s) == f = [i \in 1..Len(s) |-> IF i = 1 THEN s[i] ELSE f[i - 1] \o s[i]]

LEMMA FlattenExists ==
  ASSUME NEW S, NEW s \in Seq(S), s # <<>>
  PROVE  \E f : IsFlatten(f, s)
<1> DEFINE Steps(f, n) == f = [i \in 1..n |-> IF i = 1 THEN s[i] ELSE f[i - 1] \o s[i]]
           T == {n \in Nat : \E f : Steps(f, n + 1)}
<1>1. 0 \in T
  <2> DEFINE g == [i \in 1..1 |-> s[1]]
  <2>1. 0 + 1 = 1 /\ g[1] = s[1] /\ \A i \in 1..1 : i = 1
    OBVIOUS
  <2>2. Steps(g, 0 + 1)
    BY <2>1
  <2> HIDE DEF g, Steps
  <2> QED BY <2>2
<1>2. ASSUME NEW n \in Nat, n \in T PROVE n + 1 \in T
  <2>1. PICK f : Steps(f, n + 1)
    BY <1>2
  <2> DEFINE g == [i \in 1..(n + 2) |-> IF i <= n + 1 THEN f[i] ELSE f[n + 1] \o s[n + 2]]
  <2>2. ASSUME NEW i \in 1..(n + 2)
        PROVE  g[i] = IF i = 1 THEN s[i] ELSE g[i - 1] \o s[i]
    <3>1. CASE i = 1
      BY <3>1, <2>1
    <3>2. CASE i # 1 /\ i <= n + 1
      <4>1. i \in 1..(n + 1) /\ i - 1 \in 1..(n + 2) /\ i - 1 <= n + 1
        BY <3>2
      <4>2. f[i] = f[i - 1] \o s[i]
        BY <3>2, <4>1, <2>1
      <4> QED BY <3>2, <4>1, <4>2
    <3>3. CASE i = n + 2
      <4>1. i - 1 \in 1..(n + 2) /\ i - 1 = n + 1 /\ ~(i <= n + 1) /\ i # 1
        BY <3>3
      <4>2. g[i - 1] = f[n + 1]
        BY <4>1
      <4>3. g[i] = f[n + 1] \o s[n + 2]
        BY <3>3, <4>1
      <4>4. g[i] = g[i - 1] \o s[i]
        <5> HIDE DEF g
        <5> QED BY <3>3, <4>2, <4>3
      <4> HIDE DEF g
      <4> QED BY <4>1, <4>4
    <3> QED BY <3>1, <3>2, <3>3
  <2>3. Steps(g, n + 2)
    <3>1. DOMAIN g = 1..(n + 2) /\ g = [i \in 1..(n + 2) |-> g[i]]
      OBVIOUS
    <3> HIDE DEF g
    <3> QED BY <3>1, <2>2
  <2>4. Steps(g, (n + 1) + 1)
    <3>1. n + 2 = (n + 1) + 1
      OBVIOUS
    <3> HIDE DEF g
    <3> QED BY <2>3, <3>1
  <2> HIDE DEF g, Steps
  <2> QED BY <2>4
<1>3. Nat \subseteq T
  <2> HIDE DEF T
  <2> QED BY <1>1, <1>2, InductionOverSet
<1>4. Len(s) - 1 \in Nat /\ (Len(s) - 1) + 1 = Len(s)
  BY EmptySeq
<1> QED BY <1>3, <1>4 DEF IsFlatten

LEMMA FlattenIs ==
  ASSUME NEW S, NEW s \in Seq(S), s # <<>>
  PROVE  \E f : IsFlatten(f, s) /\ FlattenSeq(s) = f[Len(s)]
<1> DEFINE flatten == CHOOSE f : IsFlatten(f, s)
<1>1. IsFlatten(flatten, s)
  BY FlattenExists
<1>2. Len(s) # 0
  BY EmptySeq
<1>3. FlattenSeq(s) = flatten[Len(s)]
  BY <1>2 DEF FlattenSeq, IsFlatten
<1> QED BY <1>1, <1>3

(* FlattenSeq puts the sequences one after the other: the one with number  *)
(* i is behind place[i].                                                   *)
LEMMA FlattenPlaces ==
  ASSUME NEW S, NEW s \in Seq(Seq(S))
  PROVE  /\ FlattenSeq(s) \in Seq(S)
         /\ \E place \in [1..(Len(s) + 1) -> Nat] :
              /\ place[1] = 0 /\ place[Len(s) + 1] = Len(FlattenSeq(s))
              /\ \A i \in 1..Len(s) :
                   /\ place[i + 1] = place[i] + Len(s[i])
                   /\ place[i + 1] <= Len(FlattenSeq(s))
                   /\ \A k \in 1..Len(s[i]) : FlattenSeq(s)[place[i] + k] = s[i][k]
<1>1. CASE s = <<>>
  <2>1. Len(s) = 0 /\ FlattenSeq(s) = <<>> /\ <<>> \in Seq(S)
    BY <1>1, EmptySeq DEF FlattenSeq
  <2> DEFINE place == [i \in 1..1 |-> 0]
  <2>2. place \in [1..(Len(s) + 1) -> Nat] /\ place[1] = 0 /\ 1..Len(s) = {}
        /\ place[Len(s) + 1] = 0 /\ Len(FlattenSeq(s)) = 0
    BY <2>1
  <2> HIDE DEF place
  <2> QED BY <2>1, <2>2
<1>2. CASE s # <<>>
  <2>1. Len(s) \in Nat \ {0} /\ \A i \in 1..Len(s) : s[i] \in Seq(S) /\ Len(s[i]) \in Nat
    BY <1>2, EmptySeq, ElementOfSeq, LenProperties
  <2> DEFINE n == Len(s)
  <2>2. PICK f : IsFlatten(f, s) /\ FlattenSeq(s) = f[n]
    BY <1>2, FlattenIs
  <2>3. f[1] = s[1] /\ \A i \in 1..(n - 1) : f[i + 1] = f[i] \o s[i + 1]
    <3>1. 1 \in 1..n /\ f[1] = s[1]
      BY <2>1, <2>2 DEF IsFlatten
    <3>2. ASSUME NEW i \in 1..(n - 1) PROVE f[i + 1] = f[i] \o s[i + 1]
      <4>1. i + 1 \in 1..n /\ i + 1 # 1 /\ (i + 1) - 1 = i
        BY <2>1
      <4> QED BY <2>2, <4>1 DEF IsFlatten
    <3> QED BY <3>1, <3>2
  <2> DEFINE place == [i \in 1..(n + 1) |-> IF i = 1 THEN 0 ELSE Len(f[i - 1])]
  <2>4. place[1] = 0 /\ \A i \in 1..n : place[i + 1] = Len(f[i])
    <3>1. place[1] = 0
      BY <2>1
    <3>2. ASSUME NEW i \in 1..n PROVE place[i + 1] = Len(f[i])
      <4>1. i + 1 \in 1..(n + 1) /\ i + 1 # 1 /\ (i + 1) - 1 = i
        BY <2>1
      <4> QED BY <4>1
    <3> QED BY <3>1, <3>2
  <2> HIDE DEF place, n
  <2>5. \A i \in 1..n : f[i] \in Seq(S) /\ Len(f[i]) \in Nat
    <3> DEFINE T == {j \in Nat : j + 1 <= n => f[j + 1] \in Seq(S)}
    <3>1. 0 \in T
      BY <2>1, <2>3 DEF n
    <3>2. ASSUME NEW j \in Nat, j \in T PROVE j + 1 \in T
      <4> SUFFICES ASSUME (j + 1) + 1 <= n PROVE f[(j + 1) + 1] \in Seq(S)
        OBVIOUS
      <4>1. j + 1 \in 1..(n - 1) /\ (j + 1) + 1 \in 1..n /\ j + 1 <= n
        BY <2>1 DEF n
      <4>2. f[j + 1] \in Seq(S) /\ s[(j + 1) + 1] \in Seq(S)
        BY <2>1, <3>2, <4>1 DEF n
      <4>3. f[(j + 1) + 1] = f[j + 1] \o s[(j + 1) + 1]
        BY <2>3, <4>1
      <4>4. f[j + 1] \o s[(j + 1) + 1] \in Seq(S)
        BY <4>2, ConcatProperties, Zenon
      <4> QED BY <4>3, <4>4
    <3>3. Nat \subseteq T
      <4> HIDE DEF T
      <4> QED BY <3>1, <3>2, InductionOverSet
    <3>4. ASSUME NEW i \in 1..n PROVE f[i] \in Seq(S)
      <4>1. i - 1 \in Nat /\ (i - 1) + 1 = i /\ i <= n
        BY <2>1 DEF n
      <4>2. i - 1 \in T
        BY <3>3, <4>1
      <4> QED BY <4>1, <4>2
    <3> QED BY <3>4, LenProperties
  <2>6. ASSUME NEW i \in 1..(n - 1)
        PROVE  /\ Len(f[i + 1]) = Len(f[i]) + Len(s[i + 1])
               /\ \A k \in 1..Len(f[i + 1]) :
                    f[i + 1][k] = IF k <= Len(f[i]) THEN f[i][k] ELSE s[i + 1][k - Len(f[i])]
    <3>1. i \in 1..n /\ i + 1 \in 1..n
      BY <2>1 DEF n
    <3>2. f[i] \in Seq(S) /\ s[i + 1] \in Seq(S)
      BY <2>1, <2>5, <3>1 DEF n
    <3>3. f[i + 1] = f[i] \o s[i + 1]
      BY <2>3
    <3>4. /\ Len(f[i] \o s[i + 1]) = Len(f[i]) + Len(s[i + 1])
          /\ \A k \in 1..(Len(f[i]) + Len(s[i + 1])) :
               (f[i] \o s[i + 1])[k] =
                 IF k <= Len(f[i]) THEN f[i][k] ELSE s[i + 1][k - Len(f[i])]
      BY <3>2, ConcatProperties, Zenon
    <3> QED BY <3>3, <3>4
  <2>7. /\ place \in [1..(n + 1) -> Nat]
        /\ \A i \in 1..n : place[i + 1] = place[i] + Len(s[i])
    <3>1. ASSUME NEW i \in 1..(n + 1) PROVE place[i] \in Nat
      <4>1. CASE i = 1
        BY <4>1, <2>4
      <4>2. CASE i # 1
        <5>1. i - 1 \in 1..n /\ (i - 1) + 1 = i
          BY <4>2, <2>1 DEF n
        <5> QED BY <5>1, <2>4, <2>5
      <4> QED BY <4>1, <4>2
    <3>2. ASSUME NEW i \in 1..n PROVE place[i + 1] = place[i] + Len(s[i])
      <4>1. CASE i = 1
        BY <4>1, <2>1, <2>3, <2>4 DEF n
      <4>2. CASE i # 1
        <5>1. i - 1 \in 1..(n - 1) /\ i - 1 \in 1..n /\ (i - 1) + 1 = i
          BY <4>2, <2>1 DEF n
        <5>2. Len(f[i]) = Len(f[i - 1]) + Len(s[i])
          BY <5>1, <2>6
        <5> QED BY <5>1, <5>2, <2>4
      <4> QED BY <4>1, <4>2
    <3>3. place \in [1..(n + 1) -> Nat]
      BY <3>1 DEF place
    <3> QED BY <3>2, <3>3
  <2> DEFINE Places(j) == \A i \in 1..j :
                            /\ place[i + 1] <= Len(f[j])
                            /\ \A k \in 1..Len(s[i]) : f[j][place[i] + k] = s[i][k]
             T == {j \in Nat : j + 1 <= n => Places(j + 1)}
  <2>8. 0 \in T
    <3>1. \A i \in 1..1 : i = 1
      OBVIOUS
    <3>2. f[1] = s[1] /\ place[1] = 0 /\ place[1 + 1] = Len(f[1]) /\ Len(f[1]) \in Nat
      BY <2>1, <2>3, <2>4, <2>5 DEF n
    <3>3. Places(0 + 1)
      BY <3>1, <3>2
    <3> HIDE DEF Places
    <3> QED BY <3>3
  <2>9. ASSUME NEW j \in Nat, j \in T PROVE j + 1 \in T
    <3> SUFFICES ASSUME (j + 1) + 1 <= n PROVE Places((j + 1) + 1)
      OBVIOUS
    <3> DEFINE m == j + 1
    <3>1. m \in 1..(n - 1) /\ m \in 1..n /\ m + 1 \in 1..n /\ m \in Nat /\ m <= n /\ n \in Nat
      BY <2>1 DEF n
    <3>2. Places(m)
      BY <2>9, <3>1
    <3>3. /\ Len(f[m]) \in Nat /\ Len(s[m + 1]) \in Nat
          /\ place[m + 1] = Len(f[m]) /\ place[m + 2] = Len(f[m + 1])
          /\ Len(f[m + 1]) = Len(f[m]) + Len(s[m + 1])
      <4>1. (m + 1) + 1 = m + 2
        BY <3>1
      <4> QED BY <2>1, <2>4, <2>5, <2>6, <3>1, <4>1 DEF n
    <3> HIDE DEF m
    <3> DEFINE a == Len(f[m])
               b == Len(f[m + 1])
    <3> SUFFICES ASSUME NEW i \in 1..(m + 1)
                 PROVE  /\ place[i + 1] <= b
                        /\ \A k \in 1..Len(s[i]) : f[m + 1][place[i] + k] = s[i][k]
      BY DEF m
    <3> DEFINE p == place[i]
               r == place[i + 1]
               l == Len(s[i])
    <3>4. a \in Nat /\ b \in Nat /\ p \in Nat /\ r \in Nat /\ l \in Nat /\ r = p + l /\ a <= b
      <4>1. i \in 1..n /\ i \in 1..(n + 1) /\ i + 1 \in 1..(n + 1)
        BY <3>1
      <4>2. l \in Nat
        BY <2>1, <4>1 DEF n
      <4>3. place[i] \in Nat /\ place[i + 1] \in Nat /\ place[i + 1] = place[i] + Len(s[i])
        <5> HIDE DEF place
        <5> QED BY <2>7, <4>1
      <4>4. a \in Nat /\ b \in Nat
        BY <2>5, <3>1
      <4>5. b = a + Len(s[m + 1]) /\ Len(s[m + 1]) \in Nat
        BY <3>3
      <4>6. a <= b
        <5> HIDE DEF a, b
        <5> QED BY <4>4, <4>5
      <4> HIDE DEF a, b
      <4> QED BY <4>2, <4>3, <4>4, <4>6
    <3>5. CASE i \in 1..m
      <4>1. r <= a /\ \A k \in 1..l : f[m][p + k] = s[i][k]
        BY <3>2, <3>5
      <4>2. ASSUME NEW k \in 1..l PROVE f[m + 1][p + k] = s[i][k]
        <5>1. p + k \in 1..b /\ p + k <= a
          <6> HIDE DEF a, b, p, r, l
          <6> QED BY <4>1, <3>4
        <5> QED BY <5>1, <4>1, <2>6, <3>1
      <4>3. r <= b
        <5> HIDE DEF a, b, p, r, l
        <5> QED BY <4>1, <3>4
      <4> QED BY <4>2, <4>3
    <3>6. CASE i = m + 1
      <4>1. p = a /\ r = b
        <5>1. i + 1 = m + 2
          BY <3>1, <3>6
        <5> QED BY <3>3, <3>6, <5>1
      <4>2. ASSUME NEW k \in 1..l PROVE f[m + 1][p + k] = s[i][k]
        <5>1. p + k \in 1..b /\ ~(p + k <= a) /\ (p + k) - a = k
          <6> HIDE DEF a, b, p, r, l
          <6> QED BY <4>1, <3>4
        <5> QED BY <5>1, <2>6, <3>1, <3>6
      <4>3. r <= b
        <5> HIDE DEF a, b, p, r, l
        <5> QED BY <4>1, <3>4
      <4> QED BY <4>2, <4>3
    <3>7. i \in 1..m \/ i = m + 1
      BY <3>1
    <3> QED BY <3>5, <3>6, <3>7
  <2>10. Nat \subseteq T
    <3> HIDE DEF T
    <3> QED BY <2>8, <2>9, InductionOverSet
  <2>11. Places(n) /\ f[n] \in Seq(S)
    <3>1. n - 1 \in Nat /\ (n - 1) + 1 = n /\ n <= n /\ n \in 1..n
      BY <2>1 DEF n
    <3>2. n - 1 \in T
      BY <2>10, <3>1
    <3> HIDE DEF Places
    <3> QED BY <2>5, <3>1, <3>2
  <2>12. FlattenSeq(s) = f[n]
    BY <2>2
  <2>13. place[n + 1] = Len(f[n])
    <3>1. n \in 1..n
      BY <2>1 DEF n
    <3> QED BY <2>4, <3>1
  <2> QED BY <2>4, <2>7, <2>11, <2>12, <2>13 DEF n
<1> QED BY <1>1, <1>2

-------------------------------------------------------------------------------
(* Sums and products over finite sets: MapThenFoldSet takes the elements   *)
(* in the order CHOOSE gives, and any other order gives the same.          *)

LEMMA InductionOverSubsets ==
  ASSUME NEW U, IsFiniteSet(U), NEW T, {} \in T,
         \A R \in SUBSET U : \A x \in U \ R : R \in T => R \cup {x} \in T
  PROVE  SUBSET U \subseteq T
<1> DEFINE N == {n \in Nat : \A R \in SUBSET U : Cardinality(R) = n => R \in T}
<1>1. 0 \in N
  <2> SUFFICES ASSUME NEW R \in SUBSET U, Cardinality(R) = 0 PROVE R \in T
    OBVIOUS
  <2>1. IsFiniteSet(R)
    BY FS_Subset
  <2>2. R = {}
    BY <2>1, FS_EmptySet
  <2> QED BY <2>2
<1>2. ASSUME NEW n \in Nat, n \in N PROVE n + 1 \in N
  <2> SUFFICES ASSUME NEW R \in SUBSET U, Cardinality(R) = n + 1 PROVE R \in T
    OBVIOUS
  <2>1. IsFiniteSet(R)
    BY FS_Subset
  <2>2. R # {}
    BY FS_EmptySet
  <2>3. PICK x : x \in R
    BY <2>2
  <2>4. Cardinality(R \ {x}) = n
    <3>1. Cardinality(R \ {x}) = Cardinality(R) - 1
      BY <2>1, <2>3, FS_RemoveElement
    <3> QED BY <3>1
  <2>5. R \ {x} \in SUBSET U /\ R \ {x} \in T /\ x \in U \ (R \ {x})
    BY <1>2, <2>3, <2>4
  <2>6. (R \ {x}) \cup {x} \in T
    BY <2>5
  <2>7. (R \ {x}) \cup {x} = R
    BY <2>3
  <2> QED BY <2>6, <2>7
<1>3. Nat \subseteq N
  <2> HIDE DEF N
  <2> QED BY <1>1, <1>2, InductionOverSet
<1>4. ASSUME NEW R \in SUBSET U PROVE R \in T
  <2>1. Cardinality(R) \in Nat
    BY FS_Subset, FS_CardinalityType
  <2>2. Cardinality(R) \in N
    <3> HIDE DEF N
    <3> QED BY <1>3, <2>1
  <2> QED BY <2>2
<1> QED BY <1>4

\* With add the operation is the sum, otherwise the product.
Unit(add) == IF add THEN 0 ELSE 1
Combined(add, x, y) == IF add THEN x + y ELSE x * y
Chosen(s) == CHOOSE x \in s : TRUE
FoldStep(add, f, h, s) ==
  IF s = {} THEN Unit(add) ELSE Combined(add, f[Chosen(s)], h[s \ {Chosen(s)}])
IsFold(add, f, h, S) == h = [s \in SUBSET S |-> FoldStep(add, f, h, s)]
FoldOf(add, f, S) == (CHOOSE h : IsFold(add, f, h, S))[S]

LEMMA SumIsFold ==
  ASSUME NEW f, NEW S PROVE SumFunctionOnSet(f, S) = FoldOf(TRUE, f, S)
  BY DEF SumFunctionOnSet, FoldFunctionOnSet, MapThenFoldSet, FoldOf, IsFold, FoldStep, Unit,
         Combined, Chosen

LEMMA ProductIsFold ==
  ASSUME NEW f PROVE FoldFunction(LAMBDA x, y : x * y, 1, f) = FoldOf(FALSE, f, DOMAIN f)
  BY DEF FoldFunction, FoldFunctionOnSet, MapThenFoldSet, FoldOf, IsFold, FoldStep, Unit,
         Combined, Chosen

LEMMA FoldExists ==
  ASSUME NEW add \in BOOLEAN, NEW f, NEW S, IsFiniteSet(S)
  PROVE  \E h : IsFold(add, f, h, S)
<1> DEFINE Small(n) == {s \in SUBSET S : Cardinality(s) <= n}
           T == {n \in Nat : \E h : h = [s \in Small(n) |-> FoldStep(add, f, h, s)]}
<1>1. \A s \in SUBSET S : IsFiniteSet(s) /\ Cardinality(s) \in Nat /\ Cardinality(s) <= Cardinality(S)
  BY FS_Subset, FS_CardinalityType
<1>2. 0 \in T
  <2> DEFINE h == [s \in Small(0) |-> Unit(add)]
  <2>1. \A s \in Small(0) : s = {}
    BY <1>1, FS_EmptySet
  <2>2. h = [s \in Small(0) |-> FoldStep(add, f, h, s)]
    <3> HIDE DEF Small
    <3> QED BY <2>1 DEF FoldStep
  <2> QED BY <2>2
<1>3. ASSUME NEW n \in Nat, n \in T PROVE n + 1 \in T
  <2>1. PICK h : h = [s \in Small(n) |-> FoldStep(add, f, h, s)]
    BY <1>3
  <2> DEFINE g == [s \in Small(n + 1) |-> FoldStep(add, f, h, s)]
  <2>2. ASSUME NEW s \in Small(n + 1), s # {} PROVE s \ {Chosen(s)} \in Small(n)
    <3>1. Chosen(s) \in s
      BY <2>2 DEF Chosen
    <3>2. Cardinality(s \ {Chosen(s)}) = Cardinality(s) - 1
      BY <1>1, <3>1, FS_RemoveElement
    <3> QED BY <1>1, <3>2
  <2>3. Small(n) \subseteq Small(n + 1)
    BY <1>1
  <2> HIDE DEF Small
  <2>4. \A s \in Small(n) : g[s] = h[s]
    BY <2>1, <2>3
  <2>5. ASSUME NEW s \in Small(n + 1) PROVE FoldStep(add, f, h, s) = FoldStep(add, f, g, s)
    BY <2>2, <2>4 DEF FoldStep
  <2>6. g = [s \in Small(n + 1) |-> FoldStep(add, f, g, s)]
    <3> DEFINE k == g
    <3>1. k = [s \in Small(n + 1) |-> FoldStep(add, f, h, s)]
      OBVIOUS
    <3>2. \A s \in Small(n + 1) : FoldStep(add, f, h, s) = FoldStep(add, f, k, s)
      BY <2>5
    <3> HIDE DEF k
    <3>3. k = [s \in Small(n + 1) |-> FoldStep(add, f, k, s)]
      BY <3>1, <3>2
    <3> QED BY <3>3 DEF k
  <2> HIDE DEF g
  <2>7. \E k : k = [s \in Small(n + 1) |-> FoldStep(add, f, k, s)]
    BY <2>6
  <2> QED BY <2>7
<1>4. Nat \subseteq T
  <2> HIDE DEF T
  <2> QED BY <1>2, <1>3, InductionOverSet
<1>5. Cardinality(S) \in T
  <2>1. Cardinality(S) \in Nat
    BY <1>1
  <2> HIDE DEF T
  <2> QED BY <1>4, <2>1
<1>6. Small(Cardinality(S)) = SUBSET S
  BY <1>1
<1> QED BY <1>5, <1>6 DEF IsFold

\* The fold over a subset is the same wherever it is computed.
LEMMA FoldsAgree ==
  ASSUME NEW add \in BOOLEAN, NEW f, NEW S, IsFiniteSet(S), NEW R \in SUBSET S,
         NEW h, IsFold(add, f, h, S), NEW g, IsFold(add, f, g, R)
  PROVE  h[R] = g[R]
<1> DEFINE N == {n \in Nat : \A s \in SUBSET R : Cardinality(s) = n => h[s] = g[s]}
<1>1. \A s \in SUBSET R : IsFiniteSet(s) /\ Cardinality(s) \in Nat
  BY FS_Subset, FS_CardinalityType
<1>2. \A s \in SUBSET R : h[s] = FoldStep(add, f, h, s) /\ g[s] = FoldStep(add, f, g, s)
  BY DEF IsFold
<1>3. 0 \in N
  <2> SUFFICES ASSUME NEW s \in SUBSET R, Cardinality(s) = 0 PROVE h[s] = g[s]
    OBVIOUS
  <2>1. s = {}
    BY <1>1, FS_EmptySet
  <2> QED BY <1>2, <2>1 DEF FoldStep
<1>4. ASSUME NEW n \in Nat, n \in N PROVE n + 1 \in N
  <2> SUFFICES ASSUME NEW s \in SUBSET R, Cardinality(s) = n + 1 PROVE h[s] = g[s]
    OBVIOUS
  <2> DEFINE rest == s \ {Chosen(s)}
  <2>1. s # {}
    BY FS_EmptySet
  <2>2. Chosen(s) \in s
    BY <2>1 DEF Chosen
  <2>3. Cardinality(rest) = n
    BY <1>1, <2>2, FS_RemoveElement
  <2>4. h[rest] = g[rest]
    BY <1>4, <2>3
  <2> QED BY <1>2, <2>1, <2>4 DEF FoldStep
<1>5. Nat \subseteq N
  <2> HIDE DEF N
  <2> QED BY <1>3, <1>4, InductionOverSet
<1>6. Cardinality(R) \in N
  <2>1. Cardinality(R) \in Nat
    BY <1>1
  <2> HIDE DEF N
  <2> QED BY <1>5, <2>1
<1> QED BY <1>6

LEMMA FoldTakesChosen ==
  ASSUME NEW add \in BOOLEAN, NEW f, NEW S, IsFiniteSet(S)
  PROVE  /\ FoldOf(add, f, {}) = Unit(add)
         /\ S # {} => FoldOf(add, f, S) = Combined(add, f[Chosen(S)], FoldOf(add, f, S \ {Chosen(S)}))
<1>1. ASSUME NEW R, IsFiniteSet(R)
      PROVE  \E h : IsFold(add, f, h, R) /\ h[R] = FoldOf(add, f, R)
  <2>1. IsFold(add, f, CHOOSE h : IsFold(add, f, h, R), R)
    BY <1>1, FoldExists
  <2> QED BY <2>1 DEF FoldOf
<1>2. FoldOf(add, f, {}) = Unit(add)
  <2>1. PICK h : IsFold(add, f, h, {}) /\ h[{}] = FoldOf(add, f, {})
    BY <1>1, FS_EmptySet
  <2>2. h[{}] = FoldStep(add, f, h, {})
    BY <2>1 DEF IsFold
  <2> QED BY <2>1, <2>2 DEF FoldStep
<1>3. ASSUME S # {}
      PROVE  FoldOf(add, f, S) = Combined(add, f[Chosen(S)], FoldOf(add, f, S \ {Chosen(S)}))
  <2> DEFINE R == S \ {Chosen(S)}
  <2>1. IsFiniteSet(R) /\ R \in SUBSET S
    BY FS_Subset
  <2>2. PICK h : IsFold(add, f, h, S) /\ h[S] = FoldOf(add, f, S)
    BY <1>1
  <2>3. PICK g : IsFold(add, f, g, R) /\ g[R] = FoldOf(add, f, R)
    BY <1>1, <2>1
  <2>4. h[R] = FoldOf(add, f, R)
    BY <2>1, <2>2, <2>3, FoldsAgree
  <2>5. h[S] = FoldStep(add, f, h, S)
    BY <2>2 DEF IsFold
  <2> QED BY <1>3, <2>2, <2>4, <2>5 DEF FoldStep
<1> QED BY <1>2, <1>3

LEMMA FoldIsNumber ==
  ASSUME NEW add \in BOOLEAN, NEW f, NEW S, IsFiniteSet(S), \A x \in S : f[x] \in Int
  PROVE  FoldOf(add, f, S) \in Int
<1> DEFINE N == {n \in Nat : \A s \in SUBSET S : Cardinality(s) = n => FoldOf(add, f, s) \in Int}
<1>1. \A s \in SUBSET S : IsFiniteSet(s) /\ Cardinality(s) \in Nat
  BY FS_Subset, FS_CardinalityType
<1>2. 0 \in N
  <2> SUFFICES ASSUME NEW s \in SUBSET S, Cardinality(s) = 0 PROVE FoldOf(add, f, s) \in Int
    OBVIOUS
  <2>1. s = {}
    BY <1>1, FS_EmptySet
  <2>2. FoldOf(add, f, {}) = Unit(add)
    BY FS_EmptySet, FoldTakesChosen
  <2> QED BY <2>1, <2>2 DEF Unit
<1>3. ASSUME NEW n \in Nat, n \in N PROVE n + 1 \in N
  <2> SUFFICES ASSUME NEW s \in SUBSET S, Cardinality(s) = n + 1 PROVE FoldOf(add, f, s) \in Int
    OBVIOUS
  <2> DEFINE rest == s \ {Chosen(s)}
  <2>1. s # {}
    BY FS_EmptySet
  <2>2. Chosen(s) \in s
    BY <2>1 DEF Chosen
  <2>3. Cardinality(rest) = Cardinality(s) - 1
    BY <1>1, <2>2, FS_RemoveElement
  <2>4. FoldOf(add, f, rest) \in Int
    BY <1>3, <2>3
  <2>5. FoldOf(add, f, s) = Combined(add, f[Chosen(s)], FoldOf(add, f, rest))
    BY <1>1, <2>1, FoldTakesChosen
  <2>6. f[Chosen(s)] \in Int
    BY <2>2
  <2> HIDE DEF rest
  <2> QED BY <2>4, <2>5, <2>6 DEF Combined
<1>4. Nat \subseteq N
  <2> HIDE DEF N
  <2> QED BY <1>2, <1>3, InductionOverSet
<1>5. Cardinality(S) \in N
  <2>1. Cardinality(S) \in Nat
    BY <1>1
  <2> HIDE DEF N
  <2> QED BY <1>4, <2>1
<1> QED BY <1>5

LEMMA CombinedEither ==
  ASSUME NEW add \in BOOLEAN, NEW x \in Int, NEW y \in Int, NEW z \in Int
  PROVE  Combined(add, x, Combined(add, y, z)) = Combined(add, y, Combined(add, x, z))
<1>1. x + (y + z) = y + (x + z) /\ x * (y * z) = y * (x * z)
  OBVIOUS
<1> QED BY <1>1 DEF Combined

\* Any element may be the first.
LEMMA FoldTakesAny ==
  ASSUME NEW add \in BOOLEAN, NEW f, NEW S, IsFiniteSet(S), \A x \in S : f[x] \in Int,
         NEW a \in S
  PROVE  FoldOf(add, f, S) = Combined(add, f[a], FoldOf(add, f, S \ {a}))
<1> DEFINE N == {n \in Nat : \A s \in SUBSET S : \A x \in s : Cardinality(s) = n =>
                   FoldOf(add, f, s) = Combined(add, f[x], FoldOf(add, f, s \ {x}))}
<1>1. \A s \in SUBSET S : IsFiniteSet(s) /\ Cardinality(s) \in Nat
  BY FS_Subset, FS_CardinalityType
<1>2. 0 \in N
  <2> SUFFICES ASSUME NEW s \in SUBSET S, NEW x \in s, Cardinality(s) = 0 PROVE FALSE
    OBVIOUS
  <2>1. s = {}
    BY <1>1, FS_EmptySet
  <2> QED BY <2>1
<1>3. ASSUME NEW n \in Nat, n \in N PROVE n + 1 \in N
  <2> SUFFICES ASSUME NEW s \in SUBSET S, NEW x \in s, Cardinality(s) = n + 1
               PROVE  FoldOf(add, f, s) = Combined(add, f[x], FoldOf(add, f, s \ {x}))
    OBVIOUS
  <2> DEFINE c == Chosen(s)
  <2>1. c \in s
    BY DEF Chosen
  <2>2. FoldOf(add, f, s) = Combined(add, f[c], FoldOf(add, f, s \ {c}))
    BY <1>1, FoldTakesChosen
  <2> HIDE DEF c
  <2>3. CASE c = x
    BY <2>2, <2>3
  <2>4. CASE c # x
    <3> DEFINE rest == (s \ {c}) \ {x}
               v == FoldOf(add, f, rest)
    <3>1. x \in s \ {c} /\ c \in s \ {x} /\ rest = (s \ {x}) \ {c} /\ rest \in SUBSET S
      BY <2>1, <2>4
    <3>2. Cardinality(s \ {c}) = Cardinality(s) - 1 /\ Cardinality(s \ {x}) = Cardinality(s) - 1
      BY <1>1, <2>1, FS_RemoveElement
    <3>3. Cardinality(s \ {c}) = n /\ Cardinality(s \ {x}) = n
      BY <3>2
    <3>4. FoldOf(add, f, s \ {c}) = Combined(add, f[x], v)
      BY <1>3, <3>1, <3>3
    <3>5. FoldOf(add, f, s \ {x}) = Combined(add, f[c], v)
      BY <1>3, <3>1, <3>3, ZenonT(30)
    <3>6. v \in Int /\ f[x] \in Int /\ f[c] \in Int
      BY <1>1, <2>1, <3>1, FoldIsNumber
    <3> HIDE DEF v
    <3> QED BY <2>2, <3>4, <3>5, <3>6, CombinedEither
  <2> QED BY <2>3, <2>4
<1>4. Nat \subseteq N
  <2> HIDE DEF N
  <2> QED BY <1>2, <1>3, InductionOverSet
<1>5. Cardinality(S) \in N
  <2>1. Cardinality(S) \in Nat
    BY <1>1
  <2> HIDE DEF N
  <2> QED BY <1>4, <2>1
<1> QED BY <1>5

\* Only what is in the set counts.
LEMMA FoldOfSame ==
  ASSUME NEW add \in BOOLEAN, NEW S, IsFiniteSet(S), NEW f, NEW g,
         \A x \in S : f[x] \in Int /\ g[x] = f[x]
  PROVE  FoldOf(add, g, S) = FoldOf(add, f, S)
<1> DEFINE T == {s \in SUBSET S : FoldOf(add, g, s) = FoldOf(add, f, s)}
<1>1. \A s \in SUBSET S : IsFiniteSet(s)
  BY FS_Subset
<1>2. {} \in T
  BY FS_EmptySet, FoldTakesChosen
<1>3. ASSUME NEW R \in SUBSET S, NEW x \in S \ R, R \in T PROVE R \cup {x} \in T
  <2> DEFINE s == R \cup {x}
  <2>1. s \in SUBSET S /\ x \in s /\ s \ {x} = R
    OBVIOUS
  <2> HIDE DEF s
  <2>2. FoldOf(add, f, s) = Combined(add, f[x], FoldOf(add, f, R))
    BY <1>1, <2>1, FoldTakesAny
  <2>3. FoldOf(add, g, s) = Combined(add, g[x], FoldOf(add, g, R))
    BY <1>1, <2>1, FoldTakesAny
  <2>4. s \in T
    BY <1>3, <2>1, <2>2, <2>3
  <2> QED BY <2>4 DEF s
<1>4. SUBSET S \subseteq T
  <2> HIDE DEF T
  <2> QED BY <1>2, <1>3, InductionOverSubsets
<1> QED BY <1>4

LEMMA SumRules ==
  ASSUME NEW f, NEW S, IsFiniteSet(S), \A x \in S : f[x] \in Int
  PROVE  /\ SumFunctionOnSet(f, {}) = 0
         /\ SumFunctionOnSet(f, S) \in Int
         /\ \A x \in S : SumFunctionOnSet(f, S) = f[x] + SumFunctionOnSet(f, S \ {x})
<1>1. FoldOf(TRUE, f, {}) = 0
  BY FS_EmptySet, FoldTakesChosen DEF Unit
<1>2. FoldOf(TRUE, f, S) \in Int
  BY FoldIsNumber
<1>3. ASSUME NEW x \in S PROVE FoldOf(TRUE, f, S) = f[x] + FoldOf(TRUE, f, S \ {x})
  <2>1. \A add \in BOOLEAN : FoldOf(add, f, S) = Combined(add, f[x], FoldOf(add, f, S \ {x}))
    BY FoldTakesAny
  <2>2. FoldOf(TRUE, f, S) = Combined(TRUE, f[x], FoldOf(TRUE, f, S \ {x}))
    BY <2>1
  <2> QED BY <2>2 DEF Combined
<1> QED BY <1>1, <1>2, <1>3, SumIsFold

LEMMA ProductRules ==
  ASSUME NEW f, IsFiniteSet(DOMAIN f), \A x \in DOMAIN f : f[x] \in Int
  PROVE  /\ DOMAIN f = {} => FoldFunction(LAMBDA x, y : x * y, 1, f) = 1
         /\ FoldFunction(LAMBDA x, y : x * y, 1, f) \in Int
         /\ \A a \in DOMAIN f : \A g :
              DOMAIN g = DOMAIN f \ {a} /\ (\A x \in DOMAIN g : g[x] = f[x]) =>
                FoldFunction(LAMBDA x, y : x * y, 1, f)
                  = f[a] * FoldFunction(LAMBDA x, y : x * y, 1, g)
<1>1. FoldOf(FALSE, f, {}) = 1
  BY FS_EmptySet, FoldTakesChosen DEF Unit
<1>2. FoldOf(FALSE, f, DOMAIN f) \in Int
  BY FoldIsNumber
<1>3. ASSUME NEW a \in DOMAIN f, NEW g,
             DOMAIN g = DOMAIN f \ {a}, \A x \in DOMAIN g : g[x] = f[x]
      PROVE  FoldOf(FALSE, f, DOMAIN f) = f[a] * FoldOf(FALSE, g, DOMAIN g)
  <2>0. \A add \in BOOLEAN :
          FoldOf(add, f, DOMAIN f) = Combined(add, f[a], FoldOf(add, f, DOMAIN f \ {a}))
    BY FoldTakesAny
  <2>1. FoldOf(FALSE, f, DOMAIN f) = Combined(FALSE, f[a], FoldOf(FALSE, f, DOMAIN f \ {a}))
    BY <2>0
  <2>2. IsFiniteSet(DOMAIN g) /\ \A x \in DOMAIN g : f[x] \in Int /\ g[x] = f[x]
    BY <1>3, FS_RemoveElement
  <2>3. FoldOf(FALSE, g, DOMAIN g) = FoldOf(FALSE, f, DOMAIN g)
    BY <2>2, FoldOfSame
  <2> QED BY <1>3, <2>1, <2>3 DEF Combined
<1>4. \A g : FoldFunction(LAMBDA x, y : x * y, 1, g) = FoldOf(FALSE, g, DOMAIN g)
  BY ProductIsFold
<1> QED BY <1>1, <1>2, <1>3, <1>4
===============================================================================
