------------------------------ MODULE SumProofs ------------------------------
(***************************************************************************)
(* Facts about finite sets and sums the proofs on metrics need.  They are  *)
(* proved by looking at a least counterexample: the library's theorem on   *)
(* well-founded relations speaks of sets, which the provers can            *)
(* instantiate, and not of operators.  Sums are over functions.            *)
(***************************************************************************)
EXTENDS Integers, FiniteSetsExt, FiniteSetTheorems, WellFoundedInduction, TLAPS

(***************************************************************************)
(* Least elements.                                                         *)
(***************************************************************************)
\* A set of natural numbers has a least element.
LEMMA LeastNat ==
  ASSUME NEW T \in SUBSET Nat, T # {}
  PROVE  \E n \in T : \A m \in T : n <= m
<1> DEFINE R == OpToRel(<, Nat)
<1>1. \E x \in T : \A y \in T : ~ (<<y, x>> \in R)
  BY NatLessThanWellFounded, WFMin
<1>2. R = {ss \in Nat \X Nat : ss[1] < ss[2]}
  BY Zenon DEF OpToRel
<1> HIDE DEF R
<1>3. PICK x \in T : \A y \in T : ~ (<<y, x>> \in R)
  BY <1>1
<1>4. ASSUME NEW y \in T, y < x PROVE FALSE
  <2>1. <<y, x>> \in Nat \X Nat /\ <<y, x>>[1] < <<y, x>>[2]
    BY <1>4
  <2>2. <<y, x>> \in R
    BY <2>1, <1>2
  <2> QED
    BY <2>2, <1>3
<1>5. \A y \in T : x <= y
  BY <1>4
<1> QED
  BY <1>5

\* A set of finite sets has one of the least size.
LEMMA LeastSet ==
  ASSUME NEW Bad, Bad # {}, \A s \in Bad : IsFiniteSet(s)
  PROVE  \E s \in Bad : \A t \in Bad : Cardinality(s) <= Cardinality(t)
<1> DEFINE T == {Cardinality(s) : s \in Bad}
<1>1. T \in SUBSET Nat /\ T # {}
  BY FS_CardinalityType
<1>2. PICK n \in T : \A m \in T : n <= m
  BY <1>1, LeastNat
<1> QED
  BY <1>2

\* Taking an element away makes a finite set smaller.
LEMMA SmallerSet ==
  ASSUME NEW s, IsFiniteSet(s), NEW x \in s
  PROVE  /\ IsFiniteSet(s \ {x})
         /\ Cardinality(s \ {x}) = Cardinality(s) - 1
         /\ ~ (Cardinality(s) <= Cardinality(s \ {x}))
<1>1. IsFiniteSet(s \ {x}) /\ Cardinality(s \ {x}) = Cardinality(s) - 1
  BY FS_RemoveElement
<1>2. Cardinality(s) \in Nat
  BY FS_CardinalityType
<1> QED
  BY <1>1, <1>2

\* A finite set of natural numbers that is not empty has a maximum and a minimum.
LEMMA MaxMin ==
  ASSUME NEW P, P # {}, NEW n \in Nat, P \subseteq 1 .. n
  PROVE  /\ Max(P) \in P /\ \A y \in P : y <= Max(P)
         /\ Min(P) \in P /\ \A y \in P : Min(P) <= y
<1>1. PICK u \in P : \A y \in P : u <= y
  BY LeastNat
<1>2. Min(P) \in P /\ \A y \in P : Min(P) <= y
  BY <1>1 DEF Min
<1> DEFINE B == {b \in Nat : \A y \in P : y <= b}
<1>3. n \in B /\ B \in SUBSET Nat
  OBVIOUS
<1>4. PICK b \in B : \A c \in B : b <= c
  BY <1>3, LeastNat
<1>5. b \in P
  <2> SUFFICES ASSUME b \notin P PROVE FALSE
    OBVIOUS
  <2>1. \A y \in P : y <= b - 1
    OBVIOUS
  <2>2. b - 1 \in Nat
    BY <1>1, <2>1
  <2>3. b - 1 \in B
    BY <2>1, <2>2
  <2> QED
    BY <1>4, <2>3
<1>6. \E x \in P : \A y \in P : x >= y
  BY <1>5
<1>7. Max(P) \in P /\ \A y \in P : Max(P) >= y
  BY <1>6 DEF Max
<1> QED
  BY <1>2, <1>7

(***************************************************************************)
(* Sums                                                                    *)
(***************************************************************************)
Sum(f, S) == MapThenSumSet(LAMBDA x : f[x], S)

Pick(s) == CHOOSE x \in s : TRUE

\* The equation of the fold, for the sets of a family.
Folds(f, D, g) == g = [s \in D |-> IF s = {} THEN 0 ELSE f[Pick(s)] + g[s \ {Pick(s)}]]

Small(S, n) == {s \in SUBSET S : Cardinality(s) <= n}

\* The fold exists for sets of any size.
LEMMA FoldOfSize ==
  ASSUME NEW S, IsFiniteSet(S), NEW f, NEW n \in Nat
  PROVE  \E g : Folds(f, Small(S, n), g)
<1> DEFINE Bad == {k \in Nat : ~ \E g : Folds(f, Small(S, k), g)}
<1> SUFFICES ASSUME Bad # {} PROVE FALSE
  OBVIOUS
<1>1. PICK k \in Bad : \A m \in Bad : k <= m
  BY LeastNat
<1>s. \A s \in SUBSET S : IsFiniteSet(s) /\ Cardinality(s) \in Nat
  BY FS_Subset, FS_CardinalityType
<1>2. CASE k = 0
  <2> DEFINE g == [s \in Small(S, 0) |-> 0]
  <2>1. \A s \in Small(S, 0) : s = {}
    BY <1>s, FS_EmptySet DEF Small
  <2>2. Folds(f, Small(S, 0), g)
    BY <2>1 DEF Folds
  <2> QED
    BY <1>2, <2>2
<1>3. CASE k # 0
  <2>1. k - 1 \in Nat /\ k - 1 \notin Bad
    BY <1>1, <1>3
  <2>2. PICK h : Folds(f, Small(S, k - 1), h)
    BY <2>1
  <2> DEFINE g == [s \in Small(S, k) |->
                     IF s = {} THEN 0 ELSE f[Pick(s)] + h[s \ {Pick(s)}]]
  <2>3. ASSUME NEW s \in Small(S, k), s # {}
        PROVE  s \ {Pick(s)} \in Small(S, k - 1)
    <3>1. Pick(s) \in s
      BY <2>3 DEF Pick
    <3>2. Cardinality(s \ {Pick(s)}) = Cardinality(s) - 1
      BY <1>s, <3>1, SmallerSet DEF Small
    <3> QED
      BY <1>s, <3>1, <3>2 DEF Small
  <2>4. \A s \in Small(S, k - 1) : s \in Small(S, k)
    BY <1>s DEF Small
  <2>5. \A s \in Small(S, k - 1) : g[s] = h[s]
    BY <2>2, <2>4 DEF Folds
  <2>6. \A s \in Small(S, k) : s # {} => g[s \ {Pick(s)}] = h[s \ {Pick(s)}]
    BY <2>3, <2>5
  <2>7. Folds(f, Small(S, k), g)
    BY <2>6 DEF Folds
  <2> QED
    BY <2>7
<1> QED
  BY <1>2, <1>3

\* A sum is the value of a fold over all subsets.
LEMMA SumIsFold ==
  ASSUME NEW S, IsFiniteSet(S), NEW f
  PROVE  \E g : Folds(f, SUBSET S, g) /\ Sum(f, S) = g[S]
<1>0. Cardinality(S) \in Nat
  BY FS_CardinalityType
<1>1. Small(S, Cardinality(S)) = SUBSET S
  <2>1. \A s \in SUBSET S : Cardinality(s) <= Cardinality(S)
    BY FS_Subset
  <2> QED
    BY <2>1 DEF Small
<1>2. \E g : Folds(f, SUBSET S, g)
  <2>1. \E g : Folds(f, Small(S, Cardinality(S)), g)
    BY <1>0, FoldOfSize
  <2> QED
    BY <1>1, <2>1
<1> DEFINE it == CHOOSE g : Folds(f, SUBSET S, g)
<1>3. Folds(f, SUBSET S, it)
  BY <1>2
<1>4. Sum(f, S) = it[S]
  BY DEF Sum, MapThenSumSet, MapThenFoldSet, Folds, Pick
<1> QED
  BY <1>3, <1>4

\* Folds over two families agree where both are defined.
LEMMA FoldsAgree ==
  ASSUME NEW S, IsFiniteSet(S), NEW T \in SUBSET S, NEW f, NEW g, NEW h,
         Folds(f, SUBSET S, g), Folds(f, SUBSET T, h)
  PROVE  \A s \in SUBSET T : g[s] = h[s]
<1> DEFINE Bad == {s \in SUBSET T : g[s] # h[s]}
<1> SUFFICES ASSUME Bad # {} PROVE FALSE
  OBVIOUS
<1>s. \A s \in SUBSET T : IsFiniteSet(s)
  BY FS_Subset
<1>1. PICK s \in Bad : \A t \in Bad : Cardinality(s) <= Cardinality(t)
  BY <1>s, LeastSet
<1>2. s # {}
  BY <1>1 DEF Folds
<1>3. Pick(s) \in s
  BY <1>2 DEF Pick
<1>4. s \ {Pick(s)} \notin Bad
  BY <1>s, <1>1, <1>3, SmallerSet
<1>5. g[s \ {Pick(s)}] = h[s \ {Pick(s)}]
  BY <1>4
<1>6. g[s] = f[Pick(s)] + g[s \ {Pick(s)}] /\ h[s] = f[Pick(s)] + h[s \ {Pick(s)}]
  BY <1>2 DEF Folds
<1> QED
  BY <1>1, <1>5, <1>6

\* The equation of a sum.
LEMMA SumEquation ==
  ASSUME NEW S, IsFiniteSet(S), NEW f
  PROVE  /\ Sum(f, {}) = 0
         /\ S # {} => Pick(S) \in S /\ Sum(f, S) = f[Pick(S)] + Sum(f, S \ {Pick(S)})
<1>1. Sum(f, {}) = 0
  <2>1. PICK g : Folds(f, SUBSET {}, g) /\ Sum(f, {}) = g[{}]
    BY FS_EmptySet, SumIsFold
  <2> QED
    BY <2>1 DEF Folds
<1>2. ASSUME S # {} PROVE Pick(S) \in S /\ Sum(f, S) = f[Pick(S)] + Sum(f, S \ {Pick(S)})
  <2> DEFINE T == S \ {Pick(S)}
  <2>0. Pick(S) \in S
    BY <1>2 DEF Pick
  <2>1. IsFiniteSet(T)
    BY <2>0, SmallerSet
  <2>2. PICK g : Folds(f, SUBSET S, g) /\ Sum(f, S) = g[S]
    BY SumIsFold
  <2>3. PICK h : Folds(f, SUBSET T, h) /\ Sum(f, T) = h[T]
    BY <2>1, SumIsFold
  <2>4. g[T] = h[T]
    <3>1. T \in SUBSET S
      OBVIOUS
    <3>a. Folds(f, SUBSET S, g)
      BY <2>2
    <3>b. Folds(f, SUBSET T, h)
      BY <2>3
    <3> HIDE DEF T
    <3>2. \A s \in SUBSET T : g[s] = h[s]
      BY <3>a, <3>b, <3>1, FoldsAgree
    <3> QED
      BY <3>2
  <2>5. g[S] = f[Pick(S)] + g[T]
    BY <1>2, <2>2 DEF Folds
  <2> QED
    BY <2>0, <2>2, <2>3, <2>4, <2>5
<1> QED
  BY <1>1, <1>2

\* A sum of integers is an integer.
LEMMA SumInt ==
  ASSUME NEW S, IsFiniteSet(S), NEW f, \A x \in S : f[x] \in Int
  PROVE  Sum(f, S) \in Int
<1> DEFINE Bad == {s \in SUBSET S : Sum(f, s) \notin Int}
<1> SUFFICES ASSUME Bad # {} PROVE FALSE
  OBVIOUS
<1>s. \A s \in SUBSET S : IsFiniteSet(s)
  BY FS_Subset
<1>1. PICK s \in Bad : \A t \in Bad : Cardinality(s) <= Cardinality(t)
  BY <1>s, LeastSet
<1>0. Sum(f, {}) = 0
  BY <1>s, SumEquation
<1>e. s # {}
  BY <1>0, <1>1
<1>2. Pick(s) \in s /\ Sum(f, s) = f[Pick(s)] + Sum(f, s \ {Pick(s)})
  BY <1>s, <1>1, <1>e, SumEquation
<1>3. s \ {Pick(s)} \notin Bad
  BY <1>s, <1>1, <1>2, SmallerSet
<1>4. Sum(f, s \ {Pick(s)}) \in Int
  BY <1>3
<1> QED
  BY <1>1, <1>2, <1>4

\* Any element can be taken out of a sum.
LEMMA SumRemove ==
  ASSUME NEW S, IsFiniteSet(S), NEW f, \A x \in S : f[x] \in Int, NEW x \in S
  PROVE  Sum(f, S) = f[x] + Sum(f, S \ {x})
<1> DEFINE Bad == {s \in SUBSET S : \E y \in s : Sum(f, s) # f[y] + Sum(f, s \ {y})}
<1> SUFFICES ASSUME Bad # {} PROVE FALSE
  OBVIOUS
<1>s. \A s \in SUBSET S : IsFiniteSet(s)
  BY FS_Subset
<1>1. PICK s \in Bad : \A t \in Bad : Cardinality(s) <= Cardinality(t)
  BY <1>s, LeastSet
<1>2. PICK y \in s : Sum(f, s) # f[y] + Sum(f, s \ {y})
  BY <1>1
<1> DEFINE p == Pick(s)
<1>3. p \in s /\ Sum(f, s) = f[p] + Sum(f, s \ {p})
  BY <1>s, <1>1, <1>2, SumEquation
<1> HIDE DEF p
<1>4. s \ {p} \notin Bad /\ s \ {y} \notin Bad
  BY <1>s, <1>1, <1>2, <1>3, SmallerSet
<1>5. y # p
  BY <1>2, <1>3
<1>6. Sum(f, s \ {p}) = f[y] + Sum(f, (s \ {p}) \ {y})
  BY <1>2, <1>4, <1>5
<1>7. Sum(f, s \ {y}) = f[p] + Sum(f, (s \ {y}) \ {p})
  BY <1>3, <1>4, <1>5
<1>8. (s \ {p}) \ {y} = (s \ {y}) \ {p}
  OBVIOUS
<1> DEFINE rest == (s \ {p}) \ {y}
<1>9. Sum(f, rest) \in Int /\ f[p] \in Int /\ f[y] \in Int
  <2>1. IsFiniteSet(rest) /\ \A z \in rest : f[z] \in Int
    BY <1>s, <1>1
  <2> QED
    BY <2>1, <1>1, <1>2, <1>3, SumInt
<1>10. Sum(f, s \ {y}) = f[p] + Sum(f, rest)
  BY <1>7, <1>8
<1> HIDE DEF rest
<1>11. Sum(f, s \ {p}) = f[y] + Sum(f, rest)
  BY <1>6 DEF rest
<1> QED
  BY <1>2, <1>3, <1>9, <1>10, <1>11

\* Sums of equal terms are equal.
LEMMA SumEqual ==
  ASSUME NEW S, IsFiniteSet(S), NEW f, NEW g, \A x \in S : f[x] = g[x]
  PROVE  Sum(f, S) = Sum(g, S)
<1> DEFINE Bad == {s \in SUBSET S : Sum(f, s) # Sum(g, s)}
<1> SUFFICES ASSUME Bad # {} PROVE FALSE
  OBVIOUS
<1>s. \A s \in SUBSET S : IsFiniteSet(s)
  BY FS_Subset
<1>1. PICK s \in Bad : \A t \in Bad : Cardinality(s) <= Cardinality(t)
  BY <1>s, LeastSet
<1>2. Sum(f, {}) = 0 /\ Sum(g, {}) = 0
  BY <1>s, SumEquation
<1>3. /\ s # {} /\ Pick(s) \in s
      /\ Sum(f, s) = f[Pick(s)] + Sum(f, s \ {Pick(s)})
      /\ Sum(g, s) = g[Pick(s)] + Sum(g, s \ {Pick(s)})
  BY <1>s, <1>1, <1>2, SumEquation
<1>4. s \ {Pick(s)} \notin Bad
  BY <1>s, <1>1, <1>3, SmallerSet
<1>5. Sum(f, s \ {Pick(s)}) = Sum(g, s \ {Pick(s)})
  BY <1>4
<1>6. f[Pick(s)] = g[Pick(s)]
  BY <1>1, <1>3
<1> QED
  BY <1>1, <1>3, <1>5, <1>6

\* The sum of sums.
LEMMA SumAdd ==
  ASSUME NEW S, IsFiniteSet(S), NEW f, NEW g, NEW h,
         \A x \in S : f[x] \in Int /\ g[x] \in Int /\ h[x] = f[x] + g[x]
  PROVE  Sum(h, S) = Sum(f, S) + Sum(g, S)
<1> DEFINE Bad == {s \in SUBSET S : Sum(h, s) # Sum(f, s) + Sum(g, s)}
<1> SUFFICES ASSUME Bad # {} PROVE FALSE
  OBVIOUS
<1>s. \A s \in SUBSET S : IsFiniteSet(s)
  BY FS_Subset
<1>i. \A s \in SUBSET S : Sum(f, s) \in Int /\ Sum(g, s) \in Int /\ Sum(h, s) \in Int
  <2> SUFFICES ASSUME NEW s \in SUBSET S PROVE Sum(f, s) \in Int /\ Sum(g, s) \in Int /\ Sum(h, s) \in Int
    OBVIOUS
  <2>1. IsFiniteSet(s) /\ \A x \in s : f[x] \in Int /\ g[x] \in Int /\ h[x] \in Int
    BY <1>s
  <2> QED
    BY <2>1, SumInt
<1>1. PICK s \in Bad : \A t \in Bad : Cardinality(s) <= Cardinality(t)
  BY <1>s, LeastSet
<1>2. Sum(f, {}) = 0 /\ Sum(g, {}) = 0 /\ Sum(h, {}) = 0
  BY <1>s, SumEquation
<1>3. s # {}
  BY <1>1, <1>2
<1> DEFINE p == Pick(s)
           t == s \ {p}
<1>4. /\ p \in s
      /\ Sum(f, s) = f[p] + Sum(f, t)
      /\ Sum(g, s) = g[p] + Sum(g, t)
      /\ Sum(h, s) = h[p] + Sum(h, t)
  BY <1>s, <1>1, <1>3, SumEquation
<1>5. t \notin Bad /\ t \in SUBSET S
  BY <1>s, <1>1, <1>4, SmallerSet
<1>6. Sum(h, t) = Sum(f, t) + Sum(g, t)
  BY <1>5
<1>7. f[p] \in Int /\ g[p] \in Int /\ h[p] = f[p] + g[p]
  BY <1>1, <1>4
<1>8. Sum(f, t) \in Int /\ Sum(g, t) \in Int
  BY <1>5, <1>i
<1> HIDE DEF p, t
<1>9. Sum(h, s) = Sum(f, s) + Sum(g, s)
  BY <1>4, <1>6, <1>7, <1>8
<1> QED
  BY <1>1, <1>9

\* The sum of zeros.
LEMMA SumZero ==
  ASSUME NEW S, IsFiniteSet(S), NEW f, \A x \in S : f[x] = 0
  PROVE  Sum(f, S) = 0
<1> DEFINE Bad == {s \in SUBSET S : Sum(f, s) # 0}
<1> SUFFICES ASSUME Bad # {} PROVE FALSE
  OBVIOUS
<1>s. \A s \in SUBSET S : IsFiniteSet(s)
  BY FS_Subset
<1>1. PICK s \in Bad : \A t \in Bad : Cardinality(s) <= Cardinality(t)
  BY <1>s, LeastSet
<1>3. s # {} /\ Pick(s) \in s /\ Sum(f, s) = f[Pick(s)] + Sum(f, s \ {Pick(s)})
  BY <1>s, <1>1, SumEquation
<1>4. s \ {Pick(s)} \notin Bad
  BY <1>s, <1>1, <1>3, SmallerSet
<1>5. Sum(f, s \ {Pick(s)}) = 0 /\ f[Pick(s)] = 0
  BY <1>1, <1>3, <1>4
<1> QED
  BY <1>1, <1>3, <1>5

\* The sum over two disjoint sets.
LEMMA SumUnion ==
  ASSUME NEW A, NEW B, IsFiniteSet(A), IsFiniteSet(B), A \cap B = {}, NEW f,
         \A x \in A \cup B : f[x] \in Int
  PROVE  Sum(f, A \cup B) = Sum(f, A) + Sum(f, B)
<1> DEFINE Bad == {s \in SUBSET B : Sum(f, A \cup s) # Sum(f, A) + Sum(f, s)}
<1> SUFFICES ASSUME Bad # {} PROVE FALSE
  OBVIOUS
<1>s. \A s \in SUBSET B : IsFiniteSet(s) /\ IsFiniteSet(A \cup s)
  BY FS_Subset, FS_Union
<1>1. PICK s \in Bad : \A t \in Bad : Cardinality(s) <= Cardinality(t)
  BY <1>s, LeastSet
<1>i. \A s_1 \in SUBSET B : Sum(f, s_1) \in Int /\ Sum(f, A) \in Int
  <2>1. \A x \in A : f[x] \in Int
    OBVIOUS
  <2>2. Sum(f, A) \in Int
    BY <2>1, SumInt
  <2> SUFFICES ASSUME NEW s_1 \in SUBSET B PROVE Sum(f, s_1) \in Int
    BY <2>2
  <2>3. \A x \in s_1 : f[x] \in Int
    OBVIOUS
  <2> QED
    BY <1>s, <2>3, SumInt
<1>2. s # {}
  <2>1. Sum(f, {}) = 0 /\ A \cup {} = A
    BY <1>s, SumEquation
  <2>2. Sum(f, A) \in Int
    BY <1>i
  <2> QED
    BY <1>1, <2>1, <2>2
<1>3. PICK p \in s : TRUE
  BY <1>2
<1> DEFINE t == s \ {p}
<1>4. Sum(f, s) = f[p] + Sum(f, t)
  <2>1. \A x \in s : f[x] \in Int
    BY <1>1
  <2> QED
    BY <1>s, <1>1, <1>3, <2>1, SumRemove
<1>5. Sum(f, A \cup s) = f[p] + Sum(f, A \cup t)
  <2>1. \A x \in A \cup s : f[x] \in Int
    BY <1>1
  <2>2. IsFiniteSet(A \cup s) /\ p \in A \cup s
    BY <1>s, <1>1, <1>3
  <2>3. (A \cup s) \ {p} = A \cup t
    BY <1>1, <1>3
  <2>4. Sum(f, A \cup s) = f[p] + Sum(f, (A \cup s) \ {p})
    BY <2>1, <2>2, SumRemove
  <2> QED
    BY <2>3, <2>4
<1>6. t \notin Bad /\ t \in SUBSET B
  BY <1>s, <1>1, <1>3, SmallerSet
<1>7. Sum(f, A \cup t) = Sum(f, A) + Sum(f, t)
  BY <1>6
<1>8. Sum(f, t) \in Int /\ Sum(f, A) \in Int /\ f[p] \in Int
  BY <1>1, <1>3, <1>6, <1>i
<1> HIDE DEF t
<1>9. Sum(f, A \cup s) = Sum(f, A) + Sum(f, s)
  BY <1>4, <1>5, <1>7, <1>8
<1> QED
  BY <1>1, <1>9

\* Terms that are zero can be left out.
LEMMA SumWithoutZeros ==
  ASSUME NEW S, IsFiniteSet(S), NEW T \in SUBSET S, NEW f,
         \A x \in T : f[x] \in Int, \A x \in S \ T : f[x] = 0
  PROVE  Sum(f, S) = Sum(f, T)
<1> DEFINE R == S \ T
<1>1. IsFiniteSet(T) /\ IsFiniteSet(R) /\ T \cap R = {} /\ T \cup R = S
  BY FS_Subset
<1>2. \A x \in T \cup R : f[x] \in Int
  OBVIOUS
<1>3. Sum(f, R) = 0
  BY <1>1, SumZero
<1>4. Sum(f, T) \in Int
  BY <1>1, SumInt
<1> HIDE DEF R
<1>5. Sum(f, T \cup R) = Sum(f, T) + Sum(f, R)
  BY <1>1, <1>2, SumUnion
<1>6. Sum(f, S) = Sum(f, T) + Sum(f, R)
  BY <1>1, <1>5
<1> QED
  BY <1>3, <1>4, <1>6

\* The size of a set is the sum of ones.
LEMMA SumOfOnes ==
  ASSUME NEW S, IsFiniteSet(S), NEW f, \A x \in S : f[x] = 1
  PROVE  Sum(f, S) = Cardinality(S)
<1> DEFINE Bad == {s \in SUBSET S : Sum(f, s) # Cardinality(s)}
<1> SUFFICES ASSUME Bad # {} PROVE FALSE
  OBVIOUS
<1>s. \A s \in SUBSET S : IsFiniteSet(s) /\ Cardinality(s) \in Nat
  BY FS_Subset, FS_CardinalityType
<1>1. PICK s \in Bad : \A t \in Bad : Cardinality(s) <= Cardinality(t)
  BY <1>s, LeastSet
<1>2. s # {}
  <2>1. Sum(f, {}) = 0 /\ Cardinality({}) = 0
    BY <1>s, SumEquation, FS_EmptySet
  <2> QED
    BY <1>1, <2>1
<1>3. Pick(s) \in s /\ Sum(f, s) = f[Pick(s)] + Sum(f, s \ {Pick(s)})
  BY <1>s, <1>1, <1>2, SumEquation
<1>4. /\ ~ (Cardinality(s) <= Cardinality(s \ {Pick(s)}))
      /\ Cardinality(s \ {Pick(s)}) = Cardinality(s) - 1
  BY <1>s, <1>1, <1>3, SmallerSet
<1>6. s \ {Pick(s)} \notin Bad
  BY <1>1, <1>4
<1>5. Sum(f, s \ {Pick(s)}) = Cardinality(s) - 1 /\ f[Pick(s)] = 1 /\ Cardinality(s) \in Nat
  BY <1>s, <1>1, <1>3, <1>4, <1>6
<1> QED
  BY <1>1, <1>3, <1>5

\* h has the sums of f by groups: own tells the group of every element of S.
ByGroup(f, S, own, h, M) ==
  /\ \A x \in S : own[x] \in M
  /\ \A o \in M : h[o] = Sum(f, {x \in S : own[x] = o})

\* A sum by groups.
LEMMA SumByGroup ==
  ASSUME NEW S, IsFiniteSet(S), NEW M, IsFiniteSet(M), NEW own, NEW f, \A x \in S : f[x] \in Int,
         NEW h, ByGroup(f, S, own, h, M)
  PROVE  Sum(f, S) = Sum(h, M)
<1>h. (\A x \in S : own[x] \in M) /\ \A o \in M : h[o] = Sum(f, {x \in S : own[x] = o})
  BY DEF ByGroup
<1> DEFINE Group(s) == [o \in M |-> Sum(f, {x \in s : own[x] = o})]
           Bad == {s \in SUBSET S : Sum(f, s) # Sum(Group(s), M)}
<1>a. Sum(Group(S), M) = Sum(h, M)
  BY <1>h, SumEqual
<1> SUFFICES ASSUME Bad # {} PROVE FALSE
  BY <1>a
<1>s. \A s \in SUBSET S : IsFiniteSet(s)
  BY FS_Subset
<1>i. \A s \in SUBSET S : Sum(f, s) \in Int
  <2> SUFFICES ASSUME NEW s \in SUBSET S PROVE Sum(f, s) \in Int
    OBVIOUS
  <2>1. \A x \in s : f[x] \in Int
    OBVIOUS
  <2> QED
    BY <1>s, <2>1, SumInt
<1>g. \A s \in SUBSET S : \A o \in M : Group(s)[o] \in Int
  <2> SUFFICES ASSUME NEW s \in SUBSET S, NEW o \in M PROVE Sum(f, {x \in s : own[x] = o}) \in Int
    OBVIOUS
  <2>1. {x \in s : own[x] = o} \in SUBSET S
    OBVIOUS
  <2> QED
    BY <1>i, <2>1
<1>1. PICK s \in Bad : \A t \in Bad : Cardinality(s) <= Cardinality(t)
  BY <1>s, LeastSet
<1>2. s # {}
  <2>1. \A o \in M : {x \in {} : own[x] = o} = {}
    OBVIOUS
  <2>2. Sum(f, {}) = 0
    BY <1>s, SumEquation
  <2>3. \A o \in M : Group({})[o] = 0
    BY <2>1, <2>2
  <2>4. Sum(Group({}), M) = 0
    BY <2>3, SumZero
  <2> QED
    BY <1>1, <2>2, <2>4
<1>3. PICK p \in s : TRUE
  BY <1>2
<1> DEFINE t == s \ {p}
           q == own[p]
           gs == Group(s)
           gt == Group(t)
<1>4. t \in SUBSET S /\ t \notin Bad /\ q \in M
  BY <1>h, <1>s, <1>1, <1>3, SmallerSet
<1>5. Sum(f, t) = Sum(gt, M)
  BY <1>4
<1>6. Sum(f, s) = f[p] + Sum(f, t)
  <2>1. \A x \in s : f[x] \in Int
    BY <1>1
  <2> QED
    BY <1>s, <1>1, <1>3, <2>1, SumRemove
<1>7. gs[q] = f[p] + gt[q]
  <2> DEFINE sq == {x \in s : own[x] = q}
             tq == {x \in t : own[x] = q}
  <2>1. IsFiniteSet(sq) /\ p \in sq /\ sq \ {p} = tq /\ \A x \in sq : f[x] \in Int
    <3>1. sq \in SUBSET S
      BY <1>1
    <3> QED
      BY <1>s, <1>3, <3>1
  <2>2. gs[q] = Sum(f, sq) /\ gt[q] = Sum(f, tq)
    BY <1>4
  <2> HIDE DEF sq, tq, gs, gt
  <2>3. Sum(f, sq) = f[p] + Sum(f, sq \ {p})
    BY <2>1, SumRemove
  <2> QED
    BY <2>1, <2>2, <2>3
<1>8. \A o \in M \ {q} : gs[o] = gt[o]
  <2> SUFFICES ASSUME NEW o \in M \ {q} PROVE {x \in s : own[x] = o} = {x \in t : own[x] = o}
    OBVIOUS
  <2> QED
    OBVIOUS
<1>9. (\A o \in M : gs[o] \in Int) /\ (\A o \in M : gt[o] \in Int)
  BY <1>g, <1>1, <1>4
<1>b. f[p] \in Int
  BY <1>1, <1>3
<1>c. Sum(gs, M) # Sum(f, s)
  BY <1>1
<1> HIDE DEF gs, gt, q, t
<1>10. Sum(gs, M) = gs[q] + Sum(gs, M \ {q}) /\ Sum(gt, M) = gt[q] + Sum(gt, M \ {q})
  BY <1>4, <1>9, SumRemove
<1>11. IsFiniteSet(M \ {q})
  BY FS_RemoveElement
<1>12. Sum(gs, M \ {q}) = Sum(gt, M \ {q})
  BY <1>8, <1>11, SumEqual
<1>13. Sum(gt, M \ {q}) \in Int
  BY <1>9, <1>11, SumInt
<1>14. Sum(gs, M) = f[p] + Sum(gt, M)
  BY <1>4, <1>7, <1>9, <1>10, <1>12, <1>13, <1>b
<1> QED
  BY <1>5, <1>6, <1>14, <1>c

\* The same terms under other names.
LEMMA SumRenamed ==
  ASSUME NEW S, IsFiniteSet(S), NEW T, IsFiniteSet(T), NEW f, NEW g, NEW k,
         \A y \in T : k[y] \in S, \A y, z \in T : k[y] = k[z] => y = z,
         \A x \in S : \E y \in T : k[y] = x,
         \A y \in T : g[y] = f[k[y]] /\ g[y] \in Int
  PROVE  Sum(g, T) = Sum(f, S)
<1> DEFINE h == [x \in S |-> Sum(g, {y \in T : k[y] = x})]
<1>1. Sum(g, T) = Sum(h, S)
  <2>1. ByGroup(g, T, k, h, S)
    BY DEF ByGroup
  <2>2. \A y \in T : g[y] \in Int
    OBVIOUS
  <2> HIDE DEF h
  <2> QED
    BY <2>1, <2>2, SumByGroup
<1>2. \A x \in S : h[x] = f[x]
  <2> SUFFICES ASSUME NEW x \in S PROVE Sum(g, {y \in T : k[y] = x}) = f[x]
    OBVIOUS
  <2>1. PICK y \in T : k[y] = x
    OBVIOUS
  <2>2. {z \in T : k[z] = x} = {y}
    BY <2>1
  <2>3. Sum(g, {y}) = g[y] + Sum(g, {y} \ {y})
    BY FS_Singleton, SumRemove
  <2>4. Sum(g, {y} \ {y}) = 0
    <3>1. {y} \ {y} = {} /\ Sum(g, {}) = 0
      BY SumEquation
    <3> QED
      BY <3>1
  <2>5. g[y] = f[x] /\ g[y] \in Int
    BY <2>1
  <2>6. Sum(g, {y}) = f[x]
    BY <2>3, <2>4, <2>5
  <2> QED
    BY <2>2, <2>6
<1>3. Sum(h, S) = Sum(f, S)
  BY <1>2, SumEqual
<1> QED
  BY <1>1, <1>3

\* f has the changes of g over the d epochs up to e
Changes(f, g, e, d) ==
  /\ \A x \in (e - d) .. e : g[x] \in Int
  /\ \A x \in (e - d + 1) .. e : f[x] = g[x] - g[x - 1]

\* The changes of the last d epochs add up to the change over d epochs.
LEMMA SumOfChanges ==
  ASSUME NEW e \in Int, NEW d \in Nat, NEW f, NEW g, Changes(f, g, e, d)
  PROVE  Sum(f, (e - d + 1) .. e) = g[e] - g[e - d]
<1> USE DEF Changes
<1> DEFINE W == [n \in 0 .. d |-> (e - n + 1) .. e]
           c == [n \in 0 .. d |-> g[e] - g[e - n]]
           Bad == {n \in 0 .. d : Sum(f, W[n]) # c[n]}
<1>a. d \in 0 .. d /\ W[d] = (e - d + 1) .. e /\ c[d] = g[e] - g[e - d]
  OBVIOUS
<1>w. \A n \in 0 .. d : W[n] = (e - n + 1) .. e
  OBVIOUS
<1>c. \A n \in 0 .. d : c[n] = g[e] - g[e - n]
  OBVIOUS
<1> HIDE DEF W, c
<1> SUFFICES ASSUME Bad # {} PROVE FALSE
  BY <1>a
<1>0. Bad \in SUBSET Nat
  OBVIOUS
<1>1. PICK n \in Bad : \A k \in Bad : n <= k
  BY <1>0, LeastNat
<1>2. n # 0
  <2>1. W[0] = {} /\ c[0] = 0
    <3>1. W[0] = (e - 0 + 1) .. e /\ c[0] = g[e] - g[e - 0] /\ e - 0 = e /\ g[e] \in Int
      BY <1>w, <1>c
    <3> QED
      BY <3>1
  <2>2. Sum(f, {}) = 0
    BY FS_EmptySet, SumEquation
  <2> QED
    BY <1>1, <2>1, <2>2
<1> DEFINE m == n - 1
           a == e - n + 1
<1>n. n \in 1 .. d /\ m \in 0 .. d /\ a \in Int /\ ~(n <= m)
  BY <1>1, <1>2
<1>3. m \notin Bad
  BY <1>1, <1>n
<1>4. Sum(f, W[m]) = g[e] - g[e - m]
  BY <1>3, <1>c, <1>n
<1>5. IsFiniteSet(W[n]) /\ a \in W[n] /\ W[n] \ {a} = W[m]
  <2>1. W[n] = a .. e /\ W[m] = (a + 1) .. e /\ a <= e
    BY <1>n, <1>w
  <2>2. IsFiniteSet(a .. e)
    BY <1>n, FS_Interval
  <2>3. (a .. e) \ {a} = (a + 1) .. e
    BY <1>n
  <2> QED
    BY <1>n, <2>1, <2>2, <2>3
<1>6. \A x \in W[n] : f[x] \in Int
  <2> SUFFICES ASSUME NEW x \in W[n] PROVE f[x] \in Int
    OBVIOUS
  <2>1. x \in (e - n + 1) .. e
    BY <1>n, <1>w
  <2>2. x \in (e - d + 1) .. e /\ x \in (e - d) .. e /\ x - 1 \in (e - d) .. e
    BY <1>n, <2>1
  <2>3. f[x] = g[x] - g[x - 1] /\ g[x] \in Int /\ g[x - 1] \in Int
    BY <2>2
  <2> QED
    BY <2>3
<1>8. f[a] = g[a] - g[e - n] /\ e - m = a /\ g[a] \in Int /\ g[e - n] \in Int /\ g[e] \in Int
  <2>1. /\ a \in (e - d + 1) .. e /\ a \in (e - d) .. e /\ e - n \in (e - d) .. e
        /\ e \in (e - d) .. e /\ a - 1 = e - n /\ e - m = a
    BY <1>n
  <2>2. f[a] = g[a] - g[a - 1] /\ g[a] \in Int /\ g[e - n] \in Int /\ g[e] \in Int
    BY <2>1
  <2> QED
    BY <2>1, <2>2
<1> HIDE DEF a, m
<1>7. Sum(f, W[n]) = f[a] + Sum(f, W[n] \ {a})
  BY <1>5, <1>6, SumRemove
<1>b. Sum(f, W[n] \ {a}) = g[e] - g[a]
  BY <1>4, <1>5, <1>8
<1>9. Sum(f, W[n]) = g[e] - g[e - n]
  BY <1>7, <1>8, <1>b
<1>10. Sum(f, W[n]) = c[n]
  BY <1>9, <1>c, <1>n
<1> QED
  BY <1>1, <1>10

\* Sets whose elements correspond have the same number of them.
LEMMA CardRenamed ==
  ASSUME NEW S, IsFiniteSet(S), NEW T, IsFiniteSet(T), NEW k,
         \A y \in T : k[y] \in S, \A y, z \in T : k[y] = k[z] => y = z,
         \A x \in S : \E y \in T : k[y] = x
  PROVE  Cardinality(T) = Cardinality(S)
<1> DEFINE f == [x \in S |-> 1]
           g == [y \in T |-> 1]
<1>1. \A y \in T : g[y] = f[k[y]] /\ g[y] \in Int
  OBVIOUS
<1>2. (\A x \in S : f[x] = 1) /\ \A y \in T : g[y] = 1
  OBVIOUS
<1> HIDE DEF f, g
<1>3. Sum(g, T) = Sum(f, S)
  BY <1>1, SumRenamed
<1>4. Sum(g, T) = Cardinality(T)
  BY <1>2, SumOfOnes
<1>5. Sum(f, S) = Cardinality(S)
  BY <1>2, SumOfOnes
<1> QED
  BY <1>3, <1>4, <1>5

\* The greatest and the least element of a finite set of integers.
LEMMA Extremes ==
  ASSUME NEW S, IsFiniteSet(S), S # {}, \A x \in S : x \in Int
  PROVE  (\E n \in S : \A x \in S : x <= n) /\ \E n \in S : \A x \in S : n <= x
<1> DEFINE Fine(s) == (\E n \in s : \A x \in s : x <= n) /\ \E n \in s : \A x \in s : n <= x
           Bad == {s \in SUBSET S : s # {} /\ ~ Fine(s)}
<1> SUFFICES ASSUME Bad # {} PROVE FALSE
  OBVIOUS
<1>1. \A s \in Bad : IsFiniteSet(s)
  BY FS_Subset
<1>2. PICK s \in Bad : \A t \in Bad : Cardinality(s) <= Cardinality(t)
  BY <1>1, LeastSet
<1>3. s # {} /\ s \in SUBSET S /\ ~ Fine(s)
  OBVIOUS
<1>4. PICK x \in s : TRUE
  BY <1>3
<1>5. IsFiniteSet(s) /\ x \in Int
  BY <1>1, <1>3, <1>4
<1> DEFINE t == s \ {x}
<1>6. ~ (Cardinality(s) <= Cardinality(t))
  BY <1>4, <1>5, SmallerSet
<1>7. t = {} \/ Fine(t)
  <2> HIDE DEF Fine
  <2> QED
    BY <1>2, <1>3, <1>6
<1>8. \A y \in s : y \in Int /\ (y = x \/ y \in t)
  BY <1>3
<1>9. CASE t = {}
  BY <1>3, <1>4, <1>5, <1>8, <1>9
<1>10. CASE Fine(t)
  <2>1. PICK n \in t : \A y \in t : y <= n
    BY <1>10
  <2>2. PICK m \in t : \A y \in t : m <= y
    BY <1>10
  <2>3. n \in s /\ m \in s /\ n \in Int /\ m \in Int
    BY <1>8
  <2> HIDE DEF t, Fine, Bad
  <2>4. \E k \in s : \A y \in s : y <= k
    BY <1>4, <1>5, <1>8, <2>1, <2>3
  <2>5. \E k \in s : \A y \in s : k <= y
    BY <1>4, <1>5, <1>8, <2>2, <2>3
  <2> QED
    BY <1>3, <2>4, <2>5 DEF Fine
<1> QED
  BY <1>7, <1>9, <1>10

\* The elements of a set, counted by groups.
LEMMA CountByGroup ==
  ASSUME NEW S, IsFiniteSet(S), NEW M, IsFiniteSet(M), NEW own, \A x \in S : own[x] \in M,
         NEW h, \A o \in M : h[o] = Cardinality({x \in S : own[x] = o})
  PROVE  Cardinality(S) = Sum(h, M)
<1> DEFINE f == [x \in S |-> 1]
<1>1. \A x \in S : f[x] = 1 /\ f[x] \in Int
  OBVIOUS
<1> HIDE DEF f
<1>2. ASSUME NEW o \in M PROVE h[o] = Sum(f, {x \in S : own[x] = o})
  <2> DEFINE T == {x \in S : own[x] = o}
  <2>1. IsFiniteSet(T) /\ \A x \in T : f[x] = 1
    BY <1>1, FS_Subset
  <2>2. h[o] = Cardinality(T)
    OBVIOUS
  <2> HIDE DEF T
  <2>3. Sum(f, T) = Cardinality(T)
    BY <2>1, SumOfOnes
  <2> QED
    BY <2>2, <2>3 DEF T
<1>3. Sum(f, S) = Sum(h, M)
  <2>1. \A x \in S : f[x] \in Int
    BY <1>1
  <2>2. ByGroup(f, S, own, h, M)
    BY <1>2 DEF ByGroup
  <2> QED
    BY <2>1, <2>2, SumByGroup
<1>4. Sum(f, S) = Cardinality(S)
  BY <1>1, SumOfOnes
<1> QED
  BY <1>3, <1>4

=============================================================================
