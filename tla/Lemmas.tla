-------------------------------- MODULE Lemmas --------------------------------
(***************************************************************************)
(* What several proofs need to know: of sums over a finite set, and of     *)
(* what is left of a list.                                                 *)
(*                                                                         *)
(* MapThenSumSet of the community modules is a recursive function on       *)
(* subsets, that takes an element of its own choice off at a time; Total   *)
(* is the same with the summands in a function.  That the recursion        *)
(* defines something, and that any element may be taken off first, are     *)
(* inductions over the size of the set.                                    *)
(***************************************************************************)
EXTENDS JoinList, Integers, FiniteSetsExt, FiniteSetTheorems, SequenceTheorems,
        WellFoundedInduction, TLAPS

AnyOf(s) == CHOOSE x \in s : TRUE
AddsUp(g, F, S) ==
    g = [s \in SUBSET S |-> IF s = {} THEN 0 ELSE F[AnyOf(s)] + g[s \ {AnyOf(s)}]]
Total(F, S) == (CHOOSE g : AddsUp(g, F, S))[S]

LEMMA SetInduction ==
  ASSUME NEW T \in SUBSET Nat, 0 \in T, \A n \in T : n + 1 \in T
  PROVE  T = Nat
<1> SUFFICES ASSUME Nat \ T # {} PROVE FALSE
  OBVIOUS
<1> DEFINE R == OpToRel(<, Nat)
<1>1. PICK m \in Nat \ T : \A k \in Nat \ T : ~(<<k, m>> \in R)
  <2> HIDE DEF R
  <2>1. IsWellFoundedOn(R, Nat)
    BY NatLessThanWellFounded, Zenon DEF R
  <2> QED BY <2>1, WFMin
<1> HIDE DEF R
<1>2. m - 1 \in Nat /\ m - 1 < m
  <2>1. m \in Nat /\ m # 0
    OBVIOUS
  <2> QED BY <2>1
<1>3. m - 1 \in T
  <2>1. <<m - 1, m>> \in R
    BY <1>1, <1>2 DEF OpToRel, R
  <2> QED BY <2>1, <1>1, <1>2
<1>4. m = (m - 1) + 1
  BY <1>2
<1> QED BY <1>1, <1>3, <1>4

LEMMA AnyIn == ASSUME NEW s, s # {} PROVE AnyOf(s) \in s
BY DEF AnyOf

(* g adds up on the subsets of at most n elements.                         *)
Subsets(S, n) == {s \in SUBSET S : Cardinality(s) <= n}
UpTo(g, F, S, n) ==
    /\ g \in [Subsets(S, n) -> Int]
    /\ \A s \in Subsets(S, n) : g[s] = IF s = {} THEN 0 ELSE F[AnyOf(s)] + g[s \ {AnyOf(s)}]

LEMMA Smaller ==
  ASSUME NEW S, IsFiniteSet(S), NEW s \in SUBSET S, NEW x \in s
  PROVE  /\ IsFiniteSet(s) /\ Cardinality(s) \in Nat /\ s \ {x} \in SUBSET S
         /\ Cardinality(s \ {x}) = Cardinality(s) - 1 /\ Cardinality(s \ {x}) \in Nat
<1>1. IsFiniteSet(s)
  BY FS_Subset
<1>2. IsFiniteSet(s \ {x}) /\ Cardinality(s \ {x}) = Cardinality(s) - 1
  BY <1>1, FS_RemoveElement
<1> QED BY <1>1, <1>2, FS_CardinalityType

LEMMA UpToExists ==
  ASSUME NEW S, IsFiniteSet(S), NEW F, \A x \in S : F[x] \in Int
  PROVE  \A n \in Nat : \E g : UpTo(g, F, S, n)
<1> DEFINE T == {n \in Nat : \E g : UpTo(g, F, S, n)}
<1>1. 0 \in T
  <2>1. \A s \in Subsets(S, 0) : s = {}
    <3>1. SUFFICES ASSUME NEW s \in Subsets(S, 0) PROVE s = {}
      OBVIOUS
    <3>2. IsFiniteSet(s) /\ Cardinality(s) <= 0 /\ Cardinality(s) \in Nat
      BY FS_Subset, FS_CardinalityType DEF Subsets
    <3> QED BY <3>2, FS_EmptySet
  <2>2. UpTo([s \in Subsets(S, 0) |-> 0], F, S, 0)
    BY <2>1 DEF UpTo
  <2> QED BY <2>2
<1>2. ASSUME NEW n \in T PROVE n + 1 \in T
  <2>1. n \in Nat
    OBVIOUS
  <2>2. PICK g : UpTo(g, F, S, n)
    OBVIOUS
  <2>3. PICK h : h = [s \in Subsets(S, n + 1) |-> IF s = {} THEN 0 ELSE F[AnyOf(s)] + g[s \ {AnyOf(s)}]]
    OBVIOUS
  <2>4. ASSUME NEW s \in Subsets(S, n + 1), s # {}
        PROVE  AnyOf(s) \in S /\ s \ {AnyOf(s)} \in Subsets(S, n)
    <3>1. AnyOf(s) \in s /\ s \in SUBSET S /\ Cardinality(s) <= n + 1
      BY <2>4, AnyIn DEF Subsets
    <3>2. /\ s \ {AnyOf(s)} \in SUBSET S /\ Cardinality(s) \in Nat
          /\ Cardinality(s \ {AnyOf(s)}) = Cardinality(s) - 1
      BY <3>1, Smaller
    <3>3. Cardinality(s \ {AnyOf(s)}) <= n
      BY <2>1, <3>1, <3>2
    <3> QED BY <3>1, <3>2, <3>3 DEF Subsets
  <2>5. ASSUME NEW s \in Subsets(S, n) PROVE s \in Subsets(S, n + 1) /\ h[s] = g[s]
    <3>1. s \in Subsets(S, n + 1)
      <4>1. Cardinality(s) \in Nat /\ Cardinality(s) <= n
        BY FS_Subset, FS_CardinalityType DEF Subsets
      <4>2. Cardinality(s) <= n + 1
        BY <2>1, <4>1
      <4> QED BY <4>2 DEF Subsets
    <3> QED BY <2>2, <2>3, <3>1 DEF UpTo
  <2>6. h \in [Subsets(S, n + 1) -> Int]
    <3>1. ASSUME NEW s \in Subsets(S, n + 1), s # {} PROVE F[AnyOf(s)] + g[s \ {AnyOf(s)}] \in Int
      <4>1. F[AnyOf(s)] \in Int /\ g[s \ {AnyOf(s)}] \in Int
        BY <2>2, <2>4, <3>1 DEF UpTo
      <4> QED BY <4>1
    <3>2. \A s \in Subsets(S, n + 1) : (IF s = {} THEN 0 ELSE F[AnyOf(s)] + g[s \ {AnyOf(s)}]) \in Int
      BY <3>1
    <3> QED BY <2>3, <3>2
  <2>7. \A s \in Subsets(S, n + 1) : h[s] = IF s = {} THEN 0 ELSE F[AnyOf(s)] + h[s \ {AnyOf(s)}]
    BY <2>3, <2>4, <2>5
  <2>8. UpTo(h, F, S, n + 1)
    BY <2>6, <2>7 DEF UpTo
  <2> QED BY <2>1, <2>8
<1>3. T = Nat
  <2>1. T \in SUBSET Nat
    OBVIOUS
  <2> HIDE DEF T
  <2> QED BY <1>1, <1>2, <2>1, SetInduction
<1> QED BY <1>3

LEMMA SumDefined ==
  ASSUME NEW S, IsFiniteSet(S), NEW F, \A x \in S : F[x] \in Int
  PROVE  \E g : g \in [SUBSET S -> Int] /\ AddsUp(g, F, S)
<1>1. PICK n \in Nat : n = Cardinality(S)
  BY FS_CardinalityType
<1>2. PICK g : UpTo(g, F, S, n)
  BY UpToExists
<1>3. Subsets(S, n) = SUBSET S
  BY <1>1, FS_Subset DEF Subsets
<1>4. g \in [SUBSET S -> Int]
  BY <1>2, <1>3 DEF UpTo
<1>5. AddsUp(g, F, S)
  BY <1>2, <1>3, <1>4 DEF UpTo, AddsUp
<1> QED BY <1>4, <1>5

(* There is one such function, and any element may be taken off first.     *)
InAnyOrder(g, F, S) == \A s \in SUBSET S : \A x \in s : g[s] = F[x] + g[s \ {x}]

LEMMA AnyFirst ==
  ASSUME NEW S, IsFiniteSet(S), NEW F, \A x \in S : F[x] \in Int,
         NEW g \in [SUBSET S -> Int], AddsUp(g, F, S), NEW h, AddsUp(h, F, S)
  PROVE  h = g /\ InAnyOrder(g, F, S)
<1> DEFINE T == {n \in Nat : \A s \in SUBSET S : Cardinality(s) = n =>
                    h[s] = g[s] /\ \A x \in s : g[s] = F[x] + g[s \ {x}]}
<1>1. ASSUME NEW s \in SUBSET S
      PROVE  /\ g[s] = IF s = {} THEN 0 ELSE F[AnyOf(s)] + g[s \ {AnyOf(s)}]
             /\ h[s] = IF s = {} THEN 0 ELSE F[AnyOf(s)] + h[s \ {AnyOf(s)}]
  BY DEF AddsUp
<1>2. 0 \in T
  <2>1. ASSUME NEW s \in SUBSET S, Cardinality(s) = 0 PROVE s = {}
    <3>1. IsFiniteSet(s)
      BY FS_Subset
    <3> QED BY <2>1, <3>1, FS_EmptySet
  <2> QED BY <1>1, <2>1
<1>3. ASSUME NEW n \in T PROVE n + 1 \in T
  <2>1. n \in Nat
    OBVIOUS
  <2>2. SUFFICES ASSUME NEW s \in SUBSET S, Cardinality(s) = n + 1
                 PROVE  h[s] = g[s] /\ \A x \in s : g[s] = F[x] + g[s \ {x}]
    BY <2>1
  <2>3. s # {}
    <3>1. SUFFICES ASSUME s = {} PROVE FALSE
      OBVIOUS
    <3>2. Cardinality(s) = 0
      BY <3>1, FS_EmptySet, Zenon
    <3> QED BY <2>1, <2>2, <3>2
  <2>4. PICK y : y = AnyOf(s)
    OBVIOUS
  <2>5. y \in s
    BY <2>3, <2>4, AnyIn
  <2>6. ASSUME NEW x \in s
        PROVE  /\ s \ {x} \in SUBSET S /\ Cardinality(s \ {x}) = n /\ F[x] \in Int
               /\ h[s \ {x}] = g[s \ {x}]
               /\ \A z \in s \ {x} : g[s \ {x}] = F[z] + g[(s \ {x}) \ {z}]
    <3>1. s \ {x} \in SUBSET S /\ Cardinality(s \ {x}) = n
      BY <2>1, <2>2, Smaller
    <3> QED BY <3>1
  <2>7. h[s] = F[y] + h[s \ {y}] /\ g[s] = F[y] + g[s \ {y}]
    BY <1>1, <2>3, <2>4
  <2>8. h[s] = g[s]
    BY <2>5, <2>6, <2>7
  <2>9. ASSUME NEW x \in s, x # y PROVE g[s] = F[x] + g[s \ {x}]
    <3>1. PICK r : r = (s \ {x}) \ {y} /\ r = (s \ {y}) \ {x}
      OBVIOUS
    <3>2. g[s \ {y}] = F[x] + g[r] /\ g[s \ {x}] = F[y] + g[r]
      BY <2>5, <2>6, <2>9, <3>1, ZenonT(30)
    <3>3. F[x] \in Int /\ F[y] \in Int /\ g[r] \in Int
      BY <2>5, <2>6, <3>1
    <3> QED BY <2>7, <3>2, <3>3
  <2> QED BY <2>7, <2>8, <2>9
<1>4. T = Nat
  <2>1. T \in SUBSET Nat
    OBVIOUS
  <2> HIDE DEF T
  <2> QED BY <1>2, <1>3, <2>1, SetInduction
<1>5. ASSUME NEW s \in SUBSET S PROVE h[s] = g[s] /\ \A x \in s : g[s] = F[x] + g[s \ {x}]
  <2>1. Cardinality(s) \in Nat
    BY FS_Subset, FS_CardinalityType
  <2>2. Cardinality(s) \in T
    BY <1>4, <2>1
  <2> QED BY <2>2
<1>6. h = g
  <2>1. h = [s \in SUBSET S |-> h[s]]
    BY DEF AddsUp
  <2> QED BY <1>5, <2>1
<1> QED BY <1>5, <1>6 DEF InAnyOrder

(***************************************************************************)
(* Totals                                                                  *)
(***************************************************************************)
Adding(g, F, S) == /\ g \in [SUBSET S -> Int] /\ AddsUp(g, F, S) /\ Total(F, S) = g[S]
                   /\ InAnyOrder(g, F, S)

LEMMA TotalDefined ==
  ASSUME NEW S, IsFiniteSet(S), NEW F, \A x \in S : F[x] \in Int
  PROVE  \E g : Adding(g, F, S)
<1>1. PICK g : g = CHOOSE h : AddsUp(h, F, S)
  OBVIOUS
<1>2. AddsUp(g, F, S)
  <2>1. \E h : AddsUp(h, F, S)
    BY SumDefined
  <2> QED BY <1>1, <2>1
<1>3. PICK h \in [SUBSET S -> Int] : AddsUp(h, F, S)
  BY SumDefined
<1>4. g = h
  BY <1>2, <1>3, AnyFirst
<1>6. InAnyOrder(h, F, S)
  BY <1>2, <1>3, AnyFirst
<1>5. Total(F, S) = h[S]
  BY <1>1, <1>4 DEF Total
<1> QED BY <1>3, <1>5, <1>6 DEF Adding

LEMMA TotalEmpty == ASSUME NEW F PROVE Total(F, {}) = 0
<1>1. IsFiniteSet({}) /\ \A x \in {} : F[x] \in Int
  BY FS_EmptySet
<1>2. PICK g : Adding(g, F, {})
  BY <1>1, TotalDefined
<1> QED BY <1>2 DEF Adding, AddsUp

(* Only the summands matter.                                               *)
LEMMA TotalSame ==
  ASSUME NEW S, NEW F, NEW G, \A x \in S : F[x] = G[x]
  PROVE  Total(F, S) = Total(G, S)
<1>1. ASSUME NEW s \in SUBSET S, s # {} PROVE F[AnyOf(s)] = G[AnyOf(s)]
  BY <1>1, AnyIn
<1>2. ASSUME NEW g PROVE AddsUp(g, F, S) <=> AddsUp(g, G, S)
  <2>1. [s \in SUBSET S |-> IF s = {} THEN 0 ELSE F[AnyOf(s)] + g[s \ {AnyOf(s)}]]
        = [s \in SUBSET S |-> IF s = {} THEN 0 ELSE G[AnyOf(s)] + g[s \ {AnyOf(s)}]]
    BY <1>1
  <2> QED BY <2>1 DEF AddsUp
<1>3. (CHOOSE g : AddsUp(g, F, S)) = (CHOOSE g : AddsUp(g, G, S))
  BY <1>2, Zenon
<1> QED BY <1>3 DEF Total

LEMMA TotalTake ==
  ASSUME NEW S, IsFiniteSet(S), NEW F, \A x \in S : F[x] \in Int, NEW x \in S
  PROVE  /\ Total(F, S) = F[x] + Total(F, S \ {x})
         /\ Total(F, S) \in Int /\ Total(F, S \ {x}) \in Int
<1>1. PICK g : Adding(g, F, S)
  BY TotalDefined
<1>2. PICK R : R = S \ {x}
  OBVIOUS
<1>3. IsFiniteSet(R) /\ R \in SUBSET S
  BY <1>2, FS_Subset
<1>4. PICK h : Adding(h, F, R)
  <2>1. \A z \in R : F[z] \in Int
    BY <1>2
  <2> QED BY <1>3, <2>1, TotalDefined
<1>5. PICK k : k = [s \in SUBSET R |-> g[s]]
  OBVIOUS
<1>6. k \in [SUBSET R -> Int]
  BY <1>1, <1>3, <1>5 DEF Adding
<1>7. AddsUp(k, F, R)
  <2>1. ASSUME NEW s \in SUBSET R
        PROVE  k[s] = IF s = {} THEN 0 ELSE F[AnyOf(s)] + k[s \ {AnyOf(s)}]
    <3>1. s \in SUBSET S /\ s \ {AnyOf(s)} \in SUBSET R
      BY <1>3
    <3> QED BY <1>1, <1>5, <3>1 DEF Adding, AddsUp
  <2> QED BY <1>6, <2>1 DEF AddsUp
<1>8. h = k
  <2>1. h \in [SUBSET R -> Int] /\ AddsUp(h, F, R) /\ \A z \in R : F[z] \in Int
    BY <1>2, <1>4 DEF Adding
  <2>2. IsFiniteSet(R)
    BY <1>3
  <2>3. k = h
    BY <1>7, <2>1, <2>2, AnyFirst
  <2> QED BY <2>3
<1>9. Total(F, R) = g[R]
  BY <1>4, <1>5, <1>8 DEF Adding
<1>10. g[S] = F[x] + g[R] /\ g[R] \in Int /\ g[S] \in Int
  BY <1>1, <1>2, <1>3 DEF Adding, InAnyOrder
<1> QED BY <1>1, <1>2, <1>9, <1>10 DEF Adding

LEMMA TotalInt ==
  ASSUME NEW S, IsFiniteSet(S), NEW F, \A x \in S : F[x] \in Int
  PROVE  Total(F, S) \in Int
<1>1. CASE S = {}
  <2>1. Total(F, {}) = 0
    BY TotalEmpty
  <2> QED BY <1>1, <2>1
<1>2. CASE S # {}
  BY <1>2, TotalTake
<1> QED BY <1>1, <1>2

(* One summand changes.                                                    *)
LEMMA TotalChange ==
  ASSUME NEW S, IsFiniteSet(S), NEW F, \A x \in S : F[x] \in Int, NEW y \in S,
         NEW G, G[y] \in Int, \A x \in S \ {y} : G[x] = F[x]
  PROVE  Total(G, S) = Total(F, S) + (G[y] - F[y])
<1>1. \A x \in S : G[x] \in Int
  OBVIOUS
<1>2. Total(F, S) = F[y] + Total(F, S \ {y}) /\ Total(F, S \ {y}) \in Int
  BY TotalTake
<1>3. Total(G, S) = G[y] + Total(G, S \ {y})
  BY <1>1, TotalTake
<1>4. Total(G, S \ {y}) = Total(F, S \ {y})
  BY TotalSame
<1> QED BY <1>2, <1>3, <1>4

LEMMA TotalAdd ==
  ASSUME NEW S, IsFiniteSet(S), NEW y, y \notin S, NEW F, \A x \in S \cup {y} : F[x] \in Int
  PROVE  Total(F, S \cup {y}) = Total(F, S) + F[y]
<1>1. PICK T : T = S \cup {y}
  OBVIOUS
<1>2. IsFiniteSet(T) /\ y \in T /\ T \ {y} = S
  BY <1>1, FS_AddElement
<1>3. /\ Total(F, T) = F[y] + Total(F, T \ {y}) /\ Total(F, T \ {y}) \in Int
  BY <1>1, <1>2, TotalTake
<1>4. F[y] \in Int
  OBVIOUS
<1>5. Total(F, T) = F[y] + Total(F, S) /\ Total(F, S) \in Int
  BY <1>2, <1>3, Zenon
<1>6. Total(F, T) = Total(F, S) + F[y]
  BY <1>4, <1>5
<1> QED BY <1>1, <1>6, Zenon

(* Sizes of sets that share nothing add up to that of all.                 *)
Merged(A, S) == UNION {A[x] : x \in S}
Unshared(A, S, I) == /\ \A x \in S : A[x] \subseteq I
                  /\ \A x, y \in S : x # y => A[x] \cap A[y] = {}
Measures(F, A, S) == \A x \in S : F[x] = Cardinality(A[x])

LEMMA TotalCounts ==
  ASSUME NEW S, IsFiniteSet(S), NEW I, IsFiniteSet(I), NEW A, Unshared(A, S, I),
         NEW F, Measures(F, A, S)
  PROVE  Total(F, S) = Cardinality(Merged(A, S))
<1> DEFINE All(s) == UNION {A[x] : x \in s}
           T == {n \in Nat : \A s \in SUBSET S : Cardinality(s) = n => Total(F, s) = Cardinality(All(s))}
<1>a. /\ \A x \in S : A[x] \subseteq I /\ F[x] = Cardinality(A[x])
      /\ \A x, y \in S : x # y => A[x] \cap A[y] = {}
  BY DEF Unshared, Measures
<1>0. \A x \in S : IsFiniteSet(A[x]) /\ Cardinality(A[x]) \in Nat /\ F[x] \in Int
  BY <1>a, FS_Subset, FS_CardinalityType
<1>1. 0 \in T
  <2>1. ASSUME NEW s \in SUBSET S, Cardinality(s) = 0 PROVE s = {} /\ All(s) = {}
    <3>1. IsFiniteSet(s)
      BY FS_Subset
    <3> QED BY <2>1, <3>1, FS_EmptySet
  <2>2. Total(F, {}) = 0 /\ Cardinality({}) = 0
    BY TotalEmpty, FS_EmptySet
  <2> QED BY <2>1, <2>2
<1>2. ASSUME NEW n \in T PROVE n + 1 \in T
  <2>1. n \in Nat
    OBVIOUS
  <2>2. SUFFICES ASSUME NEW s \in SUBSET S, Cardinality(s) = n + 1
                 PROVE  Total(F, s) = Cardinality(All(s))
    BY <2>1
  <2>3. s # {}
    <3>1. SUFFICES ASSUME s = {} PROVE FALSE
      OBVIOUS
    <3>2. Cardinality(s) = 0
      BY <3>1, FS_EmptySet, Zenon
    <3> QED BY <2>1, <2>2, <3>2
  <2>4. PICK x \in s : TRUE
    BY <2>3
  <2>5. PICK r : r = s \ {x}
    OBVIOUS
  <2>6. r \in SUBSET S /\ Cardinality(r) = n
    <3>1. Cardinality(s \ {x}) = Cardinality(s) - 1
      BY Smaller
    <3> QED BY <2>1, <2>2, <2>5, <3>1
  <2>b. F[x] = Cardinality(A[x])
    BY <1>a
  <2>7. Total(F, r) = Cardinality(All(r))
    BY <2>6
  <2>8. Total(F, s) = F[x] + Total(F, r)
    <3>1. IsFiniteSet(s) /\ \A z \in s : F[z] \in Int
      BY <1>0, FS_Subset
    <3> QED BY <2>5, <3>1, TotalTake
  <2>9. All(s) = A[x] \cup All(r) /\ A[x] \cap All(r) = {}
    <3>1. All(s) = A[x] \cup All(r)
      BY <2>5
    <3>2. \A y \in r : A[x] \cap A[y] = {}
      BY <1>a, <2>5
    <3> QED BY <3>1, <3>2
  <2>10. IsFiniteSet(A[x]) /\ IsFiniteSet(All(r)) /\ Cardinality(All(r)) \in Nat
    <3>1. All(r) \subseteq I
      BY <1>a, <2>6
    <3> QED BY <1>0, <3>1, FS_Subset, FS_CardinalityType
  <2> HIDE DEF All, T
  <2>11. Cardinality(A[x] \cup All(r)) = Cardinality(A[x]) + Cardinality(All(r))
    <3>1. Cardinality(A[x] \cup All(r))
            = Cardinality(A[x]) + Cardinality(All(r)) - Cardinality(A[x] \cap All(r))
      BY <2>10, FS_Union
    <3>2. Cardinality(A[x] \cap All(r)) = 0
      BY <2>9, FS_EmptySet
    <3>3. Cardinality(A[x]) \in Nat
      BY <1>0
    <3> QED BY <2>10, <3>1, <3>2, <3>3
  <2> QED BY <2>7, <2>8, <2>9, <2>11, <2>b
<1>3. T = Nat
  <2>1. T \in SUBSET Nat
    OBVIOUS
  <2> HIDE DEF T
  <2> QED BY <1>1, <1>2, <2>1, SetInduction
<1>4. Cardinality(S) \in T
  BY <1>3, FS_CardinalityType
<1> QED BY <1>4 DEF Merged

(* The summands come under other names.                                    *)
LEMMA TotalRenamed ==
  ASSUME NEW S, IsFiniteSet(S), NEW F, \A x \in S : F[x] \in Int, NEW G,
         NEW U, NEW b \in Bijection(S, U), \A x \in S : G[b[x]] = F[x]
  PROVE  Total(G, U) = Total(F, S)
<1> DEFINE Image(s) == {b[x] : x \in s}
           T == {n \in Nat : \A s \in SUBSET S : Cardinality(s) = n => Total(G, Image(s)) = Total(F, s)}
<1>0. /\ \A x, y \in S : b[x] = b[y] => x = y
      /\ \A x \in S : b[x] \in U
      /\ \A u \in U : \E x \in S : b[x] = u
  BY DEF Bijection, Injection, Surjection, IsInjective
<1>1. 0 \in T
  <2>1. ASSUME NEW s \in SUBSET S, Cardinality(s) = 0 PROVE s = {} /\ Image(s) = {}
    <3>1. IsFiniteSet(s)
      BY FS_Subset
    <3> QED BY <2>1, <3>1, FS_EmptySet
  <2> QED BY <2>1, TotalEmpty
<1>2. ASSUME NEW n \in T PROVE n + 1 \in T
  <2>1. n \in Nat
    OBVIOUS
  <2>2. SUFFICES ASSUME NEW s \in SUBSET S, Cardinality(s) = n + 1
                 PROVE  Total(G, Image(s)) = Total(F, s)
    BY <2>1
  <2>3. s # {}
    <3>1. SUFFICES ASSUME s = {} PROVE FALSE
      OBVIOUS
    <3>2. Cardinality(s) = 0
      BY <3>1, FS_EmptySet, Zenon
    <3> QED BY <2>1, <2>2, <3>2
  <2>4. PICK x \in s : TRUE
    BY <2>3
  <2>5. PICK r : r = s \ {x}
    OBVIOUS
  <2>6. r \in SUBSET S /\ Cardinality(r) = n
    BY <2>1, <2>2, <2>5, Smaller
  <2>7. PICK I : I = Image(s)
    OBVIOUS
  <2>8. b[x] \in I /\ I \ {b[x]} = Image(r) /\ G[b[x]] = F[x]
    BY <1>0, <2>5, <2>7
  <2>9. IsFiniteSet(s) /\ IsFiniteSet(I)
    <3>1. PICK f : f = [z \in s |-> b[z]]
      OBVIOUS
    <3>2. f \in Surjection(s, I)
      BY <2>7, <3>1 DEF Surjection
    <3>3. IsFiniteSet(s)
      BY FS_Subset
    <3> QED BY <3>2, <3>3, FS_Surjection
  <2>10. \A z \in I : G[z] \in Int
    BY <2>7
  <2>11. Total(G, I) = G[b[x]] + Total(G, I \ {b[x]})
    BY <2>8, <2>9, <2>10, TotalTake
  <2>12. Total(F, s) = F[x] + Total(F, s \ {x})
    <3>1. \A z \in s : F[z] \in Int
      OBVIOUS
    <3> QED BY <2>9, <3>1, TotalTake
  <2>13. Total(G, Image(r)) = Total(F, r)
    BY <2>6
  <2> QED BY <2>5, <2>7, <2>8, <2>11, <2>12, <2>13
<1>3. T = Nat
  <2>1. T \in SUBSET Nat
    OBVIOUS
  <2> HIDE DEF T
  <2> QED BY <1>1, <1>2, <2>1, SetInduction
<1>4. Total(G, Image(S)) = Total(F, S)
  <2>1. Cardinality(S) \in T
    BY <1>3, FS_CardinalityType
  <2> QED BY <2>1
<1>5. Image(S) = U
  BY <1>0
<1> QED BY <1>4, <1>5

LEMMA TotalZero ==
  ASSUME NEW S, IsFiniteSet(S), NEW F, \A x \in S : F[x] = 0
  PROVE  Total(F, S) = 0
<1>1. PICK g : g = [s \in SUBSET S |-> 0]
  OBVIOUS
<1>2. g \in [SUBSET S -> Int]
  BY <1>1
<1>3. AddsUp(g, F, S)
  <2>1. ASSUME NEW s \in SUBSET S PROVE g[s] = IF s = {} THEN 0 ELSE F[AnyOf(s)] + g[s \ {AnyOf(s)}]
    <3>1. s # {} => F[AnyOf(s)] = 0
      BY AnyIn
    <3>2. g[s] = 0 /\ g[s \ {AnyOf(s)}] = 0
      BY <1>1
    <3> QED BY <3>1, <3>2
  <2> QED BY <1>2, <2>1 DEF AddsUp
<1>4. \A x \in S : F[x] \in Int
  OBVIOUS
<1>5. PICK h : Adding(h, F, S)
  BY <1>4, TotalDefined
<1>6. h = g
  BY <1>2, <1>3, <1>4, <1>5, AnyFirst DEF Adding
<1> QED BY <1>1, <1>5, <1>6 DEF Adding

LEMMA HasLargest ==
  ASSUME NEW S, IsFiniteSet(S), S \subseteq Int, S # {}
  PROVE  \E x \in S : \A y \in S : x >= y
<1> DEFINE T == {n \in Nat : \A s \in SUBSET S : Cardinality(s) = n /\ s # {} =>
                                \E x \in s : \A y \in s : x >= y}
<1>1. 0 \in T
  <2>1. ASSUME NEW s \in SUBSET S, Cardinality(s) = 0 PROVE s = {}
    <3>1. IsFiniteSet(s)
      BY FS_Subset
    <3> QED BY <2>1, <3>1, FS_EmptySet
  <2> QED BY <2>1
<1>2. ASSUME NEW n \in T PROVE n + 1 \in T
  <2>1. n \in Nat
    OBVIOUS
  <2>2. SUFFICES ASSUME NEW s \in SUBSET S, Cardinality(s) = n + 1, s # {}
                 PROVE  \E x \in s : \A y \in s : x >= y
    BY <2>1
  <2>3. PICK z \in s : TRUE
    BY <2>2
  <2>4. PICK r : r = s \ {z}
    OBVIOUS
  <2>5a. IsFiniteSet(s)
    BY <2>2, FS_Subset
  <2>5b. r \in SUBSET S /\ z \in Int
    BY <2>2, <2>4
  <2>5. Cardinality(r) = n
    BY <2>1, <2>2, <2>3, <2>4, <2>5a, Smaller
  <2>6. CASE r = {}
    BY <2>4, <2>5b, <2>6
  <2>7. CASE r # {}
    <3>1. PICK x \in r : \A y \in r : x >= y
      BY <2>5, <2>5b, <2>7
    <3>2. x \in Int /\ x \in s /\ \A y \in s : y = z \/ x >= y
      BY <2>4, <2>5b, <3>1
    <3> QED BY <2>5b, <3>2
  <2> QED BY <2>6, <2>7
<1>3. T = Nat
  <2>1. T \in SUBSET Nat
    OBVIOUS
  <2> HIDE DEF T
  <2> QED BY <1>1, <1>2, <2>1, SetInduction
<1>4. Cardinality(S) \in T
  BY <1>3, FS_CardinalityType
<1> QED BY <1>4
(***************************************************************************)
(* Lists                                                                   *)
(***************************************************************************)
LEMMA RangeAppend ==
  ASSUME NEW S, NEW s \in Seq(S), NEW e \in S
  PROVE  Append(s, e) \in Seq(S) /\ Range(Append(s, e)) = Range(s) \cup {e}
<1>1. /\ Append(s, e) \in Seq(S) /\ Len(Append(s, e)) = Len(s) + 1 /\ Len(s) \in Nat
      /\ \A i \in 1..Len(s) : Append(s, e)[i] = s[i]
      /\ Append(s, e)[Len(s) + 1] = e
  BY AppendProperties, LenProperties
<1>2. /\ Range(s) = {s[i] : i \in 1..Len(s)}
      /\ Range(Append(s, e)) = {Append(s, e)[i] : i \in 1..(Len(s) + 1)}
  BY <1>1 DEF Range
<1>3. 1..(Len(s) + 1) = (1..Len(s)) \cup {Len(s) + 1}
  BY <1>1
<1> QED BY <1>1, <1>2, <1>3

(* What is left of a list, as f gives it of the first n.                    *)
KeptUpto(f, list, S, n) ==
    f = [i \in 0..n |->
        IF i = 0 THEN <<>>
        ELSE IF list[i] \in S THEN Append(f[i - 1], list[i]) ELSE f[i - 1]]

LEMMA KeptDefined ==
  ASSUME NEW E, NEW list \in Seq(E), NEW S
  PROVE  KeptUpto(RetainedOf(list, S), list, S, Len(list))
<1> DEFINE T == {n \in Nat : \E f : KeptUpto(f, list, S, n)}
<1>1. 0 \in T
  <2>1. KeptUpto([i \in 0..0 |-> <<>>], list, S, 0)
    BY DEF KeptUpto
  <2> QED BY <2>1
<1>2. ASSUME NEW n \in T PROVE n + 1 \in T
  <2>1. n \in Nat
    OBVIOUS
  <2>2. PICK f : KeptUpto(f, list, S, n)
    OBVIOUS
  <2> DEFINE g == [i \in 0..(n + 1) |->
                      IF i <= n THEN f[i]
                      ELSE IF list[i] \in S THEN Append(f[i - 1], list[i]) ELSE f[i - 1]]
             h == [i \in 0..(n + 1) |->
                      IF i = 0 THEN <<>>
                      ELSE IF list[i] \in S THEN Append(g[i - 1], list[i]) ELSE g[i - 1]]
  <2>3. ASSUME NEW i \in 0..(n + 1) PROVE g[i] = h[i]
    <3>1. CASE i = n + 1
      BY <3>1, <2>1
    <3>2. CASE i <= n
      <4>1. i \in 0..n /\ g[i] = f[i]
        BY <3>2, <2>1
      <4>2. i # 0 => i - 1 \in 0..n /\ g[i - 1] = f[i - 1]
        BY <3>2, <2>1
      <4> QED BY <4>1, <4>2, <2>2 DEF KeptUpto
    <3> QED BY <3>1, <3>2, <2>1
  <2>4. g = h
    BY <2>3
  <2>5. KeptUpto(g, list, S, n + 1)
    BY <2>4 DEF KeptUpto
  <2> QED BY <2>1, <2>5
<1>3. Len(list) \in T
  <2> HIDE DEF T
  <2>1. T = Nat
    <3>1. T \in SUBSET Nat
      BY DEF T
    <3> QED BY <1>1, <1>2, <3>1, SetInduction
  <2> QED BY <2>1, LenProperties
<1>4. PICK f : KeptUpto(f, list, S, Len(list))
  BY <1>3
<1> QED BY <1>4, Zenon DEF KeptUpto, RetainedOf

(* A list within the first n of another, in the order it has there.         *)
InOrderOf(kept, list, n) ==
    /\ \A j \in 1..Len(kept) : \E l \in 1..n : list[l] = kept[j]
    /\ \A i, j \in 1..Len(kept) : i < j =>
          \E k, l \in 1..n : k < l /\ list[k] = kept[i] /\ list[l] = kept[j]

LEMMA InOrderNext ==
  ASSUME NEW E, NEW kept \in Seq(E), NEW list \in Seq(E), NEW n \in Nat, n < Len(list),
         InOrderOf(kept, list, n)
  PROVE  /\ InOrderOf(kept, list, n + 1)
         /\ InOrderOf(Append(kept, list[n + 1]), list, n + 1)
<1>1. 1..n \subseteq 1..(n + 1) /\ n + 1 \in 1..(n + 1) /\ \A k \in 1..n : k < n + 1
  OBVIOUS
<1>2. InOrderOf(kept, list, n + 1)
  BY <1>1 DEF InOrderOf
<1> DEFINE e == list[n + 1]
           more == Append(kept, e)
<1>3. e \in E
  BY LenProperties
<1>4. /\ more \in Seq(E) /\ Len(more) = Len(kept) + 1 /\ Len(kept) \in Nat
      /\ \A i \in 1..Len(kept) : more[i] = kept[i]
      /\ more[Len(kept) + 1] = e
  BY <1>3, AppendProperties, LenProperties
<1>5. e = list[n + 1]
  OBVIOUS
<1> HIDE DEF more, e
<1>6. ASSUME NEW j \in 1..Len(more) PROVE \E l \in 1..(n + 1) : list[l] = more[j]
  <2>1. CASE j \in 1..Len(kept)
    BY <2>1, <1>2, <1>4 DEF InOrderOf
  <2>2. CASE j = Len(kept) + 1
    BY <2>2, <1>1, <1>4, <1>5
  <2> QED BY <2>1, <2>2, <1>4
<1>7. ASSUME NEW i \in 1..Len(more), NEW j \in 1..Len(more), i < j
      PROVE  \E k, l \in 1..(n + 1) : k < l /\ list[k] = more[i] /\ list[l] = more[j]
  <2>1. i \in 1..Len(kept) /\ more[i] = kept[i]
    BY <1>4, <1>7
  <2>2. CASE j \in 1..Len(kept)
    <3>1. more[j] = kept[j]
      BY <2>2, <1>4
    <3>2. \E k, l \in 1..(n + 1) : k < l /\ list[k] = kept[i] /\ list[l] = kept[j]
      BY <2>1, <2>2, <1>2, <1>7, Zenon DEF InOrderOf
    <3> QED BY <2>1, <3>1, <3>2
  <2>3. CASE j = Len(kept) + 1
    <3>1. PICK k \in 1..n : list[k] = kept[i]
      BY <2>1 DEF InOrderOf
    <3>2. k \in 1..(n + 1) /\ k < n + 1
      BY <1>1
    <3> QED BY <3>1, <3>2, <2>1, <2>3, <1>1, <1>4, <1>5
  <2> QED BY <2>2, <2>3, <1>4
<1>8. InOrderOf(more, list, n + 1)
  BY <1>6, <1>7 DEF InOrderOf
<1> QED BY <1>2, <1>8 DEF more, e

LEMMA KeptFacts ==
  ASSUME NEW E, NEW list \in Seq(E), NEW S
  PROVE  /\ Retained(list, S) \in Seq(E)
         /\ Range(Retained(list, S)) = Range(list) \cap S
         /\ InOrderOf(Retained(list, S), list, Len(list))
<1> DEFINE f == RetainedOf(list, S)
           First(n) == {list[i] : i \in 1..n}
           T == {n \in Nat : n <= Len(list) =>
                    /\ f[n] \in Seq(E) /\ Range(f[n]) = First(n) \cap S
                    /\ InOrderOf(f[n], list, n)}
<1>1. /\ f[0] = <<>> /\ Len(list) \in Nat
      /\ \A i \in 1..Len(list) :
            f[i] = IF list[i] \in S THEN Append(f[i - 1], list[i]) ELSE f[i - 1]
  <2> HIDE DEF f
  <2>1. KeptUpto(f, list, S, Len(list))
    BY KeptDefined DEF f
  <2>2. Len(list) \in Nat
    BY LenProperties
  <2>3. \A i \in 0..Len(list) : f[i] = IF i = 0 THEN <<>>
                ELSE IF list[i] \in S THEN Append(f[i - 1], list[i]) ELSE f[i - 1]
    BY <2>1 DEF KeptUpto
  <2> QED BY <2>2, <2>3
<1> HIDE DEF f
<1>2. 0 \in T
  <2>1. <<>> \in Seq(E) /\ Range(<<>>) = {}
    BY EmptySeq DEF Range
  <2>2. First(0) = {}
    OBVIOUS
  <2>3. InOrderOf(<<>>, list, 0)
    BY DEF InOrderOf
  <2> QED BY <1>1, <2>1, <2>2, <2>3
<1>3. ASSUME NEW n \in T PROVE n + 1 \in T
  <2> SUFFICES ASSUME n + 1 <= Len(list)
               PROVE  /\ f[n + 1] \in Seq(E) /\ Range(f[n + 1]) = First(n + 1) \cap S
                      /\ InOrderOf(f[n + 1], list, n + 1)
    BY <1>3
  <2>1. /\ n \in Nat /\ n + 1 \in 1..Len(list) /\ n <= Len(list) /\ n < Len(list)
        /\ (n + 1) - 1 = n
    BY <1>1
  <2>2. /\ f[n] \in Seq(E) /\ Range(f[n]) = First(n) \cap S
        /\ InOrderOf(f[n], list, n)
    BY <2>1
  <2>3. First(n + 1) = First(n) \cup {list[n + 1]}
    <3>1. 1..(n + 1) = (1..n) \cup {n + 1}
      BY <2>1
    <3> QED BY <3>1
  <2> HIDE DEF First
  <2>4. /\ InOrderOf(f[n], list, n + 1)
        /\ InOrderOf(Append(f[n], list[n + 1]), list, n + 1)
    BY <2>1, <2>2, InOrderNext
  <2>5. CASE list[n + 1] \notin S
    <3>1. f[n + 1] = f[n]
      BY <2>1, <2>5, <1>1
    <3>2. First(n + 1) \cap S = First(n) \cap S
      BY <2>3, <2>5
    <3> QED BY <2>2, <2>4, <3>1, <3>2
  <2>6. CASE list[n + 1] \in S
    <3>1. f[n + 1] = Append(f[n], list[n + 1])
      BY <2>1, <2>6, <1>1
    <3>2. list[n + 1] \in E
      BY <2>1
    <3>3. /\ Append(f[n], list[n + 1]) \in Seq(E)
          /\ Range(Append(f[n], list[n + 1])) = Range(f[n]) \cup {list[n + 1]}
      BY <2>2, <3>2, RangeAppend
    <3>4. First(n + 1) \cap S = (First(n) \cap S) \cup {list[n + 1]}
      BY <2>3, <2>6
    <3> QED BY <2>2, <2>4, <3>1, <3>3, <3>4
  <2> QED BY <2>5, <2>6
<1>4. T = Nat
  <2>1. T \in SUBSET Nat
    OBVIOUS
  <2> HIDE DEF T
  <2> QED BY <1>2, <1>3, <2>1, SetInduction
<1>5. /\ f[Len(list)] \in Seq(E) /\ Range(f[Len(list)]) = First(Len(list)) \cap S
      /\ InOrderOf(f[Len(list)], list, Len(list))
  <2>1. Len(list) \in T
    <3> HIDE DEF T
    <3> QED BY <1>1, <1>4
  <2> QED BY <1>1, <2>1
<1>6. First(Len(list)) = Range(list)
  BY DEF Range
<1> QED BY <1>5, <1>6 DEF Retained, f

(* The autojoin list without a channel.                                     *)
LEMMA RemoveFacts ==
  ASSUME NEW S, NEW chs \in Seq(S), NEW ch
  PROVE  /\ removeChannel(chs, ch) \in Seq(S)
         /\ Range(removeChannel(chs, ch)) = Range(chs) \ {ch}
<1> DEFINE others == Range(chs) \ {ch}
<1>1. Retained(chs, others) \in Seq(S) /\ Range(Retained(chs, others)) = Range(chs) \cap others
  BY KeptFacts
<1>2. Range(chs) \cap others = Range(chs) \ {ch}
  OBVIOUS
<1> QED BY <1>1, <1>2 DEF removeChannel
=============================================================================
