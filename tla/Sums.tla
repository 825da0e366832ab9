--------------------------------- MODULE Sums ---------------------------------
(***************************************************************************)
(* Sums over finite sets, for the proofs about what adds up.  The          *)
(* community modules define a sum by recursion on the sets: that the       *)
(* recursion has a solution, and what holds of a sum, is proved by         *)
(* induction on the size of the set, by its least counterexample.  Sums of *)
(* sizes are sizes, which are compared by an injection.                    *)
(***************************************************************************)
EXTENDS Integers, FiniteSets, FiniteSetsExt, FiniteSetTheorems, WellFoundedInduction, TLAPS

\* The least-number principle.
LEMMA Least ==
  ASSUME NEW T, T \subseteq Nat, T # {}
  PROVE  \E m \in T : \A n \in T : m <= n
<1>1. \E R : IsWellFoundedOn(R, Nat) /\ \A a, b \in Nat : a < b => <<a, b>> \in R
  <2>1. \A a, b \in Nat : a < b => <<a, b>> \in OpToRel(<, Nat)
    BY DEF OpToRel
  <2> QED
    BY <2>1, NatLessThanWellFounded, Zenon
<1>2. PICK R : IsWellFoundedOn(R, Nat) /\ \A a, b \in Nat : a < b => <<a, b>> \in R
  BY <1>1
<1>3. PICK m \in T : \A n \in T : ~(<<n, m>> \in R)
  BY <1>2, WFMin
<1>4. \A n \in T : n \in Nat /\ m \in Nat /\ ~(n < m)
  BY <1>2, <1>3, Zenon
<1>5. \A n \in T : m <= n
  BY <1>4
<1> QED
  BY <1>5

\* The element of a set that the sum takes first.
FirstOf(s) == CHOOSE x \in s : TRUE

\* How the community modules define a sum.
Summing(f, S, h) ==
  h = [s \in SUBSET S |-> IF s = {} THEN 0 ELSE f[FirstOf(s)] + h[s \ {FirstOf(s)}]]

\* The sums of the subsets of S.
Sums(f, S) ==
  CHOOSE h : h = [s \in SUBSET S |-> IF s = {} THEN 0 ELSE f[FirstOf(s)] + h[s \ {FirstOf(s)}]]

\* A sum of the community modules is one of them.
LEMMA SumIs ==
  ASSUME NEW S, NEW f
  PROVE  MapThenSumSet(LAMBDA x : f[x], S) = Sums(f, S)[S]
BY DEF MapThenSumSet, MapThenFoldSet, Sums, FirstOf

\* The first element of a set is one of it, and the rest has one less.
LEMMA FirstOut ==
  ASSUME NEW s, IsFiniteSet(s), s # {}
  PROVE  /\ FirstOf(s) \in s /\ IsFiniteSet(s \ {FirstOf(s)})
         /\ Cardinality(s) \in Nat /\ Cardinality(s) > 0
         /\ Cardinality(s \ {FirstOf(s)}) = Cardinality(s) - 1
<1>1. FirstOf(s) \in s
  BY DEF FirstOf
<1>2. Cardinality(s) \in Nat /\ Cardinality(s) # 0
  BY FS_CardinalityType, FS_EmptySet
<1>3. /\ IsFiniteSet(s \ {FirstOf(s)})
      /\ Cardinality(s \ {FirstOf(s)}) = Cardinality(s) - 1
  BY <1>1, FS_RemoveElement
<1> QED
  BY <1>1, <1>2, <1>3

\* Induction over the subsets of a finite set, first element by first element.
LEMMA SubsetInduction ==
  ASSUME NEW S, IsFiniteSet(S), NEW T, {} \in T,
         \A s \in SUBSET S : s # {} /\ s \ {FirstOf(s)} \in T => s \in T
  PROVE  \A s \in SUBSET S : s \in T
<1> DEFINE B == {n \in Nat : \E s \in SUBSET S : Cardinality(s) = n /\ s \notin T}
<1>1. ASSUME NEW s \in SUBSET S PROVE IsFiniteSet(s) /\ Cardinality(s) \in Nat
  BY FS_Subset, FS_CardinalityType
<1>2. CASE B = {}
  BY <1>1, <1>2
<1>3. CASE B # {}
  <2>1. PICK m \in B : \A n \in B : m <= n
    <3>1. B \subseteq Nat
      OBVIOUS
    <3> HIDE DEF B
    <3> QED
      BY <1>3, <3>1, Least
  <2>2. PICK s \in SUBSET S : Cardinality(s) = m /\ s \notin T
    OBVIOUS
  <2>3. s # {}
    BY <2>2
  <2>4. /\ IsFiniteSet(s) /\ Cardinality(s) \in Nat
        /\ Cardinality(s \ {FirstOf(s)}) = Cardinality(s) - 1 /\ Cardinality(s) > 0
    BY <1>1, <2>3, FirstOut
  <2>5. s \ {FirstOf(s)} \in SUBSET S /\ s \ {FirstOf(s)} \notin T
    BY <2>2, <2>3
  <2>6. m - 1 \in Nat
    BY <2>2, <2>4
  <2>7. m - 1 \in B
    BY <2>2, <2>4, <2>5, <2>6
  <2> QED
    BY <2>1, <2>6, <2>7
<1> QED
  BY <1>2, <1>3

\* The recursion on the sets of so many elements.
Level(S, n) == {t \in SUBSET S : Cardinality(t) <= n}
LevelSum(f, S, n, h) ==
  h = [s \in Level(S, n) |-> IF s = {} THEN 0 ELSE f[FirstOf(s)] + h[s \ {FirstOf(s)}]]

\* It has a solution for the empty set.
LEMMA LevelZero ==
  ASSUME NEW S, IsFiniteSet(S), NEW f
  PROVE  \E h : LevelSum(f, S, 0, h)
<1>1. \A s \in Level(S, 0) : s = {}
  <2> SUFFICES ASSUME NEW s \in Level(S, 0) PROVE s = {}
    OBVIOUS
  <2>1. s \in SUBSET S /\ Cardinality(s) <= 0
    BY DEF Level
  <2>2. IsFiniteSet(s) /\ Cardinality(s) \in Nat
    BY <2>1, FS_Subset, FS_CardinalityType
  <2> QED
    BY <2>1, <2>2, FS_EmptySet
<1>2. PICK h : h = [s \in Level(S, 0) |-> 0]
  OBVIOUS
<1>3. h = [s \in Level(S, 0) |-> IF s = {} THEN 0 ELSE f[FirstOf(s)] + h[s \ {FirstOf(s)}]]
  BY <1>1, <1>2
<1> QED
  BY <1>3 DEF LevelSum

\* And then for those of one element more.
LEMMA LevelNext ==
  ASSUME NEW S, IsFiniteSet(S), NEW f, NEW n \in Nat, NEW h, LevelSum(f, S, n, h)
  PROVE  \E g : LevelSum(f, S, n + 1, g)
<1>1. PICK g : g = [s \in Level(S, n + 1) |->
                      IF s = {} THEN 0 ELSE f[FirstOf(s)] + h[s \ {FirstOf(s)}]]
  OBVIOUS
<1>2. ASSUME NEW s \in Level(S, n + 1), s # {}
      PROVE  g[s \ {FirstOf(s)}] = h[s \ {FirstOf(s)}]
  <2>1. PICK r : r = s \ {FirstOf(s)}
    OBVIOUS
  <2>2. s \in SUBSET S /\ Cardinality(s) <= n + 1
    BY DEF Level
  <2>3. IsFiniteSet(s) /\ r \in SUBSET S
    BY <2>1, <2>2, FS_Subset
  <2>4. Cardinality(s) \in Nat /\ Cardinality(r) = Cardinality(s) - 1
    BY <1>2, <2>1, <2>3, FirstOut
  <2>5. Cardinality(r) <= n /\ Cardinality(r) <= n + 1
    BY <2>2, <2>4
  <2>6. r \in Level(S, n) /\ r \in Level(S, n + 1)
    BY <2>3, <2>5 DEF Level
  <2>7. g[r] = IF r = {} THEN 0 ELSE f[FirstOf(r)] + h[r \ {FirstOf(r)}]
    BY <1>1, <2>6
  <2>8. h[r] = IF r = {} THEN 0 ELSE f[FirstOf(r)] + h[r \ {FirstOf(r)}]
    BY <2>6 DEF LevelSum
  <2> QED
    BY <2>1, <2>7, <2>8
<1>3. g = [s \in Level(S, n + 1) |-> IF s = {} THEN 0 ELSE f[FirstOf(s)] + g[s \ {FirstOf(s)}]]
  <2>1. \A s \in Level(S, n + 1) :
          (IF s = {} THEN 0 ELSE f[FirstOf(s)] + h[s \ {FirstOf(s)}])
            = (IF s = {} THEN 0 ELSE f[FirstOf(s)] + g[s \ {FirstOf(s)}])
    BY <1>2
  <2> QED
    BY <1>1, <2>1
<1> QED
  BY <1>3 DEF LevelSum

\* So it has one.
LEMMA SumsExist ==
  ASSUME NEW S, IsFiniteSet(S), NEW f
  PROVE  Summing(f, S, Sums(f, S))
<1> DEFINE B == {n \in Nat : ~\E h : LevelSum(f, S, n, h)}
<1>1. B = {}
  <2> SUFFICES ASSUME B # {} PROVE FALSE
    OBVIOUS
  <2>1. PICK m \in B : \A n \in B : m <= n
    <3>1. B \subseteq Nat
      OBVIOUS
    <3> HIDE DEF B
    <3> QED
      BY <3>1, Least
  <2>2. m \in Nat /\ ~\E h : LevelSum(f, S, m, h)
    OBVIOUS
  <2>3. m # 0
    BY <2>2, LevelZero
  <2>4. m - 1 \in Nat /\ (m - 1) + 1 = m /\ ~(m <= m - 1)
    BY <2>2, <2>3
  <2>5. m - 1 \notin B
    BY <2>1, <2>4
  <2>6. PICK n \in Nat : n = m - 1
    BY <2>4
  <2>7. PICK h : LevelSum(f, S, n, h)
    BY <2>5, <2>6
  <2>8. \E g : LevelSum(f, S, n + 1, g)
    BY <2>7, LevelNext
  <2> QED
    BY <2>2, <2>4, <2>6, <2>8
<1>2. PICK c \in Nat : c = Cardinality(S)
  BY FS_CardinalityType
<1>3. PICK h : LevelSum(f, S, c, h)
  BY <1>1
<1>4. Level(S, c) = SUBSET S
  BY <1>2, FS_Subset DEF Level
<1>5. h = [s \in SUBSET S |-> IF s = {} THEN 0 ELSE f[FirstOf(s)] + h[s \ {FirstOf(s)}]]
  BY <1>3, <1>4 DEF LevelSum
<1>6. Summing(f, S, h)
  BY <1>5 DEF Summing
<1>7. Sums(f, S) = CHOOSE g : Summing(f, S, g)
  BY DEF Sums, Summing
<1> QED
  BY <1>6, <1>7

\* What the sums of the subsets are.
LEMMA SumsStep ==
  ASSUME NEW S, IsFiniteSet(S), NEW f
  PROVE  /\ Sums(f, S)[{}] = 0
         /\ \A s \in SUBSET S : s # {} =>
              Sums(f, S)[s] = f[FirstOf(s)] + Sums(f, S)[s \ {FirstOf(s)}]
<1>1. PICK h : h = Sums(f, S)
  OBVIOUS
<1>2. h = [s \in SUBSET S |-> IF s = {} THEN 0 ELSE f[FirstOf(s)] + h[s \ {FirstOf(s)}]]
  BY <1>1, SumsExist DEF Summing
<1>3. h[{}] = 0
  BY <1>2
<1>4. \A s \in SUBSET S : s # {} => h[s] = f[FirstOf(s)] + h[s \ {FirstOf(s)}]
  BY <1>2
<1> QED
  BY <1>1, <1>3, <1>4

\* Sums of integers are integers.
LEMMA SumsInt ==
  ASSUME NEW S, IsFiniteSet(S), NEW f, \A x \in S : f[x] \in Int
  PROVE  \A s \in SUBSET S : Sums(f, S)[s] \in Int
<1>1. PICK h : h = Sums(f, S)
  OBVIOUS
<1>2. PICK T : T = {s \in SUBSET S : h[s] \in Int}
  OBVIOUS
<1>3. /\ h[{}] = 0
      /\ \A s \in SUBSET S : s # {} => h[s] = f[FirstOf(s)] + h[s \ {FirstOf(s)}]
  BY <1>1, SumsStep
<1>4. {} \in T
  BY <1>2, <1>3
<1>5. ASSUME NEW s \in SUBSET S, s # {}, s \ {FirstOf(s)} \in T PROVE s \in T
  <2>1. FirstOf(s) \in s
    BY <1>5 DEF FirstOf
  <2>2. f[FirstOf(s)] \in Int /\ h[s \ {FirstOf(s)}] \in Int
    BY <1>2, <1>5, <2>1
  <2>3. h[s] = f[FirstOf(s)] + h[s \ {FirstOf(s)}]
    BY <1>3, <1>5
  <2>4. h[s] \in Int
    BY <2>2, <2>3
  <2> QED
    BY <1>2, <2>4
<1>6. \A s \in SUBSET S : s \in T
  BY <1>4, <1>5, SubsetInduction
<1> QED
  BY <1>1, <1>2, <1>6

\* One term that changes by d changes the sum by d.
LEMMA SumsChange ==
  ASSUME NEW S, IsFiniteSet(S), NEW f, NEW g, NEW y \in S, NEW d \in Int,
         \A x \in S : f[x] \in Int /\ g[x] = IF x = y THEN f[x] + d ELSE f[x]
  PROVE  Sums(g, S)[S] = Sums(f, S)[S] + d
<1>1. PICK h : h = Sums(f, S)
  OBVIOUS
<1>2. PICK k : k = Sums(g, S)
  OBVIOUS
<1>3. PICK T : T = {s \in SUBSET S : k[s] = h[s] + (IF y \in s THEN d ELSE 0)}
  OBVIOUS
<1>4. /\ h[{}] = 0 /\ k[{}] = 0
      /\ \A s \in SUBSET S : s # {} => /\ h[s] = f[FirstOf(s)] + h[s \ {FirstOf(s)}]
                                       /\ k[s] = g[FirstOf(s)] + k[s \ {FirstOf(s)}]
  BY <1>1, <1>2, SumsStep
<1>5. \A s \in SUBSET S : h[s] \in Int
  BY <1>1, SumsInt
<1>6. {} \in T
  BY <1>3, <1>4
<1>7. ASSUME NEW s \in SUBSET S, s # {}, s \ {FirstOf(s)} \in T PROVE s \in T
  <2>1. PICK p : p = FirstOf(s)
    OBVIOUS
  <2>2. PICK r : r = s \ {p}
    OBVIOUS
  <2>3. p \in s /\ p \in S /\ r \in SUBSET S
    BY <1>7, <2>1, <2>2 DEF FirstOf
  <2>4. h[s] = f[p] + h[r] /\ k[s] = g[p] + k[r]
    BY <1>4, <1>7, <2>1, <2>2
  <2>5. f[p] \in Int /\ h[r] \in Int /\ g[p] = IF p = y THEN f[p] + d ELSE f[p]
    BY <1>5, <2>3
  <2>6. k[r] = h[r] + (IF y \in r THEN d ELSE 0)
    <3>1. r \in T
      BY <1>7, <2>1, <2>2
    <3> QED
      BY <1>3, <3>1
  <2>7. CASE p = y
    <3>1. y \in s /\ y \notin r
      BY <2>2, <2>3, <2>7
    <3>2. k[s] = h[s] + d
      BY <2>4, <2>5, <2>6, <2>7, <3>1
    <3> QED
      BY <1>3, <3>1, <3>2
  <2>8. CASE p # y
    <3>1. y \in s <=> y \in r
      BY <2>2, <2>8
    <3>2. k[s] = h[s] + (IF y \in s THEN d ELSE 0)
      BY <2>4, <2>5, <2>6, <2>8, <3>1
    <3> QED
      BY <1>3, <3>2
  <2> QED
    BY <2>7, <2>8
<1>8. S \in T
  <2>1. \A s \in SUBSET S : s \in T
    BY <1>6, <1>7, SubsetInduction
  <2> QED
    BY <2>1
<1> QED
  BY <1>1, <1>2, <1>3, <1>8

\* A sum of nothing but zeros.
LEMMA SumsZero ==
  ASSUME NEW S, IsFiniteSet(S), NEW f, \A x \in S : f[x] = 0
  PROVE  Sums(f, S)[S] = 0
<1>1. PICK h : h = Sums(f, S)
  OBVIOUS
<1>2. PICK T : T = {s \in SUBSET S : h[s] = 0}
  OBVIOUS
<1>3. /\ h[{}] = 0
      /\ \A s \in SUBSET S : s # {} => h[s] = f[FirstOf(s)] + h[s \ {FirstOf(s)}]
  BY <1>1, SumsStep
<1>4. {} \in T
  BY <1>2, <1>3
<1>5. ASSUME NEW s \in SUBSET S, s # {}, s \ {FirstOf(s)} \in T PROVE s \in T
  <2>1. FirstOf(s) \in s
    BY <1>5 DEF FirstOf
  <2>2. f[FirstOf(s)] = 0 /\ h[s \ {FirstOf(s)}] = 0
    BY <1>2, <1>5, <2>1
  <2>3. h[s] = 0
    BY <1>3, <1>5, <2>2
  <2> QED
    BY <1>2, <2>3
<1>6. \A s \in SUBSET S : s \in T
  BY <1>4, <1>5, SubsetInduction
<1> QED
  BY <1>1, <1>2, <1>6

-----------------------------------------------------------------------------
(* Sums of sizes *)

\* Each element of S with each point of its own.
Tagged(S, F, U) == {t \in S \X U : t[2] \in F[t[1]]}

\* There are finitely many.
LEMMA TaggedFinite ==
  ASSUME NEW S, IsFiniteSet(S), NEW U, IsFiniteSet(U), NEW F
  PROVE  IsFiniteSet(Tagged(S, F, U)) /\ Cardinality(Tagged(S, F, U)) \in Nat
<1>1. IsFiniteSet(S \X U)
  BY FS_Product
<1>2. Tagged(S, F, U) \in SUBSET (S \X U)
  BY DEF Tagged
<1>3. IsFiniteSet(Tagged(S, F, U))
  BY <1>1, <1>2, FS_Subset
<1> QED
  BY <1>3, FS_CardinalityType

\* One more element adds its points.
LEMMA TaggedOne ==
  ASSUME NEW S, IsFiniteSet(S), NEW U, IsFiniteSet(U), NEW F, NEW x \in S, F[x] \subseteq U
  PROVE  Cardinality(Tagged(S, F, U)) = Cardinality(F[x]) + Cardinality(Tagged(S \ {x}, F, U))
<1>1. PICK P : P = {x} \X F[x]
  OBVIOUS
<1>2. PICK R : R = Tagged(S \ {x}, F, U)
  OBVIOUS
<1>3. IsFiniteSet(S \ {x}) /\ IsFiniteSet(F[x])
  BY FS_RemoveElement, FS_Subset
<1>4. IsFiniteSet(R) /\ Cardinality(R) \in Nat
  BY <1>2, <1>3, TaggedFinite
<1>5. Cardinality(F[x]) \in Nat
  BY <1>3, FS_CardinalityType
<1>6. IsFiniteSet(P) /\ Cardinality(P) = Cardinality(F[x])
  <2>1. IsFiniteSet({x}) /\ Cardinality({x}) = 1
    BY FS_Singleton
  <2>2. IsFiniteSet(P) /\ Cardinality(P) = Cardinality({x}) * Cardinality(F[x])
    BY <1>1, <1>3, <2>1, FS_Product
  <2> QED
    BY <1>5, <2>1, <2>2
<1>7. Tagged(S, F, U) = P \cup R
  BY <1>1, <1>2 DEF Tagged
<1>8. P \cap R = {}
  BY <1>1, <1>2 DEF Tagged
<1>9. Cardinality(P \cup R) = Cardinality(P) + Cardinality(R) - Cardinality(P \cap R)
  BY <1>4, <1>6, FS_Union
<1>10. Cardinality(P \cap R) = 0
  BY <1>8, FS_EmptySet
<1> QED
  BY <1>2, <1>4, <1>5, <1>6, <1>7, <1>9, <1>10

\* A sum of the sizes of sets is the size of all of them.
LEMMA SumCounts ==
  ASSUME NEW S, IsFiniteSet(S), NEW U, IsFiniteSet(U), NEW F, NEW f, NEW h, Summing(f, S, h),
         \A x \in S : F[x] \subseteq U /\ f[x] = Cardinality(F[x])
  PROVE  h[S] = Cardinality(Tagged(S, F, U))
<1>1. PICK T : T = {s \in SUBSET S : h[s] = Cardinality(Tagged(s, F, U))}
  OBVIOUS
<1>2. h = [s \in SUBSET S |-> IF s = {} THEN 0 ELSE f[FirstOf(s)] + h[s \ {FirstOf(s)}]]
  BY DEF Summing
<1>3. /\ h[{}] = 0
      /\ \A s \in SUBSET S : s # {} => h[s] = f[FirstOf(s)] + h[s \ {FirstOf(s)}]
  BY <1>2
<1>4. {} \in T
  <2>1. Tagged({}, F, U) = {}
    BY DEF Tagged
  <2>2. Cardinality(Tagged({}, F, U)) = 0
    BY <2>1, FS_EmptySet
  <2> QED
    BY <1>1, <1>3, <2>2
<1>5. ASSUME NEW s \in SUBSET S, s # {}, s \ {FirstOf(s)} \in T PROVE s \in T
  <2>1. PICK x : x = FirstOf(s)
    OBVIOUS
  <2>2. x \in s /\ x \in S
    BY <1>5, <2>1 DEF FirstOf
  <2>3. IsFiniteSet(s) /\ F[x] \subseteq U /\ f[x] = Cardinality(F[x])
    BY <2>2, FS_Subset
  <2>4. Cardinality(Tagged(s, F, U))
          = Cardinality(F[x]) + Cardinality(Tagged(s \ {x}, F, U))
    BY <2>2, <2>3, TaggedOne
  <2>5. h[s \ {x}] = Cardinality(Tagged(s \ {x}, F, U))
    BY <1>1, <1>5, <2>1
  <2>6. h[s] = f[x] + h[s \ {x}]
    BY <1>3, <1>5, <2>1
  <2>7. h[s] = Cardinality(Tagged(s, F, U))
    BY <2>3, <2>4, <2>5, <2>6
  <2> QED
    BY <1>1, <2>7
<1>6. \A s \in SUBSET S : s \in T
  BY <1>4, <1>5, SubsetInduction
<1>7. S \in T
  BY <1>6
<1> QED
  BY <1>1, <1>7

-----------------------------------------------------------------------------
(* Sizes *)

\* What goes one to one into a finite set is no larger.
LEMMA Injected ==
  ASSUME NEW T, IsFiniteSet(T), NEW A, NEW f, f = [x \in A |-> f[x]],
         \A x \in A : f[x] \in T, \A x, y \in A : f[x] = f[y] => x = y
  PROVE  IsFiniteSet(A) /\ Cardinality(A) \in Nat /\ Cardinality(A) <= Cardinality(T)
<1>1. f \in [A -> T]
  OBVIOUS
<1>2. f \in Injection(A, T)
  BY <1>1 DEF Injection, IsInjective
<1>3. IsFiniteSet(A) /\ Cardinality(A) <= Cardinality(T)
  BY <1>2, FS_Injection
<1> QED
  BY <1>3, FS_CardinalityType

\* A set is no larger than three that cover it.
LEMMA InThree ==
  ASSUME NEW A, IsFiniteSet(A), NEW B, IsFiniteSet(B), NEW C, IsFiniteSet(C), NEW X,
         X \subseteq A \cup B \cup C
  PROVE  Cardinality(X) <= Cardinality(A) + Cardinality(B) + Cardinality(C)
<1>1. /\ IsFiniteSet(A \cup B)
      /\ Cardinality(A \cup B) = Cardinality(A) + Cardinality(B) - Cardinality(A \cap B)
  BY FS_Union
<1>2. PICK D : D = A \cup B
  OBVIOUS
<1>3. /\ IsFiniteSet(D \cup C)
      /\ Cardinality(D \cup C) = Cardinality(D) + Cardinality(C) - Cardinality(D \cap C)
  BY <1>1, <1>2, FS_Union
<1>4. Cardinality(X) <= Cardinality(D \cup C)
  BY <1>2, <1>3, FS_Subset
<1>5. IsFiniteSet(A \cap B) /\ IsFiniteSet(D \cap C) /\ IsFiniteSet(X)
  BY <1>2, <1>3, FS_Subset
<1>6. /\ Cardinality(A) \in Nat /\ Cardinality(B) \in Nat /\ Cardinality(C) \in Nat
      /\ Cardinality(A \cap B) \in Nat /\ Cardinality(D \cap C) \in Nat
      /\ Cardinality(X) \in Nat
  BY <1>5, FS_CardinalityType
<1> QED
  BY <1>1, <1>2, <1>3, <1>4, <1>6
===============================================================================
