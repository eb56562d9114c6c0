------------------------------- MODULE SumLemmas ----------------------------
(***************************************************************************)
(* Sums over finite sets: what SumFunctionOnSet of module Functions, a     *)
(* fold, does when an element comes, goes or changes.  The sums of the     *)
(* copier (notionals, positions, withdrawals, residuals) change one row at *)
(* a time, and the proofs about them need no more.                         *)
(*                                                                         *)
(* Induction is used in the form of LeastNumber: the induction theorems of *)
(* the library take an operator as a parameter.                            *)
(***************************************************************************)
EXTENDS Integers, Functions, FiniteSetTheorems, WellFoundedInduction, TLAPS

\* Every nonempty set of numbers has a least element.
LEMMA LeastNumber ==
  ASSUME NEW T, T \subseteq Nat, T # {}
  PROVE  \E n \in T : \A m \in T : n <= m
<1> DEFINE R == {ss \in Nat \X Nat : ss[1] < ss[2]}
<1>1. IsWellFoundedOn(R, Nat)
  BY NatLessThanWellFounded DEF OpToRel
<1>2. PICK n \in T : \A m \in T : ~ (<<m, n>> \in R)
  <2> HIDE DEF R
  <2> QED
    BY <1>1, WFMin
<1>3. ASSUME NEW m \in T PROVE n <= m
  <2>1. m \in Nat /\ n \in Nat
    OBVIOUS
  <2>2. <<m, n>> \in Nat \X Nat /\ <<m, n>>[1] = m /\ <<m, n>>[2] = n
    BY <2>1
  <2>3. ~ (m < n)
    BY <1>2, <2>2
  <2> QED
    BY <2>1, <2>3
<1> QED
  BY <1>3

\* A set of numbers that has 0 and with a number the next one has them all.
LEMMA NumberInduction ==
  ASSUME NEW G, 0 \in G, \A n \in Nat : n \in G => n + 1 \in G
  PROVE  Nat \subseteq G
<1> DEFINE Bad == Nat \ G
<1> SUFFICES ASSUME Bad # {} PROVE FALSE
  OBVIOUS
<1>1. PICK n \in Bad : \A m \in Bad : n <= m
  BY LeastNumber
<1>2. n \in Nat /\ n # 0
  BY <1>1
<1>3. n - 1 \in Nat /\ n - 1 \notin Bad /\ (n - 1) + 1 = n
  BY <1>1, <1>2
<1> QED
  BY <1>1, <1>3

\* A family of sets that has the empty set, and a set whenever it has those
\* with one element less, has every subset of a finite set.
LEMMA SetInduction ==
  ASSUME NEW S, IsFiniteSet(S), NEW G, {} \in G,
         \A T \in SUBSET S : T # {} /\ (\A x \in T : T \ {x} \in G) => T \in G
  PROVE  SUBSET S \subseteq G
<1> DEFINE N == {n \in Nat : \A T \in SUBSET S : Cardinality(T) = n => T \in G}
<1>0. \A T \in SUBSET S : IsFiniteSet(T) /\ Cardinality(T) \in Nat
  BY FS_Subset, FS_CardinalityType
<1>1. 0 \in N
  BY <1>0, FS_EmptySet
<1>2. ASSUME NEW n \in Nat, n \in N PROVE n + 1 \in N
  <2> SUFFICES ASSUME NEW T \in SUBSET S, Cardinality(T) = n + 1 PROVE T \in G
    OBVIOUS
  <2>1. IsFiniteSet(T) /\ T # {}
    BY <1>0, FS_EmptySet
  <2>2. ASSUME NEW x \in T PROVE T \ {x} \in G
    <3>1. Cardinality(T \ {x}) = Cardinality(T) - 1
      BY <2>1, FS_RemoveElement
    <3> QED
      BY <1>2, <3>1
  <2> QED
    BY <2>1, <2>2
<1>3. Nat \subseteq N
  <2> HIDE DEF N
  <2> QED
    BY <1>1, <1>2, NumberInduction
<1> QED
  BY <1>0, <1>3

-----------------------------------------------------------------------------
\* The fold

\* The element that the fold takes out of a set.
FoldPick(S) == CHOOSE x \in S : TRUE

\* It is one of the set.
LEMMA PickIn == ASSUME NEW T, T # {} PROVE FoldPick(T) \in T
  BY DEF FoldPick

\* The equation of the fold on a family D of sets.
FoldBody(g, f, D) == [T \in D |-> IF T = {} THEN 0 ELSE f[FoldPick(T)] + g[T \ {FoldPick(T)}]]

\* The sum of the library is the value of a solution of that equation.
LEMMA SumIs ==
  ASSUME NEW f, NEW S
  PROVE  SumFunctionOnSet(f, S) = (CHOOSE g : g = FoldBody(g, f, SUBSET S))[S]
  BY DEF SumFunctionOnSet, FoldFunctionOnSet, MapThenFoldSet, FoldBody, FoldPick

\* The subsets of at most n elements.
SmallSets(S, n) == {T \in SUBSET S : Cardinality(T) <= n}

\* Without the element taken out a set is smaller by one.
LEMMA SmallRest ==
  ASSUME NEW S, IsFiniteSet(S), NEW n \in Nat, NEW T \in SmallSets(S, n + 1), T # {}
  PROVE  T \ {FoldPick(T)} \in SmallSets(S, n)
<1>1. IsFiniteSet(T) /\ T \subseteq S /\ Cardinality(T) <= n + 1
  BY FS_Subset DEF SmallSets
<1>2. Cardinality(T \ {FoldPick(T)}) = Cardinality(T) - 1 /\ Cardinality(T) \in Nat
  BY <1>1, PickIn, FS_RemoveElement, FS_CardinalityType
<1> QED
  BY <1>1, <1>2 DEF SmallSets

\* The sets of at most as many elements are all the subsets.
LEMMA SmallAll ==
  ASSUME NEW S, IsFiniteSet(S)
  PROVE  Cardinality(S) \in Nat /\ SmallSets(S, Cardinality(S)) = SUBSET S
  BY FS_Subset, FS_CardinalityType DEF SmallSets

\* The equation has a solution on the sets of at most n elements.
LEMMA SmallSum ==
  ASSUME NEW S, IsFiniteSet(S), NEW f, \A x \in S : f[x] \in Int
  PROVE  \A n \in Nat : \E g \in [SmallSets(S, n) -> Int] : g = FoldBody(g, f, SmallSets(S, n))
<1> DEFINE Has(n) == \E g \in [SmallSets(S, n) -> Int] : g = FoldBody(g, f, SmallSets(S, n))
           N == {n \in Nat : Has(n)}
<1>1. Has(0)
  <2>1. SmallSets(S, 0) = {{}}
    <3>1. ASSUME NEW T \in SmallSets(S, 0) PROVE T = {}
      <4>1. IsFiniteSet(T) /\ Cardinality(T) \in Nat /\ Cardinality(T) <= 0
        BY FS_Subset, FS_CardinalityType DEF SmallSets
      <4> QED
        BY <4>1, FS_EmptySet
    <3>2. {} \in SmallSets(S, 0)
      BY FS_EmptySet DEF SmallSets
    <3> QED
      BY <3>1, <3>2
  <2> DEFINE g == [T \in SmallSets(S, 0) |-> 0]
  <2>2. g \in [SmallSets(S, 0) -> Int] /\ g = FoldBody(g, f, SmallSets(S, 0))
    BY <2>1 DEF FoldBody
  <2> QED
    BY <2>2
<1>2. ASSUME NEW n \in Nat, Has(n) PROVE Has(n + 1)
  <2>1. PICK g \in [SmallSets(S, n) -> Int] : g = FoldBody(g, f, SmallSets(S, n))
    BY <1>2
  <2> DEFINE h == [T \in SmallSets(S, n + 1) |-> IF T = {} THEN 0 ELSE f[FoldPick(T)] + g[T \ {FoldPick(T)}]]
  <2>2. ASSUME NEW T \in SmallSets(S, n + 1), T # {}
        PROVE  /\ f[FoldPick(T)] \in Int /\ g[T \ {FoldPick(T)}] \in Int
               /\ T \ {FoldPick(T)} \in SmallSets(S, n) /\ T \ {FoldPick(T)} \in SmallSets(S, n + 1)
    <3>1. T \ {FoldPick(T)} \in SmallSets(S, n)
      BY <2>2, SmallRest
    <3>2. FoldPick(T) \in S
      BY <2>2, PickIn DEF SmallSets
    <3>3. SmallSets(S, n) \subseteq SmallSets(S, n + 1)
      <4>1. \A U \in SUBSET S : Cardinality(U) \in Nat
        BY FS_Subset, FS_CardinalityType
      <4> QED
        BY <4>1 DEF SmallSets
    <3> QED
      BY <3>1, <3>2, <3>3
  <2>3. h \in [SmallSets(S, n + 1) -> Int]
    BY <2>2
  <2>4. ASSUME NEW T \in SmallSets(S, n) PROVE h[T] = g[T]
    <3>1. T \in SmallSets(S, n + 1)
      BY FS_Subset, FS_CardinalityType DEF SmallSets
    <3>2. g[T] = IF T = {} THEN 0 ELSE f[FoldPick(T)] + g[T \ {FoldPick(T)}]
      BY <2>1 DEF FoldBody
    <3> QED
      BY <3>1, <3>2
  <2>5. ASSUME NEW T \in SmallSets(S, n + 1), T # {} PROVE h[T] = f[FoldPick(T)] + h[T \ {FoldPick(T)}]
    <3>1. h[T \ {FoldPick(T)}] = g[T \ {FoldPick(T)}]
      BY <2>2, <2>4, <2>5
    <3> QED
      BY <3>1, <2>5
  <2>6. ASSUME NEW T \in SmallSets(S, n + 1), T = {} PROVE h[T] = 0
    BY <2>6
  <2> HIDE DEF h
  <2>7. h = FoldBody(h, f, SmallSets(S, n + 1))
    BY <2>3, <2>5, <2>6 DEF FoldBody
  <2> QED
    BY <2>3, <2>7
<1>3. Nat \subseteq N
  <2> HIDE DEF Has
  <2> SUFFICES 0 \in N /\ \A n \in Nat : n \in N => n + 1 \in N
    BY NumberInduction
  <2> QED
    BY <1>1, <1>2
<1> QED
  BY <1>3

\* So it has a solution on all the subsets.
LEMMA TheSum ==
  ASSUME NEW S, IsFiniteSet(S), NEW f, \A x \in S : f[x] \in Int
  PROVE  \E g : g = FoldBody(g, f, SUBSET S)
<1>1. \E g \in [SmallSets(S, Cardinality(S)) -> Int] : g = FoldBody(g, f, SmallSets(S, Cardinality(S)))
  BY SmallSum, SmallAll
<1> QED
  BY <1>1, SmallAll

\* A solution for a set has the sum of each of its subsets.
LEMMA SumOf ==
  ASSUME NEW S, IsFiniteSet(S), NEW f, \A x \in S : f[x] \in Int,
         NEW g, g = FoldBody(g, f, SUBSET S), NEW U \in SUBSET S
  PROVE  SumFunctionOnSet(f, U) = g[U] /\ g[U] \in Int
<1> DEFINE h == CHOOSE h : h = FoldBody(h, f, SUBSET U)
           G == {T \in SUBSET U : g[T] = h[T] /\ h[T] \in Int}
<1>1. IsFiniteSet(U) /\ \A x \in U : f[x] \in Int
  BY FS_Subset
<1>2. h = FoldBody(h, f, SUBSET U)
  BY <1>1, TheSum
<1>3. SumFunctionOnSet(f, U) = h[U]
  BY SumIs
<1> HIDE DEF h
<1>4. ASSUME NEW T \in SUBSET U
      PROVE  /\ T = {} => g[T] = 0 /\ h[T] = 0
             /\ T # {} => /\ g[T] = f[FoldPick(T)] + g[T \ {FoldPick(T)}]
                          /\ h[T] = f[FoldPick(T)] + h[T \ {FoldPick(T)}]
  <2>1. T \in SUBSET S
    OBVIOUS
  <2>2. g[T] = FoldBody(g, f, SUBSET S)[T] /\ h[T] = FoldBody(h, f, SUBSET U)[T]
    BY <1>2
  <2> QED
    BY <2>1, <2>2 DEF FoldBody
<1>5. {} \in G
  <2>1. {} \in SUBSET U
    OBVIOUS
  <2>2. g[{}] = 0 /\ h[{}] = 0
    BY <1>4, <2>1
  <2> QED
    BY <2>1, <2>2
<1>6. ASSUME NEW T \in SUBSET U, T # {}, \A x \in T : T \ {x} \in G PROVE T \in G
  <2>1. FoldPick(T) \in T
    BY <1>6, PickIn
  <2>2. g[T \ {FoldPick(T)}] = h[T \ {FoldPick(T)}] /\ h[T \ {FoldPick(T)}] \in Int /\ f[FoldPick(T)] \in Int
    BY <1>1, <1>6, <2>1
  <2>3. g[T] = f[FoldPick(T)] + g[T \ {FoldPick(T)}] /\ h[T] = f[FoldPick(T)] + h[T \ {FoldPick(T)}]
    BY <1>4, <1>6
  <2> QED
    BY <2>2, <2>3
<1>7. SUBSET U \subseteq G
  <2> HIDE DEF G
  <2> QED
    BY <1>1, <1>5, <1>6, SetInduction
<1> QED
  BY <1>3, <1>7

-----------------------------------------------------------------------------
\* What a sum does

\* The sum over no element is 0.
LEMMA SumEmpty == ASSUME NEW f PROVE SumFunctionOnSet(f, {}) = 0
<1>1. IsFiniteSet({}) /\ \A x \in {} : f[x] \in Int
  BY FS_EmptySet
<1>2. PICK g : g = FoldBody(g, f, SUBSET {})
  BY <1>1, TheSum
<1>3. g[{}] = FoldBody(g, f, SUBSET {})[{}]
  BY <1>2
<1>4. g[{}] = 0
  BY <1>3 DEF FoldBody
<1> QED
  BY <1>1, <1>2, <1>4, SumOf

\* A sum of integers is one.
LEMMA SumType ==
  ASSUME NEW S, IsFiniteSet(S), NEW f, \A x \in S : f[x] \in Int
  PROVE  SumFunctionOnSet(f, S) \in Int
<1>1. PICK g : g = FoldBody(g, f, SUBSET S)
  BY TheSum
<1>2. S \in SUBSET S
  OBVIOUS
<1> QED
  BY <1>1, <1>2, SumOf

\* Taking out an element, whichever, takes its value off the sum.
LEMMA SumRemove ==
  ASSUME NEW S, IsFiniteSet(S), NEW f, \A x \in S : f[x] \in Int, NEW x \in S
  PROVE  SumFunctionOnSet(f, S) = f[x] + SumFunctionOnSet(f, S \ {x})
<1>1. PICK g : g = FoldBody(g, f, SUBSET S)
  BY TheSum
<1>2. \A U \in SUBSET S : SumFunctionOnSet(f, U) = g[U] /\ g[U] \in Int
  BY <1>1, SumOf
<1> DEFINE G == {T \in SUBSET S : \A y \in T : g[T] = f[y] + g[T \ {y}]}
<1>3. ASSUME NEW T \in SUBSET S, T # {} PROVE g[T] = f[FoldPick(T)] + g[T \ {FoldPick(T)}]
  <2>1. g[T] = FoldBody(g, f, SUBSET S)[T]
    BY <1>1
  <2> QED
    BY <1>3, <2>1 DEF FoldBody
<1>4. ASSUME NEW T \in SUBSET S, T # {}, \A z \in T : T \ {z} \in G PROVE T \in G
  <2> SUFFICES ASSUME NEW y \in T PROVE g[T] = f[y] + g[T \ {y}]
    OBVIOUS
  <2> DEFINE c == FoldPick(T)
  <2>1. c \in T
    BY PickIn
  <2>2. g[T] = f[c] + g[T \ {c}]
    BY <1>3, <2>1
  <2> HIDE DEF c
  <2>3. CASE y = c
    BY <2>2, <2>3
  <2>4. CASE y # c
    <3>1. g[T \ {c}] = f[y] + g[(T \ {c}) \ {y}]
      BY <1>4, <2>1, <2>4
    <3>2. g[T \ {y}] = f[c] + g[(T \ {y}) \ {c}]
      BY <1>4, <2>1, <2>4
    <3>3. (T \ {y}) \ {c} = (T \ {c}) \ {y}
      OBVIOUS
    <3>4. f[c] \in Int /\ f[y] \in Int /\ g[(T \ {c}) \ {y}] \in Int
      BY <1>2, <2>1
    <3>5. \A a, b, d \in Int : a + (b + d) = b + (a + d)
      OBVIOUS
    <3>6. g[T] = f[c] + (f[y] + g[(T \ {c}) \ {y}])
      BY <2>2, <3>1
    <3>7. f[y] + g[T \ {y}] = f[y] + (f[c] + g[(T \ {c}) \ {y}])
      BY <3>2, <3>3
    <3> QED
      BY <3>4, <3>5, <3>6, <3>7
  <2> QED
    BY <2>3, <2>4
<1>5. {} \in G
  OBVIOUS
<1>6. SUBSET S \subseteq G
  <2> HIDE DEF G
  <2> QED
    BY <1>4, <1>5, SetInduction
<1> QED
  BY <1>2, <1>6

\* Putting in a new element adds its value.
LEMMA SumAdd ==
  ASSUME NEW S, IsFiniteSet(S), NEW f, NEW x, x \notin S, \A y \in S \cup {x} : f[y] \in Int
  PROVE  SumFunctionOnSet(f, S \cup {x}) = SumFunctionOnSet(f, S) + f[x]
<1> DEFINE T == S \cup {x}
<1>1. IsFiniteSet(T) /\ x \in T /\ T \ {x} = S
  BY FS_AddElement
<1> HIDE DEF T
<1>2. SumFunctionOnSet(f, T) = f[x] + SumFunctionOnSet(f, S)
  BY <1>1, SumRemove DEF T
<1>3. SumFunctionOnSet(f, S) \in Int /\ f[x] \in Int
  BY SumType
<1> QED
  BY <1>2, <1>3 DEF T

\* A function that is nowhere larger has no larger sum.
LEMMA SumMonotone ==
  ASSUME NEW S, IsFiniteSet(S), NEW f, NEW g,
         \A x \in S : f[x] \in Int /\ g[x] \in Int /\ f[x] <= g[x]
  PROVE  SumFunctionOnSet(f, S) <= SumFunctionOnSet(g, S)
<1> DEFINE G == {T \in SUBSET S : SumFunctionOnSet(f, T) <= SumFunctionOnSet(g, T)}
<1>1. {} \in G
  BY SumEmpty
<1>2. ASSUME NEW T \in SUBSET S, T # {}, \A x \in T : T \ {x} \in G PROVE T \in G
  <2>1. PICK x \in T : TRUE
    BY <1>2
  <2> DEFINE R == T \ {x}
  <2>2. IsFiniteSet(T) /\ IsFiniteSet(R)
    BY FS_Subset
  <2>3. SumFunctionOnSet(f, T) = f[x] + SumFunctionOnSet(f, R) /\ SumFunctionOnSet(g, T) = g[x] + SumFunctionOnSet(g, R)
    BY <2>2, SumRemove
  <2>4. SumFunctionOnSet(f, R) \in Int /\ SumFunctionOnSet(g, R) \in Int
    BY <2>2, SumType
  <2>5. SumFunctionOnSet(f, R) <= SumFunctionOnSet(g, R)
    BY <1>2, <2>1
  <2>6. f[x] \in Int /\ g[x] \in Int /\ f[x] <= g[x]
    OBVIOUS
  <2> HIDE DEF R
  <2> QED
    BY <2>3, <2>4, <2>5, <2>6
<1>3. SUBSET S \subseteq G
  <2> HIDE DEF G
  <2> QED
    BY <1>1, <1>2, SetInduction
<1> QED
  BY <1>3

\* A sum depends on nothing but the values on its set.
LEMMA SumSame ==
  ASSUME NEW S, IsFiniteSet(S), NEW f, NEW g, \A x \in S : f[x] \in Int /\ g[x] = f[x]
  PROVE  SumFunctionOnSet(g, S) = SumFunctionOnSet(f, S)
<1>1. \A x \in S : f[x] \in Int /\ g[x] \in Int /\ f[x] <= g[x] /\ g[x] <= f[x]
  OBVIOUS
<1>2. SumFunctionOnSet(f, S) <= SumFunctionOnSet(g, S) /\ SumFunctionOnSet(g, S) <= SumFunctionOnSet(f, S)
  BY <1>1, SumMonotone
<1>3. SumFunctionOnSet(f, S) \in Int /\ SumFunctionOnSet(g, S) \in Int
  BY <1>1, SumType
<1> QED
  BY <1>2, <1>3

\* The sum over a larger set is no smaller when nothing is negative.
LEMMA SumSubset ==
  ASSUME NEW S, IsFiniteSet(S), NEW f, \A x \in S : f[x] \in Nat, NEW U \in SUBSET S
  PROVE  SumFunctionOnSet(f, U) <= SumFunctionOnSet(f, S)
<1> DEFINE G == {T \in SUBSET S : \A V \in SUBSET T : SumFunctionOnSet(f, V) <= SumFunctionOnSet(f, T)}
<1>1. {} \in G
  BY SumEmpty
<1>2. ASSUME NEW T \in SUBSET S, T # {}, \A x \in T : T \ {x} \in G PROVE T \in G
  <2> SUFFICES ASSUME NEW V \in SUBSET T PROVE SumFunctionOnSet(f, V) <= SumFunctionOnSet(f, T)
    OBVIOUS
  <2>1. IsFiniteSet(T) /\ \A x \in T : f[x] \in Int /\ f[x] \in Nat
    BY FS_Subset
  <2>2. SumFunctionOnSet(f, T) \in Int
    BY <2>1, SumType
  <2>3. CASE V = T
    BY <2>2, <2>3
  <2>4. ASSUME NEW x \in T, x \notin V PROVE SumFunctionOnSet(f, V) <= SumFunctionOnSet(f, T)
    <3> DEFINE R == T \ {x}
    <3>1. IsFiniteSet(R) /\ V \in SUBSET R /\ R \in G /\ \A y \in R : f[y] \in Int
      BY <1>2, <2>1, <2>4, FS_RemoveElement
    <3>2. SumFunctionOnSet(f, V) <= SumFunctionOnSet(f, R)
      BY <3>1
    <3>3. SumFunctionOnSet(f, T) = f[x] + SumFunctionOnSet(f, R)
      BY <2>1, SumRemove
    <3>4. IsFiniteSet(V) /\ \A y \in V : f[y] \in Int
      BY <2>1, FS_Subset
    <3> HIDE DEF R
    <3>5. SumFunctionOnSet(f, R) \in Int /\ SumFunctionOnSet(f, V) \in Int /\ f[x] \in Nat
      BY <2>1, <3>1, <3>4, SumType
    <3> QED
      BY <3>2, <3>3, <3>5
  <2> QED
    BY <2>3, <2>4
<1>3. SUBSET S \subseteq G
  <2> HIDE DEF G
  <2> QED
    BY <1>1, <1>2, SetInduction
<1> QED
  BY <1>3

\* A sum of numbers that are not negative is not negative.
LEMMA SumNat ==
  ASSUME NEW S, IsFiniteSet(S), NEW f, \A x \in S : f[x] \in Nat
  PROVE  SumFunctionOnSet(f, S) \in Nat
<1>1. SumFunctionOnSet(f, {}) <= SumFunctionOnSet(f, S) /\ SumFunctionOnSet(f, {}) = 0
  BY SumSubset, SumEmpty
<1>2. SumFunctionOnSet(f, S) \in Int
  BY SumType
<1> QED
  BY <1>1, <1>2
\* The sum over two sets that share nothing is that over one and the other.
LEMMA SumUnion ==
  ASSUME NEW A, IsFiniteSet(A), NEW B, IsFiniteSet(B), A \cap B = {},
         NEW f, \A x \in A \cup B : f[x] \in Int
  PROVE  SumFunctionOnSet(f, A \cup B) = SumFunctionOnSet(f, A) + SumFunctionOnSet(f, B)
<1> DEFINE G == {T \in SUBSET B : SumFunctionOnSet(f, A \cup T) = SumFunctionOnSet(f, A) + SumFunctionOnSet(f, T)}
<1>0. SumFunctionOnSet(f, A) \in Int
  BY SumType
<1>1. {} \in G
  <2>1. A \cup {} = A
    OBVIOUS
  <2>2. SumFunctionOnSet(f, A) = SumFunctionOnSet(f, A) + 0
    BY <1>0
  <2> QED
    BY <2>1, <2>2, SumEmpty
<1>2. ASSUME NEW T \in SUBSET B, T # {}, \A x \in T : T \ {x} \in G PROVE T \in G
  <2>1. PICK x \in T : TRUE
    BY <1>2
  <2> DEFINE R == T \ {x}
             U == A \cup R
  <2>2. IsFiniteSet(T) /\ IsFiniteSet(R) /\ IsFiniteSet(U)
    <3>1. IsFiniteSet(T) /\ IsFiniteSet(R)
      BY FS_Subset
    <3> QED
      BY <3>1, FS_Union
  <2>3. x \notin U /\ A \cup T = U \cup {x}
    BY <2>1
  <2>4. \A y \in U \cup {x} : f[y] \in Int
    OBVIOUS
  <2>5. SumFunctionOnSet(f, T) = f[x] + SumFunctionOnSet(f, R)
    BY <2>2, SumRemove
  <2>6. SumFunctionOnSet(f, U) = SumFunctionOnSet(f, A) + SumFunctionOnSet(f, R)
    BY <1>2, <2>1
  <2>7. SumFunctionOnSet(f, R) \in Int /\ f[x] \in Int
    BY <2>2, SumType
  <2> HIDE DEF R, U
  <2>8. SumFunctionOnSet(f, U \cup {x}) = SumFunctionOnSet(f, U) + f[x]
    BY <2>2, <2>3, <2>4, SumAdd
  <2>9. SumFunctionOnSet(f, A \cup T) = SumFunctionOnSet(f, A) + SumFunctionOnSet(f, T)
    <3> DEFINE sA == SumFunctionOnSet(f, A)
               sR == SumFunctionOnSet(f, R)
               fx == f[x]
    <3>1. sA \in Int /\ sR \in Int /\ fx \in Int
      BY <1>0, <2>7
    <3>2. SumFunctionOnSet(f, A \cup T) = (sA + sR) + fx
      BY <2>3, <2>6, <2>8
    <3>3. SumFunctionOnSet(f, T) = fx + sR
      BY <2>5
    <3> HIDE DEF sA, sR, fx
    <3>4. (sA + sR) + fx = sA + (fx + sR)
      BY <3>1
    <3> QED
      BY <3>2, <3>3, <3>4 DEF sA
  <2> QED
    BY <2>9
<1>3. SUBSET B \subseteq G
  <2> HIDE DEF G
  <2> QED
    BY <1>1, <1>2, SetInduction
<1> QED
  BY <1>3

\* A sum of nothing but zeros is 0.
LEMMA SumZero ==
  ASSUME NEW S, IsFiniteSet(S), NEW f, \A x \in S : f[x] = 0
  PROVE  SumFunctionOnSet(f, S) = 0
<1> DEFINE G == {T \in SUBSET S : SumFunctionOnSet(f, T) = 0}
<1>1. {} \in G
  BY SumEmpty
<1>2. ASSUME NEW T \in SUBSET S, T # {}, \A x \in T : T \ {x} \in G PROVE T \in G
  <2>1. PICK x \in T : TRUE
    BY <1>2
  <2>2. IsFiniteSet(T) /\ \A y \in T : f[y] \in Int
    BY FS_Subset
  <2>3. SumFunctionOnSet(f, T) = f[x] + SumFunctionOnSet(f, T \ {x})
    BY <2>2, SumRemove
  <2>4. SumFunctionOnSet(f, T \ {x}) = 0 /\ f[x] = 0
    BY <1>2
  <2> QED
    BY <2>3, <2>4
<1>3. SUBSET S \subseteq G
  <2> HIDE DEF G
  <2> QED
    BY <1>1, <1>2, SetInduction
<1> QED
  BY <1>3

\* What is 0 outside a part has the sum of that part.
LEMMA SumPart ==
  ASSUME NEW S, IsFiniteSet(S), NEW A \in SUBSET S, NEW f, NEW g,
         \A x \in A : f[x] \in Int /\ g[x] = f[x], \A x \in S \ A : g[x] = 0
  PROVE  SumFunctionOnSet(g, S) = SumFunctionOnSet(f, A)
<1> DEFINE B == S \ A
<1>1. IsFiniteSet(A) /\ IsFiniteSet(B) /\ A \cap B = {} /\ S = A \cup B
  BY FS_Subset
<1>2. \A x \in A \cup B : g[x] \in Int
  OBVIOUS
<1>3. SumFunctionOnSet(g, B) = 0
  BY <1>1, SumZero
<1> HIDE DEF B
<1>4. SumFunctionOnSet(g, S) = SumFunctionOnSet(g, A) + SumFunctionOnSet(g, B)
  BY <1>1, <1>2, SumUnion
<1>5. SumFunctionOnSet(g, A) = SumFunctionOnSet(f, A) /\ SumFunctionOnSet(f, A) \in Int
  BY <1>1, SumSame, SumType
<1> QED
  BY <1>3, <1>4, <1>5

----------------------------------------------------------------------------
(* Recursive functions on a range of numbers. *)

\* What 0 has, and with each number the next one, all numbers up to n have.
LEMMA UpTo ==
  ASSUME NEW n \in Nat, NEW G, 0 \in G, \A i \in 0..n : i < n /\ i \in G => i + 1 \in G
  PROVE  0..n \subseteq G
<1> DEFINE H == {i \in Nat : i <= n => i \in G}
<1>1. 0 \in H /\ \A i \in Nat : i \in H => i + 1 \in H
  OBVIOUS
<1>2. Nat \subseteq H
  <2> HIDE DEF H
  <2> QED
    BY <1>1, NumberInduction
<1> QED
  BY <1>2

\* A function on 0..n may be defined by its value at 0 and by a step from each number to the next.
Iterated(g, n, a, step) == g[0] = a /\ \A i \in 1..n : g[i] = step[<<i, g[i - 1]>>]
LEMMA Iterates ==
  ASSUME NEW n \in Nat, NEW T, NEW a \in T, NEW step \in [(1..n) \X T -> T]
  PROVE  \E g \in [0..n -> T] : Iterated(g, n, a, step)
<1> DEFINE Has(m) == \E g \in [0..m -> T] : g[0] = a /\ \A i \in 1..m : g[i] = step[<<i, g[i - 1]>>]
           G == {m \in 0..n : Has(m)}
<1>1. Has(0)
  <2> DEFINE g == [i \in 0..0 |-> a]
  <2>1. g \in [0..0 -> T] /\ g[0] = a /\ \A i \in 1..0 : g[i] = step[<<i, g[i - 1]>>]
    OBVIOUS
  <2> QED
    BY <2>1
<1>2. ASSUME NEW m \in 0..n, m < n, Has(m) PROVE Has(m + 1)
  <2>1. PICK g \in [0..m -> T] : g[0] = a /\ \A i \in 1..m : g[i] = step[<<i, g[i - 1]>>]
    BY <1>2
  <2> DEFINE s == step[<<m + 1, g[m]>>]
             h == [i \in 0..(m + 1) |-> IF i = m + 1 THEN s ELSE g[i]]
  <2>2. s \in T
    <3>1. m + 1 \in 1..n /\ g[m] \in T
      BY <1>2
    <3> QED
      BY <3>1
  <2>3. h[m + 1] = s /\ \A i \in 0..m : h[i] = g[i]
    OBVIOUS
  <2>4. h \in [0..(m + 1) -> T]
    BY <2>2
  <2> HIDE DEF h
  <2>5. ASSUME NEW i \in 1..(m + 1) PROVE h[i] = step[<<i, h[i - 1]>>]
    <3>1. CASE i = m + 1
      <4>1. i - 1 = m /\ h[m] = g[m]
        BY <2>3, <3>1
      <4> QED
        BY <2>3, <3>1, <4>1
    <3>2. CASE i # m + 1
      <4>1. i \in 1..m /\ i - 1 \in 0..m /\ i \in 0..m
        BY <3>2
      <4> QED
        BY <2>1, <2>3, <4>1
    <3> QED
      BY <3>1, <3>2
  <2>6. h[0] = a
    BY <2>1, <2>3
  <2> QED
    BY <2>4, <2>5, <2>6
<1>3. 0..n \subseteq G
  <2> HIDE DEF Has
  <2>1. 0 \in G /\ \A m \in 0..n : m < n /\ m \in G => m + 1 \in G
    BY <1>1, <1>2
  <2> HIDE DEF G
  <2> QED
    BY <2>1, UpTo
<1>4. n \in 0..n
  OBVIOUS
<1> QED
  BY <1>3, <1>4 DEF Iterated

----------------------------------------------------------------------------
(* Finite sets of numbers in order. *)

\* A finite set of numbers that is not empty has a greatest.
LEMMA HasGreatest ==
  ASSUME NEW S, IsFiniteSet(S), S \subseteq Int, S # {}
  PROVE  \E x \in S : \A y \in S : y <= x
<1> DEFINE G == {T \in SUBSET S : T # {} => \E x \in T : \A y \in T : y <= x}
<1>1. {} \in G
  OBVIOUS
<1>2. ASSUME NEW T \in SUBSET S, T # {}, \A x \in T : T \ {x} \in G PROVE T \in G
  <2>1. PICK x \in T : TRUE
    BY <1>2
  <2>2. CASE T \ {x} = {}
    <3>1. \A y \in T : y <= x
      BY <2>2
    <3> QED
      BY <3>1
  <2>3. CASE T \ {x} # {}
    <3>1. PICK z \in T \ {x} : \A y \in T \ {x} : y <= z
      BY <1>2, <2>3
    <3>2. CASE x <= z
      <4>1. \A y \in T : y <= z
        BY <3>1, <3>2
      <4> QED
        BY <4>1
    <3>3. CASE ~(x <= z)
      <4>1. \A y \in T : y <= x
        <5> SUFFICES ASSUME NEW y \in T PROVE y <= x
          OBVIOUS
        <5>1. x \in Int /\ y \in Int /\ z \in Int
          OBVIOUS
        <5> QED
          BY <3>1, <3>3, <5>1
      <4> QED
        BY <4>1
    <3> QED
      BY <3>2, <3>3
  <2> QED
    BY <2>2, <2>3
<1>3. SUBSET S \subseteq G
  <2> HIDE DEF G
  <2> QED
    BY <1>1, <1>2, SetInduction
<1> QED
  BY <1>3

\* An enumeration of a set of numbers from the least to the greatest.
Rises(s, S) ==
  /\ s \in [1..Cardinality(S) -> S]
  /\ \A i, j \in DOMAIN s : i < j => s[i] < s[j]

\* A finite set of numbers has one.
LEMMA HasRising ==
  ASSUME NEW S, IsFiniteSet(S), S \subseteq Int
  PROVE  \E s : Rises(s, S)
<1> DEFINE G == {T \in SUBSET S : \E s : Rises(s, T)}
<1>1. {} \in G
  <2> DEFINE s == [i \in 1..0 |-> 0]
  <2>1. Cardinality({}) = 0
    BY FS_EmptySet
  <2>2. Rises(s, {})
    BY <2>1 DEF Rises
  <2> QED
    BY <2>2
<1>2. ASSUME NEW T \in SUBSET S, T # {}, \A x \in T : T \ {x} \in G PROVE T \in G
  <2>1. IsFiniteSet(T) /\ T \subseteq Int
    BY FS_Subset
  <2>2. PICK x \in T : \A y \in T : y <= x
    BY <1>2, <2>1, HasGreatest
  <2> DEFINE R == T \ {x}
             n == Cardinality(R)
  <2>3. IsFiniteSet(R) /\ n \in Nat /\ Cardinality(T) = n + 1
    <3>1. IsFiniteSet(R) /\ Cardinality(R) = Cardinality(T) - 1
      BY <2>1, FS_RemoveElement
    <3>2. Cardinality(T) \in Nat /\ Cardinality(R) \in Nat
      BY <2>1, <3>1, FS_CardinalityType
    <3> QED
      BY <3>1, <3>2
  <2>4. PICK r : Rises(r, R)
    BY <1>2, <2>2
  <2>5. r \in [1..n -> R] /\ \A i, j \in 1..n : i < j => r[i] < r[j]
    BY <2>4 DEF Rises
  <2>6. \A y \in R : y < x
    BY <2>1, <2>2
  <2>7. R \subseteq T
    OBVIOUS
  <2> HIDE DEF n, R
  <2> DEFINE s == [i \in 1..(n + 1) |-> IF i = n + 1 THEN x ELSE r[i]]
  <2>8. s \in [1..(n + 1) -> T] /\ DOMAIN s = 1..(n + 1)
    <3> SUFFICES ASSUME NEW i \in 1..(n + 1), i # n + 1 PROVE r[i] \in T
      OBVIOUS
    <3>1. i \in 1..n
      BY <2>3
    <3> QED
      BY <2>5, <2>7, <3>1
  <2>9. ASSUME NEW i \in 1..(n + 1), NEW j \in 1..(n + 1), i < j PROVE s[i] < s[j]
    <3>1. i \in 1..n /\ s[i] = r[i]
      BY <2>3, <2>9
    <3>2. CASE j = n + 1
      BY <2>5, <2>6, <3>1, <3>2
    <3>3. CASE j # n + 1
      <4>1. j \in 1..n /\ s[j] = r[j]
        BY <2>3, <3>3
      <4> QED
        BY <2>5, <2>9, <3>1, <4>1
    <3> QED
      BY <3>2, <3>3
  <2> HIDE DEF s
  <2>10. Rises(s, T)
    BY <2>3, <2>8, <2>9 DEF Rises
  <2> QED
    BY <2>10
<1>3. SUBSET S \subseteq G
  <2> HIDE DEF G
  <2> QED
    BY <1>1, <1>2, SetInduction
<1> QED
  BY <1>3

\* It names each of them.
Names(s, S) == \A x \in S : \E i \in 1..Cardinality(S) : s[i] = x
LEMMA RisingNames ==
  ASSUME NEW S, IsFiniteSet(S), S \subseteq Int, NEW s, Rises(s, S)
  PROVE  Names(s, S)
<1> SUFFICES ASSUME NEW x \in S, \A i \in 1..Cardinality(S) : s[i] # x PROVE FALSE
  BY DEF Names
<1> DEFINE n == Cardinality(S)
           R == S \ {x}
<1>1. n \in Nat /\ IsFiniteSet(R) /\ Cardinality(R) = n - 1
  BY FS_CardinalityType, FS_RemoveElement
<1>2. s \in [1..n -> S] /\ \A i, j \in 1..n : i < j => s[i] < s[j]
  BY DEF Rises
<1>3. s \in [1..n -> R]
  BY <1>2
<1>4. \A i, j \in 1..n : i # j => s[i] # s[j]
  <2> SUFFICES ASSUME NEW i \in 1..n, NEW j \in 1..n, i # j PROVE s[i] # s[j]
    OBVIOUS
  <2>1. s[i] \in Int /\ s[j] \in Int
    BY <1>2
  <2>2. i < j \/ j < i
    BY <1>1
  <2> QED
    BY <1>2, <2>1, <2>2
<1> HIDE DEF n, R
<1>5. IsFiniteSet(1..n) /\ Cardinality(1..n) = n
  BY <1>1, FS_Interval
<1>6. Cardinality(R) < Cardinality(1..n)
  BY <1>1, <1>5
<1> QED
  BY <1>1, <1>3, <1>4, <1>5, <1>6, FS_PigeonHole

\* The last is the greatest.
LEMMA RisingEnds ==
  ASSUME NEW S, IsFiniteSet(S), S \subseteq Int, NEW s, Rises(s, S)
  PROVE  \A x \in S : (\A y \in S : y <= x) => Cardinality(S) \in Nat \ {0} /\ s[Cardinality(S)] = x
<1>1. Names(s, S)
  BY RisingNames
<1>2. Cardinality(S) \in Nat
  BY FS_CardinalityType
<1>3. s \in [1..Cardinality(S) -> S] /\ \A i, j \in 1..Cardinality(S) : i < j => s[i] < s[j]
  BY DEF Rises
<1> SUFFICES ASSUME NEW x \in S, \A y \in S : y <= x PROVE Cardinality(S) \in Nat \ {0} /\ s[Cardinality(S)] = x
  OBVIOUS
<1> DEFINE n == Cardinality(S)
<1> HIDE DEF n
<1>4. PICK i \in 1..n : s[i] = x
  BY <1>1 DEF n, Names
<1>5. n \in Nat /\ n \in 1..n /\ s \in [1..n -> S] /\ \A j, k \in 1..n : j < k => s[j] < s[k]
  BY <1>2, <1>3, <1>4 DEF n
<1>6. s[n] \in S
  BY <1>5
<1>7. s[n] <= x /\ s[n] \in Int /\ x \in Int
  BY <1>6
<1>8. i = n
  <2> SUFFICES ASSUME i # n PROVE FALSE
    OBVIOUS
  <2>1. i < n
    BY <1>5
  <2>2. s[i] < s[n]
    BY <1>5, <2>1
  <2> QED
    BY <1>4, <1>7, <2>2
<1> QED
  BY <1>4, <1>5, <1>8 DEF n
----------------------------------------------------------------------------
(* Two sums in one. *)

\* The sum of what two functions add up to is that of one and the other.
LEMMA SumPlus ==
  ASSUME NEW S, IsFiniteSet(S), NEW f, NEW g, NEW h,
         \A x \in S : f[x] \in Int /\ g[x] \in Int /\ h[x] = f[x] + g[x]
  PROVE  SumFunctionOnSet(h, S) = SumFunctionOnSet(f, S) + SumFunctionOnSet(g, S)
<1> DEFINE G == {T \in SUBSET S : SumFunctionOnSet(h, T) = SumFunctionOnSet(f, T) + SumFunctionOnSet(g, T)}
<1>1. {} \in G
  BY SumEmpty
<1>2. ASSUME NEW T \in SUBSET S, T # {}, \A x \in T : T \ {x} \in G PROVE T \in G
  <2>1. PICK x \in T : TRUE
    BY <1>2
  <2> DEFINE R == T \ {x}
  <2>2. IsFiniteSet(T) /\ IsFiniteSet(R)
    BY FS_Subset
  <2>3. \A y \in T : f[y] \in Int /\ g[y] \in Int /\ h[y] \in Int /\ h[y] = f[y] + g[y]
    OBVIOUS
  <2>4. /\ SumFunctionOnSet(f, T) = f[x] + SumFunctionOnSet(f, R)
        /\ SumFunctionOnSet(g, T) = g[x] + SumFunctionOnSet(g, R)
        /\ SumFunctionOnSet(h, T) = h[x] + SumFunctionOnSet(h, R)
    BY <2>2, <2>3, SumRemove
  <2>5. SumFunctionOnSet(f, R) \in Int /\ SumFunctionOnSet(g, R) \in Int
    BY <2>2, <2>3, SumType
  <2>6. SumFunctionOnSet(h, R) = SumFunctionOnSet(f, R) + SumFunctionOnSet(g, R)
    BY <1>2, <2>1
  <2> DEFINE a == SumFunctionOnSet(f, R)
             b == SumFunctionOnSet(g, R)
             u == f[x]
             v == g[x]
  <2>7. a \in Int /\ b \in Int /\ u \in Int /\ v \in Int /\ h[x] = u + v
    BY <2>3, <2>5
  <2> HIDE DEF R, a, b, u, v
  <2>8. (u + v) + (a + b) = (u + a) + (v + b)
    BY <2>7
  <2>9. SumFunctionOnSet(h, T) = SumFunctionOnSet(f, T) + SumFunctionOnSet(g, T)
    BY <2>4, <2>6, <2>7, <2>8 DEF a, b, u, v
  <2> QED
    BY <2>9
<1>3. SUBSET S \subseteq G
  <2> HIDE DEF G
  <2> QED
    BY <1>1, <1>2, SetInduction
<1> QED
  BY <1>3

\* What some groups add up to is the sum over all of them.
LEMMA SumGroups ==
  ASSUME NEW S, IsFiniteSet(S), NEW f, \A x \in S : f[x] \in Int,
         NEW F, IsFiniteSet(F), NEW key, \A x \in S : key[x] \in F
  PROVE  SumFunctionOnSet([a \in F |-> SumFunctionOnSet(f, {x \in S : key[x] = a})], F) = SumFunctionOnSet(f, S)
<1> DEFINE Of(T) == {x \in S : key[x] \in T}
           One(a) == {x \in S : key[x] = a}
           g == [a \in F |-> SumFunctionOnSet(f, One(a))]
           G == {T \in SUBSET F : SumFunctionOnSet(g, T) = SumFunctionOnSet(f, Of(T))}
<1>1. {} \in G
  <2>1. Of({}) = {}
    OBVIOUS
  <2> QED
    BY <2>1, SumEmpty
<1>2. ASSUME NEW T \in SUBSET F, T # {}, \A a \in T : T \ {a} \in G PROVE T \in G
  <2>1. PICK a \in T : TRUE
    BY <1>2
  <2> DEFINE R == T \ {a}
  <2>2. IsFiniteSet(T)
    BY FS_Subset
  <2>3. \A b \in T : g[b] \in Int /\ g[b] = SumFunctionOnSet(f, One(b))
    <3> SUFFICES ASSUME NEW b \in T PROVE SumFunctionOnSet(f, One(b)) \in Int
      OBVIOUS
    <3>1. IsFiniteSet(One(b)) /\ One(b) \subseteq S
      BY FS_Subset
    <3> HIDE DEF One
    <3> QED
      BY <3>1, SumType
  <2>4. SumFunctionOnSet(g, T) = g[a] + SumFunctionOnSet(g, R)
    <3> HIDE DEF g
    <3> QED
      BY <2>2, <2>3, SumRemove
  <2>5. SumFunctionOnSet(g, R) = SumFunctionOnSet(f, Of(R))
    BY <1>2, <2>1
  <2>6. Of(T) = Of(R) \cup One(a) /\ Of(R) \cap One(a) = {}
    BY <2>1
  <2>7. IsFiniteSet(Of(R)) /\ IsFiniteSet(One(a)) /\ Of(R) \subseteq S /\ One(a) \subseteq S
    BY FS_Subset
  <2> DEFINE A == Of(R)
             B == One(a)
  <2>8. SumFunctionOnSet(f, A) \in Int /\ SumFunctionOnSet(f, B) \in Int
    <3> HIDE DEF A, B
    <3>1. IsFiniteSet(A) /\ IsFiniteSet(B) /\ A \subseteq S /\ B \subseteq S
      BY <2>7 DEF A, B
    <3> QED
      BY <3>1, SumType
  <2>9. SumFunctionOnSet(f, A \cup B) = SumFunctionOnSet(f, A) + SumFunctionOnSet(f, B)
    <3>1. IsFiniteSet(A) /\ IsFiniteSet(B) /\ A \cap B = {} /\ A \cup B \subseteq S
      BY <2>6, <2>7
    <3> HIDE DEF A, B
    <3> QED
      BY <3>1, SumUnion
  <2> HIDE DEF g, Of, One, R
  <2>10. g[a] = SumFunctionOnSet(f, B) /\ Of(T) = A \cup B
    BY <2>3, <2>6 DEF A, B
  <2> HIDE DEF A, B
  <2>11. SumFunctionOnSet(g, T) = SumFunctionOnSet(f, Of(T))
    BY <2>4, <2>5, <2>8, <2>9, <2>10 DEF A
  <2> QED
    BY <2>11
<1>3. SUBSET F \subseteq G
  <2> HIDE DEF G
  <2> QED
    BY <1>1, <1>2, SetInduction
<1>4. Of(F) = S
  OBVIOUS
<1>5. F \in G
  BY <1>3
<1> HIDE DEF Of, One
<1>6. SumFunctionOnSet(g, F) = SumFunctionOnSet(f, S)
  BY <1>4, <1>5
<1> QED
  BY <1>6 DEF One
=============================================================================
