----------------------------- MODULE Induction -----------------------------
(***************************************************************************)
(* Induction, as the existence of a least counterexample, and what the     *)
(* proofs of several components draw from it: least and greatest numbers   *)
(* of a set, lists of a set in order, and sums over finite sets.           *)
(***************************************************************************)
EXTENDS Integers, Sequences, Functions, FiniteSetTheorems, WellFoundedInduction, TLAPS

\* Induction on the naturals, as the existence of a least counterexample.
LEMMA LeastNat ==
  ASSUME NEW T, T \subseteq Nat, T # {}
  PROVE  \E x \in T : \A y \in T : x <= y
<1> DEFINE R == {p \in Nat \X Nat : p[1] < p[2]}
<1>1. IsWellFoundedOn(R, Nat)
  BY NatLessThanWellFounded DEF OpToRel
<1>2. PICK x \in T : \A y \in T : <<y, x>> \notin R
  <2> HIDE DEF R
  <2> QED
    BY <1>1, WFMin
<1>3. \A y \in T : ~(y < x)
  BY <1>2
<1> QED
  BY <1>3

\* A bounded set of numbers has a greatest: the least of its bounds.
LEMMA MaxOfBounded ==
  ASSUME NEW S, S # {}, NEW n \in Nat, S \subseteq 0..n
  PROVE  \E x \in S : \A y \in S : x >= y
<1> DEFINE Bounds == {b \in Nat : \A x \in S : x <= b}
<1>1. Bounds \subseteq Nat /\ Bounds # {}
  OBVIOUS
<1>2. PICK b \in Bounds : \A c \in Bounds : b <= c
  <2> HIDE DEF Bounds
  <2> QED
    BY <1>1, LeastNat
<1>3. b \in Nat /\ \A x \in S : x \in Nat /\ x <= b
  OBVIOUS
<1>4. b \in S
  <2> SUFFICES ASSUME b \notin S PROVE FALSE
    OBVIOUS
  <2>1. PICK z : z \in S
    OBVIOUS
  <2> HIDE DEF Bounds
  <2>2. \A x \in S : x \in Nat /\ x < b
    BY <1>3
  <2>3. b > 0
    BY <1>3, <2>1, <2>2
  <2>4. b - 1 \in Nat /\ \A x \in S : x <= b - 1
    BY <1>3, <2>2, <2>3
  <2>5. b - 1 \in Bounds
    BY <2>4 DEF Bounds
  <2> QED
    BY <1>2, <1>3, <2>5
<1> QED
  BY <1>3, <1>4

\* Of the sets that have a property, one of the finite ones is smallest: induction
\* over finite sets.
LEMMA SmallestSet ==
  ASSUME NEW C, C # {}, \A S \in C : IsFiniteSet(S)
  PROVE  \E S \in C : \A T \in C : Cardinality(S) <= Cardinality(T)
<1> DEFINE Sizes == {Cardinality(S) : S \in C}
<1>1. Sizes \subseteq Nat /\ Sizes # {}
  BY FS_CardinalityType
<1>2. PICK n \in Sizes : \A k \in Sizes : n <= k
  <2> HIDE DEF Sizes
  <2> QED
    BY <1>1, LeastNat
<1> QED
  BY <1>2

\* A finite set of numbers has a greatest.
LEMMA MaxOfFinite ==
  ASSUME NEW S, S \subseteq Int, S # {}, IsFiniteSet(S)
  PROVE  \E x \in S : \A y \in S : x >= y
<1> DEFINE C == {T \in SUBSET S : T # {} /\ ~\E x \in T : \A y \in T : x >= y}
<1> SUFFICES ASSUME C # {} PROVE FALSE
  OBVIOUS
<1>1. \A T \in C : IsFiniteSet(T)
  BY FS_Subset
<1>2. PICK T \in C : \A U \in C : Cardinality(T) <= Cardinality(U)
  <2> HIDE DEF C
  <2> QED
    BY <1>1, SmallestSet
<1>3. PICK x \in T : TRUE
  OBVIOUS
<1> DEFINE U == T \ {x}
<1>4. IsFiniteSet(U) /\ Cardinality(U) = Cardinality(T) - 1 /\ Cardinality(T) \in Nat
  BY <1>1, <1>3, FS_RemoveElement, FS_CardinalityType
<1>5. U \notin C
  <2> HIDE DEF C, U
  <2> QED
    BY <1>2, <1>4
<1>6. CASE U = {}
  <2>1. T = {x} /\ x \in Int
    BY <1>3, <1>6
  <2> QED
    BY <2>1
<1>7. CASE U # {}
  <2>1. PICK y \in U : \A z \in U : y >= z
    BY <1>5, <1>7
  <2>2. x \in Int /\ y \in Int /\ T = U \cup {x}
    BY <1>3, <2>1
  <2>3. IF x >= y THEN \A z \in T : x >= z ELSE \A z \in T : y >= z
    BY <2>1, <2>2
  <2> QED
    BY <1>3, <2>1, <2>3
<1> QED
  BY <1>6, <1>7

\* The elements of a finite set of numbers, in their order.
LEMMA Enumeration ==
  ASSUME NEW S, S \subseteq Int, IsFiniteSet(S)
  PROVE  \E q \in [1..Cardinality(S) -> S] : \A i, j \in DOMAIN q : i < j => q[i] < q[j]
<1> DEFINE Lists(T) == {q \in [1..Cardinality(T) -> T] :
                          \A i, j \in DOMAIN q : i < j => q[i] < q[j]}
           C == {T \in SUBSET S : Lists(T) = {}}
<1> SUFFICES ASSUME C # {} PROVE FALSE
  OBVIOUS
<1>1. \A T \in C : IsFiniteSet(T)
  BY FS_Subset
<1>2. PICK T \in C : \A V \in C : Cardinality(T) <= Cardinality(V)
  <2> HIDE DEF C
  <2> QED
    BY <1>1, SmallestSet
<1>3. T \subseteq Int /\ IsFiniteSet(T) /\ Lists(T) = {}
  BY <1>1
<1>4. T # {}
  <2> SUFFICES ASSUME T = {} PROVE FALSE
    OBVIOUS
  <2>1. 1..Cardinality(T) = {}
    BY FS_EmptySet
  <2>2. [i \in {} |-> 0] \in Lists(T)
    BY <2>1
  <2> QED
    BY <1>3, <2>2
<1>5. PICK x \in T : \A y \in T : x >= y
  BY <1>3, <1>4, MaxOfFinite
<1> DEFINE V == T \ {x}
           n == Cardinality(T)
<1>6. Cardinality(V) = n - 1 /\ n \in Nat /\ IsFiniteSet(V) /\ V \subseteq S
  BY <1>3, FS_RemoveElement, FS_CardinalityType
<1>7. n - 1 \in Nat
  BY <1>6, FS_CardinalityType
<1>8. Lists(V) # {}
  <2>1. V \notin C
    <3> HIDE DEF C, V, n
    <3> QED
      BY <1>2, <1>6 DEF n
  <2> QED
    BY <1>6, <2>1
<1>9. PICK q \in [1..(n - 1) -> V] : \A i, j \in DOMAIN q : i < j => q[i] < q[j]
  BY <1>6, <1>8
<1> DEFINE r == [i \in 1..n |-> IF i < n THEN q[i] ELSE x]
<1>10. \A i \in 1..n : i < n => q[i] \in T /\ q[i] < x
  <2> SUFFICES ASSUME NEW i \in 1..n, i < n PROVE q[i] \in T /\ q[i] < x
    OBVIOUS
  <2>1. i \in 1..(n - 1)
    BY <1>6
  <2>2. PICK y \in T : y = q[i] /\ y # x
    BY <1>9, <2>1
  <2>3. x \in Int /\ y \in Int /\ x >= y
    BY <1>3, <1>5
  <2> QED
    BY <2>2, <2>3
<1>11. r \in [1..n -> T]
  BY <1>10
<1>12. ASSUME NEW i \in 1..n, NEW j \in 1..n, i < j PROVE r[i] < r[j]
  <2>1. i < n /\ i \in 1..(n - 1)
    BY <1>6, <1>12
  <2>2. CASE j < n
    <3>1. j \in 1..(n - 1)
      BY <1>6, <2>2
    <3> QED
      BY <1>9, <1>12, <2>1, <2>2, <3>1
  <2>3. CASE ~(j < n)
    BY <1>10, <2>1, <2>3
  <2> QED
    BY <2>2, <2>3
<1>13. r \in Lists(T)
  <2>1. DOMAIN r = 1..n
    OBVIOUS
  <2> HIDE DEF r
  <2> QED
    BY <1>11, <1>12, <2>1
<1> QED
  BY <1>3, <1>13
-----------------------------------------------------------------------------
(* Sums *)

\* The recursion that SumFunctionOnSet goes by.
IsSum(f, S, g) ==
  g = [T \in SUBSET S |->
         IF T = {} THEN 0 ELSE LET x == CHOOSE x \in T : TRUE IN f[x] + g[T \ {x}]]

LEMMA SumIsRecursive ==
  ASSUME NEW f, NEW S
  PROVE  SumFunctionOnSet(f, S) = (CHOOSE g : IsSum(f, S, g))[S]
BY DEF SumFunctionOnSet, FoldFunctionOnSet, MapThenFoldSet, IsSum

LEMMA SumUnfold ==
  ASSUME NEW f, NEW S, NEW g, IsSum(f, S, g), NEW T \in SUBSET S
  PROVE  g[T] = IF T = {} THEN 0
                ELSE f[CHOOSE x \in T : TRUE] + g[T \ {CHOOSE x \in T : TRUE}]
BY DEF IsSum

\* Whatever obeys the recursion agrees on a finite set.
LEMMA SumUnique ==
  ASSUME NEW f, NEW S, NEW R, NEW g, NEW h, IsSum(f, S, g), IsSum(f, R, h),
         NEW U \in SUBSET (S \cap R), IsFiniteSet(U)
  PROVE  g[U] = h[U]
<1> DEFINE C == {T \in SUBSET U : g[T] # h[T]}
<1> SUFFICES ASSUME C # {} PROVE FALSE
  OBVIOUS
<1>1. \A T \in C : IsFiniteSet(T)
  BY FS_Subset
<1>2. PICK T \in C : \A V \in C : Cardinality(T) <= Cardinality(V)
  <2> HIDE DEF C
  <2> QED
    BY <1>1, SmallestSet
<1>3. T \in SUBSET S /\ T \in SUBSET R /\ g[T] # h[T]
  OBVIOUS
<1> HIDE DEF C
<1> DEFINE x == CHOOSE y \in T : TRUE
<1>4. g[T] = IF T = {} THEN 0 ELSE f[x] + g[T \ {x}]
  BY <1>3, SumUnfold
<1>5. h[T] = IF T = {} THEN 0 ELSE f[x] + h[T \ {x}]
  BY <1>3, SumUnfold
<1>6. T # {} /\ x \in T
  BY <1>3, <1>4, <1>5
<1> HIDE DEF x
<1>7. T \ {x} \notin C
  <2>1. Cardinality(T \ {x}) = Cardinality(T) - 1 /\ Cardinality(T) \in Nat
    BY <1>1, <1>6, FS_RemoveElement, FS_CardinalityType
  <2> HIDE DEF C
  <2> QED
    BY <1>2, <2>1
<1>8. g[T \ {x}] = h[T \ {x}]
  BY <1>2, <1>7 DEF C
<1> QED
  BY <1>3, <1>4, <1>5, <1>6, <1>8

\* The recursion has a solution over every finite set.
LEMMA SumExists ==
  ASSUME NEW f, NEW R, IsFiniteSet(R)
  PROVE  \E g : IsSum(f, R, g)
<1> DEFINE C == {T \in SUBSET R : ~\E g : IsSum(f, T, g)}
<1> SUFFICES ASSUME C # {} PROVE FALSE
  OBVIOUS
<1>1. \A T \in C : IsFiniteSet(T)
  BY FS_Subset
<1>2. PICK S \in C : \A T \in C : Cardinality(S) <= Cardinality(T)
  <2> HIDE DEF C
  <2> QED
    BY <1>1, SmallestSet
<1>3. IsFiniteSet(S) /\ S \in SUBSET R
  BY <1>1
<1> DEFINE of(T) == CHOOSE g : IsSum(f, T, g)
           c(T) == CHOOSE x \in T : TRUE
<1>4. \A T \in SUBSET S : T # S => IsSum(f, T, of(T)) /\ IsFiniteSet(T)
  <2> SUFFICES ASSUME NEW T \in SUBSET S, T # S PROVE IsSum(f, T, of(T)) /\ IsFiniteSet(T)
    OBVIOUS
  <2>0. PICK x \in S : T \subseteq S \ {x}
    OBVIOUS
  <2>1. IsFiniteSet(T) /\ Cardinality(T) \in Nat /\ Cardinality(S) \in Nat
        /\ Cardinality(T) < Cardinality(S)
    <3>1. /\ IsFiniteSet(S \ {x}) /\ Cardinality(S \ {x}) = Cardinality(S) - 1
          /\ Cardinality(S) \in Nat
      BY <1>3, FS_RemoveElement, FS_CardinalityType
    <3>2. IsFiniteSet(T) /\ Cardinality(T) <= Cardinality(S \ {x})
      BY <2>0, <3>1, FS_Subset
    <3>3. Cardinality(T) \in Nat
      BY <3>2, FS_CardinalityType
    <3> QED
      BY <3>1, <3>2, <3>3
  <2>2. T \notin C
    <3> HIDE DEF C
    <3> QED
      BY <1>2, <2>1
  <2>3. \E g : IsSum(f, T, g)
    BY <1>3, <2>2
  <2> QED
    BY <2>1, <2>3
<1> DEFINE below(T) == of(T)[T]
           g == [T \in SUBSET S |->
                   IF T = {} THEN 0 ELSE f[c(T)] + below(T \ {c(T)})]
<1>5. ASSUME NEW T \in SUBSET S, T # S PROVE g[T] = below(T)
  <2>1. IsSum(f, T, of(T)) /\ IsFiniteSet(T)
    BY <1>4, <1>5
  <2> HIDE DEF of
  <2>2. below(T) = IF T = {} THEN 0 ELSE f[c(T)] + of(T)[T \ {c(T)}]
    BY <2>1, SumUnfold
  <2>3. ASSUME T # {} PROVE of(T)[T \ {c(T)}] = below(T \ {c(T)})
    <3> DEFINE U == T \ {c(T)}
    <3>1. c(T) \in T
      BY <2>3
    <3> HIDE DEF c
    <3>2. U \in SUBSET S /\ U # S /\ U \in SUBSET (T \cap U)
      BY <3>1
    <3>3. IsSum(f, U, of(U)) /\ IsFiniteSet(U)
      BY <1>4, <3>2
    <3> HIDE DEF U
    <3>4. of(T)[U] = of(U)[U]
      BY <2>1, <3>2, <3>3, SumUnique
    <3> QED
      BY <3>4 DEF U
  <2>4. g[T] = IF T = {} THEN 0 ELSE f[c(T)] + below(T \ {c(T)})
    OBVIOUS
  <2> QED
    BY <2>2, <2>3, <2>4
<1>6. ASSUME NEW T \in SUBSET S
      PROVE  g[T] = IF T = {} THEN 0 ELSE f[c(T)] + g[T \ {c(T)}]
  <2>1. CASE T = {}
    BY <2>1
  <2>2. CASE T # {}
    <3>1. c(T) \in T
      BY <2>2
    <3>2. g[T] = f[c(T)] + below(T \ {c(T)})
      BY <2>2
    <3> HIDE DEF c
    <3>3. T \ {c(T)} \in SUBSET S /\ T \ {c(T)} # S
      BY <3>1
    <3> HIDE DEF g, below
    <3>4. g[T \ {c(T)}] = below(T \ {c(T)})
      BY <1>5, <3>3
    <3> QED
      BY <2>2, <3>2, <3>4
  <2> QED
    BY <2>1, <2>2
<1>7. g = [T \in SUBSET S |-> g[T]]
  OBVIOUS
<1> HIDE DEF g
<1>8. g = [T \in SUBSET S |-> IF T = {} THEN 0 ELSE f[c(T)] + g[T \ {c(T)}]]
  <2>1. [T \in SUBSET S |-> g[T]] =
          [T \in SUBSET S |-> IF T = {} THEN 0 ELSE f[c(T)] + g[T \ {c(T)}]]
    BY <1>6
  <2> QED
    BY <1>7, <2>1
<1>9. IsSum(f, S, g)
  BY <1>8 DEF IsSum
<1> QED
  BY <1>9

\* A sum is that of one element and the rest.
LEMMA SumOfOne ==
  ASSUME NEW f, NEW S, IsFiniteSet(S)
  PROVE  /\ SumFunctionOnSet(f, {}) = 0
         /\ S # {} => \E x \in S : SumFunctionOnSet(f, S) = f[x] + SumFunctionOnSet(f, S \ {x})
<1> DEFINE of(T) == CHOOSE g : IsSum(f, T, g)
<1>1. \A T : IsFiniteSet(T) => IsSum(f, T, of(T))
  BY SumExists
<1>2. \A T : SumFunctionOnSet(f, T) = of(T)[T]
  BY SumIsRecursive
<1> HIDE DEF of
<1>3. SumFunctionOnSet(f, {}) = 0
  <2>1. IsSum(f, {}, of({}))
    BY <1>1, FS_EmptySet
  <2>2. of({})[{}] = 0
    BY <2>1, SumUnfold
  <2> QED
    BY <1>2, <2>2
<1>4. ASSUME S # {}
      PROVE  \E x \in S : SumFunctionOnSet(f, S) = f[x] + SumFunctionOnSet(f, S \ {x})
  <2>1. PICK x \in S : x = CHOOSE y \in S : TRUE
    BY <1>4
  <2> DEFINE T == S \ {x}
  <2>2. IsFiniteSet(T) /\ T \in SUBSET (S \cap T)
    BY FS_RemoveElement
  <2>3. IsSum(f, S, of(S)) /\ IsSum(f, T, of(T))
    BY <1>1, <2>2
  <2>4. of(S)[S] = f[x] + of(S)[S \ {x}]
    BY <1>4, <2>1, <2>3, SumUnfold
  <2> HIDE DEF T
  <2>5. of(S)[T] = of(T)[T]
    BY <2>2, <2>3, SumUnique
  <2> QED
    BY <1>2, <2>4, <2>5 DEF T
<1> QED
  BY <1>3, <1>4

LEMMA SumIsNat ==
  ASSUME NEW f, NEW S, IsFiniteSet(S), \A x \in S : f[x] \in Nat
  PROVE  SumFunctionOnSet(f, S) \in Nat
<1> DEFINE C == {T \in SUBSET S : SumFunctionOnSet(f, T) \notin Nat}
<1> SUFFICES ASSUME C # {} PROVE FALSE
  OBVIOUS
<1>1. \A T \in C : IsFiniteSet(T)
  BY FS_Subset
<1>2. PICK T \in C : \A V \in C : Cardinality(T) <= Cardinality(V)
  <2> HIDE DEF C
  <2> QED
    BY <1>1, SmallestSet
<1>3. /\ SumFunctionOnSet(f, {}) = 0
      /\ T # {} => \E x \in T : SumFunctionOnSet(f, T) = f[x] + SumFunctionOnSet(f, T \ {x})
  BY <1>1, SumOfOne
<1>4. SumFunctionOnSet(f, T) \notin Nat
  OBVIOUS
<1> HIDE DEF C
<1>5. PICK x \in T : SumFunctionOnSet(f, T) = f[x] + SumFunctionOnSet(f, T \ {x})
  <2>1. ASSUME T = {} PROVE FALSE
    <3>1. SumFunctionOnSet(f, T) = 0
      BY <1>3, <2>1
    <3> QED
      BY <3>1, <1>4
  <2> QED
    BY <1>3, <2>1
<1>6. Cardinality(T \ {x}) = Cardinality(T) - 1 /\ Cardinality(T) \in Nat
  BY <1>1, FS_RemoveElement, FS_CardinalityType
<1>7. T \ {x} \notin C
  BY <1>2, <1>6
<1>8. SumFunctionOnSet(f, T \ {x}) \in Nat /\ f[x] \in Nat
  BY <1>5, <1>7 DEF C
<1> QED
  BY <1>5, <1>4, <1>8

\* A sum depends on the values over its set only.
LEMMA SumSame ==
  ASSUME NEW f, NEW g, NEW S, IsFiniteSet(S), \A x \in S : f[x] = g[x]
  PROVE  SumFunctionOnSet(f, S) = SumFunctionOnSet(g, S)
<1> DEFINE of(T) == CHOOSE h : IsSum(f, T, h)
           h == of(S)
           k == [T \in SUBSET S |-> h[T]]
<1>1. IsSum(f, S, h)
  BY SumExists
<1> HIDE DEF of
<1>2. h = [T \in SUBSET S |->
             IF T = {} THEN 0 ELSE LET x == CHOOSE x \in T : TRUE IN f[x] + h[T \ {x}]]
  BY <1>1 DEF IsSum
<1> HIDE DEF h
<1>3. \A T \in SUBSET S : T # {} => f[CHOOSE x \in T : TRUE] = g[CHOOSE x \in T : TRUE]
  OBVIOUS
<1>4. h = [T \in SUBSET S |->
             IF T = {} THEN 0 ELSE LET x == CHOOSE x \in T : TRUE IN g[x] + h[T \ {x}]]
  BY <1>2, <1>3
<1>5. IsSum(g, S, h)
  BY <1>4 DEF IsSum
<1>6. h[S] = SumFunctionOnSet(g, S)
  <2> DEFINE of2 == CHOOSE d : IsSum(g, S, d)
  <2>1. IsSum(g, S, of2)
    BY <1>5
  <2>2. SumFunctionOnSet(g, S) = of2[S]
    BY SumIsRecursive
  <2> HIDE DEF of2
  <2>3. S \in SUBSET (S \cap S)
    OBVIOUS
  <2>4. h[S] = of2[S]
    BY <1>5, <2>1, <2>3, SumUnique
  <2> QED
    BY <2>2, <2>4
<1> QED
  BY <1>6, SumIsRecursive DEF h, of

\* Any element can be taken out of a sum first.
LEMMA SumWithout ==
  ASSUME NEW f, NEW S, IsFiniteSet(S), \A x \in S : f[x] \in Nat, NEW y \in S
  PROVE  SumFunctionOnSet(f, S) = f[y] + SumFunctionOnSet(f, S \ {y})
<1> DEFINE sum(T) == SumFunctionOnSet(f, T)
           C == {T \in SUBSET S : \E x \in T : sum(T) # f[x] + sum(T \ {x})}
<1> SUFFICES ASSUME C # {} PROVE FALSE
  OBVIOUS
<1>1. \A T \in C : IsFiniteSet(T)
  BY FS_Subset
<1>2. PICK T \in C : \A V \in C : Cardinality(T) <= Cardinality(V)
  <2> HIDE DEF C
  <2> QED
    BY <1>1, SmallestSet
<1>3. PICK z \in T : T \in SUBSET S /\ sum(T) # f[z] + sum(T \ {z})
  OBVIOUS
<1>4. \A U \in SUBSET S : sum(U) \in Nat
  <2> SUFFICES ASSUME NEW U \in SUBSET S PROVE sum(U) \in Nat
    OBVIOUS
  <2>1. IsFiniteSet(U) /\ \A x \in U : f[x] \in Nat
    BY FS_Subset
  <2> QED
    BY <2>1, SumIsNat
<1>5. PICK x \in T : sum(T) = f[x] + sum(T \ {x})
  BY <1>1, <1>3, SumOfOne
<1>6. x # z
  BY <1>3, <1>5
<1>7. \A w \in T : T \ {w} \notin C
  <2> SUFFICES ASSUME NEW w \in T PROVE T \ {w} \notin C
    OBVIOUS
  <2>1. Cardinality(T \ {w}) = Cardinality(T) - 1 /\ Cardinality(T) \in Nat
    BY <1>1, FS_RemoveElement, FS_CardinalityType
  <2> HIDE DEF C
  <2> QED
    BY <1>2, <2>1
<1>8. sum(T \ {x}) = f[z] + sum((T \ {x}) \ {z})
  BY <1>3, <1>6, <1>7
<1>9. sum(T \ {z}) = f[x] + sum((T \ {z}) \ {x})
  BY <1>3, <1>6, <1>7
<1>10. (T \ {x}) \ {z} = (T \ {z}) \ {x}
  OBVIOUS
<1>11. sum((T \ {z}) \ {x}) \in Nat /\ f[x] \in Nat /\ f[z] \in Nat
  BY <1>3, <1>4
<1> HIDE DEF sum, C
<1> QED
  BY <1>3, <1>5, <1>8, <1>9, <1>10, <1>11

\* An element more, ...
LEMMA SumWith ==
  ASSUME NEW f, NEW S, IsFiniteSet(S), NEW y, y \notin S, \A x \in S \cup {y} : f[x] \in Nat
  PROVE  SumFunctionOnSet(f, S \cup {y}) = SumFunctionOnSet(f, S) + f[y]
<1> DEFINE T == S \cup {y}
<1>1. IsFiniteSet(T) /\ T \ {y} = S /\ y \in T
  BY FS_AddElement
<1> HIDE DEF T
<1>2. SumFunctionOnSet(f, T) = f[y] + SumFunctionOnSet(f, T \ {y})
  BY <1>1, SumWithout DEF T
<1>3. SumFunctionOnSet(f, S) \in Nat /\ f[y] \in Nat
  BY SumIsNat
<1>4. SumFunctionOnSet(f, T) = SumFunctionOnSet(f, S) + f[y]
  BY <1>1, <1>2, <1>3
<1> QED
  BY <1>4 DEF T

\* ... or another value of one.
LEMMA SumChanged ==
  ASSUME NEW f, NEW g, NEW S, IsFiniteSet(S), NEW y \in S,
         \A x \in S : f[x] \in Nat /\ g[x] \in Nat, \A x \in S \ {y} : g[x] = f[x]
  PROVE  SumFunctionOnSet(g, S) + f[y] = SumFunctionOnSet(f, S) + g[y]
<1>1. IsFiniteSet(S \ {y})
  BY FS_RemoveElement
<1>2. SumFunctionOnSet(f, S) = f[y] + SumFunctionOnSet(f, S \ {y})
  BY SumWithout
<1>3. SumFunctionOnSet(g, S) = g[y] + SumFunctionOnSet(g, S \ {y})
  BY SumWithout
<1>4. SumFunctionOnSet(g, S \ {y}) = SumFunctionOnSet(f, S \ {y})
  BY <1>1, SumSame
<1>5. SumFunctionOnSet(f, S \ {y}) \in Nat
  BY <1>1, SumIsNat
<1> QED
  BY <1>2, <1>3, <1>4, <1>5

\* The same of a whole function, and of a sequence.
LEMMA SumIsNatural ==
  ASSUME NEW f, IsFiniteSet(DOMAIN f), \A x \in DOMAIN f : f[x] \in Nat
  PROVE  SumFunction(f) \in Nat
BY SumIsNat DEF SumFunction

LEMMA SumOfChanged ==
  ASSUME NEW f, NEW g, IsFiniteSet(DOMAIN f), DOMAIN g = DOMAIN f, NEW y \in DOMAIN f,
         \A x \in DOMAIN f : f[x] \in Nat /\ g[x] \in Nat,
         \A x \in DOMAIN f \ {y} : g[x] = f[x]
  PROVE  SumFunction(g) + f[y] = SumFunction(f) + g[y]
BY SumChanged DEF SumFunction

LEMMA SumOfExtended ==
  ASSUME NEW S, IsFiniteSet(S), NEW f, DOMAIN f = S, NEW y, y \notin S,
         NEW g, DOMAIN g = S \cup {y}, \A x \in S : g[x] = f[x],
         \A x \in S \cup {y} : g[x] \in Nat
  PROVE  SumFunction(g) = SumFunction(f) + g[y]
<1>1. SumFunctionOnSet(g, S \cup {y}) = SumFunctionOnSet(g, S) + g[y]
  BY SumWith
<1>2. SumFunctionOnSet(g, S) = SumFunctionOnSet(f, S)
  BY SumSame
<1> QED
  BY <1>1, <1>2 DEF SumFunction

LEMMA SumOfAppended ==
  ASSUME NEW q \in Seq(Nat), NEW v \in Nat
  PROVE  SumFunction(Append(q, v)) = SumFunction(q) + v
<1> DEFINE S == 1..Len(q)
           y == Len(q) + 1
           g == Append(q, v)
<1>1. q \in [S -> Nat] /\ IsFiniteSet(S) /\ y \notin S
  BY FS_Interval
<1>2. g \in [1..y -> Nat] /\ g[y] = v /\ \A x \in S : g[x] = q[x]
  <2>1. g \in Seq(Nat) /\ Len(g) = y
    OBVIOUS
  <2>2. g[y] = v
    OBVIOUS
  <2>3. \A x \in S : g[x] = q[x]
    OBVIOUS
  <2> HIDE DEF g
  <2> QED
    BY <2>1, <2>2, <2>3
<1>3. 1..y = S \cup {y}
  OBVIOUS
<1> HIDE DEF S, y, g
<1>4. DOMAIN g = S \cup {y} /\ (\A x \in S \cup {y} : g[x] \in Nat) /\ DOMAIN q = S
  BY <1>1, <1>2, <1>3
<1>5. SumFunction(g) = SumFunction(q) + g[y]
  <2>1. SumFunctionOnSet(g, S \cup {y}) = SumFunctionOnSet(g, S) + g[y]
    BY <1>1, <1>4, SumWith
  <2>2. SumFunctionOnSet(g, S) = SumFunctionOnSet(q, S)
    BY <1>1, <1>2, SumSame
  <2> QED
    BY <1>4, <2>1, <2>2 DEF SumFunction
<1>6. SumFunction(g) = SumFunction(q) + v
  BY <1>2, <1>5
<1> QED
  BY <1>6 DEF g
=============================================================================
