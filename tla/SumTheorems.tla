---------------------------- MODULE SumTheorems -----------------------------
(***************************************************************************)
(* Sums of a function over a finite set.  SumFunctionOnSet is a fold, whose *)
(* recursive function takes the elements in the order of CHOOSE; here it is *)
(* shown that the recursion has a solution, and that the order plays no     *)
(* part.  Where the library would use an induction theorem, the smallest    *)
(* counterexample is refuted.                                               *)
(***************************************************************************)
EXTENDS Integers, FiniteSets, FiniteSetsExt, FiniteSetTheorems, WellFoundedInduction, TLAPS

Some(S) == CHOOSE x \in S : TRUE

\* g sums up f over every subset of S.
Sums(f, S, g) ==
  g = [T \in SUBSET S |-> IF T = {} THEN 0 ELSE f[Some(T)] + g[T \ {Some(T)}]]

\* A set of numbers that is not empty has a smallest one.
LEMMA Smallest ==
  ASSUME NEW N \in SUBSET Nat, N # {}
  PROVE  \E n \in N : \A m \in N : n <= m
<1>1. PICK n \in N : \A m \in N : ~ (<<m, n>> \in OpToRel(<, Nat))
  BY WFMin, NatLessThanWellFounded
<1>2. \A m \in N : ~ (m < n)
  BY <1>1 DEF OpToRel
<1> QED
  BY <1>2

\* The fold, with its recursive function named.
LEMMA FoldIsSum ==
  ASSUME NEW f, NEW S
  PROVE  SumFunctionOnSet(f, S) = (CHOOSE g : Sums(f, S, g))[S]
  BY DEF SumFunctionOnSet, FoldFunctionOnSet, MapThenFoldSet, Sums, Some

LEMMA SomeIsMember ==
  ASSUME NEW T, T # {}
  PROVE  Some(T) \in T
  BY DEF Some

\* Without its chosen element a finite set is smaller.
LEMMA WithoutSome ==
  ASSUME NEW T, IsFiniteSet(T), T # {}
  PROVE  /\ IsFiniteSet(T \ {Some(T)})
         /\ Cardinality(T \ {Some(T)}) = Cardinality(T) - 1
         /\ Cardinality(T) \in Nat \ {0}
<1>1. Some(T) \in T
  BY SomeIsMember
<1>2. Cardinality(T) \in Nat /\ Cardinality(T) # 0
  BY FS_CardinalityType, FS_EmptySet
<1> QED
  BY <1>1, <1>2, FS_RemoveElement

LEMMA SumsExist ==
  ASSUME NEW f, NEW S, IsFiniteSet(S)
  PROVE  \E g : Sums(f, S, g)
<1> DEFINE Upto(n) == {T \in SUBSET S : Cardinality(T) <= n}
           Partial(n, g) == g = [T \in Upto(n) |->
              IF T = {} THEN 0 ELSE f[Some(T)] + g[T \ {Some(T)}]]
           Bad == {n \in Nat : ~ \E g : Partial(n, g)}
<1>0. \A T \in SUBSET S : IsFiniteSet(T) /\ Cardinality(T) \in Nat
  BY FS_Subset, FS_CardinalityType
<1>1. Bad = {}
  <2> SUFFICES ASSUME Bad # {} PROVE FALSE
    OBVIOUS
  <2>1. PICK n \in Bad : \A m \in Bad : n <= m
    BY Smallest, Bad \in SUBSET Nat
  <2>2. CASE n = 0
    <3>1. \A T \in Upto(0) : T = {}
      BY <1>0, FS_EmptySet
    <3>2. Partial(0, [T \in Upto(0) |-> 0])
      BY <3>1
    <3> QED
      BY <2>1, <2>2, <3>2
  <2>3. CASE n # 0
    <3>1. n - 1 \in Nat /\ n - 1 \notin Bad
      <4>1. n \in Nat
        OBVIOUS
      <4> HIDE DEF Bad
      <4> QED
        BY <2>1, <2>3, <4>1
    <3>2. PICK g : Partial(n - 1, g)
      BY <3>1
    <3> DEFINE h == [T \in Upto(n) |->
              IF T = {} THEN 0 ELSE f[Some(T)] + g[T \ {Some(T)}]]
    <3>3. \A T \in Upto(n - 1) : T \in Upto(n) /\ h[T] = g[T]
      <4>1. \A T \in Upto(n - 1) : T \in Upto(n)
        BY <1>0
      <4>2. \A T \in Upto(n - 1) :
              g[T] = IF T = {} THEN 0 ELSE f[Some(T)] + g[T \ {Some(T)}]
        <5> HIDE DEF Upto
        <5> QED
          BY <3>2
      <4> HIDE DEF Upto
      <4> QED
        BY <4>1, <4>2
    <3>4. \A T \in Upto(n) : T # {} => T \ {Some(T)} \in Upto(n - 1)
      BY <1>0, WithoutSome, <2>1
    <3>5. Partial(n, h)
      <4>1. \A T \in Upto(n) : T # {} => h[T \ {Some(T)}] = g[T \ {Some(T)}]
        BY <3>3, <3>4
      <4> HIDE DEF Upto
      <4> QED
        BY <4>1
    <3> QED
      BY <2>1, <3>5
  <2> QED
    BY <2>2, <2>3
<1>2. Cardinality(S) \in Nat
  BY FS_CardinalityType
<1>3. PICK g : Partial(Cardinality(S), g)
  BY <1>1, <1>2
<1>4. Upto(Cardinality(S)) = SUBSET S
  BY FS_Subset
<1>5. Sums(f, S, g)
  BY <1>3, <1>4 DEF Sums
<1> QED
  BY <1>5

\* Two solutions, also over different sets, agree where both are defined.
LEMMA SumsAgree ==
  ASSUME NEW f, NEW S, IsFiniteSet(S), NEW g, Sums(f, S, g),
         NEW R, NEW h, Sums(f, R, h), R \subseteq S
  PROVE  \A T \in SUBSET R : g[T] = h[T]
<1> DEFINE Bad == {n \in Nat : \E T \in SUBSET R : Cardinality(T) = n /\ g[T] # h[T]}
<1>0. \A T \in SUBSET R : IsFiniteSet(T) /\ Cardinality(T) \in Nat /\ T \in SUBSET S
  BY FS_Subset, FS_CardinalityType
<1>1. Bad = {}
  <2> SUFFICES ASSUME Bad # {} PROVE FALSE
    OBVIOUS
  <2>1. PICK n \in Bad : \A m \in Bad : n <= m
    BY Smallest, Bad \in SUBSET Nat
  <2>2. PICK T \in SUBSET R : Cardinality(T) = n /\ g[T] # h[T]
    BY <2>1
  <2>3. g[T] = (IF T = {} THEN 0 ELSE f[Some(T)] + g[T \ {Some(T)}])
    BY <1>0 DEF Sums
  <2>4. h[T] = (IF T = {} THEN 0 ELSE f[Some(T)] + h[T \ {Some(T)}])
    BY DEF Sums
  <2>5. T # {} /\ g[T \ {Some(T)}] # h[T \ {Some(T)}]
    BY <2>2, <2>3, <2>4
  <2>6. T \ {Some(T)} \in SUBSET R /\ Cardinality(T \ {Some(T)}) = n - 1 /\ n - 1 \in Nat
    BY <1>0, <2>2, <2>5, WithoutSome
  <2>7. n - 1 \in Bad
    BY <2>5, <2>6
  <2> QED
    BY <2>1, <2>7
<1> QED
  BY <1>0, <1>1

\* The recursion of the fold.
LEMMA SumStep ==
  ASSUME NEW f, NEW S, IsFiniteSet(S)
  PROVE  SumFunctionOnSet(f, S) =
           IF S = {} THEN 0 ELSE f[Some(S)] + SumFunctionOnSet(f, S \ {Some(S)})
<1> DEFINE R == S \ {Some(S)}
           g == CHOOSE x : Sums(f, S, x)
           h == CHOOSE x : Sums(f, R, x)
<1>1. IsFiniteSet(R)
  BY FS_Subset
<1>2. Sums(f, S, g)
  BY SumsExist
<1>3. Sums(f, R, h)
  BY <1>1, SumsExist
<1>4. g[S] = (IF S = {} THEN 0 ELSE f[Some(S)] + g[R])
  BY <1>2 DEF Sums
<1>5. g[R] = h[R]
  <2> HIDE DEF g, h
  <2> QED
    BY <1>2, <1>3, SumsAgree
<1> QED
  BY <1>4, <1>5, FoldIsSum

-----------------------------------------------------------------------------
THEOREM SumEmpty == ASSUME NEW f PROVE SumFunctionOnSet(f, {}) = 0
  BY SumStep, FS_EmptySet

\* Any element may be taken out of the sum.
THEOREM SumElement ==
  ASSUME NEW S, IsFiniteSet(S), NEW f, \A x \in S : f[x] \in Int
  PROVE  /\ SumFunctionOnSet(f, S) \in Int
         /\ \A y \in S : SumFunctionOnSet(f, S) = f[y] + SumFunctionOnSet(f, S \ {y})
<1> DEFINE Good(T) == /\ SumFunctionOnSet(f, T) \in Int
                      /\ \A y \in T : SumFunctionOnSet(f, T) = f[y] + SumFunctionOnSet(f, T \ {y})
           Bad == {n \in Nat : \E T \in SUBSET S : Cardinality(T) = n /\ ~ Good(T)}
<1>0. \A T \in SUBSET S : IsFiniteSet(T) /\ Cardinality(T) \in Nat
  BY FS_Subset, FS_CardinalityType
<1>1. Bad = {}
  <2> SUFFICES ASSUME Bad # {} PROVE FALSE
    OBVIOUS
  <2>1. PICK n \in Bad : \A m \in Bad : n <= m
    BY Smallest, Bad \in SUBSET Nat
  <2>2. PICK T \in SUBSET S : Cardinality(T) = n /\ ~ Good(T)
    BY <2>1
  <2>3. \A U \in SUBSET S : IsFiniteSet(U) /\ Cardinality(U) < n => Good(U)
    <3>1. \A U \in SUBSET S : ~ Good(U) => Cardinality(U) \in Bad
      BY <1>0
    <3>2. n \in Nat
      OBVIOUS
    <3> HIDE DEF Bad, Good
    <3> QED
      BY <1>0, <2>1, <3>1, <3>2
  <2>4. T # {}
    <3> SUFFICES ASSUME T = {} PROVE FALSE
      OBVIOUS
    <3>1. SumFunctionOnSet(f, T) = 0
      BY SumEmpty
    <3> QED
      BY <2>2, <3>1
  <2> DEFINE x == Some(T)
  <2>5. x \in T /\ f[x] \in Int /\ SumFunctionOnSet(f, T) = f[x] + SumFunctionOnSet(f, T \ {x})
    BY <1>0, <2>4, SumStep, SomeIsMember
  <2>6. \A z \in T : Good(T \ {z})
    <3> TAKE z \in T
    <3>1. Cardinality(T \ {z}) < n
      BY <1>0, <2>2, FS_RemoveElement
    <3> HIDE DEF Good
    <3> QED
      BY <1>0, <2>3, <3>1
  <2>7. SumFunctionOnSet(f, T) \in Int
    BY <2>5, <2>6
  <2>8. ASSUME NEW y \in T
        PROVE  SumFunctionOnSet(f, T) = f[y] + SumFunctionOnSet(f, T \ {y})
    <3> DEFINE rest == SumFunctionOnSet(f, (T \ {x}) \ {y})
    <3>1. CASE y = x
      BY <2>5, <3>1
    <3>2. CASE y # x
      <4>1. SumFunctionOnSet(f, T \ {x}) = f[y] + rest
        BY <2>5, <2>6, <3>2
      <4>2. (T \ {x}) \ {y} = (T \ {y}) \ {x}
        OBVIOUS
      <4>3. SumFunctionOnSet(f, T \ {y}) = f[x] + rest
        <5>1. x \in T \ {y}
          BY <2>5, <3>2
        <5>2. Good(T \ {y})
          BY <2>6
        <5> HIDE DEF x
        <5> QED
          BY <4>2, <5>1, <5>2
      <4>4. rest \in Int
        <5>1. Cardinality(T \ {x}) = n - 1 /\ IsFiniteSet(T \ {x}) /\ y \in T \ {x}
          BY <1>0, <2>2, <2>5, <3>2, FS_RemoveElement
        <5>2. Cardinality((T \ {x}) \ {y}) < n /\ IsFiniteSet((T \ {x}) \ {y})
          <6>1. n \in Nat
            OBVIOUS
          <6> DEFINE U == T \ {x}
          <6>2. IsFiniteSet(U) /\ Cardinality(U) = n - 1 /\ y \in U
            BY <5>1
          <6> HIDE DEF U, Bad, Good, x
          <6>3. IsFiniteSet(U \ {y}) /\ Cardinality(U \ {y}) = Cardinality(U) - 1
            BY <6>2, FS_RemoveElement
          <6> QED
            BY <6>1, <6>2, <6>3 DEF U
        <5>3. Good((T \ {x}) \ {y})
          <6> HIDE DEF Good
          <6> QED
            BY <2>3, <5>2
        <5> QED
          BY <5>3
      <4> HIDE DEF rest, x
      <4> QED
        BY <2>5, <4>1, <4>3, <4>4
    <3> QED
      BY <3>1, <3>2
  <2> QED
    BY <2>2, <2>7, <2>8
<1>2. Cardinality(S) \in Nat /\ S \in SUBSET S
  BY <1>0
<1>3. Good(S)
  BY <1>1, <1>2
<1> QED
  BY <1>3

\* A sum sees no more of a function than its values on the set.
THEOREM SumSame ==
  ASSUME NEW S, IsFiniteSet(S), NEW f, NEW g, \A x \in S : f[x] = g[x]
  PROVE  SumFunctionOnSet(f, S) = SumFunctionOnSet(g, S)
<1> DEFINE Good(T) == SumFunctionOnSet(f, T) = SumFunctionOnSet(g, T)
           Bad == {n \in Nat : \E T \in SUBSET S : Cardinality(T) = n /\ ~ Good(T)}
<1>0. \A T \in SUBSET S : IsFiniteSet(T) /\ Cardinality(T) \in Nat
  BY FS_Subset, FS_CardinalityType
<1>1. Bad = {}
  <2> SUFFICES ASSUME Bad # {} PROVE FALSE
    OBVIOUS
  <2>1. PICK n \in Bad : \A m \in Bad : n <= m
    BY Smallest, Bad \in SUBSET Nat
  <2>2. PICK T \in SUBSET S : Cardinality(T) = n /\ ~ Good(T)
    BY <2>1
  <2>3. T # {}
    BY <2>2, SumEmpty
  <2> DEFINE R == T \ {Some(T)}
  <2>4. R \in SUBSET S /\ Cardinality(R) = n - 1 /\ n - 1 \in Nat
    BY <1>0, <2>2, <2>3, WithoutSome
  <2>5. Good(R)
    <3>1. ~ Good(R) => n - 1 \in Bad
      BY <2>4
    <3>2. n - 1 \notin Bad
      <4>1. n \in Nat
        OBVIOUS
      <4> HIDE DEF Bad
      <4> QED
        BY <2>1, <4>1
    <3> QED
      BY <3>1, <3>2
  <2>6. f[Some(T)] = g[Some(T)]
    BY <2>3, SomeIsMember
  <2> QED
    BY <1>0, <2>2, <2>3, <2>5, <2>6, SumStep
<1> QED
  BY <1>0, <1>1

\* What a sum gains when the function changes at one place.
THEOREM SumChange ==
  ASSUME NEW S, IsFiniteSet(S), NEW f, NEW g, NEW y \in S,
         \A x \in S : f[x] \in Int /\ g[x] \in Int,
         \A x \in S \ {y} : f[x] = g[x]
  PROVE  SumFunctionOnSet(g, S) = SumFunctionOnSet(f, S) - f[y] + g[y]
<1>1. IsFiniteSet(S \ {y})
  BY FS_Subset
<1>2. SumFunctionOnSet(f, S \ {y}) = SumFunctionOnSet(g, S \ {y})
  BY <1>1, SumSame
<1>3. SumFunctionOnSet(f, S \ {y}) \in Int
  BY <1>1, SumElement
<1>4. /\ SumFunctionOnSet(f, S) = f[y] + SumFunctionOnSet(f, S \ {y})
      /\ SumFunctionOnSet(g, S) = g[y] + SumFunctionOnSet(g, S \ {y})
  BY SumElement
<1> QED
  BY <1>2, <1>3, <1>4

\* The sum of two functions, element by element.
THEOREM SumAdd ==
  ASSUME NEW S, IsFiniteSet(S), NEW f, NEW g, NEW h,
         \A x \in S : f[x] \in Int /\ g[x] \in Int /\ h[x] = f[x] + g[x]
  PROVE  SumFunctionOnSet(h, S) = SumFunctionOnSet(f, S) + SumFunctionOnSet(g, S)
<1> DEFINE Good(T) == SumFunctionOnSet(h, T) = SumFunctionOnSet(f, T) + SumFunctionOnSet(g, T)
           Bad == {n \in Nat : \E T \in SUBSET S : Cardinality(T) = n /\ ~ Good(T)}
<1>0. \A T \in SUBSET S : IsFiniteSet(T) /\ Cardinality(T) \in Nat
  BY FS_Subset, FS_CardinalityType
<1>1. Bad = {}
  <2> SUFFICES ASSUME Bad # {} PROVE FALSE
    OBVIOUS
  <2>1. PICK n \in Bad : \A m \in Bad : n <= m
    BY Smallest, Bad \in SUBSET Nat
  <2>2. PICK T \in SUBSET S : Cardinality(T) = n /\ ~ Good(T)
    BY <2>1
  <2>3. T # {}
    <3>1. /\ SumFunctionOnSet(f, {}) = 0 /\ SumFunctionOnSet(g, {}) = 0
          /\ SumFunctionOnSet(h, {}) = 0
      BY SumEmpty
    <3>2. Good({})
      BY <3>1
    <3> HIDE DEF Good
    <3> QED
      BY <2>2, <3>2
  <2> DEFINE R == T \ {Some(T)}
  <2>4. R \in SUBSET S /\ Cardinality(R) = n - 1 /\ n - 1 \in Nat
    BY <1>0, <2>2, <2>3, WithoutSome
  <2>5. Good(R)
    <3>1. ~ Good(R) => n - 1 \in Bad
      BY <2>4
    <3>2. n - 1 \notin Bad
      <4>1. n \in Nat
        OBVIOUS
      <4> HIDE DEF Bad
      <4> QED
        BY <2>1, <4>1
    <3> QED
      BY <3>1, <3>2
  <2>6. Some(T) \in S
    BY <2>3, SomeIsMember
  <2>7. /\ SumFunctionOnSet(f, T) = f[Some(T)] + SumFunctionOnSet(f, R)
        /\ SumFunctionOnSet(g, T) = g[Some(T)] + SumFunctionOnSet(g, R)
        /\ SumFunctionOnSet(h, T) = h[Some(T)] + SumFunctionOnSet(h, R)
    BY <1>0, <2>3, SumStep
  <2>8. SumFunctionOnSet(f, R) \in Int /\ SumFunctionOnSet(g, R) \in Int
    <3>1. IsFiniteSet(R) /\ \A x \in R : f[x] \in Int /\ g[x] \in Int
      BY <1>0, <2>4
    <3> QED
      BY <3>1, SumElement
  <2>9. Good(T)
    <3> HIDE DEF R
    <3> QED
      BY <2>5, <2>6, <2>7, <2>8
  <2> QED
    BY <2>2, <2>9
<1> QED
  BY <1>0, <1>1

\* Elements of value zero may be added to the set.
THEOREM SumZeros ==
  ASSUME NEW S, IsFiniteSet(S), NEW f, \A x \in S : f[x] \in Int,
         NEW R \in SUBSET S, \A x \in S \ R : f[x] = 0
  PROVE  SumFunctionOnSet(f, R) = SumFunctionOnSet(f, S)
<1> DEFINE Good(T) == SumFunctionOnSet(f, T) = SumFunctionOnSet(f, R)
           Bad == {n \in Nat : \E T \in SUBSET S : R \subseteq T /\ Cardinality(T) = n /\ ~ Good(T)}
<1>0. \A T \in SUBSET S : IsFiniteSet(T) /\ Cardinality(T) \in Nat
  BY FS_Subset, FS_CardinalityType
<1>1. Bad = {}
  <2> SUFFICES ASSUME Bad # {} PROVE FALSE
    OBVIOUS
  <2>1. PICK n \in Bad : \A m \in Bad : n <= m
    BY Smallest, Bad \in SUBSET Nat
  <2>2. PICK T \in SUBSET S : R \subseteq T /\ Cardinality(T) = n /\ ~ Good(T)
    BY <2>1
  <2>3. PICK y \in T : y \notin R
    BY <2>2
  <2> DEFINE U == T \ {y}
  <2>4. U \in SUBSET S /\ R \subseteq U /\ Cardinality(U) < n
    BY <1>0, <2>2, <2>3, FS_RemoveElement
  <2>5. Good(U)
    <3>1. ~ Good(U) => Cardinality(U) \in Bad
      BY <1>0, <2>4
    <3>2. n \in Nat
      OBVIOUS
    <3> HIDE DEF Bad, Good, U
    <3> QED
      BY <1>0, <2>1, <2>4, <3>1, <3>2
  <2>6. SumFunctionOnSet(f, T) = f[y] + SumFunctionOnSet(f, U) /\ f[y] = 0
        /\ SumFunctionOnSet(f, U) \in Int
    BY <1>0, <2>3, <2>4, SumElement
  <2> QED
    BY <2>2, <2>5, <2>6
<1> QED
  BY <1>0, <1>1

\* The sum of a function that is nowhere negative.
THEOREM SumNat ==
  ASSUME NEW S, IsFiniteSet(S), NEW f, \A x \in S : f[x] \in Nat
  PROVE  SumFunctionOnSet(f, S) \in Nat
<1> DEFINE Bad == {n \in Nat : \E T \in SUBSET S : /\ Cardinality(T) = n
                                                   /\ SumFunctionOnSet(f, T) \notin Nat}
<1>0. \A T \in SUBSET S : IsFiniteSet(T) /\ Cardinality(T) \in Nat
  BY FS_Subset, FS_CardinalityType
<1>1. Bad = {}
  <2> SUFFICES ASSUME Bad # {} PROVE FALSE
    OBVIOUS
  <2>1. PICK n \in Bad : \A m \in Bad : n <= m
    BY Smallest, Bad \in SUBSET Nat
  <2>2. PICK T \in SUBSET S : Cardinality(T) = n /\ SumFunctionOnSet(f, T) \notin Nat
    BY <2>1
  <2>3. T # {}
    BY <2>2, SumEmpty
  <2> DEFINE R == T \ {Some(T)}
  <2>4. R \in SUBSET S /\ Cardinality(R) = n - 1 /\ n - 1 \in Nat
    BY <1>0, <2>2, <2>3, WithoutSome
  <2>5. SumFunctionOnSet(f, R) \in Nat
    <3>1. SumFunctionOnSet(f, R) \notin Nat => n - 1 \in Bad
      BY <2>4
    <3>2. n - 1 \notin Bad
      <4>1. n \in Nat
        OBVIOUS
      <4> HIDE DEF Bad
      <4> QED
        BY <2>1, <4>1
    <3> QED
      BY <3>1, <3>2
  <2>6. f[Some(T)] \in Nat
    BY <2>3, SomeIsMember
  <2> QED
    BY <1>0, <2>2, <2>3, <2>5, <2>6, SumStep
<1> QED
  BY <1>0, <1>1

\* A sum over two parts.
THEOREM SumSplit ==
  ASSUME NEW S, IsFiniteSet(S), NEW f, \A x \in S : f[x] \in Int, NEW R \in SUBSET S
  PROVE  SumFunctionOnSet(f, S) = SumFunctionOnSet(f, R) + SumFunctionOnSet(f, S \ R)
<1> DEFINE g == [x \in S |-> IF x \in R THEN f[x] ELSE 0]
           h == [x \in S |-> IF x \in R THEN 0 ELSE f[x]]
<1>1. IsFiniteSet(R) /\ IsFiniteSet(S \ R) /\ S \ R \in SUBSET S
  BY FS_Subset
<1>2. \A x \in S : g[x] \in Int /\ h[x] \in Int /\ f[x] = g[x] + h[x]
  OBVIOUS
<1>3. SumFunctionOnSet(f, S) = SumFunctionOnSet(g, S) + SumFunctionOnSet(h, S)
  <2> HIDE DEF g, h
  <2> QED
    BY <1>2, SumAdd
<1>4. SumFunctionOnSet(g, S) = SumFunctionOnSet(f, R)
  <2>1. (\A x \in R : f[x] = g[x]) /\ \A x \in S \ R : g[x] = 0
    OBVIOUS
  <2> HIDE DEF g, h
  <2>2. SumFunctionOnSet(f, R) = SumFunctionOnSet(g, R)
    BY <1>1, <2>1, SumSame
  <2>3. SumFunctionOnSet(g, R) = SumFunctionOnSet(g, S)
    BY <1>2, <2>1, SumZeros
  <2> QED
    BY <2>2, <2>3
<1>5. SumFunctionOnSet(h, S) = SumFunctionOnSet(f, S \ R)
  <2>1. (\A x \in S \ R : f[x] = h[x]) /\ \A x \in S \ (S \ R) : h[x] = 0
    OBVIOUS
  <2> HIDE DEF g, h
  <2>2. SumFunctionOnSet(f, S \ R) = SumFunctionOnSet(h, S \ R)
    BY <1>1, <2>1, SumSame
  <2>3. SumFunctionOnSet(h, S \ R) = SumFunctionOnSet(h, S)
    BY <1>1, <1>2, <2>1, SumZeros
  <2> QED
    BY <2>2, <2>3
<1> QED
  BY <1>3, <1>4, <1>5

\* A function that is nowhere greater has no greater sum.
THEOREM SumMonotone ==
  ASSUME NEW S, IsFiniteSet(S), NEW f, NEW g,
         \A x \in S : f[x] \in Int /\ g[x] \in Int /\ f[x] <= g[x]
  PROVE  SumFunctionOnSet(f, S) <= SumFunctionOnSet(g, S)
<1> DEFINE h == [x \in S |-> g[x] - f[x]]
<1>1. \A x \in S : f[x] \in Int /\ h[x] \in Int /\ g[x] = f[x] + h[x] /\ h[x] \in Nat
  OBVIOUS
<1> HIDE DEF h
<1>2. SumFunctionOnSet(g, S) = SumFunctionOnSet(f, S) + SumFunctionOnSet(h, S)
  BY <1>1, SumAdd
<1>3. SumFunctionOnSet(h, S) \in Nat
  BY <1>1, SumNat
<1>4. SumFunctionOnSet(f, S) \in Int
  BY <1>1, SumElement
<1> QED
  BY <1>2, <1>3, <1>4

\* Only the values count, not the names of the elements.
THEOREM SumRenamed ==
  ASSUME NEW S, IsFiniteSet(S), NEW m, NEW f, NEW g,
         \A x, y \in S : m[x] = m[y] => x = y,
         \A x \in S : f[x] \in Int /\ g[m[x]] = f[x]
  PROVE  SumFunctionOnSet(g, {m[x] : x \in S}) = SumFunctionOnSet(f, S)
<1> DEFINE Image(T) == {m[x] : x \in T}
           Good(T) == SumFunctionOnSet(g, Image(T)) = SumFunctionOnSet(f, T)
           Bad == {n \in Nat : \E T \in SUBSET S : Cardinality(T) = n /\ ~ Good(T)}
<1>0. \A T \in SUBSET S : IsFiniteSet(T) /\ Cardinality(T) \in Nat /\ IsFiniteSet(Image(T))
  <2> TAKE T \in SUBSET S
  <2>1. IsFiniteSet(T) /\ Cardinality(T) \in Nat
    BY FS_Subset, FS_CardinalityType
  <2>2. IsFiniteSet(Image(T))
    <3> DEFINE h == [x \in T |-> m[x]]
    <3>1. h \in Surjection(T, Image(T))
      BY DEF Surjection
    <3> QED
      BY <2>1, <3>1, FS_Surjection
  <2> QED
    BY <2>1, <2>2
<1>1. Bad = {}
  <2> SUFFICES ASSUME Bad # {} PROVE FALSE
    OBVIOUS
  <2>1. PICK n \in Bad : \A k \in Bad : n <= k
    BY Smallest, Bad \in SUBSET Nat
  <2>2. PICK T \in SUBSET S : Cardinality(T) = n /\ ~ Good(T)
    BY <2>1
  <2>3. T # {}
    <3>1. Image({}) = {}
      OBVIOUS
    <3>2. Good({})
      BY <3>1, SumEmpty
    <3> HIDE DEF Good
    <3> QED
      BY <2>2, <3>2
  <2> DEFINE y == Some(T)
             R == T \ {y}
  <2>4. R \in SUBSET S /\ Cardinality(R) = n - 1 /\ n - 1 \in Nat /\ y \in T
    BY <1>0, <2>2, <2>3, WithoutSome, SomeIsMember
  <2>5. Good(R)
    <3>1. ~ Good(R) => n - 1 \in Bad
      BY <2>4
    <3>2. n - 1 \notin Bad
      <4>1. n \in Nat
        OBVIOUS
      <4> HIDE DEF Bad
      <4> QED
        BY <2>1, <4>1
    <3> QED
      BY <3>1, <3>2
  <2>6. m[y] \in Image(T) /\ Image(T) \ {m[y]} = Image(R)
    <3> HIDE DEF y
    <3> QED
      BY <2>4
  <2>7. SumFunctionOnSet(f, T) = f[y] + SumFunctionOnSet(f, R)
    <3>1. \A x \in T : f[x] \in Int
      OBVIOUS
    <3>2. IsFiniteSet(T)
      BY <1>0
    <3>3. \A z \in T : SumFunctionOnSet(f, T) = f[z] + SumFunctionOnSet(f, T \ {z})
      BY <3>1, <3>2, SumElement
    <3> HIDE DEF y
    <3> QED
      BY <2>4, <3>3
  <2>8. SumFunctionOnSet(g, Image(T)) = g[m[y]] + SumFunctionOnSet(g, Image(R))
    <3>1. \A z \in Image(T) : g[z] \in Int
      OBVIOUS
    <3>2. IsFiniteSet(Image(T))
      BY <1>0
    <3>3. ASSUME NEW U, IsFiniteSet(U), \A z \in U : g[z] \in Int
          PROVE  \A z \in U : SumFunctionOnSet(g, U) = g[z] + SumFunctionOnSet(g, U \ {z})
      BY <3>3, SumElement
    <3>4. \A z \in Image(T) :
            SumFunctionOnSet(g, Image(T)) = g[z] + SumFunctionOnSet(g, Image(T) \ {z})
      <4> HIDE DEF Image
      <4> QED
        BY <3>1, <3>2, <3>3
    <3> HIDE DEF y, Image
    <3> QED
      BY <2>6, <3>4
  <2>9. g[m[y]] = f[y]
    BY <2>4
  <2> HIDE DEF y, R, Image
  <2> QED
    BY <2>2, <2>5, <2>7, <2>8, <2>9
<1>2. Cardinality(S) \in Nat /\ S \in SUBSET S
  BY <1>0
<1>3. Good(S)
  BY <1>1, <1>2
<1> QED
  BY <1>3
=============================================================================
