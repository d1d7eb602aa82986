----------------------------- MODULE FiniteSums -----------------------------
(***************************************************************************)
(* Sums over finite sets: what SumFunctionOnSet of the community modules   *)
(* promises.  Balances are sums over transactions, and the amount rule of  *)
(* fraud-service judges by an average.                                     *)
(*                                                                         *)
(* Induction is taken from the least-number principle, stated of a set.    *)
(***************************************************************************)
EXTENDS FiniteSetsExt, FiniteSetTheorems, WellFoundedInduction, TLAPS

-----------------------------------------------------------------------------
(* Induction                                                               *)

\* A set of numbers that is not empty has a least one.
LEMMA LeastNumber ==
  ASSUME NEW T \in SUBSET Nat, T # {}
  PROVE  \E n \in T : \A m \in T : n <= m
<1>1. PICK n \in T : \A m \in T : ~ (<<m, n>> \in OpToRel(<, Nat))
  BY NatLessThanWellFounded, WFMin
<1>2. \A m \in T : m < n => <<m, n>> \in OpToRel(<, Nat)
  BY DEF OpToRel
<1>3. \A m \in T : ~ (m < n)
  BY <1>1, <1>2, Zenon
<1>. QED
  BY <1>3

\* The same as induction from zero.
LEMMA FromZero ==
  ASSUME NEW T \in SUBSET Nat, 0 \in T, \A n \in T : n + 1 \in T
  PROVE  T = Nat
<1>. SUFFICES ASSUME T # Nat
              PROVE  FALSE
  OBVIOUS
<1>1. Nat \ T \in SUBSET Nat /\ Nat \ T # {}
  OBVIOUS
<1>2. PICK n \in Nat \ T : \A m \in Nat \ T : n <= m
  BY <1>1, LeastNumber
<1>3. n # 0 /\ n - 1 \in T
  BY <1>2
<1>. QED
  BY <1>2, <1>3

\* Induction over the size of the subsets of a finite set: what holds of one when it
\* holds of all smaller ones holds of all.  Good is the set of those it holds of.
LEMMA BySize ==
  ASSUME NEW U, IsFiniteSet(U), NEW Good,
         \A S \in SUBSET U :
            (\A R \in SUBSET U : Cardinality(R) < Cardinality(S) => R \in Good) => S \in Good
  PROVE  \A S \in SUBSET U : S \in Good
<1>. SUFFICES ASSUME NEW S0 \in SUBSET U, S0 \notin Good
              PROVE  FALSE
  OBVIOUS
<1>. DEFINE Sizes == {n \in Nat : \E S \in SUBSET U : S \notin Good /\ n = Cardinality(S)}
<1>1. \A S \in SUBSET U : Cardinality(S) \in Nat
  BY FS_Subset, FS_CardinalityType
<1>2. PICK n \in Sizes : \A m \in Sizes : n <= m
  <2>1. Sizes \in SUBSET Nat /\ Sizes # {}
    BY <1>1
  <2>. HIDE DEF Sizes
  <2>. QED
    BY <2>1, LeastNumber
<1>3. PICK S \in SUBSET U : S \notin Good /\ n = Cardinality(S)
  BY <1>2
<1>4. ASSUME NEW R \in SUBSET U, Cardinality(R) < Cardinality(S), R \notin Good
      PROVE  FALSE
  <2>1. Cardinality(R) \in Sizes
    BY <1>1, <1>4
  <2>2. n <= Cardinality(R)
    BY <1>2, <2>1
  <2>. QED
    BY <1>1, <1>3, <1>4, <2>2
<1>. QED
  BY <1>3, <1>4

-----------------------------------------------------------------------------
(* The function behind a sum                                               *)

Chosen(S) == CHOOSE x \in S : TRUE

\* The elements are added one by one, as CHOOSE has them.
AddsUp(g, f, S) ==
    g = [s \in SUBSET S |-> IF s = {} THEN 0 ELSE f[Chosen(s)] + g[s \ {Chosen(s)}]]

LEMMA SumIs ==
  ASSUME NEW f, NEW S
  PROVE  SumFunctionOnSet(f, S) = (CHOOSE g : AddsUp(g, f, S))[S]
BY DEF SumFunctionOnSet, FoldFunctionOnSet, MapThenFoldSet, AddsUp, Chosen

LEMMA ChosenIsElement ==
  ASSUME NEW S, S # {}
  PROVE  Chosen(S) \in S
BY DEF Chosen

LEMMA OneSmaller ==
  ASSUME NEW S, IsFiniteSet(S), NEW x \in S
  PROVE  /\ IsFiniteSet(S \ {x})
         /\ Cardinality(S) \in Nat /\ Cardinality(S \ {x}) \in Nat
         /\ Cardinality(S \ {x}) = Cardinality(S) - 1
BY FS_RemoveElement, FS_CardinalityType

\* As far as sets of k elements, such a function exists ...
AddsUpTo(k, g, f, S) ==
    \A s \in SUBSET S : Cardinality(s) <= k =>
        g[s] = IF s = {} THEN 0 ELSE f[Chosen(s)] + g[s \ {Chosen(s)}]

LEMMA OneFurther ==
  ASSUME NEW f, NEW S, IsFiniteSet(S), NEW k \in Nat, NEW g, AddsUpTo(k, g, f, S)
  PROVE  \E h : AddsUpTo(k + 1, h, f, S)
<1>. DEFINE h == [s \in SUBSET S |->
                    IF Cardinality(s) <= k THEN g[s]
                    ELSE f[Chosen(s)] + g[s \ {Chosen(s)}]]
<1>. SUFFICES ASSUME NEW s \in SUBSET S, Cardinality(s) <= k + 1
              PROVE  h[s] = IF s = {} THEN 0 ELSE f[Chosen(s)] + h[s \ {Chosen(s)}]
  BY DEF AddsUpTo
<1>1. CASE s = {}
  <2>1. Cardinality(s) = 0
    BY <1>1, FS_EmptySet
  <2>. QED
    BY <1>1, <2>1 DEF AddsUpTo
<1>2. CASE s # {}
  <2>1. Chosen(s) \in s
    BY <1>2, ChosenIsElement
  <2>2. IsFiniteSet(s)
    BY FS_Subset
  <2>3. /\ Cardinality(s) \in Nat /\ Cardinality(s \ {Chosen(s)}) \in Nat
        /\ Cardinality(s \ {Chosen(s)}) = Cardinality(s) - 1
    BY <2>1, <2>2, OneSmaller
  <2>4. h[s \ {Chosen(s)}] = g[s \ {Chosen(s)}]
    BY <2>3
  <2>. QED
    BY <1>2, <2>3, <2>4 DEF AddsUpTo
<1>. QED
  BY <1>1, <1>2

\* ... and so, by induction, for sets of any size.
LEMMA AddsUpExists ==
  ASSUME NEW f, NEW S, IsFiniteSet(S)
  PROVE  \E g : AddsUp(g, f, S)
<1>. DEFINE Reached == {k \in Nat : \E g : AddsUpTo(k, g, f, S)}
<1>1. 0 \in Reached
  <2>. DEFINE g == [s \in SUBSET S |-> 0]
  <2>1. \A s \in SUBSET S : Cardinality(s) <= 0 => s = {}
    BY FS_Subset, FS_CardinalityType, FS_EmptySet
  <2>2. AddsUpTo(0, g, f, S)
    BY <2>1 DEF AddsUpTo
  <2>. QED
    BY <2>2
<1>2. ASSUME NEW k \in Reached
      PROVE  k + 1 \in Reached
  <2>1. PICK g : AddsUpTo(k, g, f, S)
    OBVIOUS
  <2>2. \E h : AddsUpTo(k + 1, h, f, S)
    BY <2>1, OneFurther
  <2>. QED
    BY <2>2
<1>3. Reached = Nat
  <2>. HIDE DEF Reached
  <2>1. Reached \in SUBSET Nat
    BY DEF Reached
  <2>. QED
    BY <1>1, <1>2, <2>1, FromZero
<1>4. Cardinality(S) \in Reached
  BY <1>3, FS_CardinalityType
<1>5. PICK g : AddsUpTo(Cardinality(S), g, f, S)
  BY <1>4
<1>. DEFINE h == [s \in SUBSET S |-> g[s]]
<1>6. \A s \in SUBSET S : Cardinality(s) <= Cardinality(S)
  BY FS_Subset
<1>7. \A s \in SUBSET S : h[s] = IF s = {} THEN 0 ELSE f[Chosen(s)] + h[s \ {Chosen(s)}]
  BY <1>5, <1>6 DEF AddsUpTo
<1>8. AddsUp(h, f, S)
  BY <1>7 DEF AddsUp
<1>. QED
  BY <1>8


\* It is one function, whatever set it is taken for.
LEMMA AddsUpOnce ==
  ASSUME NEW f, NEW S, NEW T \in SUBSET S, IsFiniteSet(T),
         NEW g, AddsUp(g, f, S), NEW h, AddsUp(h, f, T)
  PROVE  \A s \in SUBSET T : g[s] = h[s]
<1>. DEFINE Good == {s \in SUBSET T : g[s] = h[s]}
<1>1. ASSUME NEW s \in SUBSET T,
             \A r \in SUBSET T : Cardinality(r) < Cardinality(s) => r \in Good
      PROVE  s \in Good
  <2>1. /\ g[s] = IF s = {} THEN 0 ELSE f[Chosen(s)] + g[s \ {Chosen(s)}]
        /\ h[s] = IF s = {} THEN 0 ELSE f[Chosen(s)] + h[s \ {Chosen(s)}]
    BY DEF AddsUp
  <2>2. CASE s = {}
    BY <2>1, <2>2
  <2>3. CASE s # {}
    <3>1. IsFiniteSet(s) /\ Chosen(s) \in s
      BY <2>3, FS_Subset, ChosenIsElement
    <3>2. Cardinality(s \ {Chosen(s)}) < Cardinality(s)
      BY <3>1, OneSmaller
    <3>3. s \ {Chosen(s)} \in Good
      BY <1>1, <3>2
    <3>. QED
      BY <2>1, <2>3, <3>3
  <2>. QED
    BY <2>2, <2>3
<1>2. \A s \in SUBSET T : s \in Good
  <2>. HIDE DEF Good
  <2>. QED
    BY <1>1, BySize
<1>. QED
  BY <1>2

-----------------------------------------------------------------------------
(* What a sum is                                                           *)

LEMMA SumOfNone ==
  ASSUME NEW f
  PROVE  SumFunctionOnSet(f, {}) = 0
<1>. DEFINE g == CHOOSE h : AddsUp(h, f, {})
<1>1. AddsUp(g, f, {})
  BY AddsUpExists, FS_EmptySet
<1>2. g[{}] = 0
  <2>. HIDE DEF g
  <2>. QED
    BY <1>1 DEF AddsUp
<1>. QED
  BY <1>2, SumIs

LEMMA SumOfAny ==
  ASSUME NEW f, NEW S, IsFiniteSet(S), S # {}
  PROVE  SumFunctionOnSet(f, S) = f[Chosen(S)] + SumFunctionOnSet(f, S \ {Chosen(S)})
<1>. DEFINE R == S \ {Chosen(S)}
            g == CHOOSE k : AddsUp(k, f, S)
            h == CHOOSE k : AddsUp(k, f, R)
<1>1. IsFiniteSet(R)
  BY FS_Subset
<1>2. AddsUp(g, f, S) /\ AddsUp(h, f, R)
  BY <1>1, AddsUpExists
<1>3. SumFunctionOnSet(f, S) = g[S] /\ SumFunctionOnSet(f, R) = h[R]
  BY SumIs
<1>. HIDE DEF g, h
<1>4. g[S] = f[Chosen(S)] + g[R]
  BY <1>2 DEF AddsUp
<1>5. g[R] = h[R]
  BY <1>1, <1>2, AddsUpOnce
<1>. QED
  BY <1>3, <1>4, <1>5

\* A sum of integers is one.
LEMMA SumIsInt ==
  ASSUME NEW U, IsFiniteSet(U), NEW f, \A x \in U : f[x] \in Int
  PROVE  \A S \in SUBSET U : SumFunctionOnSet(f, S) \in Int
<1>. DEFINE Good == {S \in SUBSET U : SumFunctionOnSet(f, S) \in Int}
<1>1. ASSUME NEW S \in SUBSET U,
             \A R \in SUBSET U : Cardinality(R) < Cardinality(S) => R \in Good
      PROVE  S \in Good
  <2>1. CASE S = {}
    BY <2>1, SumOfNone
  <2>2. CASE S # {}
    <3>1. IsFiniteSet(S) /\ Chosen(S) \in S
      BY <2>2, FS_Subset, ChosenIsElement
    <3>2. S \ {Chosen(S)} \in Good
      BY <1>1, <3>1, OneSmaller
    <3>. QED
      BY <2>2, <3>1, <3>2, SumOfAny
  <2>. QED
    BY <2>1, <2>2
<1>. HIDE DEF Good
<1>2. \A S \in SUBSET U : S \in Good
  BY <1>1, BySize
<1>. QED
  BY <1>2 DEF Good

\* The order does not matter: any element may be taken out first.
LEMMA SumWithout ==
  ASSUME NEW U, IsFiniteSet(U), NEW f, \A x \in U : f[x] \in Int
  PROVE  \A S \in SUBSET U : \A x \in S :
            SumFunctionOnSet(f, S) = f[x] + SumFunctionOnSet(f, S \ {x})
<1>. DEFINE Sum(S) == SumFunctionOnSet(f, S)
            Good == {S \in SUBSET U : \A x \in S : Sum(S) = f[x] + Sum(S \ {x})}
<1>1. ASSUME NEW S \in SUBSET U, NEW x \in S,
             \A R \in SUBSET U : Cardinality(R) < Cardinality(S) => R \in Good
      PROVE  Sum(S) = f[x] + Sum(S \ {x})
  <2>. DEFINE c == Chosen(S)
  <2>1. IsFiniteSet(S) /\ c \in S
    BY FS_Subset, ChosenIsElement
  <2>2. Sum(S) = f[c] + Sum(S \ {c})
    BY <2>1, SumOfAny
  <2>3. CASE x # c
    <3>0. /\ Cardinality(S \ {c}) < Cardinality(S)
          /\ Cardinality(S \ {x}) < Cardinality(S)
      <4>1. ASSUME NEW z \in S
            PROVE  Cardinality(S \ {z}) < Cardinality(S)
        BY <2>1, OneSmaller
      <4>. QED
        BY <2>1, <4>1
    <3>1. S \ {c} \in Good /\ S \ {x} \in Good
      <4>. HIDE DEF Good
      <4>. QED
        BY <1>1, <3>0
    <3>2. /\ Sum(S \ {c}) = f[x] + Sum((S \ {c}) \ {x})
          /\ Sum(S \ {x}) = f[c] + Sum((S \ {x}) \ {c})
      BY <2>1, <2>3, <3>1
    <3>3. (S \ {x}) \ {c} = (S \ {c}) \ {x}
      OBVIOUS
    <3>4. f[x] \in Int /\ f[c] \in Int /\ Sum((S \ {c}) \ {x}) \in Int
      BY <2>1, SumIsInt
    <3>5. Sum((S \ {x}) \ {c}) = Sum((S \ {c}) \ {x})
      BY <3>3
    <3>6. ASSUME NEW a \in Int, NEW b \in Int, NEW d \in Int
          PROVE  a + (b + d) = b + (a + d)
      OBVIOUS
    <3>7. f[c] + (f[x] + Sum((S \ {c}) \ {x})) = f[x] + (f[c] + Sum((S \ {c}) \ {x}))
      BY <3>4, <3>6
    <3>. HIDE DEF Sum, c
    <3>. QED
      BY <2>2, <3>2, <3>5, <3>7, Zenon
  <2>. QED
    BY <2>2, <2>3
<1>2. \A S \in SUBSET U :
         (\A R \in SUBSET U : Cardinality(R) < Cardinality(S) => R \in Good) => S \in Good
  BY <1>1
<1>. HIDE DEF Good
<1>3. \A S \in SUBSET U : S \in Good
  BY <1>2, BySize
<1>. QED
  BY <1>3 DEF Good

\* One element more.
THEOREM SumWithOneMore ==
  ASSUME NEW S, IsFiniteSet(S), NEW x, x \notin S,
         NEW f, f[x] \in Int, \A y \in S : f[y] \in Int
  PROVE  SumFunctionOnSet(f, S \cup {x}) = SumFunctionOnSet(f, S) + f[x]
<1>1. IsFiniteSet(S \cup {x})
  BY FS_AddElement
<1>2. (S \cup {x}) \ {x} = S
  OBVIOUS
<1>3. SumFunctionOnSet(f, S \cup {x}) = f[x] + SumFunctionOnSet(f, S)
  BY <1>1, <1>2, SumWithout
<1>4. SumFunctionOnSet(f, S) \in Int
  BY SumIsInt
<1>. QED
  BY <1>3, <1>4

\* A sum depends on nothing but the values it adds.
THEOREM SumOfSame ==
  ASSUME NEW S, IsFiniteSet(S), NEW f, NEW g, \A x \in S : f[x] = g[x]
  PROVE  SumFunctionOnSet(f, S) = SumFunctionOnSet(g, S)
<1>. DEFINE Good == {R \in SUBSET S : SumFunctionOnSet(f, R) = SumFunctionOnSet(g, R)}
<1>1. ASSUME NEW T \in SUBSET S,
             \A R \in SUBSET S : Cardinality(R) < Cardinality(T) => R \in Good
      PROVE  T \in Good
  <2>1. CASE T = {}
    BY <2>1, SumOfNone
  <2>2. CASE T # {}
    <3>1. IsFiniteSet(T) /\ Chosen(T) \in T
      BY <2>2, FS_Subset, ChosenIsElement
    <3>2. Cardinality(T \ {Chosen(T)}) < Cardinality(T)
      BY <3>1, OneSmaller
    <3>3. T \ {Chosen(T)} \in Good
      <4>. HIDE DEF Good
      <4>. QED
        BY <1>1, <3>2
    <3>. QED
      BY <2>2, <3>1, <3>3, SumOfAny
  <2>. QED
    BY <2>1, <2>2
<1>. HIDE DEF Good
<1>2. \A R \in SUBSET S : R \in Good
  BY <1>1, BySize
<1>. QED
  BY <1>2 DEF Good

\* What is taken from one element and given to another leaves the sum as it was.
THEOREM SumOfMoved ==
  ASSUME NEW S, IsFiniteSet(S), NEW f, \A z \in S : f[z] \in Int,
         NEW x \in S, NEW y \in S, x # y, NEW n \in Int,
         NEW g, g[x] = f[x] - n, g[y] = f[y] + n,
         \A z \in S \ {x, y} : g[z] = f[z]
  PROVE  SumFunctionOnSet(g, S) = SumFunctionOnSet(f, S)
<1>. DEFINE R == S \ {x, y}
<1>1. /\ S \ {x} = R \cup {y} /\ (S \ {x}) \ {y} = R
      /\ IsFiniteSet(R) /\ S \ {x} \in SUBSET S /\ R \in SUBSET S
  BY FS_Subset
<1>2. \A z \in S : g[z] \in Int
  OBVIOUS
<1>3. /\ SumFunctionOnSet(f, S) = f[x] + SumFunctionOnSet(f, S \ {x})
      /\ SumFunctionOnSet(g, S) = g[x] + SumFunctionOnSet(g, S \ {x})
  BY <1>2, SumWithout
<1>4. /\ SumFunctionOnSet(f, S \ {x}) = f[y] + SumFunctionOnSet(f, R)
      /\ SumFunctionOnSet(g, S \ {x}) = g[y] + SumFunctionOnSet(g, R)
  BY <1>1, <1>2, SumWithout
<1>5. SumFunctionOnSet(f, R) \in Int /\ SumFunctionOnSet(g, R) \in Int
  BY <1>1, <1>2, SumIsInt
<1>6. SumFunctionOnSet(g, R) = SumFunctionOnSet(f, R)
  BY <1>1, SumOfSame
<1>. HIDE DEF R
<1>. QED
  BY <1>3, <1>4, <1>5, <1>6

\* A sum of what is never negative is at least any part of it.
THEOREM SumIsAtLeast ==
  ASSUME NEW U, IsFiniteSet(U), NEW f, \A x \in U : f[x] \in Nat
  PROVE  \A S \in SUBSET U : /\ SumFunctionOnSet(f, S) \in Nat
                             /\ \A x \in S : SumFunctionOnSet(f, S) >= f[x]
<1>. DEFINE Good == {S \in SUBSET U : SumFunctionOnSet(f, S) \in Nat}
<1>1. ASSUME NEW S \in SUBSET U,
             \A R \in SUBSET U : Cardinality(R) < Cardinality(S) => R \in Good
      PROVE  S \in Good
  <2>1. CASE S = {}
    BY <2>1, SumOfNone
  <2>2. CASE S # {}
    <3>1. IsFiniteSet(S) /\ Chosen(S) \in S
      BY <2>2, FS_Subset, ChosenIsElement
    <3>2. S \ {Chosen(S)} \in Good
      BY <1>1, <3>1, OneSmaller
    <3>. QED
      BY <2>2, <3>1, <3>2, SumOfAny
  <2>. QED
    BY <2>1, <2>2
<1>. HIDE DEF Good
<1>2. \A S \in SUBSET U : S \in Good
  BY <1>1, BySize
<1>3. ASSUME NEW S \in SUBSET U, NEW x \in S
      PROVE  SumFunctionOnSet(f, S) >= f[x]
  <2>1. SumFunctionOnSet(f, S) = f[x] + SumFunctionOnSet(f, S \ {x})
    BY SumWithout
  <2>2. SumFunctionOnSet(f, S \ {x}) \in Nat
    BY <1>2 DEF Good
  <2>. QED
    BY <2>1, <2>2
<1>. QED
  BY <1>2, <1>3 DEF Good

=============================================================================
