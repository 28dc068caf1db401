-------------------------------- MODULE Sums --------------------------------
(***************************************************************************)
(* What SumFunctionOnSet computes, for every function with integer values  *)
(* and every finite set of indices.                                        *)
(*                                                                         *)
(* A proof by induction takes the set of the counterexamples and looks at  *)
(* a least one, so that no fact with an operator for a parameter is used.  *)
(***************************************************************************)
EXTENDS Integers, Functions, FiniteSetTheorems, TLAPS

-----------------------------------------------------------------------------
(* Least elements *)

\* A set of numbers that is not empty has a least element.
LEMMA LeastNumber ==
    ASSUME NEW T \in SUBSET Nat, T # {}
    PROVE  \E n \in T : \A k \in T : n <= k
<1>1. PICK n \in T : \A k \in T : ~ (<<k, n>> \in OpToRel(<, Nat))
  BY NatLessThanWellFounded, WFMin, Zenon
<1>2. \A k \in T : k < n => <<k, n>> \in OpToRel(<, Nat)
  BY DEF OpToRel
<1>3. \A k \in T : ~ (k < n)
  BY <1>1, <1>2
<1> QED BY <1>3

\* So has a set of subsets of a finite set.
LEMMA LeastSubset ==
    ASSUME NEW S, IsFiniteSet(S), NEW T \in SUBSET SUBSET S, T # {}
    PROVE  \E U \in T : \A V \in T : V \subseteq U => V = U
<1>1. IsWellFoundedOn(StrictSubsetOrdering(S), SUBSET S)
  BY FS_StrictSubsetOrderingWellFounded, FS_FiniteSubsetsOfFinite
<1>2. PICK U \in T : \A V \in T : ~ (<<V, U>> \in StrictSubsetOrdering(S))
  BY <1>1, WFMin
<1> QED BY <1>2 DEF StrictSubsetOrdering

-----------------------------------------------------------------------------
(* The recursive function behind the sum *)

SumStep(g, f, s) ==
    IF s = {} THEN 0 ELSE LET x == CHOOSE x \in s : TRUE IN f[x] + g[s \ {x}]

\* g holds the sums of f over the subsets of S.
Sums(g, f, S) == g = [s \in SUBSET S |-> SumStep(g, f, s)]

LEMMA SumIsChosen ==
    ASSUME NEW f, NEW S
    PROVE  SumFunctionOnSet(f, S) = (CHOOSE g : Sums(g, f, S))[S]
BY DEF SumFunctionOnSet, FoldFunctionOnSet, MapThenFoldSet, Sums, SumStep

\* There is such a function: one that is right for the sets of n elements at
\* most gives one that is right for those of n + 1.
LEMMA SumsExist ==
    ASSUME NEW S, IsFiniteSet(S), NEW f
    PROVE  \E g : Sums(g, f, S)
<1> DEFINE Good(n) == \E g : \A s \in SUBSET S : Cardinality(s) <= n => g[s] = SumStep(g, f, s)
           Bad == {n \in Nat : ~Good(n)}
<1>0. ASSUME NEW s \in SUBSET S PROVE Cardinality(s) \in Nat /\ IsFiniteSet(s)
  BY FS_Subset, FS_CardinalityType
<1>1. Good(0)
  <2> DEFINE g == [s \in SUBSET S |-> 0]
  <2>1. ASSUME NEW s \in SUBSET S, Cardinality(s) <= 0 PROVE g[s] = SumStep(g, f, s)
    <3>1. s = {}
      BY <1>0, <2>1, FS_EmptySet
    <3> QED BY <3>1 DEF SumStep
  <2> QED BY <2>1
<1>2. ASSUME NEW n \in Nat, Good(n) PROVE Good(n + 1)
  <2>1. PICK g : \A s \in SUBSET S : Cardinality(s) <= n => g[s] = SumStep(g, f, s)
    BY <1>2
  <2> DEFINE h == [s \in SUBSET S |-> SumStep(g, f, s)]
  <2>2. ASSUME NEW s \in SUBSET S, Cardinality(s) <= n + 1 PROVE h[s] = SumStep(h, f, s)
    <3>1. CASE s = {}
      BY <3>1 DEF SumStep
    <3>2. CASE s # {}
      <4> DEFINE x == CHOOSE x \in s : TRUE
      <4>1. x \in s
        BY <3>2
      <4>2. s \ {x} \in SUBSET S /\ Cardinality(s \ {x}) <= n
        <5> HIDE DEF x
        <5>1. Cardinality(s \ {x}) = Cardinality(s) - 1
          BY <1>0, <4>1, FS_RemoveElement
        <5> QED BY <1>0, <2>2, <5>1
      <4>3. h[s \ {x}] = g[s \ {x}]
        BY <2>1, <4>2
      <4>4. SumStep(g, f, s) = f[x] + g[s \ {x}] /\ SumStep(h, f, s) = f[x] + h[s \ {x}]
        BY <3>2 DEF SumStep
      <4> QED BY <4>3, <4>4
    <3> QED BY <3>1, <3>2
  <2> QED BY <2>2
<1>3. Good(Cardinality(S))
  <2> SUFFICES ASSUME ~Good(Cardinality(S)) PROVE FALSE
    OBVIOUS
  <2>1. Cardinality(S) \in Bad
    BY <1>0
  <2> HIDE DEF Good
  <2>2. PICK n \in Bad : \A k \in Bad : n <= k
    BY <2>1, LeastNumber
  <2>3. n # 0 /\ n - 1 \in Nat /\ n - 1 \notin Bad
    BY <1>1, <2>2
  <2> QED BY <1>2, <2>2, <2>3
<1>4. PICK g : \A s \in SUBSET S : Cardinality(s) <= Cardinality(S) => g[s] = SumStep(g, f, s)
  BY <1>3
<1>5. ASSUME NEW s \in SUBSET S PROVE g[s] = SumStep(g, f, s)
  BY <1>4, FS_Subset, <1>0
<1> DEFINE h == [s \in SUBSET S |-> SumStep(g, f, s)]
<1>6. ASSUME NEW s \in SUBSET S PROVE SumStep(g, f, s) = SumStep(h, f, s)
  BY <1>5 DEF SumStep
<1>7. h = [s \in SUBSET S |-> SumStep(h, f, s)]
  BY <1>6
<1> QED BY <1>7 DEF Sums

\* It takes any element out of a set, and adds integers up to an integer.
LEMMA SumsSplit ==
    ASSUME NEW S, IsFiniteSet(S), NEW f, \A x \in S : f[x] \in Int, NEW g, Sums(g, f, S)
    PROVE  \A s \in SUBSET S :
               g[s] \in Int /\ \A x \in s : g[s] = f[x] + g[s \ {x}]
<1> DEFINE Fine(s) == g[s] \in Int /\ \A x \in s : g[s] = f[x] + g[s \ {x}]
           Bad == {s \in SUBSET S : ~Fine(s)}
<1> SUFFICES ASSUME Bad # {} PROVE FALSE
  OBVIOUS
<1>1. PICK s \in Bad : \A t \in Bad : t \subseteq s => t = s
  <2>1. Bad \in SUBSET SUBSET S
    OBVIOUS
  <2> HIDE DEF Bad
  <2> QED BY <2>1, LeastSubset
<1>2. s \in SUBSET S /\ ~Fine(s)
  BY <1>1
<1>3. ASSUME NEW t \in SUBSET s, t # s PROVE Fine(t)
  <2>1. t \in SUBSET S /\ t \notin Bad
    BY <1>1, <1>2, <1>3
  <2> HIDE DEF Fine
  <2> QED BY <2>1
<1>4. \A t \in SUBSET S : g[t] = SumStep(g, f, t)
  BY DEF Sums
<1>5. CASE s = {}
  <2>1. g[s] = 0
    BY <1>2, <1>4, <1>5 DEF SumStep
  <2> QED BY <1>2, <1>5, <2>1
<1>6. CASE s # {}
  <2> DEFINE y == CHOOSE x \in s : TRUE
  <2>1. y \in s
    BY <1>6
  <2>2. g[s] = f[y] + g[s \ {y}]
    BY <1>2, <1>4, <1>6 DEF SumStep
  <2> HIDE DEF y
  <2>3. Fine(s \ {y}) /\ f[y] \in Int
    BY <1>2, <1>3, <2>1
  <2>4. g[s] \in Int
    BY <2>2, <2>3
  <2>5. ASSUME NEW x \in s, x # y PROVE g[s] = f[x] + g[s \ {x}]
    <3>1. Fine(s \ {x}) /\ f[x] \in Int
      BY <1>2, <1>3
    <3>2. (s \ {x}) \ {y} = (s \ {y}) \ {x} /\ Fine((s \ {x}) \ {y})
      BY <1>3, <2>1
    <3>3. g[s \ {y}] = f[x] + g[(s \ {x}) \ {y}]
      BY <2>3, <2>5, <3>2
    <3>4. g[s \ {x}] = f[y] + g[(s \ {x}) \ {y}]
      BY <2>1, <2>5, <3>1
    <3>5. g[(s \ {x}) \ {y}] \in Int
      BY <3>2
    <3> QED BY <2>2, <2>3, <3>1, <3>3, <3>4, <3>5
  <2> QED BY <1>2, <2>2, <2>4, <2>5
<1> QED BY <1>5, <1>6

\* Such functions for a set and for a subset agree.
LEMMA SumsAgree ==
    ASSUME NEW S, IsFiniteSet(S), NEW T \in SUBSET S, NEW f, NEW g, NEW h,
           Sums(g, f, S), Sums(h, f, T)
    PROVE  \A s \in SUBSET T : h[s] = g[s]
<1> DEFINE Bad == {s \in SUBSET T : h[s] # g[s]}
<1> SUFFICES ASSUME Bad # {} PROVE FALSE
  OBVIOUS
<1>1. PICK s \in Bad : \A t \in Bad : t \subseteq s => t = s
  <2>1. Bad \in SUBSET SUBSET T /\ IsFiniteSet(T)
    BY FS_Subset
  <2> HIDE DEF Bad
  <2> QED BY <2>1, LeastSubset
<1>2. s \in SUBSET T /\ s \in SUBSET S /\ h[s] # g[s]
  BY <1>1
<1>3. g[s] = SumStep(g, f, s) /\ h[s] = SumStep(h, f, s)
  BY <1>2 DEF Sums
<1>4. s # {}
  BY <1>2, <1>3 DEF SumStep
<1> DEFINE y == CHOOSE x \in s : TRUE
<1>5. y \in s
  BY <1>4
<1>6. g[s] = f[y] + g[s \ {y}] /\ h[s] = f[y] + h[s \ {y}]
  BY <1>3, <1>4 DEF SumStep
<1> HIDE DEF y
<1>7. s \ {y} \in SUBSET T /\ s \ {y} \notin Bad
  BY <1>1, <1>2, <1>5
<1> QED BY <1>2, <1>6, <1>7

-----------------------------------------------------------------------------
(* Facts about sums *)

\* The sums over the subsets of a finite set are integers, and any element can
\* be taken out of them.
LEMMA SumOfSubset ==
    ASSUME NEW S, IsFiniteSet(S), NEW f, \A x \in S : f[x] \in Int, NEW T \in SUBSET S
    PROVE  /\ SumFunctionOnSet(f, T) \in Int
           /\ \A x \in T : SumFunctionOnSet(f, T) = f[x] + SumFunctionOnSet(f, T \ {x})
<1>1. PICK g : Sums(g, f, S)
  BY SumsExist
<1>2. ASSUME NEW U \in SUBSET S PROVE SumFunctionOnSet(f, U) = g[U]
  <2>1. IsFiniteSet(U)
    BY FS_Subset
  <2> DEFINE h == CHOOSE h : Sums(h, f, U)
  <2>2. Sums(h, f, U)
    BY <2>1, SumsExist
  <2>3. SumFunctionOnSet(f, U) = h[U]
    BY SumIsChosen
  <2> HIDE DEF h
  <2>4. h[U] = g[U]
    BY <1>1, <2>2, SumsAgree
  <2> QED BY <2>3, <2>4
<1>3. g[T] \in Int /\ \A x \in T : g[T] = f[x] + g[T \ {x}]
  <2> DEFINE Split(s) == g[s] \in Int /\ \A x \in s : g[s] = f[x] + g[s \ {x}]
  <2>1. \A s \in SUBSET S : Split(s)
    BY <1>1, SumsSplit
  <2> HIDE DEF Split
  <2>2. Split(T)
    BY <2>1
  <2> QED BY <2>2 DEF Split
<1> QED BY <1>2, <1>3

LEMMA SumType ==
    ASSUME NEW S, IsFiniteSet(S), NEW f, \A x \in S : f[x] \in Int
    PROVE  SumFunctionOnSet(f, S) \in Int
BY SumOfSubset

\* Nothing sums up to zero.
LEMMA SumEmpty == ASSUME NEW f PROVE SumFunctionOnSet(f, {}) = 0
<1>1. PICK g : Sums(g, f, {})
  BY SumsExist, FS_EmptySet
<1> DEFINE h == CHOOSE h : Sums(h, f, {})
<1>2. Sums(h, f, {}) /\ SumFunctionOnSet(f, {}) = h[{}]
  BY <1>1, SumIsChosen
<1> HIDE DEF h
<1>3. h[{}] = SumStep(h, f, {})
  BY <1>2 DEF Sums
<1> QED BY <1>2, <1>3 DEF SumStep

\* An element counts once, whichever it is.
LEMMA SumSplit ==
    ASSUME NEW S, IsFiniteSet(S), NEW f, \A x \in S : f[x] \in Int, NEW x \in S
    PROVE  SumFunctionOnSet(f, S) = f[x] + SumFunctionOnSet(f, S \ {x})
BY SumOfSubset

LEMMA SumAdd ==
    ASSUME NEW S, IsFiniteSet(S), NEW f, \A x \in S : f[x] \in Int,
           NEW x, x \notin S, f[x] \in Int
    PROVE  SumFunctionOnSet(f, S \cup {x}) = f[x] + SumFunctionOnSet(f, S)
<1> DEFINE T == S \cup {x}
<1>1. IsFiniteSet(T) /\ (\A y \in T : f[y] \in Int) /\ x \in T /\ T \ {x} = S
  BY FS_AddElement
<1> HIDE DEF T
<1>2. SumFunctionOnSet(f, T) = f[x] + SumFunctionOnSet(f, T \ {x})
  BY <1>1, SumSplit
<1> QED BY <1>1, <1>2 DEF T

\* A greater function has no smaller sum.
LEMMA SumMonotone ==
    ASSUME NEW S, IsFiniteSet(S), NEW f, NEW g,
           \A x \in S : f[x] \in Int /\ g[x] \in Int /\ f[x] <= g[x]
    PROVE  SumFunctionOnSet(f, S) <= SumFunctionOnSet(g, S)
<1> DEFINE F(T) == SumFunctionOnSet(f, T)
           G(T) == SumFunctionOnSet(g, T)
           Bad  == {T \in SUBSET S : ~ (F(T) <= G(T))}
<1> SUFFICES ASSUME Bad # {} PROVE FALSE
  <2> SUFFICES S \notin Bad
    OBVIOUS
  <2> QED OBVIOUS
<1>1. PICK T \in Bad : \A U \in Bad : U \subseteq T => U = T
  <2>1. Bad \in SUBSET SUBSET S
    OBVIOUS
  <2> HIDE DEF Bad
  <2> QED BY <2>1, LeastSubset
<1>2. T \in SUBSET S /\ ~ (F(T) <= G(T))
  BY <1>1
<1>3. F({}) = 0 /\ G({}) = 0
  BY SumEmpty
<1>4. T # {}
  BY <1>2, <1>3
<1>5. PICK x \in T : TRUE
  BY <1>4
<1>6. F(T) = f[x] + F(T \ {x}) /\ G(T) = g[x] + G(T \ {x})
  BY <1>2, SumOfSubset
<1>7. T \ {x} \in SUBSET S /\ T \ {x} \notin Bad
  BY <1>1, <1>2, <1>5
<1>8. F(T \ {x}) \in Int /\ G(T \ {x}) \in Int
  BY <1>7, SumOfSubset
<1>9. F(T \ {x}) <= G(T \ {x})
  BY <1>7
<1>10. f[x] \in Int /\ g[x] \in Int /\ f[x] <= g[x]
  BY <1>2, <1>5
<1> HIDE DEF F, G
<1> QED BY <1>2, <1>6, <1>8, <1>9, <1>10

\* The sum depends on the values summed up and on nothing else.
LEMMA SumSame ==
    ASSUME NEW S, IsFiniteSet(S), NEW f, NEW g, \A x \in S : f[x] \in Int /\ f[x] = g[x]
    PROVE  SumFunctionOnSet(f, S) = SumFunctionOnSet(g, S)
<1>1. SumFunctionOnSet(f, S) \in Int /\ SumFunctionOnSet(g, S) \in Int
  BY SumType
<1>2. SumFunctionOnSet(f, S) <= SumFunctionOnSet(g, S)
  BY SumMonotone
<1>3. SumFunctionOnSet(g, S) <= SumFunctionOnSet(f, S)
  BY SumMonotone
<1> QED BY <1>1, <1>2, <1>3

\* A function that is changed at one element changes its sum by as much.
LEMMA SumChange ==
    ASSUME NEW S, IsFiniteSet(S), NEW f, NEW g, NEW x \in S, g[x] \in Int, f[x] \in Int,
           \A y \in S \ {x} : f[y] \in Int /\ g[y] = f[y]
    PROVE  SumFunctionOnSet(g, S) = SumFunctionOnSet(f, S) + g[x] - f[x]
<1>1. IsFiniteSet(S \ {x})
  BY FS_RemoveElement
<1>2. SumFunctionOnSet(g, S \ {x}) = SumFunctionOnSet(f, S \ {x})
  BY <1>1, SumSame
<1>3. SumFunctionOnSet(f, S \ {x}) \in Int
  BY <1>1, SumType
<1>4. SumFunctionOnSet(f, S) = f[x] + SumFunctionOnSet(f, S \ {x})
  BY SumSplit
<1>5. SumFunctionOnSet(g, S) = g[x] + SumFunctionOnSet(g, S \ {x})
  BY SumSplit
<1> QED BY <1>2, <1>3, <1>4, <1>5

\* Weights that are not negative have no negative sum.
LEMMA SumNat ==
    ASSUME NEW S, IsFiniteSet(S), NEW f, \A x \in S : f[x] \in Nat
    PROVE  SumFunctionOnSet(f, S) \in Nat
<1> DEFINE Bad == {T \in SUBSET S : SumFunctionOnSet(f, T) \notin Nat}
<1> SUFFICES ASSUME Bad # {} PROVE FALSE
  <2> SUFFICES S \notin Bad
    OBVIOUS
  <2> QED OBVIOUS
<1>1. PICK T \in Bad : \A U \in Bad : U \subseteq T => U = T
  <2>1. Bad \in SUBSET SUBSET S
    OBVIOUS
  <2> HIDE DEF Bad
  <2> QED BY <2>1, LeastSubset
<1>2. T \in SUBSET S /\ SumFunctionOnSet(f, T) \notin Nat
  BY <1>1
<1>3. PICK x \in T : TRUE
  BY <1>2, SumEmpty
<1>4. SumFunctionOnSet(f, T) = f[x] + SumFunctionOnSet(f, T \ {x})
  BY <1>2, SumOfSubset
<1>5. SumFunctionOnSet(f, T \ {x}) \in Nat /\ f[x] \in Nat
  BY <1>1, <1>2, <1>3
<1> QED BY <1>2, <1>4, <1>5

\* The sum over two disjoint sets is the sum of their sums.
LEMMA SumUnion ==
    ASSUME NEW S, NEW T, IsFiniteSet(S), IsFiniteSet(T), S \cap T = {}, NEW f,
           \A x \in S \cup T : f[x] \in Int
    PROVE  SumFunctionOnSet(f, S \cup T) = SumFunctionOnSet(f, S) + SumFunctionOnSet(f, T)
<1> DEFINE F(U) == SumFunctionOnSet(f, U)
           Bad  == {U \in SUBSET S : F(U \cup T) # F(U) + F(T)}
<1> SUFFICES ASSUME Bad # {} PROVE FALSE
  <2> SUFFICES S \notin Bad
    OBVIOUS
  <2> QED OBVIOUS
<1>0. IsFiniteSet(S \cup T)
  BY FS_Union
<1>1. PICK U \in Bad : \A V \in Bad : V \subseteq U => V = U
  <2>1. Bad \in SUBSET SUBSET S
    OBVIOUS
  <2> HIDE DEF Bad
  <2> QED BY <2>1, LeastSubset
<1>2. U \in SUBSET S /\ F(U \cup T) # F(U) + F(T)
  BY <1>1
<1>3. F(T) \in Int
  BY SumType
<1>4. U # {}
  <2>1. F({}) = 0 /\ F({} \cup T) = F(T)
    BY SumEmpty
  <2> QED BY <1>2, <1>3, <2>1
<1>5. PICK x \in U : TRUE
  BY <1>4
<1> DEFINE V == U \ {x}
<1>6. V \in SUBSET S /\ V \notin Bad
  BY <1>1, <1>2, <1>5
<1>7. U \cup T \in SUBSET (S \cup T) /\ (U \cup T) \ {x} = V \cup T /\ x \in U \cup T
  BY <1>2, <1>5
<1>8. F(U \cup T) = f[x] + F(V \cup T)
  BY <1>0, <1>7, SumOfSubset
<1>9. F(U) = f[x] + F(V) /\ F(V) \in Int
  BY <1>2, <1>6, SumOfSubset
<1>10. F(V \cup T) = F(V) + F(T)
  BY <1>6
<1>11. f[x] \in Int
  BY <1>2, <1>5
<1> HIDE DEF F, V
<1> QED BY <1>2, <1>3, <1>8, <1>9, <1>10, <1>11

\* Zeros sum up to zero, ...
LEMMA SumZero ==
    ASSUME NEW S, IsFiniteSet(S), NEW f, \A x \in S : f[x] = 0
    PROVE  SumFunctionOnSet(f, S) = 0
<1> DEFINE Bad == {T \in SUBSET S : SumFunctionOnSet(f, T) # 0}
<1> SUFFICES ASSUME Bad # {} PROVE FALSE
  <2> SUFFICES S \notin Bad
    OBVIOUS
  <2> QED OBVIOUS
<1>1. PICK T \in Bad : \A U \in Bad : U \subseteq T => U = T
  <2>1. Bad \in SUBSET SUBSET S
    OBVIOUS
  <2> HIDE DEF Bad
  <2> QED BY <2>1, LeastSubset
<1>2. T \in SUBSET S /\ SumFunctionOnSet(f, T) # 0
  BY <1>1
<1>3. PICK x \in T : TRUE
  BY <1>2, SumEmpty
<1>4. SumFunctionOnSet(f, T) = f[x] + SumFunctionOnSet(f, T \ {x})
  <2>1. \A y \in S : f[y] \in Int
    OBVIOUS
  <2> QED BY <1>2, <2>1, SumOfSubset
<1>5. SumFunctionOnSet(f, T \ {x}) = 0 /\ f[x] = 0
  BY <1>1, <1>2, <1>3
<1> QED BY <1>2, <1>4, <1>5

\* ... and may be left out of a sum.
LEMMA SumSupport ==
    ASSUME NEW S, IsFiniteSet(S), NEW T \in SUBSET S, NEW f, \A x \in T : f[x] \in Int,
           \A x \in S \ T : f[x] = 0
    PROVE  SumFunctionOnSet(f, S) = SumFunctionOnSet(f, T)
<1>1. /\ IsFiniteSet(T) /\ IsFiniteSet(S \ T) /\ T \cap (S \ T) = {}
      /\ T \cup (S \ T) = S
  BY FS_Subset, FS_Difference
<1>2. SumFunctionOnSet(f, S \ T) = 0 /\ SumFunctionOnSet(f, T) \in Int
  BY <1>1, SumZero, SumType
<1>3. \A x \in T \cup (S \ T) : f[x] \in Int
  OBVIOUS
<1>4. SumFunctionOnSet(f, T \cup (S \ T)) =
        SumFunctionOnSet(f, T) + SumFunctionOnSet(f, S \ T)
  BY <1>1, <1>3, SumUnion
<1> DEFINE Sum(U) == SumFunctionOnSet(f, U)
<1>5. Sum(S) = Sum(T) + Sum(S \ T) /\ Sum(S \ T) = 0 /\ Sum(T) \in Int
  BY <1>1, <1>2, <1>4
<1> HIDE DEF Sum
<1>6. Sum(S) = Sum(T)
  BY <1>5
<1> QED BY <1>6 DEF Sum

\* The sum over a part is the sum of what the members count in that part.
LEMMA SumWhere ==
    ASSUME NEW S, IsFiniteSet(S), NEW f, \A x \in S : f[x] \in Int, NEW T \in SUBSET S
    PROVE  SumFunctionOnSet(f, T) =
             SumFunctionOnSet([x \in S |-> IF x \in T THEN f[x] ELSE 0], S)
<1> DEFINE g == [x \in S |-> IF x \in T THEN f[x] ELSE 0]
<1>1. /\ \A x \in T : g[x] \in Int /\ g[x] = f[x] /\ f[x] \in Int
      /\ \A x \in S \ T : g[x] = 0
  OBVIOUS
<1>2. IsFiniteSet(T)
  BY FS_Subset
<1> HIDE DEF g
<1>3. SumFunctionOnSet(g, S) = SumFunctionOnSet(g, T)
  BY <1>1, SumSupport
<1>4. SumFunctionOnSet(f, T) = SumFunctionOnSet(g, T)
  BY <1>1, <1>2, SumSame
<1> QED BY <1>3, <1>4 DEF g

\* A part of weights that are not negative does not outweigh the whole.
LEMMA SumOfPart ==
    ASSUME NEW S, IsFiniteSet(S), NEW T \in SUBSET S, NEW f, \A x \in S : f[x] \in Nat
    PROVE  SumFunctionOnSet(f, T) <= SumFunctionOnSet(f, S)
<1> DEFINE F(U) == SumFunctionOnSet(f, U)
<1>1. /\ IsFiniteSet(T) /\ IsFiniteSet(S \ T) /\ T \cap (S \ T) = {}
      /\ T \cup (S \ T) = S
  BY FS_Subset, FS_Difference
<1>2. \A x \in T \cup (S \ T) : f[x] \in Int
  OBVIOUS
<1>3. F(T) \in Nat /\ F(S \ T) \in Nat
  BY <1>1, SumNat
<1>4. F(T \cup (S \ T)) = F(T) + F(S \ T)
  BY <1>1, <1>2, SumUnion
<1>5. F(S) = F(T) + F(S \ T)
  BY <1>1, <1>4
<1> HIDE DEF F
<1>6. F(T) <= F(S)
  BY <1>3, <1>5
<1> QED BY <1>6 DEF F

\* A set that is divided among others: the sums of the shares sum up to the sum.
LEMMA SumOfShares ==
    ASSUME NEW S, IsFiniteSet(S), NEW T, IsFiniteSet(T), NEW f, \A x \in T : f[x] \in Int,
           NEW h \in [T -> S]
    PROVE  SumFunctionOnSet([s \in S |-> SumFunctionOnSet(f, {x \in T : h[x] = s})], S)
             = SumFunctionOnSet(f, T)
<1> DEFINE F(X) == SumFunctionOnSet(f, X)
           g == [s \in S |-> F({x \in T : h[x] = s})]
           G(V) == SumFunctionOnSet(g, V)
           Part(V) == {x \in T : h[x] \in V}
           Bad == {V \in SUBSET S : G(V) # F(Part(V))}
<1>1. \A X \in SUBSET T : IsFiniteSet(X) /\ F(X) \in Int
  <2> TAKE X \in SUBSET T
  <2>1. IsFiniteSet(X) /\ \A x \in X : f[x] \in Int
    BY FS_Subset
  <2> QED BY <2>1, SumType
<1>2. \A s \in S : g[s] \in Int /\ g[s] = F({x \in T : h[x] = s})
  BY <1>1
<1>3. Bad = {}
  <2> SUFFICES ASSUME Bad # {} PROVE FALSE
    OBVIOUS
  <2>1. PICK V \in Bad : \A W \in Bad : W \subseteq V => W = V
    <3>1. Bad \in SUBSET SUBSET S
      OBVIOUS
    <3> HIDE DEF Bad
    <3> QED BY <3>1, LeastSubset
  <2>2. V \in SUBSET S /\ G(V) # F(Part(V))
    BY <2>1
  <2>3. V # {}
    <3>1. Part({}) = {}
      OBVIOUS
    <3>2. G({}) = 0 /\ F({}) = 0
      BY SumEmpty
    <3> HIDE DEF F, G, Part
    <3> QED BY <2>2, <3>1, <3>2
  <2>4. PICK s \in V : TRUE
    BY <2>3
  <2> DEFINE W == V \ {s}
             Share == {x \in T : h[x] = s}
  <2>5. W \in SUBSET S /\ G(W) = F(Part(W))
    BY <2>1, <2>2, <2>4
  <2>6. G(V) = g[s] + G(W) /\ G(W) \in Int
    <3>1. \A x \in S : g[x] \in Int
      BY <1>2
    <3> HIDE DEF g
    <3>2. SumFunctionOnSet(g, V) = g[s] + SumFunctionOnSet(g, W)
      BY <2>2, <2>4, <3>1, SumOfSubset
    <3>3. SumFunctionOnSet(g, W) \in Int
      BY <2>5, <3>1, SumOfSubset
    <3> QED BY <3>2, <3>3
  <2>7. /\ Share \in SUBSET T /\ Part(W) \in SUBSET T /\ Share \cap Part(W) = {}
        /\ Share \cup Part(W) = Part(V)
    BY <2>4
  <2>8. F(Share \cup Part(W)) = F(Share) + F(Part(W))
    <3>1. \A x \in Share \cup Part(W) : f[x] \in Int
      BY <2>7
    <3>2. IsFiniteSet(Share) /\ IsFiniteSet(Part(W))
      BY <1>1, <2>7
    <3> HIDE DEF Share, Part, W
    <3> QED BY <2>7, <3>1, <3>2, SumUnion
  <2>9. g[s] = F(Share)
    BY <1>2, <2>2, <2>4
  <2> HIDE DEF F, G, g, Share, Part, W
  <2> QED BY <2>2, <2>5, <2>6, <2>7, <2>8, <2>9
<1>4. G(S) = F(Part(S))
  BY <1>3
<1>5. Part(S) = T
  OBVIOUS
<1>6. G(S) = F(T)
  <2> HIDE DEF G, F, Part
  <2> QED BY <1>4, <1>5
<1> QED BY <1>6

=============================================================================
