------------------------------ MODULE SumFacts ------------------------------
(***************************************************************************)
(* Facts about the sums the models are built from: SumFunctionOnSet(f, S), *)
(* the sum of f over the finite set S.  It is defined by recursion over    *)
(* the subsets of S, taking one element after the other; the proofs are by *)
(* least counterexample in the size of a set.                              *)
(***************************************************************************)
EXTENDS Integers, FiniteSets, Functions, FiniteSetTheorems, WellFoundedInduction, TLAPS

LEMMA LeastNumber ==
  ASSUME NEW T \in SUBSET Nat, T # {}
  PROVE  \E m \in T : \A k \in T : m <= k
<1>1. \E m \in T : \A k \in T : ~ (<<k, m>> \in OpToRel(<, Nat))
  BY WFMin, NatLessThanWellFounded
<1>2. PICK m \in T : \A k \in T : ~ (<<k, m>> \in OpToRel(<, Nat))
  BY <1>1
<1>3. ASSUME NEW k \in T PROVE m <= k
  <2>1. k \in Nat /\ m \in Nat
    OBVIOUS
  <2>2. k < m => <<k, m>> \in OpToRel(<, Nat)
    BY <2>1 DEF OpToRel
  <2>3. ~ (k < m)
    BY <1>2, <2>2, Zenon
  <2> QED
    BY <2>1, <2>3
<1> QED
  BY <1>3

-----------------------------------------------------------------------------
(* The recursion *)

PickFrom(s) == CHOOSE x \in s : TRUE

\* g sums f over every set of D, of which what is left of a set is one too.
SumRecursion(f, D, g) ==
  g = [s \in D |-> IF s = {} THEN 0 ELSE f[PickFrom(s)] + g[s \ {PickFrom(s)}]]

SmallSubsets(S, n) == {s \in SUBSET S : Cardinality(s) <= n}

\* What is left of a set after the first pick.
LEMMA RestOfSet ==
  ASSUME NEW S, IsFiniteSet(S), NEW s \in SUBSET S, s # {}
  PROVE  /\ PickFrom(s) \in s /\ s \ {PickFrom(s)} \in SUBSET S
         /\ IsFiniteSet(s) /\ Cardinality(s) \in Nat
         /\ Cardinality(s \ {PickFrom(s)}) = Cardinality(s) - 1
<1>1. PickFrom(s) \in s
  BY DEF PickFrom
<1>2. IsFiniteSet(s)
  BY FS_Subset
<1> QED
  BY <1>1, <1>2, FS_RemoveElement, FS_CardinalityType

LEMMA RecursionExists ==
  ASSUME NEW f, NEW S, IsFiniteSet(S), NEW n \in Nat
  PROVE  \E g : SumRecursion(f, SmallSubsets(S, n), g)
<1> DEFINE Bad == {k \in Nat : ~ \E g : SumRecursion(f, SmallSubsets(S, k), g)}
<1> SUFFICES ASSUME n \in Bad PROVE FALSE
  OBVIOUS
<1>1. PICK m \in Bad : \A k \in Bad : m <= k
  BY LeastNumber
<1>2. CASE m = 0
  <2> DEFINE g == [s \in SmallSubsets(S, 0) |-> 0]
  <2>1. ASSUME NEW s \in SmallSubsets(S, 0) PROVE s = {}
    <3>1. s \in SUBSET S /\ Cardinality(s) <= 0
      BY DEF SmallSubsets
    <3>2. IsFiniteSet(s) /\ Cardinality(s) \in Nat
      BY <3>1, FS_Subset, FS_CardinalityType
    <3> QED
      BY <3>1, <3>2, FS_EmptySet
  <2>2. SumRecursion(f, SmallSubsets(S, 0), g)
    BY <2>1 DEF SumRecursion
  <2> QED
    BY <1>1, <1>2, <2>2
<1>3. CASE m # 0
  <2>1. m - 1 \in Nat /\ m - 1 \notin Bad
    BY <1>1, <1>3
  <2>2. PICK g : SumRecursion(f, SmallSubsets(S, m - 1), g)
    BY <2>1
  <2> DEFINE h == [s \in SmallSubsets(S, m) |-> IF s = {} THEN 0 ELSE f[PickFrom(s)] + g[s \ {PickFrom(s)}]]
  <2>3. ASSUME NEW s \in SmallSubsets(S, m), s # {}
        PROVE  g[s \ {PickFrom(s)}] = h[s \ {PickFrom(s)}]
    <3> DEFINE r == s \ {PickFrom(s)}
    <3>1. s \in SUBSET S /\ Cardinality(s) <= m
      BY DEF SmallSubsets
    <3>2. r \in SUBSET S /\ Cardinality(r) = Cardinality(s) - 1 /\ Cardinality(s) \in Nat
      BY <2>3, <3>1, RestOfSet
    <3>3. r \in SmallSubsets(S, m - 1) /\ r \in SmallSubsets(S, m)
      BY <1>1, <3>1, <3>2 DEF SmallSubsets
    <3> HIDE DEF r
    <3>4. g[r] = IF r = {} THEN 0 ELSE f[PickFrom(r)] + g[r \ {PickFrom(r)}]
      BY <2>2, <3>3 DEF SumRecursion
    <3>5. h[r] = IF r = {} THEN 0 ELSE f[PickFrom(r)] + g[r \ {PickFrom(r)}]
      BY <3>3
    <3> QED
      BY <3>4, <3>5 DEF r
  <2>4. SumRecursion(f, SmallSubsets(S, m), h)
    <3>1. \A s \in SmallSubsets(S, m) : h[s] = IF s = {} THEN 0 ELSE f[PickFrom(s)] + h[s \ {PickFrom(s)}]
      BY <2>3
    <3>2. h = [s \in SmallSubsets(S, m) |-> h[s]]
      OBVIOUS
    <3> HIDE DEF h
    <3>3. [s \in SmallSubsets(S, m) |-> h[s]]
            = [s \in SmallSubsets(S, m) |-> IF s = {} THEN 0 ELSE f[PickFrom(s)] + h[s \ {PickFrom(s)}]]
      BY <3>1
    <3> QED
      BY <3>2, <3>3 DEF SumRecursion
  <2> QED
    BY <1>1, <2>4
<1> QED
  BY <1>2, <1>3

\* The sum is what the recursion computes.
LEMMA SumComputed ==
  ASSUME NEW f, NEW S, IsFiniteSet(S)
  PROVE  \E g : SumRecursion(f, SUBSET S, g) /\ SumFunctionOnSet(f, S) = g[S]
<1>1. \E g : SumRecursion(f, SUBSET S, g)
  <2>1. Cardinality(S) \in Nat
    BY FS_CardinalityType
  <2>2. SmallSubsets(S, Cardinality(S)) = SUBSET S
    BY FS_Subset DEF SmallSubsets
  <2>3. \E g : SumRecursion(f, SmallSubsets(S, Cardinality(S)), g)
    BY <2>1, RecursionExists
  <2> QED
    BY <2>2, <2>3, Zenon
<1> DEFINE G == CHOOSE g : SumRecursion(f, SUBSET S, g)
<1>2. SumRecursion(f, SUBSET S, G)
  BY <1>1
<1>3. SumFunctionOnSet(f, S) = G[S]
  BY Zenon DEF SumFunctionOnSet, FoldFunctionOnSet, MapThenFoldSet, SumRecursion, PickFrom
<1> QED
  BY <1>2, <1>3

\* Two such functions agree on the sets they have in common.
LEMMA SumUnique ==
  ASSUME NEW f, NEW S, IsFiniteSet(S), NEW T \in SUBSET S, NEW g, NEW h,
         SumRecursion(f, SUBSET S, g), SumRecursion(f, SUBSET T, h)
  PROVE  g[T] = h[T]
<1> DEFINE Bad == {k \in Nat : \E s \in SUBSET T : Cardinality(s) = k /\ g[s] # h[s]}
<1>1. ASSUME NEW s \in SUBSET T, g[s] # h[s]
      PROVE  Cardinality(s) \in Bad
  <2>1. Cardinality(s) \in Nat
    BY FS_Subset, FS_CardinalityType
  <2> QED
    BY <1>1, <2>1
<1> SUFFICES ASSUME Bad # {} PROVE FALSE
  <2>1. g[T] # h[T] => Bad # {}
    BY <1>1
  <2> QED
    BY <2>1
<1>2. PICK m \in Bad : \A k \in Bad : m <= k
  BY LeastNumber
<1>3. PICK s \in SUBSET T : Cardinality(s) = m /\ g[s] # h[s]
  BY <1>2
<1>4. s \in SUBSET S /\ IsFiniteSet(T)
  BY FS_Subset
<1>5. /\ g[s] = IF s = {} THEN 0 ELSE f[PickFrom(s)] + g[s \ {PickFrom(s)}]
      /\ h[s] = IF s = {} THEN 0 ELSE f[PickFrom(s)] + h[s \ {PickFrom(s)}]
  BY <1>4 DEF SumRecursion
<1>6. s # {}
  BY <1>3, <1>5
<1> DEFINE r == s \ {PickFrom(s)}
<1>7. r \in SUBSET T /\ Cardinality(r) = m - 1
  BY <1>3, <1>4, <1>6, RestOfSet
<1>8. g[r] # h[r]
  BY <1>3, <1>5, <1>6
<1>9. m - 1 \in Bad
  BY <1>1, <1>7, <1>8
<1> QED
  BY <1>2, <1>9

-----------------------------------------------------------------------------
(* What the sums satisfy *)

LEMMA SumEmpty ==
  ASSUME NEW f
  PROVE  SumFunctionOnSet(f, {}) = 0
<1>1. PICK g : SumRecursion(f, SUBSET {}, g) /\ SumFunctionOnSet(f, {}) = g[{}]
  BY SumComputed, FS_EmptySet
<1> QED
  BY <1>1 DEF SumRecursion

LEMMA SumPick ==
  ASSUME NEW f, NEW S, IsFiniteSet(S), S # {}
  PROVE  SumFunctionOnSet(f, S) = f[PickFrom(S)] + SumFunctionOnSet(f, S \ {PickFrom(S)})
<1>0. PICK T : T = S \ {PickFrom(S)}
  OBVIOUS
<1>1. T \in SUBSET S /\ IsFiniteSet(T)
  BY <1>0, FS_Subset
<1>2. PICK g : SumRecursion(f, SUBSET S, g) /\ SumFunctionOnSet(f, S) = g[S]
  BY SumComputed
<1>3. PICK h : SumRecursion(f, SUBSET T, h) /\ SumFunctionOnSet(f, T) = h[T]
  BY <1>1, SumComputed
<1>4. g[T] = h[T]
  BY <1>1, <1>2, <1>3, SumUnique
<1>5. g[S] = f[PickFrom(S)] + g[T]
  BY <1>0, <1>2 DEF SumRecursion
<1> QED
  BY <1>0, <1>2, <1>3, <1>4, <1>5, Zenon

\* Induction over the subsets of a finite set, for a set A of them.
LEMMA SubsetInduction ==
  ASSUME NEW S, IsFiniteSet(S), NEW A, {} \in A,
         \A s \in SUBSET S : s # {} /\ (\A x \in s : s \ {x} \in A) => s \in A
  PROVE  \A s \in SUBSET S : s \in A
<1> DEFINE Bad == {k \in Nat : \E s \in SUBSET S : Cardinality(s) = k /\ s \notin A}
<1>1. ASSUME NEW s \in SUBSET S, s \notin A
      PROVE  Cardinality(s) \in Bad
  <2>1. Cardinality(s) \in Nat
    BY FS_Subset, FS_CardinalityType
  <2> QED
    BY <1>1, <2>1
<1> SUFFICES ASSUME Bad # {} PROVE FALSE
  BY <1>1
<1>2. PICK m \in Bad : \A k \in Bad : m <= k
  BY LeastNumber
<1>3. PICK s \in SUBSET S : Cardinality(s) = m /\ s \notin A
  BY <1>2
<1>4. PICK x \in s : s \ {x} \notin A
  BY <1>3
<1>5. IsFiniteSet(s)
  BY FS_Subset
<1>6. Cardinality(s \ {x}) = m - 1
  BY <1>3, <1>4, <1>5, FS_RemoveElement
<1>7. m - 1 \in Bad
  BY <1>1, <1>4, <1>6
<1> QED
  BY <1>2, <1>7

\* A function of numbers has a greatest value on a finite set.
LEMMA GreatestValue ==
  ASSUME NEW f, NEW S, IsFiniteSet(S), S # {}, \A x \in S : f[x] \in Int
  PROVE  \E a \in S : \A x \in S : f[x] <= f[a]
<1> DEFINE A == {s \in SUBSET S : s # {} => \E a \in s : \A x \in s : f[x] <= f[a]}
<1>1. {} \in A
  OBVIOUS
<1>2. ASSUME NEW s \in SUBSET S, s # {}, \A x \in s : s \ {x} \in A
      PROVE  s \in A
  <2>1. PICK b \in s : TRUE
    BY <1>2
  <2>2. CASE s \ {b} = {}
    <3>1. \A x \in s : x = b
      BY <2>2
    <3>2. f[b] <= f[b]
      BY <2>1
    <3> QED
      BY <2>1, <3>1, <3>2
  <2>3. CASE s \ {b} # {}
    <3>1. PICK a \in s \ {b} : \A x \in s \ {b} : f[x] <= f[a]
      BY <1>2, <2>1, <2>3
    <3>2. \A x \in s : x = b \/ f[x] <= f[a]
      BY <3>1
    <3>3. CASE f[b] <= f[a]
      BY <3>1, <3>2, <3>3
    <3>4. CASE f[a] <= f[b]
      <4>1. \A x \in s : f[x] <= f[b]
        BY <2>1, <3>1, <3>2, <3>4
      <4> QED
        BY <2>1, <4>1
    <3>5. f[a] \in Int /\ f[b] \in Int
      BY <2>1
    <3> QED
      BY <3>3, <3>4, <3>5
  <2> QED
    BY <2>2, <2>3
<1>3. \A s \in SUBSET S : s \in A
  <2> HIDE DEF A
  <2> QED
    BY <1>1, <1>2, SubsetInduction
<1> QED
  BY <1>3

LEMMA GreatestNumber ==
  ASSUME NEW T \in SUBSET Int, IsFiniteSet(T), T # {}
  PROVE  \E m \in T : \A k \in T : k <= m
<1> DEFINE f == [k \in T |-> k]
<1>1. \E a \in T : \A k \in T : f[k] <= f[a]
  <2>1. \A k \in T : f[k] \in Int
    OBVIOUS
  <2> HIDE DEF f
  <2> QED
    BY <2>1, GreatestValue
<1> QED
  BY <1>1

\* Sums of integers are integers, sums of natural numbers are natural numbers.
LEMMA SumInt ==
  ASSUME NEW f, NEW S, IsFiniteSet(S), \A x \in S : f[x] \in Int
  PROVE  SumFunctionOnSet(f, S) \in Int
<1> DEFINE A == {s \in SUBSET S : SumFunctionOnSet(f, s) \in Int}
<1>1. {} \in A
  BY SumEmpty
<1>2. ASSUME NEW s \in SUBSET S, s # {}, \A x \in s : s \ {x} \in A
      PROVE  s \in A
  <2>1. IsFiniteSet(s) /\ PickFrom(s) \in s
    BY <1>2, RestOfSet
  <2>2. SumFunctionOnSet(f, s) = f[PickFrom(s)] + SumFunctionOnSet(f, s \ {PickFrom(s)})
    BY <1>2, <2>1, SumPick
  <2>3. SumFunctionOnSet(f, s \ {PickFrom(s)}) \in Int
    BY <1>2, <2>1
  <2>4. f[PickFrom(s)] \in Int
    BY <2>1
  <2> QED
    BY <2>2, <2>3, <2>4
<1> HIDE DEF A
<1>3. \A s \in SUBSET S : s \in A
  BY <1>1, <1>2, SubsetInduction
<1>4. S \in A
  BY <1>3
<1> QED
  BY <1>4 DEF A

LEMMA SumNat ==
  ASSUME NEW f, NEW S, IsFiniteSet(S), \A x \in S : f[x] \in Nat
  PROVE  SumFunctionOnSet(f, S) \in Nat
<1> DEFINE A == {s \in SUBSET S : SumFunctionOnSet(f, s) \in Nat}
<1>1. {} \in A
  BY SumEmpty
<1>2. ASSUME NEW s \in SUBSET S, s # {}, \A x \in s : s \ {x} \in A
      PROVE  s \in A
  <2>1. IsFiniteSet(s) /\ PickFrom(s) \in s
    BY <1>2, RestOfSet
  <2>2. SumFunctionOnSet(f, s) = f[PickFrom(s)] + SumFunctionOnSet(f, s \ {PickFrom(s)})
    BY <1>2, <2>1, SumPick
  <2>3. SumFunctionOnSet(f, s \ {PickFrom(s)}) \in Nat
    BY <1>2, <2>1
  <2>4. f[PickFrom(s)] \in Nat
    BY <2>1
  <2> QED
    BY <2>2, <2>3, <2>4
<1> HIDE DEF A
<1>3. \A s \in SUBSET S : s \in A
  BY <1>1, <1>2, SubsetInduction
<1>4. S \in A
  BY <1>3
<1> QED
  BY <1>4 DEF A

\* Whichever element is taken first.
LEMMA SumTake ==
  ASSUME NEW f, NEW S, IsFiniteSet(S), \A x \in S : f[x] \in Int, NEW a \in S
  PROVE  SumFunctionOnSet(f, S) = f[a] + SumFunctionOnSet(f, S \ {a})
<1> DEFINE A == {s \in SUBSET S : \A x \in s :
                   SumFunctionOnSet(f, s) = f[x] + SumFunctionOnSet(f, s \ {x})}
<1>1. {} \in A
  OBVIOUS
<1>2. ASSUME NEW s \in SUBSET S, s # {}, \A x \in s : s \ {x} \in A
      PROVE  s \in A
  <2> SUFFICES ASSUME NEW x \in s
               PROVE  SumFunctionOnSet(f, s) = f[x] + SumFunctionOnSet(f, s \ {x})
    OBVIOUS
  <2> DEFINE p == PickFrom(s)
  <2>1. IsFiniteSet(s) /\ p \in s
    BY <1>2, RestOfSet
  <2>2. SumFunctionOnSet(f, s) = f[p] + SumFunctionOnSet(f, s \ {p})
    BY <1>2, <2>1, SumPick
  <2>3. CASE x = p
    BY <2>2, <2>3
  <2>4. CASE x # p
    <3> DEFINE r == (s \ {p}) \ {x}
    <3> HIDE DEF p
    <3>1. SumFunctionOnSet(f, s \ {p}) = f[x] + SumFunctionOnSet(f, r)
      BY <1>2, <2>1, <2>4
    <3>2. r = (s \ {x}) \ {p}
      OBVIOUS
    <3>3. SumFunctionOnSet(f, s \ {x}) = f[p] + SumFunctionOnSet(f, (s \ {x}) \ {p})
      BY <1>2, <2>1, <2>4
    <3>4. IsFiniteSet(r) /\ r \subseteq S
      BY <2>1, FS_Subset
    <3>5. SumFunctionOnSet(f, r) \in Int
      BY <3>4, SumInt
    <3>6. f[x] \in Int /\ f[p] \in Int
      BY <2>1
    <3> DEFINE w == SumFunctionOnSet(f, r)
    <3>7. /\ SumFunctionOnSet(f, s \ {p}) = f[x] + w
          /\ SumFunctionOnSet(f, s \ {x}) = f[p] + w /\ w \in Int
      BY <3>1, <3>2, <3>3, <3>5
    <3> HIDE DEF w, r
    <3> QED
      BY <2>2, <3>6, <3>7
  <2> QED
    BY <2>3, <2>4
<1> HIDE DEF A
<1>3. \A s \in SUBSET S : s \in A
  BY <1>1, <1>2, SubsetInduction
<1>4. S \in A
  BY <1>3
<1> QED
  BY <1>4 DEF A

\* A sum depends on the values over its set only.
LEMMA SumEqual ==
  ASSUME NEW f, NEW g, NEW S, IsFiniteSet(S), \A x \in S : f[x] = g[x]
  PROVE  SumFunctionOnSet(f, S) = SumFunctionOnSet(g, S)
<1> DEFINE A == {s \in SUBSET S : SumFunctionOnSet(f, s) = SumFunctionOnSet(g, s)}
<1>1. {} \in A
  BY SumEmpty
<1>2. ASSUME NEW s \in SUBSET S, s # {}, \A x \in s : s \ {x} \in A
      PROVE  s \in A
  <2>1. IsFiniteSet(s) /\ PickFrom(s) \in s
    BY <1>2, RestOfSet
  <2>2. /\ SumFunctionOnSet(f, s) = f[PickFrom(s)] + SumFunctionOnSet(f, s \ {PickFrom(s)})
        /\ SumFunctionOnSet(g, s) = g[PickFrom(s)] + SumFunctionOnSet(g, s \ {PickFrom(s)})
    BY <1>2, <2>1, SumPick
  <2>3. f[PickFrom(s)] = g[PickFrom(s)]
    BY <2>1
  <2>4. SumFunctionOnSet(f, s \ {PickFrom(s)}) = SumFunctionOnSet(g, s \ {PickFrom(s)})
    BY <1>2, <2>1
  <2> QED
    BY <2>2, <2>3, <2>4
<1> HIDE DEF A
<1>3. \A s \in SUBSET S : s \in A
  BY <1>1, <1>2, SubsetInduction
<1>4. S \in A
  BY <1>3
<1> QED
  BY <1>4 DEF A

\* Nothing to add.
LEMMA SumZero ==
  ASSUME NEW f, NEW S, IsFiniteSet(S), \A x \in S : f[x] = 0
  PROVE  SumFunctionOnSet(f, S) = 0
<1> DEFINE A == {s \in SUBSET S : SumFunctionOnSet(f, s) = 0}
<1>1. {} \in A
  BY SumEmpty
<1>2. ASSUME NEW s \in SUBSET S, s # {}, \A x \in s : s \ {x} \in A
      PROVE  s \in A
  <2>1. IsFiniteSet(s) /\ PickFrom(s) \in s
    BY <1>2, RestOfSet
  <2>2. SumFunctionOnSet(f, s) = f[PickFrom(s)] + SumFunctionOnSet(f, s \ {PickFrom(s)})
    BY <1>2, <2>1, SumPick
  <2>3. f[PickFrom(s)] = 0 /\ SumFunctionOnSet(f, s \ {PickFrom(s)}) = 0
    BY <1>2, <2>1
  <2> QED
    BY <2>2, <2>3
<1> HIDE DEF A
<1>3. \A s \in SUBSET S : s \in A
  BY <1>1, <1>2, SubsetInduction
<1>4. S \in A
  BY <1>3
<1> QED
  BY <1>4 DEF A

\* One value changes.
LEMMA SumUpdate ==
  ASSUME NEW f, NEW g, NEW S, IsFiniteSet(S), NEW a \in S,
         \A x \in S : f[x] \in Int /\ g[x] \in Int, \A x \in S \ {a} : g[x] = f[x]
  PROVE  SumFunctionOnSet(g, S) = SumFunctionOnSet(f, S) - f[a] + g[a]
<1>1. IsFiniteSet(S \ {a})
  BY FS_Subset
<1>2. SumFunctionOnSet(f, S \ {a}) = SumFunctionOnSet(g, S \ {a})
  BY <1>1, SumEqual
<1>3. SumFunctionOnSet(f, S \ {a}) \in Int
  BY <1>1, SumInt
<1>4. SumFunctionOnSet(f, S) = f[a] + SumFunctionOnSet(f, S \ {a})
  BY SumTake
<1>5. SumFunctionOnSet(g, S) = g[a] + SumFunctionOnSet(g, S \ {a})
  BY SumTake
<1> QED
  BY <1>2, <1>3, <1>4, <1>5

\* Larger values, larger sum.
LEMMA SumMonotone ==
  ASSUME NEW f, NEW g, NEW S, IsFiniteSet(S),
         \A x \in S : f[x] \in Int /\ g[x] \in Int /\ f[x] <= g[x]
  PROVE  SumFunctionOnSet(f, S) <= SumFunctionOnSet(g, S)
<1> DEFINE A == {s \in SUBSET S : SumFunctionOnSet(f, s) <= SumFunctionOnSet(g, s)}
<1>1. {} \in A
  BY SumEmpty
<1>2. ASSUME NEW s \in SUBSET S, s # {}, \A x \in s : s \ {x} \in A
      PROVE  s \in A
  <2> DEFINE r == s \ {PickFrom(s)}
  <2>1. IsFiniteSet(s) /\ PickFrom(s) \in s /\ IsFiniteSet(r)
    BY <1>2, RestOfSet, FS_Subset
  <2>2. /\ SumFunctionOnSet(f, s) = f[PickFrom(s)] + SumFunctionOnSet(f, r)
        /\ SumFunctionOnSet(g, s) = g[PickFrom(s)] + SumFunctionOnSet(g, r)
    BY <1>2, <2>1, SumPick
  <2>3. f[PickFrom(s)] \in Int /\ g[PickFrom(s)] \in Int /\ f[PickFrom(s)] <= g[PickFrom(s)]
    BY <2>1
  <2>4. SumFunctionOnSet(f, r) <= SumFunctionOnSet(g, r)
    BY <1>2, <2>1
  <2>5. SumFunctionOnSet(f, r) \in Int /\ SumFunctionOnSet(g, r) \in Int
    BY <2>1, SumInt
  <2> HIDE DEF r
  <2> QED
    BY <2>2, <2>3, <2>4, <2>5
<1> HIDE DEF A
<1>3. \A s \in SUBSET S : s \in A
  BY <1>1, <1>2, SubsetInduction
<1>4. S \in A
  BY <1>3
<1> QED
  BY <1>4 DEF A

\* More elements, larger sum.
LEMMA SumSubset ==
  ASSUME NEW f, NEW S, IsFiniteSet(S), \A x \in S : f[x] \in Nat, NEW T \in SUBSET S
  PROVE  SumFunctionOnSet(f, T) <= SumFunctionOnSet(f, S)
<1> DEFINE A == {s \in SUBSET S : T \subseteq s => SumFunctionOnSet(f, T) <= SumFunctionOnSet(f, s)}
<1>1. {} \in A
  BY SumEmpty
<1>2. ASSUME NEW s \in SUBSET S, s # {}, \A x \in s : s \ {x} \in A
      PROVE  s \in A
  <2> SUFFICES ASSUME T \subseteq s PROVE SumFunctionOnSet(f, T) <= SumFunctionOnSet(f, s)
    OBVIOUS
  <2>1. IsFiniteSet(s) /\ IsFiniteSet(T)
    BY FS_Subset
  <2>2. CASE T = s
    BY <2>1, <2>2, SumNat
  <2>3. CASE T # s
    <3>1. PICK x \in s : x \notin T
      BY <2>3
    <3> DEFINE r == s \ {x}
    <3>2. SumFunctionOnSet(f, T) <= SumFunctionOnSet(f, r)
      BY <1>2, <3>1
    <3>3. SumFunctionOnSet(f, s) = f[x] + SumFunctionOnSet(f, r)
      BY <2>1, SumTake
    <3>4. IsFiniteSet(r)
      BY <2>1, FS_Subset
    <3>5. SumFunctionOnSet(f, r) \in Nat /\ SumFunctionOnSet(f, T) \in Nat /\ f[x] \in Nat
      BY <2>1, <3>4, SumNat
    <3> HIDE DEF r
    <3> QED
      BY <3>2, <3>3, <3>5
  <2> QED
    BY <2>2, <2>3
<1> HIDE DEF A
<1>3. \A s \in SUBSET S : s \in A
  BY <1>1, <1>2, SubsetInduction
<1>4. S \in A
  BY <1>3
<1> QED
  BY <1>4 DEF A

\* A sum of natural numbers is zero only when each of them is.
LEMMA SumOfNothing ==
  ASSUME NEW f, NEW S, IsFiniteSet(S), \A x \in S : f[x] \in Nat, SumFunctionOnSet(f, S) = 0, NEW a \in S
  PROVE  f[a] = 0
<1>1. \A x \in S : f[x] \in Int
  OBVIOUS
<1>2. SumFunctionOnSet(f, S) = f[a] + SumFunctionOnSet(f, S \ {a})
  BY <1>1, SumTake
<1>3. IsFiniteSet(S \ {a})
  BY FS_Subset
<1>4. SumFunctionOnSet(f, S \ {a}) \in Nat
  BY <1>3, SumNat
<1> QED
  BY <1>2, <1>4
=============================================================================
