---------------------------- MODULE LibraryLemmas ---------------------------
(***************************************************************************)
(* What the operators of the community modules return, for the proofs of   *)
(* this project: sums over finite sets, and least and greatest elements.   *)
(*                                                                         *)
(* SumFunctionOnSet is defined by a recursion that takes the elements of   *)
(* a set in an order of its own; what follows shows that the order is of   *)
(* no importance, so that an element can be put into a sum or taken out of *)
(* it.  Induction is by a minimal counterexample among the subsets of a    *)
(* finite set.                                                             *)
(***************************************************************************)
EXTENDS Integers, FiniteSets, Functions, FiniteSetsExt, FiniteSetTheorems, SequenceTheorems,
        WellFoundedInduction, TLAPS

\* The element the recursion takes first.
Pick(s) == CHOOSE x \in s : TRUE

\* The recursion, as an equation for the function of partial sums.
PartialSums(f, S, g) ==
  g = [s \in SUBSET S |-> IF s = {} THEN 0 ELSE f[Pick(s)] + g[s \ {Pick(s)}]]

\* What it takes is in the set.
LEMMA PickIsIn == ASSUME NEW s, s # {} PROVE Pick(s) \in s
BY DEF Pick

\* The sum is the value of the recursion at the whole set.
LEMMA SumIsChoice ==
  ASSUME NEW f, NEW S
  PROVE  SumFunctionOnSet(f, S) = (CHOOSE g : PartialSums(f, S, g))[S]
BY DEF SumFunctionOnSet, FoldFunctionOnSet, MapThenFoldSet, PartialSums, Pick

\* A set of subsets of a finite set has a minimal member.
LEMMA MinimalSubset ==
  ASSUME NEW S, IsFiniteSet(S), NEW Bad \in SUBSET (SUBSET S), Bad # {}
  PROVE  \E T \in Bad : \A U \in SUBSET T : U # T => U \notin Bad
<1>1. IsWellFoundedOn(StrictSubsetOrdering(S), SUBSET S)
  BY FS_StrictSubsetOrderingWellFounded, FS_FiniteSubsetsOfFinite
<1>2. PICK T \in Bad : \A U \in Bad : ~(<<U, T>> \in StrictSubsetOrdering(S))
  BY <1>1, WFMin
<1>3. ASSUME NEW U \in SUBSET T, U # T, U \in Bad PROVE FALSE
  BY <1>2, <1>3 DEF StrictSubsetOrdering
<1> QED
  BY <1>3

\* The equation has one solution.
LEMMA PartialSumsUnique ==
  ASSUME NEW f, NEW S, IsFiniteSet(S), NEW g, NEW h,
         PartialSums(f, S, g), PartialSums(f, S, h)
  PROVE  \A s \in SUBSET S : g[s] = h[s]
<1> DEFINE Bad == {s \in SUBSET S : g[s] # h[s]}
<1>1. SUFFICES ASSUME Bad # {} PROVE FALSE
  OBVIOUS
<1>2. PICK T \in Bad : \A U \in SUBSET T : U # T => U \notin Bad
  <2>1. Bad \in SUBSET (SUBSET S)
    OBVIOUS
  <2> HIDE DEF Bad
  <2> QED
    BY <1>1, <2>1, MinimalSubset
<1>3. T \in SUBSET S /\ g[T] # h[T]
  BY <1>2
<1>4. \A k : PartialSums(f, S, k) =>
         k[T] = IF T = {} THEN 0 ELSE f[Pick(T)] + k[T \ {Pick(T)}]
  BY <1>3 DEF PartialSums
<1>5. CASE T = {}
  BY <1>3, <1>4, <1>5
<1>6. CASE T # {}
  <2>1. T \ {Pick(T)} \in SUBSET T /\ T \ {Pick(T)} # T
    BY <1>6, PickIsIn
  <2>2. g[T \ {Pick(T)}] = h[T \ {Pick(T)}]
    BY <2>1, <1>2, <1>3
  <2> QED
    BY <1>3, <1>4, <1>6, <2>2
<1> QED
  BY <1>5, <1>6

\* A sum is its first element and the sum of the others.
LEMMA SumUnfold ==
  ASSUME NEW f, NEW S, IsFiniteSet(S)
  PROVE  SumFunctionOnSet(f, S) =
           IF S = {} THEN 0 ELSE f[Pick(S)] + SumFunctionOnSet(f, S \ {Pick(S)})
<1> DEFINE Unfolded(s) == IF s = {} THEN 0 ELSE f[Pick(s)] + SumFunctionOnSet(f, s \ {Pick(s)})
           Bad == {s \in SUBSET S : SumFunctionOnSet(f, s) # Unfolded(s)}
<1>1. SUFFICES ASSUME Bad # {} PROVE FALSE
  BY DEF Bad
<1>2. PICK T \in Bad : \A U \in SUBSET T : U # T => U \notin Bad
  <2>1. Bad \in SUBSET (SUBSET S)
    OBVIOUS
  <2> HIDE DEF Bad
  <2> QED
    BY <1>1, <2>1, MinimalSubset
<1>3. T \in SUBSET S /\ IsFiniteSet(T) /\ SumFunctionOnSet(f, T) # Unfolded(T)
  BY <1>2, FS_Subset DEF Bad
<1>4. \A U \in SUBSET T : U # T => SumFunctionOnSet(f, U) = Unfolded(U)
  BY <1>2, <1>3 DEF Bad
<1> DEFINE h == [s \in SUBSET T |-> Unfolded(s)]
<1>5. PartialSums(f, T, h)
  <2>1. ASSUME NEW s \in SUBSET T, s # {}
        PROVE  h[s \ {Pick(s)}] = SumFunctionOnSet(f, s \ {Pick(s)})
    <3>1. s \ {Pick(s)} \in SUBSET T /\ s \ {Pick(s)} # T
      BY <2>1, PickIsIn
    <3> QED
      BY <3>1, <1>4 DEF h
  <2>2. \A s \in SUBSET T : Unfolded(s) = IF s = {} THEN 0 ELSE f[Pick(s)] + h[s \ {Pick(s)}]
    BY <2>1 DEF Unfolded
  <2> QED
    BY <2>2 DEF PartialSums, h
<1>6. PartialSums(f, T, CHOOSE g : PartialSums(f, T, g))
  <2> HIDE DEF h
  <2> QED
    BY <1>5
<1>7. (CHOOSE g : PartialSums(f, T, g))[T] = h[T]
  <2> HIDE DEF h
  <2>1. T \in SUBSET T
    OBVIOUS
  <2> QED
    BY <1>3, <1>5, <1>6, <2>1, PartialSumsUnique
<1>8. h[T] = Unfolded(T)
  BY DEF h
<1> QED
  BY <1>3, <1>7, <1>8, SumIsChoice

\* A sum of integers is an integer; one of naturals is a natural.
LEMMA SumType ==
  ASSUME NEW f, NEW S, IsFiniteSet(S), NEW N, N = Int \/ N = Nat, \A x \in S : f[x] \in N
  PROVE  SumFunctionOnSet(f, S) \in N
<1> DEFINE Bad == {s \in SUBSET S : SumFunctionOnSet(f, s) \notin N}
<1>1. SUFFICES ASSUME Bad # {} PROVE FALSE
  BY DEF Bad
<1>2. PICK T \in Bad : \A U \in SUBSET T : U # T => U \notin Bad
  <2>1. Bad \in SUBSET (SUBSET S)
    OBVIOUS
  <2> HIDE DEF Bad
  <2> QED
    BY <1>1, <2>1, MinimalSubset
<1>3. T \in SUBSET S /\ IsFiniteSet(T) /\ SumFunctionOnSet(f, T) \notin N
  BY <1>2, FS_Subset DEF Bad
<1>4. CASE T = {}
  <2>1. SumFunctionOnSet(f, T) = 0
    BY <1>3, <1>4, SumUnfold
  <2> QED
    BY <1>3, <2>1
<1>5. CASE T # {}
  <2>1. Pick(T) \in T /\ T \ {Pick(T)} \in SUBSET T /\ T \ {Pick(T)} # T
    BY <1>5, PickIsIn
  <2>2. SumFunctionOnSet(f, T \ {Pick(T)}) \in N
    BY <2>1, <1>2, <1>3 DEF Bad
  <2>3. SumFunctionOnSet(f, T) = f[Pick(T)] + SumFunctionOnSet(f, T \ {Pick(T)})
    BY <1>3, <1>5, SumUnfold
  <2>4. f[Pick(T)] \in N
    BY <2>1, <1>3
  <2> QED
    BY <2>2, <2>3, <2>4, <1>3
<1> QED
  BY <1>4, <1>5

\* Any element can be taken out of a sum.
LEMMA SumTakeOut ==
  ASSUME NEW f, NEW S, IsFiniteSet(S), \A y \in S : f[y] \in Int, NEW x \in S
  PROVE  SumFunctionOnSet(f, S) = f[x] + SumFunctionOnSet(f, S \ {x})
<1> DEFINE Splits(s) == \A y \in s : SumFunctionOnSet(f, s) = f[y] + SumFunctionOnSet(f, s \ {y})
           Bad == {s \in SUBSET S : ~Splits(s)}
<1>1. SUFFICES ASSUME Bad # {} PROVE FALSE
  BY DEF Bad
<1>2. PICK T \in Bad : \A U \in SUBSET T : U # T => U \notin Bad
  <2>1. Bad \in SUBSET (SUBSET S)
    OBVIOUS
  <2> HIDE DEF Bad
  <2> QED
    BY <1>1, <2>1, MinimalSubset
<1>3. T \in SUBSET S /\ IsFiniteSet(T) /\ ~Splits(T)
  BY <1>2, FS_Subset DEF Bad
<1>4. PICK y \in T : SumFunctionOnSet(f, T) # f[y] + SumFunctionOnSet(f, T \ {y})
  BY <1>3
<1> DEFINE p == Pick(T)
           rest == T \ {p, y}
<1>5. p \in T /\ SumFunctionOnSet(f, T) = f[p] + SumFunctionOnSet(f, T \ {p})
  BY <1>3, <1>4, PickIsIn, SumUnfold
<1>6. p # y
  BY <1>4, <1>5
<1>7. Splits(T \ {p}) /\ Splits(T \ {y})
  <2>1. T \ {p} \in SUBSET T /\ T \ {p} # T /\ T \ {y} \in SUBSET T /\ T \ {y} # T
    BY <1>5
  <2> QED
    BY <2>1, <1>2, <1>3 DEF Bad
<1>8. /\ SumFunctionOnSet(f, T \ {p}) = f[y] + SumFunctionOnSet(f, rest)
      /\ SumFunctionOnSet(f, T \ {y}) = f[p] + SumFunctionOnSet(f, rest)
  <2>1. (T \ {p}) \ {y} = rest /\ (T \ {y}) \ {p} = rest /\ y \in T \ {p} /\ p \in T \ {y}
    BY <1>5, <1>6
  <2> HIDE DEF rest, p
  <2> QED
    BY <1>7, <2>1
<1>9. SumFunctionOnSet(f, rest) \in Int /\ f[y] \in Int /\ f[p] \in Int
  <2>1. rest \in SUBSET T /\ \A z \in rest : f[z] \in Int
    BY <1>3
  <2>2. IsFiniteSet(rest)
    BY <1>3, <2>1, FS_Subset
  <2> HIDE DEF rest
  <2> QED
    BY <2>1, <2>2, SumType, <1>3, <1>4, <1>5
<1> HIDE DEF p, rest
<1> QED
  BY <1>4, <1>5, <1>8, <1>9

\* Nothing sums to zero.
LEMMA SumEmpty == ASSUME NEW f PROVE SumFunctionOnSet(f, {}) = 0
BY SumUnfold, FS_EmptySet

\* An element that is new to a set is added to its sum.
LEMMA SumPutIn ==
  ASSUME NEW f, NEW S, IsFiniteSet(S), NEW x, x \notin S, \A y \in S \union {x} : f[y] \in Int
  PROVE  SumFunctionOnSet(f, S \union {x}) = f[x] + SumFunctionOnSet(f, S)
<1>1. IsFiniteSet(S \union {x}) /\ (S \union {x}) \ {x} = S
  BY FS_AddElement
<1>2. SumFunctionOnSet(f, S \union {x}) = f[x] + SumFunctionOnSet(f, (S \union {x}) \ {x})
  BY <1>1, SumTakeOut
<1> QED
  BY <1>1, <1>2

\* A sum depends on the values that are summed, and on nothing else.
LEMMA SumSame ==
  ASSUME NEW f, NEW g, NEW S, IsFiniteSet(S), \A x \in S : f[x] = g[x]
  PROVE  SumFunctionOnSet(f, S) = SumFunctionOnSet(g, S)
<1> DEFINE Bad == {s \in SUBSET S : SumFunctionOnSet(f, s) # SumFunctionOnSet(g, s)}
<1>1. SUFFICES ASSUME Bad # {} PROVE FALSE
  BY DEF Bad
<1>2. PICK T \in Bad : \A U \in SUBSET T : U # T => U \notin Bad
  <2>1. Bad \in SUBSET (SUBSET S)
    OBVIOUS
  <2> HIDE DEF Bad
  <2> QED
    BY <1>1, <2>1, MinimalSubset
<1>3. T \in SUBSET S /\ IsFiniteSet(T) /\ SumFunctionOnSet(f, T) # SumFunctionOnSet(g, T)
  BY <1>2, FS_Subset DEF Bad
<1>4. T # {}
  BY <1>3, SumEmpty
<1>5. Pick(T) \in T /\ T \ {Pick(T)} \in SUBSET T /\ T \ {Pick(T)} # T
  BY <1>4, PickIsIn
<1>6. SumFunctionOnSet(f, T \ {Pick(T)}) = SumFunctionOnSet(g, T \ {Pick(T)})
  BY <1>5, <1>2, <1>3 DEF Bad
<1>7. /\ SumFunctionOnSet(f, T) = f[Pick(T)] + SumFunctionOnSet(f, T \ {Pick(T)})
      /\ SumFunctionOnSet(g, T) = g[Pick(T)] + SumFunctionOnSet(g, T \ {Pick(T)})
  BY <1>3, <1>4, SumUnfold
<1> QED
  BY <1>3, <1>5, <1>6, <1>7

\* Zeros sum to zero.
LEMMA SumOfZeros ==
  ASSUME NEW f, NEW S, IsFiniteSet(S), \A x \in S : f[x] = 0
  PROVE  SumFunctionOnSet(f, S) = 0
<1> DEFINE Bad == {s \in SUBSET S : SumFunctionOnSet(f, s) # 0}
<1>1. SUFFICES ASSUME Bad # {} PROVE FALSE
  BY DEF Bad
<1>2. PICK T \in Bad : \A U \in SUBSET T : U # T => U \notin Bad
  <2>1. Bad \in SUBSET (SUBSET S)
    OBVIOUS
  <2> HIDE DEF Bad
  <2> QED
    BY <1>1, <2>1, MinimalSubset
<1>3. T \in SUBSET S /\ IsFiniteSet(T) /\ SumFunctionOnSet(f, T) # 0
  BY <1>2, FS_Subset DEF Bad
<1>4. T # {}
  BY <1>3, SumEmpty
<1>5. Pick(T) \in T /\ T \ {Pick(T)} \in SUBSET T /\ T \ {Pick(T)} # T
  BY <1>4, PickIsIn
<1>6. SumFunctionOnSet(f, T \ {Pick(T)}) = 0
  BY <1>5, <1>2, <1>3 DEF Bad
<1>7. SumFunctionOnSet(f, T) = f[Pick(T)] + SumFunctionOnSet(f, T \ {Pick(T)})
  BY <1>3, <1>4, SumUnfold
<1>8. f[Pick(T)] = 0
  BY <1>3, <1>5
<1> QED
  BY <1>3, <1>6, <1>7, <1>8

\* What is zero everywhere but at one element sums to the value there.
LEMMA SumOfOne ==
  ASSUME NEW f, NEW S, IsFiniteSet(S), NEW x \in S, f[x] \in Int, \A y \in S \ {x} : f[y] = 0
  PROVE  SumFunctionOnSet(f, S) = f[x]
<1>1. SumFunctionOnSet(f, S) = f[x] + SumFunctionOnSet(f, S \ {x})
  BY SumTakeOut
<1>2. SumFunctionOnSet(f, S \ {x}) = 0
  BY FS_RemoveElement, SumOfZeros
<1> QED
  BY <1>1, <1>2

\* Elements whose value is zero add nothing.
LEMMA SumExtends ==
  ASSUME NEW f, NEW S, IsFiniteSet(S), NEW A \in SUBSET S, \A x \in S : f[x] \in Int,
         \A x \in S \ A : f[x] = 0
  PROVE  SumFunctionOnSet(f, A) = SumFunctionOnSet(f, S)
<1> DEFINE Bad == {s \in SUBSET S : A \subseteq s /\ SumFunctionOnSet(f, s) # SumFunctionOnSet(f, A)}
<1>1. SUFFICES ASSUME Bad # {} PROVE FALSE
  BY DEF Bad
<1>2. PICK T \in Bad : \A U \in SUBSET T : U # T => U \notin Bad
  <2>1. Bad \in SUBSET (SUBSET S)
    OBVIOUS
  <2> HIDE DEF Bad
  <2> QED
    BY <1>1, <2>1, MinimalSubset
<1>3. /\ T \in SUBSET S /\ IsFiniteSet(T) /\ A \subseteq T
      /\ SumFunctionOnSet(f, T) # SumFunctionOnSet(f, A)
  BY <1>2, FS_Subset DEF Bad
<1>4. PICK x \in T : x \notin A
  BY <1>3
<1>5. SumFunctionOnSet(f, T \ {x}) = SumFunctionOnSet(f, A)
  BY <1>4, <1>2, <1>3 DEF Bad
<1>6. SumFunctionOnSet(f, T) = f[x] + SumFunctionOnSet(f, T \ {x})
  BY <1>3, <1>4, SumTakeOut
<1>7. f[x] = 0 /\ SumFunctionOnSet(f, T \ {x}) \in Int
  BY <1>3, <1>4, FS_RemoveElement, SumType
<1> QED
  BY <1>3, <1>5, <1>6, <1>7

\* The sum of a sequence grows by what is appended.
LEMMA SumAppend ==
  ASSUME NEW n \in Nat, NEW f, NEW g, DOMAIN g = 1..n, DOMAIN f = 1..(n + 1),
         \A i \in 1..(n + 1) : f[i] \in Int, \A i \in 1..n : g[i] = f[i]
  PROVE  SumFunction(f) = SumFunction(g) + f[n + 1]
<1>1. IsFiniteSet(1..n) /\ n + 1 \notin 1..n /\ 1..(n + 1) = (1..n) \union {n + 1}
  <2>1. IsFiniteSet(1..n)
    BY FS_Interval
  <2>2. n + 1 \notin 1..n /\ 1..(n + 1) = (1..n) \union {n + 1}
    OBVIOUS
  <2> QED
    BY <2>1, <2>2
<1>2. \A y \in (1..n) \union {n + 1} : f[y] \in Int
  BY <1>1
<1>3. SumFunctionOnSet(f, (1..n) \union {n + 1}) = f[n + 1] + SumFunctionOnSet(f, 1..n)
  BY <1>1, <1>2, SumPutIn
<1>4. SumFunctionOnSet(f, 1..n) = SumFunctionOnSet(g, 1..n)
  BY <1>1, SumSame
<1>5. SumFunctionOnSet(f, 1..n) \in Int
  BY <1>1, SumType
<1>6. SumFunction(f) = f[n + 1] + SumFunctionOnSet(g, 1..n)
  BY <1>1, <1>3, <1>4 DEF SumFunction
<1>7. SumFunction(g) = SumFunctionOnSet(g, 1..n)
  BY DEF SumFunction
<1> QED
  BY <1>4, <1>5, <1>6, <1>7

\* When each of some numbers is rounded to tens, to within half of one, their sum is
\* within half a ten for each.
LEMMA RoundedSum ==
  ASSUME NEW f, NEW g, NEW S, IsFiniteSet(S),
         \A x \in S : f[x] \in Int /\ g[x] \in Int /\ 2 * f[x] - 20 * g[x] \in -10..10
  PROVE  /\ SumFunctionOnSet(f, S) \in Int /\ SumFunctionOnSet(g, S) \in Int
         /\ Cardinality(S) \in Nat
         /\ 2 * SumFunctionOnSet(f, S) - 20 * SumFunctionOnSet(g, S)
              \in -(10 * Cardinality(S))..(10 * Cardinality(S))
<1> DEFINE Close(T) == 2 * SumFunctionOnSet(f, T) - 20 * SumFunctionOnSet(g, T)
                        \in -(10 * Cardinality(T))..(10 * Cardinality(T))
           Bad == {T \in SUBSET S : ~Close(T)}
<1>1. \A T \in SUBSET S : /\ IsFiniteSet(T) /\ Cardinality(T) \in Nat
                          /\ SumFunctionOnSet(f, T) \in Int /\ SumFunctionOnSet(g, T) \in Int
  BY FS_Subset, FS_CardinalityType, SumType
<1>2. SUFFICES Bad = {}
  BY <1>1
<1>3. SUFFICES ASSUME Bad # {} PROVE FALSE
  OBVIOUS
<1>4. PICK T \in Bad : \A U \in SUBSET T : U # T => U \notin Bad
  <2>1. Bad \in SUBSET (SUBSET S)
    OBVIOUS
  <2> HIDE DEF Bad
  <2> QED
    BY <1>3, <2>1, MinimalSubset
<1>5. T \in SUBSET S /\ ~Close(T)
  OBVIOUS
<1>6. CASE T = {}
  <2>1. SumFunctionOnSet(f, T) = 0 /\ SumFunctionOnSet(g, T) = 0 /\ Cardinality(T) = 0
    BY <1>6, SumEmpty, FS_EmptySet
  <2> QED
    BY <1>5, <2>1
<1>7. CASE T # {}
  <2>1. PICK x \in T : TRUE
    BY <1>7
  <2> DEFINE U == T \ {x}
  <2>2. U \in SUBSET S /\ Close(U)
    BY <1>4, <1>5, <2>1
  <2>3. x \in S /\ \A y \in T : f[y] \in Int /\ g[y] \in Int
    BY <1>5
  <2>4. /\ SumFunctionOnSet(f, T) = f[x] + SumFunctionOnSet(f, U)
        /\ SumFunctionOnSet(g, T) = g[x] + SumFunctionOnSet(g, U)
    BY <1>1, <1>5, <2>3, SumTakeOut
  <2>5. Cardinality(T) = Cardinality(U) + 1
    BY <1>1, <1>5, <2>1, FS_RemoveElement
  <2>6. /\ SumFunctionOnSet(f, U) \in Int /\ SumFunctionOnSet(g, U) \in Int
        /\ Cardinality(U) \in Nat
    BY <1>1, <2>2
  <2>7. f[x] \in Int /\ g[x] \in Int /\ 2 * f[x] - 20 * g[x] \in -10..10
    BY <2>3
  <2> HIDE DEF U
  <2> QED
    BY <1>5, <2>2, <2>4, <2>5, <2>6, <2>7
<1> QED
  BY <1>6, <1>7
-----------------------------------------------------------------------------
(* Least and greatest elements. *)

LessOnNat == {ss \in Nat \X Nat : ss[1] < ss[2]}

\* A nonempty set of naturals has a least element, and Min is it.
LEMMA MinIs ==
  ASSUME NEW S \in SUBSET Nat, S # {}
  PROVE  Min(S) \in S /\ \A x \in S : Min(S) <= x
<1>1. IsWellFoundedOn(LessOnNat, S)
  <2>1. LessOnNat = OpToRel(<, Nat)
    BY DEF LessOnNat, OpToRel
  <2> QED
    BY <2>1, NatLessThanWellFounded, IsWellFoundedOnSubset
<1>2. PICK x \in S : \A y \in S : <<y, x>> \notin LessOnNat
  BY <1>1, WFMin
<1>3. ASSUME NEW y \in S PROVE x <= y
  <2>1. <<y, x>> \in Nat \X Nat /\ <<y, x>>[1] = y /\ <<y, x>>[2] = x
    OBVIOUS
  <2>2. ~(y < x)
    BY <1>2, <2>1, Zenon DEF LessOnNat
  <2> QED
    BY <2>2
<1> QED
  BY <1>3 DEF Min

\* A nonempty set of naturals below a bound has a greatest element, and Max is it.
LEMMA MaxIs ==
  ASSUME NEW n \in Nat, NEW S \in SUBSET (0..n), S # {}
  PROVE  Max(S) \in S /\ \A x \in S : x <= Max(S)
<1> DEFINE T == {n - x : x \in S}
<1>1. T \in SUBSET Nat /\ T # {}
  <2>1. \A x \in S : n - x \in Nat
    OBVIOUS
  <2> QED
    BY <2>1
<1>2. Min(T) \in T /\ \A y \in T : Min(T) <= y
  <2> HIDE DEF T
  <2> QED
    BY <1>1, MinIs
<1>3. PICK x \in S : Min(T) = n - x
  BY <1>2
<1>4. \A y \in S : y <= x
  BY <1>2, <1>3
<1> QED
  BY <1>4 DEF Max

\* The members of a set of numbers below one.
Below(S, x) == {y \in S : y < x}

\* Fewer members are below the smaller of two.
LEMMA BelowGrows ==
  ASSUME NEW S \in SUBSET Nat, IsFiniteSet(S), NEW x \in S, NEW y \in S, x < y
  PROVE  Cardinality(Below(S, x)) < Cardinality(Below(S, y))
<1>1. Below(S, x) \subseteq S /\ Below(S, y) \subseteq S /\ x \in Below(S, y) /\ x \notin Below(S, x)
  BY DEF Below
<1>2. Below(S, x) \subseteq Below(S, y)
  <2>1. ASSUME NEW z \in S, z < x PROVE z < y
    <3>1. x \in Nat /\ y \in Nat /\ z \in Nat
      OBVIOUS
    <3> QED
      BY <2>1, <3>1
  <2> QED
    BY <2>1 DEF Below
<1>3. IsFiniteSet(Below(S, y)) /\ IsFiniteSet(Below(S, x))
  BY <1>1, FS_Subset
<1>4. /\ Cardinality(Below(S, x)) <= Cardinality(Below(S, y))
      /\ Cardinality(Below(S, y)) # Cardinality(Below(S, x))
  BY <1>1, <1>2, <1>3, FS_Subset
<1> QED
  BY <1>3, <1>4, FS_CardinalityType

\* So no two members have the same number of members below them,
LEMMA RankIsUnique ==
  ASSUME NEW S \in SUBSET Nat, IsFiniteSet(S), NEW x \in S, NEW y \in S,
         Cardinality(Below(S, x)) = Cardinality(Below(S, y))
  PROVE  x = y
<1>1. IsFiniteSet(Below(S, x)) /\ IsFiniteSet(Below(S, y))
  BY FS_Subset DEF Below
<1>2. Cardinality(Below(S, x)) \in Nat /\ Cardinality(Below(S, y)) \in Nat
  BY <1>1, FS_CardinalityType
<1>3. ~(x < y) /\ ~(y < x)
  BY <1>2, BelowGrows
<1> QED
  BY <1>3

\* and by counting, every number there can be is the number of some member.
LEMMA RankExists ==
  ASSUME NEW S \in SUBSET Nat, IsFiniteSet(S), NEW n \in Nat, n < Cardinality(S)
  PROVE  \E x \in S : Cardinality(Below(S, x)) = n
<1> SUFFICES ASSUME \A x \in S : Cardinality(Below(S, x)) # n PROVE FALSE
  OBVIOUS
<1> DEFINE m == Cardinality(S) - 1
           T == (0 .. m) \ {n}
           f == [x \in S |-> Cardinality(Below(S, x))]
<1>1. Cardinality(S) \in Nat /\ m \in Nat /\ n \in 0 .. m
  BY FS_CardinalityType
<1>2. IsFiniteSet(0 .. m) /\ Cardinality(0 .. m) = m + 1
  BY <1>1, FS_Interval
<1>3. IsFiniteSet(T) /\ Cardinality(T) = m
  <2>1. IsFiniteSet(T) /\ Cardinality(T) = Cardinality(0 .. m) - 1
    BY <1>1, <1>2, FS_RemoveElement
  <2> QED
    BY <1>1, <1>2, <2>1
<1>4. ASSUME NEW x \in S PROVE f[x] \in T
  <2>1. Below(S, x) \subseteq S /\ x \notin Below(S, x)
    BY DEF Below
  <2>2. IsFiniteSet(Below(S, x)) /\ Cardinality(Below(S, x)) <= Cardinality(S)
        /\ Cardinality(Below(S, x)) # Cardinality(S)
    BY <2>1, FS_Subset
  <2>3. Cardinality(Below(S, x)) \in 0 .. m
    BY <1>1, <2>2, FS_CardinalityType
  <2> QED
    BY <2>3
<1>5. f \in [S -> T]
  BY <1>4
<1>6. Cardinality(T) < Cardinality(S)
  BY <1>1, <1>3
<1>7. PICK x, y \in S : x # y /\ f[x] = f[y]
  <2> HIDE DEF f, T
  <2> QED
    BY <1>3, <1>5, <1>6, FS_PigeonHole
<1> QED
  BY <1>7, RankIsUnique

\* What is below a member lies between the least and it.
LEMMA RankSpans ==
  ASSUME NEW S \in SUBSET Nat, IsFiniteSet(S), NEW x \in S
  PROVE  Min(S) + Cardinality(Below(S, x)) <= x
<1>1. Min(S) \in S /\ \A y \in S : Min(S) <= y
  BY MinIs
<1> DEFINE lo == Min(S)
           hi == x - 1
<1>2. Below(S, x) \subseteq lo .. hi /\ lo \in Nat /\ lo <= x /\ hi \in Int
  <2>0. x \in Nat /\ \A y \in S : y \in Nat
    OBVIOUS
  <2>3. lo \in Nat /\ lo <= x
    BY <1>1, <2>0
  <2>1. x \in Nat /\ lo \in Nat /\ lo <= x /\ hi \in Int
    BY <2>0, <2>3
  <2>2. ASSUME NEW y \in S, y < x PROVE y \in lo .. hi
    <3>1. y \in Nat /\ lo <= y
      BY <1>1
    <3> QED
      BY <2>1, <2>2, <3>1
  <2> QED
    BY <2>1, <2>2 DEF Below
<1>3. IsFiniteSet(lo .. hi) /\ Cardinality(lo .. hi) = IF lo > hi THEN 0 ELSE hi - lo + 1
  <2> HIDE DEF lo, hi
  <2> QED
    BY <1>2, FS_Interval
<1>4. Cardinality(lo .. hi) = x - lo
  BY <1>2, <1>3
<1>5. Cardinality(Below(S, x)) <= Cardinality(lo .. hi) /\ IsFiniteSet(Below(S, x))
  BY <1>2, <1>3, FS_Subset
<1>6. Cardinality(Below(S, x)) \in Nat
  BY <1>5, FS_CardinalityType
<1> QED
  BY <1>2, <1>4, <1>5, <1>6

\* The elements of a sequence are of its set, the one before the last included.
LEMMA LastButOne ==
  ASSUME NEW S, NEW s \in Seq(S), Len(s) >= 2 PROVE s[Len(s) - 1] \in S
<1>1. Len(s) - 1 \in 1 .. Len(s)
  OBVIOUS
<1> QED
  BY <1>1, ElementOfSeq
-----------------------------------------------------------------------------
(* Loops: recursive functions on the numbers up to a bound. *)

\* What holds at 0 and fails somewhere fails first at a number after which it held.
LEMMA FirstFailure ==
  ASSUME NEW n \in Nat, NEW Bad \in SUBSET (0 .. n), Bad # {}, 0 \notin Bad
  PROVE  \E k \in 1 .. n : k \in Bad /\ k - 1 \notin Bad
<1>1. Bad \in SUBSET Nat
  OBVIOUS
<1>2. Min(Bad) \in Bad /\ \A x \in Bad : Min(Bad) <= x
  BY <1>1, MinIs
<1> DEFINE k == Min(Bad)
<1>3. k \in 0 .. n /\ k # 0 /\ k \in Bad
  BY <1>2
<1>4. k - 1 \notin Bad
  <2>1. SUFFICES ASSUME k - 1 \in Bad PROVE FALSE
    OBVIOUS
  <2>2. k <= k - 1
    BY <1>2, <2>1
  <2> HIDE DEF k
  <2> QED
    BY <1>3, <2>2
<1>5. k \in 1 .. n
  <2> HIDE DEF k
  <2> QED
    BY <1>3
<1> QED
  BY <1>3, <1>4, <1>5

\* A loop over 1 .. n goes through these states.
LoopRuns(run, n, base, step) == run[0] = base /\ \A i \in 1 .. n : run[i] = step[<<run[i - 1], i>>]

\* A loop whose step stays in a set has a run.
LEMMA RunExists ==
  ASSUME NEW n \in Nat, NEW A, NEW base \in A, NEW step \in [A \X (1 .. n) -> A]
  PROVE  \E run \in [0 .. n -> A] : LoopRuns(run, n, base, step)
<1> DEFINE All(m) == {run \in [0 .. m -> A] : LoopRuns(run, m, base, step)}
           Bad == {m \in 0 .. n : All(m) = {}}
<1>1. 0 \notin Bad
  <2>1. [i \in 0 .. 0 |-> base] \in All(0)
    BY DEF LoopRuns
  <2> QED
    BY <2>1
<1>2. SUFFICES ASSUME Bad # {} PROVE FALSE
  <2>1. n \notin Bad => All(n) # {}
    OBVIOUS
  <2> QED
    BY <1>2, <2>1
<1>3. PICK k \in 1 .. n : k \in Bad /\ k - 1 \notin Bad
  <2>1. Bad \in SUBSET (0 .. n)
    OBVIOUS
  <2> HIDE DEF Bad
  <2> QED
    BY <1>1, <1>2, <2>1, FirstFailure
<1>4. k - 1 \in 0 .. n /\ All(k - 1) # {} /\ All(k) = {}
  BY <1>3
<1>5. PICK run \in [0 .. k - 1 -> A] : LoopRuns(run, k - 1, base, step)
  BY <1>4
<1> DEFINE longer == [i \in 0 .. k |-> IF i = k THEN step[<<run[k - 1], k>>] ELSE run[i]]
<1>6. run[k - 1] \in A /\ <<run[k - 1], k>> \in A \X (1 .. n) /\ step[<<run[k - 1], k>>] \in A
  BY <1>3, <1>5
<1>7. longer \in [0 .. k -> A] /\ longer[0] = base
  BY <1>3, <1>5, <1>6 DEF LoopRuns
<1>8. ASSUME NEW i \in 1 .. k PROVE longer[i] = step[<<longer[i - 1], i>>]
  <2>1. i - 1 \in 0 .. (k - 1) /\ longer[i - 1] = run[i - 1]
    OBVIOUS
  <2>2. CASE i = k
    <3>1. longer[i] = step[<<run[k - 1], k>>]
      BY <2>2
    <3> HIDE DEF longer
    <3> QED
      BY <2>1, <2>2, <3>1
  <2>3. CASE i # k
    <3>1. i \in 1 .. (k - 1)
      BY <2>3
    <3>2. longer[i] = run[i] /\ run[i] = step[<<run[i - 1], i>>]
      BY <1>5, <2>3, <3>1 DEF LoopRuns
    <3> QED
      BY <2>1, <3>2
  <2> QED
    BY <2>2, <2>3
<1>9. longer \in All(k)
  <2> HIDE DEF longer
  <2> QED
    BY <1>7, <1>8 DEF LoopRuns
<1> QED
  BY <1>4, <1>9

\* A part of a sum of naturals is no more than the sum.
LEMMA SumOfPart ==
  ASSUME NEW f, NEW S, IsFiniteSet(S), NEW A \in SUBSET S, \A x \in S : f[x] \in Nat
  PROVE  /\ SumFunctionOnSet(f, A) \in Nat /\ SumFunctionOnSet(f, S) \in Nat
         /\ SumFunctionOnSet(f, A) <= SumFunctionOnSet(f, S)
<1> DEFINE Bad == {s \in SUBSET S : A \subseteq s /\ ~(SumFunctionOnSet(f, A) <= SumFunctionOnSet(f, s))}
<1>0. IsFiniteSet(A) /\ \A s \in SUBSET S : IsFiniteSet(s) /\ SumFunctionOnSet(f, s) \in Nat
  BY FS_Subset, SumType
<1>1. SUFFICES ASSUME Bad # {} PROVE FALSE
  BY <1>0 DEF Bad
<1>2. PICK T \in Bad : \A U \in SUBSET T : U # T => U \notin Bad
  <2>1. Bad \in SUBSET (SUBSET S)
    OBVIOUS
  <2> HIDE DEF Bad
  <2> QED
    BY <1>1, <2>1, MinimalSubset
<1>3. T \in SUBSET S /\ A \subseteq T /\ ~(SumFunctionOnSet(f, A) <= SumFunctionOnSet(f, T))
  BY <1>2
<1>4. PICK x \in T : x \notin A
  BY <1>0, <1>3
<1>5. SumFunctionOnSet(f, A) <= SumFunctionOnSet(f, T \ {x})
  BY <1>2, <1>3, <1>4 DEF Bad
<1>6. SumFunctionOnSet(f, T) = f[x] + SumFunctionOnSet(f, T \ {x})
  BY <1>0, <1>3, <1>4, SumTakeOut
<1>7. f[x] \in Nat /\ SumFunctionOnSet(f, T \ {x}) \in Nat /\ SumFunctionOnSet(f, A) \in Nat
  BY <1>0, <1>3, <1>4
<1> QED
  BY <1>3, <1>5, <1>6, <1>7

\* When one of the summands changes, the sum changes by as much.
LEMMA SumChanges ==
  ASSUME NEW f, NEW g, NEW S, IsFiniteSet(S), NEW x \in S,
         \A y \in S : f[y] \in Int /\ g[y] \in Int, \A y \in S \ {x} : f[y] = g[y]
  PROVE  SumFunctionOnSet(g, S) = SumFunctionOnSet(f, S) + g[x] - f[x]
<1>1. IsFiniteSet(S \ {x})
  BY FS_RemoveElement
<1>2. SumFunctionOnSet(f, S \ {x}) = SumFunctionOnSet(g, S \ {x})
  BY <1>1, SumSame
<1>3. SumFunctionOnSet(f, S \ {x}) \in Int /\ f[x] \in Int /\ g[x] \in Int
  BY <1>1, SumType
<1>4. /\ SumFunctionOnSet(f, S) = f[x] + SumFunctionOnSet(f, S \ {x})
      /\ SumFunctionOnSet(g, S) = g[x] + SumFunctionOnSet(g, S \ {x})
  BY SumTakeOut
<1> QED
  BY <1>2, <1>3, <1>4
-----------------------------------------------------------------------------
\* What a function gives for the elements of a finite set is finite.
LEMMA FiniteImage == ASSUME NEW S, IsFiniteSet(S), NEW f PROVE IsFiniteSet({f[x] : x \in S})
<1> DEFINE g == [x \in S |-> f[x]]
<1>1. g \in Surjection(S, {f[x] : x \in S})
  BY DEF Surjection
<1> HIDE DEF g
<1> QED
  BY <1>1, FS_Surjection
=============================================================================
