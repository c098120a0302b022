--------------------------- MODULE FiniteTheorems ---------------------------
(***************************************************************************)
(* Facts about finite sets that the proofs about the models need: sums,    *)
(* ranks, and where a line that bends finitely often is lowest.            *)
(*                                                                         *)
(* SumFunctionOnSet of the community modules, the sum the models take over *)
(* legs, positions, targets and rules, is what one expects, in whatever    *)
(* order the fold takes the indices.  Each fact about all finite sets is   *)
(* proved from a least counterexample: a set for which it fails, though it *)
(* holds for the set without any one of its elements.                      *)
(*                                                                         *)
(* An element of a finite, strictly ordered set is known by its rank, the  *)
(* number of those before it: the models list the elements of a set, and   *)
(* sort, by rank.                                                          *)
(***************************************************************************)
EXTENDS Integers, Functions, FiniteSetTheorems, TLAPS

\* A non-empty collection of subsets of a finite set has a member none of
\* whose strict subsets is in it.
LEMMA LeastSubset ==
  ASSUME NEW T, IsFiniteSet(T), NEW F \in SUBSET SUBSET T, F # {}
  PROVE  \E S \in F : \A R \in F : R \subseteq S => R = S
  <1>1. F \subseteq FiniteSubsetsOf(T)
    BY FS_Subset DEF FiniteSubsetsOf
  <1>2. PICK S \in F : \A R \in F : <<R, S>> \notin StrictSubsetOrdering(T)
    BY <1>1, FS_StrictSubsetOrderingWellFounded, WFMin
  <1>3. \A R \in F : R \subseteq S => R = S
    BY <1>2 DEF StrictSubsetOrdering
  <1> QED
    BY <1>3

\* The form the proofs below use: a least counterexample, unless there is none.
LEMMA LeastCounterexample ==
  ASSUME NEW T, IsFiniteSet(T), NEW F \in SUBSET SUBSET T, F # {}
  PROVE  \E S \in F : IsFiniteSet(S) /\ \A x \in S : S \ {x} \notin F
  <1>1. PICK S \in F : \A R \in F : R \subseteq S => R = S
    BY LeastSubset
  <1>2. \A x \in S : S \ {x} \notin F
    BY <1>1
  <1> QED
    BY <1>1, <1>2, FS_Subset

-----------------------------------------------------------------------------
(***************************************************************************)
(* The fold exists.                                                        *)
(***************************************************************************)
Picked(s) == CHOOSE x \in s : TRUE

Folded(f, s, g) == IF s = {} THEN 0 ELSE f[Picked(s)] + g[s \ {Picked(s)}]

\* g is the fold of f over every subset of T.
IsFold(f, T, g) == g = [s \in SUBSET T |-> Folded(f, s, g)]

LEMMA SumIsFold ==
  ASSUME NEW f, NEW T
  PROVE  SumFunctionOnSet(f, T) = (CHOOSE g : IsFold(f, T, g))[T]
  BY DEF SumFunctionOnSet, FoldFunctionOnSet, MapThenFoldSet, IsFold, Folded, Picked

LEMMA FoldAt ==
  ASSUME NEW f, NEW T, NEW g, IsFold(f, T, g), NEW s, s \subseteq T
  PROVE  /\ s = {} => g[s] = 0
         /\ s # {} => /\ Picked(s) \in s /\ s \ {Picked(s)} \in SUBSET T
                      /\ g[s] = f[Picked(s)] + g[s \ {Picked(s)}]
  <1>1. g = [r \in SUBSET T |-> Folded(f, r, g)]
    BY DEF IsFold
  <1>2. g[s] = Folded(f, s, g)
    BY <1>1
  <1>3. s # {} => Picked(s) \in s
    BY DEF Picked
  <1> QED
    BY <1>2, <1>3 DEF Folded

LEMMA FoldsAgree ==
  ASSUME NEW f, NEW T, IsFiniteSet(T), NEW g, IsFold(f, T, g),
         NEW R, NEW h, IsFold(f, R, h), NEW s \in (SUBSET T) \cap (SUBSET R)
  PROVE  g[s] = h[s]
  <1> DEFINE F == {r \in (SUBSET T) \cap (SUBSET R) : g[r] # h[r]}
  <1>1. ASSUME F # {} PROVE FALSE
    <2>1. PICK r \in F : \A x \in r : r \ {x} \notin F
      BY <1>1, LeastCounterexample
    <2>2. CASE r = {}
      BY <2>2, FoldAt
    <2>3. CASE r # {}
      <3>0. r \subseteq T /\ r \subseteq R
        OBVIOUS
      <3>1. /\ Picked(r) \in r
            /\ g[r] = f[Picked(r)] + g[r \ {Picked(r)}]
            /\ h[r] = f[Picked(r)] + h[r \ {Picked(r)}]
        BY <2>3, <3>0, FoldAt
      <3>2. g[r \ {Picked(r)}] = h[r \ {Picked(r)}]
        BY <2>1, <3>1
      <3> QED
        BY <3>1, <3>2
    <2> QED
      BY <2>2, <2>3
  <1> QED
    BY <1>1

LEMMA FoldExists ==
  ASSUME NEW f, NEW T, IsFiniteSet(T)
  PROVE  \E g : IsFold(f, T, g)
  <1> DEFINE F == {r \in SUBSET T : ~\E g : IsFold(f, r, g)}
  <1>1. ASSUME F # {} PROVE FALSE
    <2>0. F \in SUBSET SUBSET T
      OBVIOUS
    <2>1. PICK r \in F : \A q \in F : q \subseteq r => q = r
      <3> HIDE DEF F
      <3> QED
        BY <1>1, <2>0, LeastSubset
    <2> DEFINE of(q) == CHOOSE g : IsFold(f, q, g)
               below == [q \in SUBSET r |-> of(q)[q]]
               all == [q \in SUBSET r |-> Folded(f, q, below)]
    <2>2. \A q \in SUBSET r : q # r => IsFold(f, q, of(q)) /\ IsFiniteSet(q)
      <3>1. \A q \in SUBSET r : q # r => \E g : IsFold(f, q, g)
        BY <2>1
      <3>2. \A q : (\E g : IsFold(f, q, g)) => IsFold(f, q, of(q))
        OBVIOUS
      <3>3. \A q \in SUBSET r : IsFiniteSet(q)
        BY FS_Subset
      <3> QED
        BY <3>1, <3>2, <3>3
    <2> HIDE DEF of
    <2>3. \A q \in SUBSET r : q # r => of(q)[q] = Folded(f, q, below)
      <3> SUFFICES ASSUME NEW q \in SUBSET r, q # r PROVE of(q)[q] = Folded(f, q, below)
        OBVIOUS
      <3>1. CASE q = {}
        <4>1. of(q)[q] = 0
          BY <2>2, <3>1, FoldAt
        <4> QED
          BY <3>1, <4>1 DEF Folded
      <3>2. CASE q # {}
        <4> DEFINE q1 == q \ {Picked(q)}
        <4>0. IsFold(f, q, of(q)) /\ q \subseteq q
          BY <2>2
        <4>1. Picked(q) \in q /\ of(q)[q] = f[Picked(q)] + of(q)[q1]
          BY <3>2, <4>0, FoldAt
        <4>2. q1 \in SUBSET r /\ q1 # r /\ q1 \in (SUBSET q) \cap (SUBSET q1)
          BY <4>1
        <4>3. of(q)[q1] = of(q1)[q1]
          BY <2>2, <4>2, FoldsAgree
        <4>4. below[q1] = of(q1)[q1]
          BY <4>2
        <4> QED
          BY <3>2, <4>1, <4>3, <4>4 DEF Folded
      <3> QED
        BY <3>1, <3>2
    <2>4. \A q \in SUBSET r : Folded(f, q, below) = Folded(f, q, all)
      <3> SUFFICES ASSUME NEW q \in SUBSET r, q # {} PROVE Folded(f, q, below) = Folded(f, q, all)
        BY DEF Folded
      <3>1. Picked(q) \in q
        BY DEF Picked
      <3>2. q \ {Picked(q)} \in SUBSET r /\ q \ {Picked(q)} # r
        BY <3>1
      <3>3. below[q \ {Picked(q)}] = of(q \ {Picked(q)})[q \ {Picked(q)}]
        BY <3>2
      <3>4. all[q \ {Picked(q)}] = Folded(f, q \ {Picked(q)}, below)
        BY <3>2
      <3>5. below[q \ {Picked(q)}] = all[q \ {Picked(q)}]
        BY <2>3, <3>2, <3>3, <3>4
      <3> QED
        BY <3>5 DEF Folded
    <2>5. IsFold(f, r, all)
      BY <2>4 DEF IsFold
    <2> QED
      BY <2>5
  <1> QED
    BY <1>1

\* Any index may be the one the fold picks: what is proved below does not
\* depend on which.
LEMMA SumPicked ==
  ASSUME NEW f, NEW T, IsFiniteSet(T)
  PROVE  /\ T = {} => SumFunctionOnSet(f, T) = 0
         /\ T # {} => /\ Picked(T) \in T
                      /\ SumFunctionOnSet(f, T)
                         = f[Picked(T)] + SumFunctionOnSet(f, T \ {Picked(T)})
  <1> DEFINE g == CHOOSE g : IsFold(f, T, g)
             R == T \ {Picked(T)}
             h == CHOOSE h : IsFold(f, R, h)
  <1>1. IsFold(f, T, g) /\ IsFold(f, R, h)
    <2>1. (\E e : IsFold(f, T, e)) /\ (\E e : IsFold(f, R, e))
      BY FoldExists, FS_RemoveElement
    <2> QED
      BY <2>1
  <1>2. SumFunctionOnSet(f, T) = g[T] /\ SumFunctionOnSet(f, R) = h[R]
    BY SumIsFold
  <1> HIDE DEF g, h
  <1>3. g[R] = h[R]
    BY <1>1, FoldsAgree
  <1>4. /\ T = {} => g[T] = 0
        /\ T # {} => Picked(T) \in T /\ g[T] = f[Picked(T)] + g[R]
    BY <1>1, FoldAt
  <1> QED
    BY <1>2, <1>3, <1>4

-----------------------------------------------------------------------------
(***************************************************************************)
(* Sums of integers.                                                       *)
(***************************************************************************)
Sum(f, T) == SumFunctionOnSet(f, T)

LEMMA SumEmpty == ASSUME NEW f PROVE Sum(f, {}) = 0
  BY SumPicked, FS_EmptySet DEF Sum

LEMMA SumType ==
  ASSUME NEW f, NEW T, IsFiniteSet(T), \A x \in T : f[x] \in Int
  PROVE  Sum(f, T) \in Int
  <1> DEFINE F == {S \in SUBSET T : Sum(f, S) \notin Int}
  <1>1. ASSUME F # {} PROVE FALSE
    <2>1. PICK S \in F : IsFiniteSet(S) /\ \A x \in S : S \ {x} \notin F
      BY <1>1, LeastCounterexample
    <2>2. CASE S = {}
      BY <2>1, <2>2, SumEmpty
    <2>3. CASE S # {}
      <3>1. Picked(S) \in S /\ Sum(f, S) = f[Picked(S)] + Sum(f, S \ {Picked(S)})
        BY <2>1, <2>3, SumPicked DEF Sum
      <3>2. Sum(f, S \ {Picked(S)}) \in Int
        BY <2>1, <3>1
      <3> QED
        BY <3>1, <3>2
    <2> QED
      BY <2>2, <2>3
  <1> QED
    BY <1>1

\* The order of summation does not matter.
LEMMA SumRemove ==
  ASSUME NEW f, NEW T, IsFiniteSet(T), \A x \in T : f[x] \in Int, NEW y \in T
  PROVE  Sum(f, T) = f[y] + Sum(f, T \ {y})
  <1> DEFINE F == {S \in SUBSET T : \E x \in S : Sum(f, S) # f[x] + Sum(f, S \ {x})}
  <1>1. ASSUME F # {} PROVE FALSE
    <2>1. PICK S \in F : IsFiniteSet(S) /\ \A x \in S : S \ {x} \notin F
      BY <1>1, LeastCounterexample
    <2>2. PICK x \in S : Sum(f, S) # f[x] + Sum(f, S \ {x})
      OBVIOUS
    <2> DEFINE p == Picked(S)
    <2>3. p \in S /\ Sum(f, S) = f[p] + Sum(f, S \ {p})
      BY <2>1, SumPicked DEF Sum
    <2>4. p # x
      BY <2>2, <2>3
    <2> HIDE DEF p
    <2>5. Sum(f, S \ {p}) = f[x] + Sum(f, (S \ {p}) \ {x})
      BY <2>1, <2>3, <2>4
    <2>6. Sum(f, S \ {x}) = f[p] + Sum(f, (S \ {x}) \ {p})
      BY <2>1, <2>3, <2>4
    <2>7. Sum(f, (S \ {p}) \ {x}) = Sum(f, (S \ {x}) \ {p})
      <3>1. (S \ {p}) \ {x} = (S \ {x}) \ {p}
        OBVIOUS
      <3> QED
        BY <3>1
    <2>8. Sum(f, (S \ {x}) \ {p}) \in Int
      <3>1. IsFiniteSet((S \ {x}) \ {p})
        BY <2>1, FS_RemoveElement
      <3>2. \A z \in (S \ {x}) \ {p} : f[z] \in Int
        OBVIOUS
      <3> QED
        BY <3>1, <3>2, SumType
    <2>9. f[x] \in Int /\ f[p] \in Int
      BY <2>3
    <2> QED
      BY <2>2, <2>3, <2>5, <2>6, <2>7, <2>8, <2>9
  <1> QED
    BY <1>1

LEMMA SumAdd ==
  ASSUME NEW f, NEW T, IsFiniteSet(T), NEW y, y \notin T, \A x \in T \cup {y} : f[x] \in Int
  PROVE  Sum(f, T \cup {y}) = Sum(f, T) + f[y]
  <1>1. IsFiniteSet(T \cup {y}) /\ (T \cup {y}) \ {y} = T
    BY FS_AddElement
  <1>2. Sum(f, T \cup {y}) = f[y] + Sum(f, T)
    BY <1>1, SumRemove
  <1>3. Sum(f, T) \in Int /\ f[y] \in Int
    BY SumType
  <1> QED
    BY <1>2, <1>3

LEMMA SumSame ==
  ASSUME NEW f, NEW g, NEW T, IsFiniteSet(T), \A x \in T : f[x] = g[x]
  PROVE  Sum(f, T) = Sum(g, T)
  <1> DEFINE F == {S \in SUBSET T : Sum(f, S) # Sum(g, S)}
  <1>1. ASSUME F # {} PROVE FALSE
    <2>1. PICK S \in F : IsFiniteSet(S) /\ \A x \in S : S \ {x} \notin F
      BY <1>1, LeastCounterexample
    <2>2. CASE S = {}
      BY <2>1, <2>2, SumEmpty
    <2>3. CASE S # {}
      <3>1. /\ Picked(S) \in S /\ Sum(f, S) = f[Picked(S)] + Sum(f, S \ {Picked(S)})
            /\ Sum(g, S) = g[Picked(S)] + Sum(g, S \ {Picked(S)})
        BY <2>1, <2>3, SumPicked DEF Sum
      <3>2. Sum(f, S \ {Picked(S)}) = Sum(g, S \ {Picked(S)})
        BY <2>1, <3>1
      <3> QED
        BY <3>1, <3>2
    <2> QED
      BY <2>2, <2>3
  <1> QED
    BY <1>1

\* The sum of sums.
LEMMA SumOfSums ==
  ASSUME NEW f, NEW g, NEW h, NEW T, IsFiniteSet(T),
         \A x \in T : f[x] \in Int /\ g[x] \in Int /\ h[x] = f[x] + g[x]
  PROVE  Sum(h, T) = Sum(f, T) + Sum(g, T)
  <1> DEFINE F == {S \in SUBSET T : Sum(h, S) # Sum(f, S) + Sum(g, S)}
  <1>1. ASSUME F # {} PROVE FALSE
    <2>1. PICK S \in F : IsFiniteSet(S) /\ \A x \in S : S \ {x} \notin F
      BY <1>1, LeastCounterexample
    <2>2. CASE S = {}
      BY <2>1, <2>2, SumEmpty
    <2>3. CASE S # {}
      <3>0. PICK p \in S : TRUE
        BY <2>3
      <3> DEFINE R == S \ {p}
      <3>1. IsFiniteSet(R) /\ R \in SUBSET T /\ p \notin R /\ S = R \cup {p} /\ p \in T
        BY <2>1, FS_RemoveElement
      <3>2. Sum(h, R) = Sum(f, R) + Sum(g, R)
        BY <2>1, <3>1
      <3> HIDE DEF R
      <3>3. /\ Sum(f, S) = Sum(f, R) + f[p] /\ Sum(g, S) = Sum(g, R) + g[p]
            /\ Sum(f, R) \in Int /\ Sum(g, R) \in Int
        BY <3>1, SumAdd, SumType
      <3>4. /\ Sum(h, S) = Sum(h, R) + h[p] /\ h[p] = f[p] + g[p]
            /\ f[p] \in Int /\ g[p] \in Int
        <4>1. \A x \in T : h[x] \in Int
          OBVIOUS
        <4> QED
          BY <3>1, <4>1, SumAdd
      <3> QED
        BY <3>2, <3>3, <3>4
    <2> QED
      BY <2>2, <2>3
  <1> QED
    BY <1>1

LEMMA SumOfUnion ==
  ASSUME NEW f, NEW T, NEW R, IsFiniteSet(T), IsFiniteSet(R), T \cap R = {},
         \A x \in T \cup R : f[x] \in Int
  PROVE  Sum(f, T \cup R) = Sum(f, T) + Sum(f, R)
  <1> DEFINE F == {S \in SUBSET T : Sum(f, S \cup R) # Sum(f, S) + Sum(f, R)}
  <1>0. Sum(f, R) \in Int
    BY SumType
  <1>1. ASSUME F # {} PROVE FALSE
    <2>1. PICK S \in F : IsFiniteSet(S) /\ \A x \in S : S \ {x} \notin F
      BY <1>1, LeastCounterexample
    <2>2. CASE S = {}
      <3>1. S \cup R = R /\ Sum(f, S) = 0
        BY <2>2, SumEmpty
      <3> QED
        BY <1>0, <2>1, <3>1
    <2>3. CASE S # {}
      <3>0. PICK p \in S : TRUE
        BY <2>3
      <3> DEFINE Q == S \ {p}
                 U == Q \cup R
      <3>1. /\ IsFiniteSet(Q) /\ Q \in SUBSET T /\ p \notin Q /\ S = Q \cup {p} /\ p \in T
        BY <2>1, FS_RemoveElement
      <3>4. IsFiniteSet(U) /\ p \notin U /\ S \cup R = U \cup {p} /\ U \subseteq T \cup R
        BY <3>1, FS_Union
      <3>2. Sum(f, U) = Sum(f, Q) + Sum(f, R)
        BY <2>1, <3>1
      <3> HIDE DEF Q, U
      <3>3. Sum(f, S) = Sum(f, Q) + f[p] /\ Sum(f, S \cup R) = Sum(f, U) + f[p]
            /\ Sum(f, Q) \in Int /\ f[p] \in Int
        BY <3>1, <3>4, SumAdd, SumType
      <3> QED
        BY <1>0, <3>2, <3>3
    <2> QED
      BY <2>2, <2>3
  <1>2. T \notin F
    BY <1>1
  <1> QED
    BY <1>2

LEMMA SumMonotone ==
  ASSUME NEW f, NEW g, NEW T, IsFiniteSet(T),
         \A x \in T : f[x] \in Int /\ g[x] \in Int /\ f[x] <= g[x]
  PROVE  Sum(f, T) <= Sum(g, T)
  <1> DEFINE F == {S \in SUBSET T : ~(Sum(f, S) <= Sum(g, S))}
  <1>1. ASSUME F # {} PROVE FALSE
    <2>1. PICK S \in F : IsFiniteSet(S) /\ \A x \in S : S \ {x} \notin F
      BY <1>1, LeastCounterexample
    <2>2. CASE S = {}
      BY <2>1, <2>2, SumEmpty
    <2>3. CASE S # {}
      <3>0. PICK p \in S : TRUE
        BY <2>3
      <3> DEFINE R == S \ {p}
      <3>1. IsFiniteSet(R) /\ R \in SUBSET T /\ p \notin R /\ S = R \cup {p} /\ p \in T
        BY <2>1, FS_RemoveElement
      <3>2. Sum(f, R) <= Sum(g, R)
        BY <2>1, <3>1
      <3> HIDE DEF R
      <3>3. /\ Sum(f, S) = Sum(f, R) + f[p] /\ Sum(g, S) = Sum(g, R) + g[p]
            /\ Sum(f, R) \in Int /\ Sum(g, R) \in Int
        BY <3>1, SumAdd, SumType
      <3> QED
        BY <3>1, <3>2, <3>3
    <2> QED
      BY <2>2, <2>3
  <1> QED
    BY <1>1

LEMMA SumNotNegative ==
  ASSUME NEW f, NEW T, IsFiniteSet(T), \A x \in T : f[x] \in Int /\ f[x] >= 0
  PROVE  Sum(f, T) >= 0
  <1> DEFINE F == {S \in SUBSET T : ~(Sum(f, S) >= 0)}
  <1>1. ASSUME F # {} PROVE FALSE
    <2>1. PICK S \in F : IsFiniteSet(S) /\ \A x \in S : S \ {x} \notin F
      BY <1>1, LeastCounterexample
    <2>2. CASE S = {}
      BY <2>1, <2>2, SumEmpty
    <2>3. CASE S # {}
      <3>1. Picked(S) \in S /\ Sum(f, S) = f[Picked(S)] + Sum(f, S \ {Picked(S)})
        BY <2>1, <2>3, SumPicked DEF Sum
      <3>2. Sum(f, S \ {Picked(S)}) >= 0
        BY <2>1, <3>1
      <3>3. Sum(f, S \ {Picked(S)}) \in Int
        <4>1. IsFiniteSet(S \ {Picked(S)})
          BY <2>1, FS_RemoveElement
        <4> QED
          BY <4>1, SumType
      <3> QED
        BY <2>1, <3>1, <3>2, <3>3
    <2> QED
      BY <2>2, <2>3
  <1> QED
    BY <1>1

\* What is not negative adds up to no more over a part.
LEMMA SumOfSubset ==
  ASSUME NEW f, NEW T, IsFiniteSet(T), \A x \in T : f[x] \in Int /\ f[x] >= 0, NEW S \in SUBSET T
  PROVE  Sum(f, S) \in Int /\ Sum(f, T) \in Int /\ Sum(f, S) <= Sum(f, T)
  <1> DEFINE R == T \ S
  <1>1. IsFiniteSet(S) /\ IsFiniteSet(R) /\ R \subseteq T
    BY FS_Subset
  <1>2. S \cap R = {} /\ S \cup R = T
    OBVIOUS
  <1> HIDE DEF R
  <1>3. Sum(f, T) = Sum(f, S) + Sum(f, R)
    <2>1. \A x \in S \cup R : f[x] \in Int
      BY <1>2
    <2>2. Sum(f, S \cup R) = Sum(f, S) + Sum(f, R)
      BY <1>1, <1>2, <2>1, SumOfUnion
    <2> QED
      BY <1>2, <2>2
  <1>4. Sum(f, R) >= 0
    BY <1>1, SumNotNegative
  <1>5. Sum(f, S) \in Int /\ Sum(f, R) \in Int
    BY <1>1, SumType
  <1> QED
    BY <1>3, <1>4, <1>5

\* Nor does what is at most that, summed over another set of which no two
\* elements stand for the same.
LEMMA SumAlong ==
  ASSUME NEW f, NEW T, IsFiniteSet(T), \A y \in T : f[y] \in Int /\ f[y] >= 0,
         NEW g, NEW S, IsFiniteSet(S), NEW h \in [S -> T],
         \A x, y \in S : h[x] = h[y] => x = y,
         \A x \in S : g[x] \in Int /\ g[x] <= f[h[x]]
  PROVE  Sum(g, S) <= Sum(f, T)
  <1> DEFINE Image(R) == {h[x] : x \in R}
             F == {R \in SUBSET S : ~(Sum(g, R) <= Sum(f, Image(R)))}
  <1>1. ASSUME F # {} PROVE FALSE
    <2>1. PICK R \in F : IsFiniteSet(R) /\ \A x \in R : R \ {x} \notin F
      BY <1>1, LeastCounterexample
    <2>2. CASE R = {}
      <3>1. Image(R) = {}
        BY <2>2
      <3> QED
        BY <2>1, <2>2, <3>1, SumEmpty
    <2>3. CASE R # {}
      <3>0. PICK p \in R : TRUE
        BY <2>3
      <3> DEFINE Q == R \ {p}
                 I == Image(Q)
      <3>1. IsFiniteSet(Q) /\ Q \in SUBSET S /\ p \notin Q /\ R = Q \cup {p} /\ p \in S
        BY <2>1, FS_RemoveElement
      <3>2. Sum(g, Q) <= Sum(f, I)
        BY <2>1, <3>1
      <3>3. I \subseteq T /\ IsFiniteSet(I) /\ h[p] \in T /\ h[p] \notin I /\ Image(R) = I \cup {h[p]}
        <4>1. I \subseteq T /\ h[p] \in T /\ h[p] \notin I /\ Image(R) = I \cup {h[p]}
          BY <3>1
        <4> QED
          BY <4>1, FS_Subset
      <3> HIDE DEF Q, I
      <3>4. Sum(g, R) = Sum(g, Q) + g[p] /\ Sum(g, Q) \in Int
        <4>1. \A x \in Q \cup {p} : g[x] \in Int
          BY <3>1
        <4> QED
          BY <3>1, <4>1, SumAdd, SumType
      <3>5. Sum(f, Image(R)) = Sum(f, I) + f[h[p]] /\ Sum(f, I) \in Int
        <4>1. \A x \in I \cup {h[p]} : f[x] \in Int
          BY <3>3
        <4> QED
          BY <3>3, <4>1, SumAdd, SumType
      <3>6. g[p] \in Int /\ f[h[p]] \in Int /\ g[p] <= f[h[p]]
        BY <3>1, <3>3
      <3>7. Sum(g, R) <= Sum(f, Image(R))
        BY <3>2, <3>4, <3>5, <3>6
      <3> QED
        BY <2>1, <3>7
    <2> QED
      BY <2>2, <2>3
  <1>2. Sum(g, S) <= Sum(f, Image(S))
    BY <1>1
  <1> DEFINE I == Image(S)
  <1>3. I \in SUBSET T
    OBVIOUS
  <1> HIDE DEF I
  <1>4. Sum(f, I) \in Int /\ Sum(f, T) \in Int /\ Sum(f, I) <= Sum(f, T)
    BY <1>3, SumOfSubset
  <1>5. Sum(g, S) \in Int
    BY SumType
  <1> QED
    BY <1>2, <1>4, <1>5 DEF I

\* The sums over parts that do not overlap.
LEMMA SumOfParts ==
  ASSUME NEW f, NEW T, IsFiniteSet(T), \A y \in T : f[y] \in Int /\ f[y] >= 0,
         NEW K, IsFiniteSet(K), NEW P \in [K -> SUBSET T],
         \A j, k \in K : j # k => P[j] \cap P[k] = {},
         NEW g, \A k \in K : g[k] = Sum(f, P[k])
  PROVE  Sum(g, K) <= Sum(f, T)
  <1> DEFINE Parts(R) == UNION {P[k] : k \in R}
             F == {R \in SUBSET K : Sum(g, R) # Sum(f, Parts(R))}
  <1>0. \A k \in K : IsFiniteSet(P[k]) /\ g[k] \in Int
    <2> TAKE k \in K
    <2>1. IsFiniteSet(P[k])
      BY FS_Subset
    <2>2. \A y \in P[k] : f[y] \in Int
      OBVIOUS
    <2> QED
      BY <2>1, <2>2, SumType
  <1>1. ASSUME F # {} PROVE FALSE
    <2>1. PICK R \in F : IsFiniteSet(R) /\ \A x \in R : R \ {x} \notin F
      BY <1>1, LeastCounterexample
    <2>2. CASE R = {}
      <3>1. Parts(R) = {}
        BY <2>2
      <3> QED
        BY <2>1, <2>2, <3>1, SumEmpty
    <2>3. CASE R # {}
      <3>0. PICK p \in R : TRUE
        BY <2>3
      <3> DEFINE Q == R \ {p}
                 U == Parts(Q)
      <3>1. IsFiniteSet(Q) /\ Q \in SUBSET K /\ p \notin Q /\ R = Q \cup {p} /\ p \in K
        BY <2>1, FS_RemoveElement
      <3>2. Sum(g, Q) = Sum(f, U)
        BY <2>1, <3>1
      <3>3. U \subseteq T /\ IsFiniteSet(U) /\ U \cap P[p] = {} /\ Parts(R) = U \cup P[p]
        <4>1. U \subseteq T
          BY <3>1
        <4>2. U \cap P[p] = {}
          BY <3>1
        <4>3. Parts(R) = U \cup P[p]
          BY <3>1
        <4> QED
          BY <4>1, <4>2, <4>3, FS_Subset
      <3> HIDE DEF Q, U
      <3>4. Sum(g, R) = Sum(g, Q) + g[p]
        <4>1. \A x \in Q \cup {p} : g[x] \in Int
          BY <1>0, <3>1
        <4> QED
          BY <3>1, <4>1, SumAdd
      <3>5. Sum(f, Parts(R)) = Sum(f, U) + Sum(f, P[p])
        <4>1. \A x \in U \cup P[p] : f[x] \in Int
          BY <3>1, <3>3
        <4>2. IsFiniteSet(P[p])
          BY <1>0, <3>1
        <4>3. Sum(f, U \cup P[p]) = Sum(f, U) + Sum(f, P[p])
          BY <3>3, <4>1, <4>2, SumOfUnion
        <4> QED
          BY <3>3, <4>3
      <3>6. g[p] = Sum(f, P[p])
        BY <3>1
      <3>7. Sum(g, R) = Sum(f, Parts(R))
        BY <3>2, <3>4, <3>5, <3>6
      <3> QED
        BY <2>1, <3>7
    <2> QED
      BY <2>2, <2>3
  <1>2. Sum(g, K) = Sum(f, Parts(K))
    BY <1>1
  <1> DEFINE U == Parts(K)
  <1>3. U \in SUBSET T
    OBVIOUS
  <1> HIDE DEF U
  <1>4. Sum(f, U) <= Sum(f, T)
    BY <1>3, SumOfSubset
  <1> QED
    BY <1>2, <1>4 DEF U

LEMMA SumOne ==
  ASSUME NEW f, NEW x, f[x] \in Int
  PROVE  Sum(f, {x}) = f[x]
  <1>1. IsFiniteSet({}) /\ x \notin {} /\ {} \cup {x} = {x} /\ \A y \in {} \cup {x} : f[y] \in Int
    BY FS_EmptySet
  <1>2. Sum(f, {} \cup {x}) = Sum(f, {}) + f[x]
    BY <1>1, SumAdd
  <1> QED
    BY <1>1, <1>2, SumEmpty

\* The sum of f over the renamed indices is that of g over the given ones.
LEMMA SumRenamed ==
  ASSUME NEW f, NEW g, NEW S, IsFiniteSet(S), NEW T, IsFiniteSet(T), NEW m \in [S -> T],
         \A x, y \in S : m[x] = m[y] => x = y,
         \A x \in S : g[x] \in Int /\ f[m[x]] = g[x]
  PROVE  Sum(f, {m[x] : x \in S}) = Sum(g, S)
  <1> DEFINE I(R) == {m[x] : x \in R}
             F    == {R \in SUBSET S : Sum(f, I(R)) # Sum(g, R)}
  <1>1. ASSUME F # {} PROVE FALSE
    <2>1. PICK R \in F : IsFiniteSet(R) /\ \A x \in R : R \ {x} \notin F
      BY <1>1, LeastCounterexample
    <2>2. CASE R = {}
      <3>1. I(R) = {}
        BY <2>2
      <3> QED
        BY <2>1, <2>2, <3>1, SumEmpty
    <2>3. CASE R # {}
      <3>0. PICK p \in R : TRUE
        BY <2>3
      <3> DEFINE Q == R \ {p}
      <3>1. /\ IsFiniteSet(Q) /\ Q \in SUBSET S /\ p \notin Q /\ R = Q \cup {p} /\ p \in S
            /\ R \in SUBSET S
        BY <2>1, FS_RemoveElement
      <3>2. Sum(f, I(Q)) = Sum(g, Q)
        BY <2>1, <3>1
      <3>3. I(R) = I(Q) \cup {m[p]} /\ m[p] \notin I(Q)
        BY <3>1
      <3>4. IsFiniteSet(I(Q)) /\ \A y \in I(Q) \cup {m[p]} : f[y] \in Int
        BY <3>1, FS_Subset
      <3>5. Sum(f, I(R)) # Sum(g, R)
        BY <2>1
      <3> HIDE DEF Q, I, F
      <3>6. Sum(f, I(R)) = Sum(f, I(Q)) + f[m[p]]
        BY <3>3, <3>4, SumAdd
      <3>7. Sum(g, R) = Sum(g, Q) + g[p]
        BY <3>1, SumAdd
      <3> QED
        BY <3>1, <3>2, <3>5, <3>6, <3>7
    <2> QED
      BY <2>2, <2>3
  <1>2. S \in SUBSET S
    OBVIOUS
  <1> QED
    BY <1>1, <1>2

\* The sum along a sequence that begins with g[1] and goes on like h.
LEMMA SumPrepend ==
  ASSUME NEW n \in Nat, NEW g, NEW h, g[1] \in Int,
         \A i \in 1..n : h[i] \in Int /\ g[i + 1] = h[i]
  PROVE  Sum(g, 1..(n + 1)) = g[1] + Sum(h, 1..n)
  <1> DEFINE D == 1..n
             E == 2..(n + 1)
             m == [i \in D |-> i + 1]
  <1>1. /\ m \in [D -> E]
        /\ \A x, y \in D : m[x] = m[y] => x = y
        /\ \A x \in D : h[x] \in Int /\ g[m[x]] = h[x]
    OBVIOUS
  <1>2. {m[x] : x \in D} = E
    <2>1. \A j \in E : j - 1 \in D /\ m[j - 1] = j
      OBVIOUS
    <2> QED
      BY <1>1, <2>1
  <1>3. IsFiniteSet(D) /\ IsFiniteSet(E)
    BY FS_Interval
  <1>4. 1..(n + 1) = E \cup {1} /\ 1 \notin E /\ \A x \in E \cup {1} : g[x] \in Int
    <2>1. \A j \in E : j - 1 \in D /\ (j - 1) + 1 = j
      OBVIOUS
    <2> QED
      BY <2>1
  <1> HIDE DEF m, D, E
  <1>5. Sum(g, {m[x] : x \in D}) = Sum(h, D)
    BY <1>1, <1>3, SumRenamed
  <1>6. Sum(g, E \cup {1}) = Sum(g, E) + g[1]
    BY <1>3, <1>4, SumAdd
  <1>7. Sum(h, D) \in Int
    BY <1>1, <1>3, SumType
  <1>8. Sum(g, 1..(n + 1)) = g[1] + Sum(h, D)
    <2>1. Sum(g, E) = Sum(h, D)
      BY <1>2, <1>5
    <2>2. Sum(g, 1..(n + 1)) = Sum(h, D) + g[1]
      BY <1>4, <1>6, <2>1
    <2> QED
      BY <1>7, <2>2
  <1> QED
    BY <1>8 DEF D

\* There are finitely many functions from a finite set to a finite set.
LEMMA FunctionsFinite ==
  ASSUME NEW S, IsFiniteSet(S), NEW T, IsFiniteSet(T)
  PROVE  IsFiniteSet([S -> T])
  <1> DEFINE G == [f \in [S -> T] |-> {<<x, f[x]>> : x \in S}]
  <1>1. IsFiniteSet(SUBSET (S \X T))
    BY FS_Product, FS_SUBSET
  <1>2. G \in [[S -> T] -> SUBSET (S \X T)]
    OBVIOUS
  <1>3. ASSUME NEW f \in [S -> T], NEW g \in [S -> T], G[f] = G[g]
        PROVE  f = g
    <2>1. ASSUME NEW x \in S PROVE f[x] = g[x]
      <3>1. <<x, f[x]>> \in G[g]
        BY <1>3
      <3> QED
        BY <3>1
    <2> QED
      BY <2>1
  <1> HIDE DEF G
  <1>4. G \in Injection([S -> T], SUBSET (S \X T))
    BY <1>2, <1>3 DEF Injection, IsInjective
  <1> QED
    BY <1>1, <1>4, FS_Injection

LEMMA SumUpTo ==
  ASSUME NEW f, NEW n \in Nat, \A i \in 1..n : f[i] \in Int
  PROVE  /\ Sum(f, 1..n) \in Int
         /\ n = 0 => Sum(f, 1..n) = 0
         /\ n > 0 => Sum(f, 1..n) = Sum(f, 1..(n - 1)) + f[n]
  <1>1. Sum(f, 1..n) \in Int
    <2>1. IsFiniteSet(1..n)
      BY FS_Interval
    <2> QED
      BY <2>1, SumType
  <1>2. CASE n = 0
    <2>1. 1..n = {}
      BY <1>2
    <2> QED
      BY <1>1, <1>2, <2>1, SumEmpty
  <1>3. CASE n > 0
    <2>1. 1..n = (1..(n - 1)) \cup {n} /\ n \notin 1..(n - 1)
      BY <1>3
    <2>2. IsFiniteSet(1..(n - 1))
      BY FS_Interval
    <2> DEFINE T == 1..(n - 1)
    <2>3. \A i \in T \cup {n} : f[i] \in Int
      BY <2>1
    <2> HIDE DEF T
    <2>4. Sum(f, T \cup {n}) = Sum(f, T) + f[n]
      BY <2>1, <2>2, <2>3, SumAdd DEF T
    <2>5. Sum(f, 1..n) = Sum(f, 1..(n - 1)) + f[n]
      BY <2>1, <2>4 DEF T
    <2> QED
      BY <1>1, <1>3, <2>5
  <1> QED
    BY <1>2, <1>3

-----------------------------------------------------------------------------
(***************************************************************************)
(* Ranks.  R is a set of pairs.                                            *)
(***************************************************************************)
StrictOrder(S, R) ==
  /\ \A x \in S : <<x, x>> \notin R
  /\ \A x, y, z \in S : (<<x, y>> \in R /\ <<y, z>> \in R) => <<x, z>> \in R
  /\ \A x, y \in S : x = y \/ <<x, y>> \in R \/ <<y, x>> \in R

RankIn(S, R, x) == Cardinality({y \in S : <<y, x>> \in R})

LEMMA RankGrows ==
  ASSUME NEW S, IsFiniteSet(S), NEW R, StrictOrder(S, R), NEW x \in S, NEW y \in S
  PROVE  /\ RankIn(S, R, x) \in 0..(Cardinality(S) - 1)
         /\ <<x, y>> \in R => RankIn(S, R, x) < RankIn(S, R, y)
  <1> DEFINE B(z) == {w \in S : <<w, z>> \in R}
  <1>1. \A z : B(z) \in SUBSET S
    OBVIOUS
  <1>2. \A z : IsFiniteSet(B(z)) /\ Cardinality(B(z)) \in Nat
    BY <1>1, FS_Subset, FS_CardinalityType
  <1>3. x \notin B(x) /\ Cardinality(S) \in Nat
    BY FS_CardinalityType DEF StrictOrder
  <1>4. Cardinality(B(x)) <= Cardinality(S) /\ Cardinality(B(x)) # Cardinality(S)
    BY <1>1, <1>3, FS_Subset
  <1>5. ASSUME <<x, y>> \in R PROVE Cardinality(B(x)) < Cardinality(B(y))
    <2>1. B(x) \in SUBSET B(y) /\ x \in B(y)
      BY <1>5 DEF StrictOrder
    <2>2. B(x) # B(y)
      BY <1>3, <2>1
    <2> HIDE DEF B
    <2>3. Cardinality(B(x)) <= Cardinality(B(y)) /\ Cardinality(B(x)) # Cardinality(B(y))
      BY <1>2, <2>1, <2>2, FS_Subset
    <2> QED
      BY <1>2, <2>3
  <1>6. RankIn(S, R, x) = Cardinality(B(x)) /\ RankIn(S, R, y) = Cardinality(B(y))
    BY DEF RankIn
  <1> HIDE DEF B
  <1> QED
    BY <1>2, <1>3, <1>4, <1>5, <1>6

\* Every rank below the number of elements is that of exactly one element.
LEMMA RankExists ==
  ASSUME NEW S, IsFiniteSet(S), NEW R, StrictOrder(S, R)
  PROVE  /\ \A x, y \in S : RankIn(S, R, x) = RankIn(S, R, y) => x = y
         /\ \A n \in 1..Cardinality(S) : \E x \in S : RankIn(S, R, x) = n - 1
  <1>1. \A x, y \in S : RankIn(S, R, x) = RankIn(S, R, y) => x = y
    <2> SUFFICES ASSUME NEW x \in S, NEW y \in S, x # y
                 PROVE  RankIn(S, R, x) # RankIn(S, R, y)
      OBVIOUS
    <2>1. <<x, y>> \in R \/ <<y, x>> \in R
      BY DEF StrictOrder
    <2> QED
      BY <2>1, RankGrows
  <1> DEFINE N == Cardinality(S)
             T == 0..(N - 1)
             f == [x \in S |-> RankIn(S, R, x)]
  <1>2. f \in Injection(S, T)
    BY <1>1, RankGrows DEF Injection, IsInjective
  <1>3. N \in Nat
    BY FS_CardinalityType
  <1>4. Cardinality(T) = N
    BY <1>3, FS_Interval
  <1>5. f \in Surjection(S, T)
    <2>1. Cardinality(S) = Cardinality(T) /\ IsFiniteSet(T)
      BY <1>3, <1>4, FS_Interval
    <2> HIDE DEF T, f
    <2> QED
      BY <1>2, <2>1, FS_Injection
  <1>6. \A n \in T : \E x \in S : RankIn(S, R, x) = n
    BY <1>5 DEF Surjection
  <1>7. \A n \in 1..N : n - 1 \in T
    BY <1>3
  <1> QED
    BY <1>1, <1>6, <1>7

\* The elements by their ranks: each once, and in their order.
Ranking(S, R) == [n \in 1..Cardinality(S) |-> CHOOSE x \in S : RankIn(S, R, x) = n - 1]

LEMMA Ranked ==
  ASSUME NEW S, IsFiniteSet(S), NEW R, StrictOrder(S, R)
  PROVE  LET f == Ranking(S, R)
         IN  /\ f \in [1..Cardinality(S) -> S]
             /\ \A x \in S : \E n \in 1..Cardinality(S) : f[n] = x
             /\ \A m, n \in 1..Cardinality(S) : m < n => <<f[m], f[n]>> \in R
  <1> DEFINE N == Cardinality(S)
             f == Ranking(S, R)
  <1>0. N \in Nat
    BY FS_CardinalityType
  <1>1. ASSUME NEW n \in 1..N PROVE f[n] \in S /\ RankIn(S, R, f[n]) = n - 1
    <2>1. \E x \in S : RankIn(S, R, x) = n - 1
      BY RankExists
    <2>2. f[n] = CHOOSE x \in S : RankIn(S, R, x) = n - 1
      BY DEF Ranking
    <2> QED
      BY <2>1, <2>2, Zenon
  <1> HIDE DEF f
  <1>2. ASSUME NEW x \in S PROVE \E n \in 1..N : f[n] = x
    <2> DEFINE n == RankIn(S, R, x) + 1
    <2>1. RankIn(S, R, x) \in 0..(N - 1)
      BY RankGrows
    <2>2. n \in 1..N /\ n - 1 = RankIn(S, R, x)
      BY <1>0, <2>1
    <2>3. f[n] \in S /\ RankIn(S, R, f[n]) = RankIn(S, R, x)
      BY <1>1, <2>2
    <2>4. f[n] = x
      BY <2>3, RankExists
    <2> QED
      BY <2>2, <2>4
  <1>3. ASSUME NEW m \in 1..N, NEW n \in 1..N, m < n PROVE <<f[m], f[n]>> \in R
    <2>1. f[m] \in S /\ f[n] \in S /\ RankIn(S, R, f[m]) = m - 1 /\ RankIn(S, R, f[n]) = n - 1
      BY <1>1
    <2>2. m \in Int /\ n \in Int /\ ~(n - 1 < m - 1)
      BY <1>0, <1>3
    <2>3. <<f[n], f[m]>> \notin R
      BY <2>1, <2>2, RankGrows
    <2>4. f[m] # f[n]
      BY <1>3, <2>1, <2>2
    <2> QED
      BY <2>1, <2>3, <2>4 DEF StrictOrder
  <1>4. f \in [1..N -> S]
    BY <1>1 DEF Ranking, f
  <1> QED
    BY <1>2, <1>3, <1>4 DEF f

-----------------------------------------------------------------------------
(***************************************************************************)
(* Induction on the naturals, from the least member of a set of them.      *)
(***************************************************************************)
\* A non-empty set of naturals has a least member.
LEMMA LeastNatural ==
  ASSUME NEW S \in SUBSET Nat, NEW x \in S
  PROVE  \E n \in S : \A m \in S : n <= m
  <1> DEFINE T == 0..x
             F == {R \in SUBSET T : \E m \in S : R = 0..m}
  <1>1. x \in Nat /\ T \in F /\ F \in SUBSET SUBSET T
    OBVIOUS
  <1>2. IsFiniteSet(T)
    BY <1>1, FS_Interval
  <1>3. PICK L \in F : \A R \in F : R \subseteq L => R = L
    <2> HIDE DEF F, T
    <2> QED
      BY <1>1, <1>2, LeastSubset
  <1>4. PICK n \in S : L = 0..n
    BY <1>3
  <1>5. n \in Nat /\ n <= x
    <2>1. n \in Nat /\ n \in L
      BY <1>4
    <2> QED
      BY <1>3, <2>1
  <1>6. ASSUME NEW m \in S, m < n PROVE FALSE
    <2>1. m \in Nat /\ 0..m \subseteq 0..n /\ 0..m \subseteq T
      BY <1>5, <1>6
    <2>2. 0..m \in F
      BY <2>1
    <2>3. 0..m = 0..n
      BY <1>3, <1>4, <2>1, <2>2
    <2>4. n \in 0..n /\ n \notin 0..m
      BY <1>5, <1>6, <2>1
    <2> QED
      BY <2>3, <2>4
  <1>7. ASSUME NEW m \in S PROVE n <= m
    <2>1. m \in Nat
      OBVIOUS
    <2> QED
      BY <1>5, <1>6, <2>1
  <1> QED
    BY <1>7

\* A sum of zeros is zero.
LEMMA SumZero ==
  ASSUME NEW f, NEW T, IsFiniteSet(T), \A x \in T : f[x] = 0
  PROVE  Sum(f, T) = 0
  <1>1. \A x \in T : f[x] \in Int /\ f[x] = f[x] + f[x]
    OBVIOUS
  <1>2. Sum(f, T) = Sum(f, T) + Sum(f, T)
    BY <1>1, SumOfSums
  <1>3. Sum(f, T) \in Int
    BY <1>1, SumType
  <1>4. \A n \in Int : n = n + n => n = 0
    OBVIOUS
  <1> QED
    BY ONLY <1>2, <1>3, <1>4

\* Terms that move by d times their slopes: so does their sum.
LEMMA SumMoves ==
  ASSUME NEW f, NEW g, NEW h, NEW d \in Int, NEW T, IsFiniteSet(T),
         \A x \in T : f[x] \in Int /\ g[x] \in Int /\ h[x] = f[x] + d * g[x]
  PROVE  Sum(h, T) = Sum(f, T) + d * Sum(g, T)
  <1> DEFINE F == {S \in SUBSET T : Sum(h, S) # Sum(f, S) + d * Sum(g, S)}
  <1>1. ASSUME F # {} PROVE FALSE
    <2>1. PICK S \in F : IsFiniteSet(S) /\ \A x \in S : S \ {x} \notin F
      BY <1>1, LeastCounterexample
    <2>2. CASE S = {}
      BY <2>1, <2>2, SumEmpty
    <2>3. CASE S # {}
      <3>0. PICK p \in S : TRUE
        BY <2>3
      <3> DEFINE R == S \ {p}
      <3>1. IsFiniteSet(R) /\ R \in SUBSET T /\ p \notin R /\ S = R \cup {p} /\ p \in T
        BY <2>1, FS_RemoveElement
      <3>2. Sum(h, R) = Sum(f, R) + d * Sum(g, R)
        BY <2>1, <3>1
      <3> HIDE DEF R
      <3>3. /\ Sum(f, S) = Sum(f, R) + f[p] /\ Sum(g, S) = Sum(g, R) + g[p]
            /\ Sum(f, R) \in Int /\ Sum(g, R) \in Int
        BY <3>1, SumAdd, SumType
      <3>4. /\ Sum(h, S) = Sum(h, R) + h[p] /\ h[p] = f[p] + d * g[p]
            /\ f[p] \in Int /\ g[p] \in Int
        <4>1. \A x \in T : h[x] \in Int
          OBVIOUS
        <4> QED
          BY <3>1, <4>1, SumAdd
      <3>5. d * (Sum(g, R) + g[p]) = d * Sum(g, R) + d * g[p]
        BY <3>3, <3>4
      <3>6. d * g[p] \in Int /\ d * Sum(g, R) \in Int
        BY <3>3, <3>4
      <3>7. Sum(h, S) = Sum(f, S) + d * Sum(g, S)
        BY <3>2, <3>3, <3>4, <3>5, <3>6
      <3> QED
        BY <2>1, <3>7
    <2> QED
      BY <2>2, <2>3
  <1> QED
    BY <1>1

\* The sum over a part of a set is the sum of what is zero outside of it.
LEMMA SumOfPart ==
  ASSUME NEW f, NEW g, NEW T, IsFiniteSet(T), NEW S \in SUBSET T,
         \A x \in S : f[x] \in Int /\ g[x] = f[x],
         \A x \in T \ S : g[x] = 0
  PROVE  Sum(g, T) = Sum(f, S)
  <1> DEFINE R == T \ S
  <1>1. IsFiniteSet(S) /\ IsFiniteSet(R) /\ S \cap R = {} /\ S \cup R = T
    BY FS_Subset
  <1>2. \A x \in S \cup R : g[x] \in Int
    OBVIOUS
  <1>3. \A x \in R : g[x] = 0
    OBVIOUS
  <1> HIDE DEF R
  <1>4. Sum(g, S \cup R) = Sum(g, S) + Sum(g, R)
    BY <1>1, <1>2, SumOfUnion
  <1>5. Sum(g, R) = 0
    BY <1>1, <1>3, SumZero
  <1>6. Sum(g, S) = Sum(f, S)
    BY <1>1, SumSame
  <1>7. Sum(f, S) \in Int
    BY <1>1, SumType
  <1>8. Sum(g, T) = Sum(g, S) + Sum(g, R)
    BY ONLY Zenon, <1>1, <1>4
  <1> QED
    BY ONLY <1>5, <1>6, <1>7, <1>8

\* A sum of two.
LEMMA SumOfTwo ==
  ASSUME NEW f, f[1] \in Int, f[2] \in Int
  PROVE  Sum(f, 1..2) = f[1] + f[2]
  <1>1. 1..2 = {1} \cup {2} /\ 2 \notin {1} /\ IsFiniteSet({1})
    <2>1. \A i \in 1..2 : i = 1 \/ i = 2
      OBVIOUS
    <2>2. 1 \in 1..2 /\ 2 \in 1..2 /\ 2 # 1
      OBVIOUS
    <2> QED
      BY <2>1, <2>2, FS_Singleton
  <1>2. Sum(f, {1}) = f[1]
    BY SumOne
  <1>3. \A x \in {1} \cup {2} : f[x] \in Int
    OBVIOUS
  <1>4. Sum(f, {1} \cup {2}) = Sum(f, {1}) + f[2]
    BY <1>1, <1>3, SumAdd
  <1> QED
    BY Zenon, <1>1, <1>2, <1>4

\* A finite set of integers that is not empty has a greatest element.
LEMMA GreatestExists ==
  ASSUME NEW T \in SUBSET Int, IsFiniteSet(T), T # {}
  PROVE  \E x \in T : \A y \in T : x >= y
  <1> DEFINE Has(S) == \E x \in S : \A y \in S : x >= y
             F == {S \in SUBSET T : S # {} /\ ~Has(S)}
  <1>1. ASSUME F # {} PROVE FALSE
    <2>1. PICK S \in F : IsFiniteSet(S) /\ \A x \in S : S \ {x} \notin F
      <3>1. F \in SUBSET SUBSET T
        OBVIOUS
      <3> HIDE DEF F
      <3> QED
        BY <1>1, <3>1, LeastCounterexample
    <2>2. PICK p \in S : TRUE
      BY <2>1
    <2>3. p \in Int /\ S \in SUBSET Int
      BY <2>1, <2>2
    <2>4. CASE S \ {p} = {}
      <3>1. \A y \in S : p >= y
        BY <2>3, <2>4
      <3> QED
        BY <2>1, <3>1
    <2>5. CASE S \ {p} # {}
      <3>1. Has(S \ {p})
        BY <2>1, <2>5
      <3>2. PICK m \in S \ {p} : \A y \in S \ {p} : m >= y
        BY <3>1
      <3>3. \A y \in S : IF m >= p THEN m >= y ELSE p >= y
        BY <2>3, <3>2
      <3> QED
        BY <2>1, <3>2, <3>3
    <2> QED
      BY <2>4, <2>5
  <1> QED
    BY <1>1

\* The indexes of a list are finitely many.
LEMMA IndexesFinite == ASSUME NEW n \in Nat PROVE IsFiniteSet(1..n)
  BY FS_Interval

\* And so is what a finite set is mapped to.
LEMMA ImageFinite ==
  ASSUME NEW S, IsFiniteSet(S), NEW f
  PROVE  IsFiniteSet({f[x] : x \in S})
  <1> DEFINE T == {f[x] : x \in S}
             g == [x \in S |-> f[x]]
  <1>1. g \in [S -> T] /\ \A t \in T : \E x \in S : g[x] = t
    OBVIOUS
  <1> HIDE DEF g, T
  <1>2. g \in Surjection(S, T)
    BY <1>1 DEF Surjection
  <1>3. IsFiniteSet(T)
    BY <1>2, FS_Surjection
  <1> QED
    BY <1>3 DEF T

-----------------------------------------------------------------------------
(***************************************************************************)
(* Lines that bend.                                                        *)
(***************************************************************************)
\* f has the slope g between bends k, and does not fall after the last of them.
Bends(n, k, f, g) ==
  /\ \A i \in 1..n : k[i] \in Nat
  /\ \A y \in Nat : f[y] \in Int /\ g[y] \in Int
  /\ \A lo, y \in Nat : (lo <= y /\ (\A i \in 1..n : k[i] <= lo \/ k[i] >= y)) =>
                           f[y] = f[lo] + (y - lo) * g[lo]
  /\ \A lo \in Nat : (\A i \in 1..n : k[i] <= lo) => g[lo] >= 0

\* Where such a line starts, and where it bends.
Samples(n, k) == {0} \cup {k[i] : i \in 1..n}

\* A line that bends at finitely many places, and does not fall after the last of
\* them, is lowest at one of them or where it starts.
LEMMA LowestAtBend ==
  ASSUME NEW n \in Nat, NEW k, NEW f, NEW g, Bends(n, k, f, g), NEW x \in Nat
  PROVE  \E y \in Samples(n, k) : f[y] <= f[x]
  <1> USE DEF Bends
  <1> DEFINE S == {0} \cup {k[i] : i \in 1..n}
  <1>0. S = Samples(n, k)
    BY DEF Samples
  <1>1. S \in SUBSET Nat /\ 0 \in S /\ \A i \in 1..n : k[i] \in S
    OBVIOUS
  <1>2. IsFiniteSet(S)
    <2>0. IsFiniteSet(1..n)
      BY IndexesFinite
    <2>1. IsFiniteSet({k[i] : i \in 1..n})
      BY ONLY <2>0, ImageFinite
    <2>2. IsFiniteSet({k[i] : i \in 1..n} \cup {0})
      BY <2>1, FS_AddElement
    <2>3. S = {k[i] : i \in 1..n} \cup {0}
      OBVIOUS
    <2> QED
      BY ONLY Zenon, <2>2, <2>3
  <1>3. \A y \in S : y = 0 \/ \E i \in 1..n : y = k[i]
    OBVIOUS
  <1> HIDE DEF S
  <1>4. PICK lo \in S : lo <= x /\ \A y \in S : y <= x => y <= lo
    <2> DEFINE L == {y \in S : y <= x}
    <2>0. L \in SUBSET S
      OBVIOUS
    <2>6. 0 \in L
      BY <1>1
    <2>7. \A y \in L : y \in Int
      BY <1>1
    <2>1. L \in SUBSET Int /\ L # {}
      BY ONLY <2>6, <2>7
    <2>2. \A y \in L : y \in S /\ y <= x
      OBVIOUS
    <2>3. \A y \in S : y <= x => y \in L
      OBVIOUS
    <2> HIDE DEF L
    <2>5. IsFiniteSet(L)
      BY <1>2, <2>0, FS_Subset
    <2>4. PICK z \in L : \A y \in L : z >= y
      BY <2>1, <2>5, GreatestExists
    <2> QED
      BY <1>1, <2>1, <2>2, <2>3, <2>4
  <1>5. lo \in Nat /\ f[lo] \in Int /\ f[x] \in Int /\ g[lo] \in Int /\ x - lo \in Nat
    BY <1>1, <1>4
  <1>6. \A i \in 1..n : k[i] \in Nat /\ (k[i] <= lo \/ k[i] > x)
    BY <1>1, <1>4
  <1>7. f[x] = f[lo] + (x - lo) * g[lo]
    <2>1. lo <= x /\ \A i \in 1..n : k[i] <= lo \/ k[i] >= x
      BY <1>4, <1>6
    <2> QED
      BY <1>5, <2>1
  <1>8. CASE g[lo] >= 0
    <2>1. \A d, t \in Nat : d * t \in Nat
      OBVIOUS
    <2>2. (x - lo) * g[lo] \in Nat
      BY ONLY <1>5, <1>8, <2>1
    <2>3. f[lo] <= f[x]
      BY ONLY <1>5, <1>7, <2>2
    <2> QED
      BY <1>0, <1>4, <2>3
  <1>9. CASE g[lo] < 0
    <2> DEFINE H == {y \in S : y > x}
    <2>1. H # {}
      <3>1. \E i \in 1..n : ~(k[i] <= lo)
        BY <1>5, <1>9
      <3> QED
        BY <1>1, <1>6, <3>1
    <2>2. H \in SUBSET Nat
      BY <1>1
    <2>3. \A y \in H : y \in S /\ y > x
      OBVIOUS
    <2>4. \A y \in S : y > x => y \in H
      OBVIOUS
    <2> HIDE DEF H
    <2>5. PICK hi \in H : \A y \in H : hi <= y
      BY <2>1, <2>2, LeastNatural
    <2>6. /\ hi \in S /\ hi > x /\ hi \in Nat /\ lo <= hi /\ f[hi] \in Int
          /\ \A i \in 1..n : k[i] <= lo \/ k[i] >= hi
      BY <1>1, <1>4, <1>5, <1>6, <2>2, <2>3, <2>4, <2>5
    <2>7. f[hi] = f[lo] + (hi - lo) * g[lo]
      BY <1>5, <2>6
    <2>8. (hi - lo) * g[lo] <= (x - lo) * g[lo]
      <3>1. \A d, e, t \in Int : (d <= e /\ t <= 0) => e * t <= d * t
        OBVIOUS
      <3>2. x - lo \in Int /\ hi - lo \in Int /\ x - lo <= hi - lo /\ g[lo] <= 0 /\ g[lo] \in Int
        BY <1>5, <1>9, <2>6
      <3> QED
        BY ONLY <3>1, <3>2
    <2>9. (hi - lo) * g[lo] \in Int /\ (x - lo) * g[lo] \in Int
      BY <1>5, <2>6
    <2>10. f[hi] <= f[x]
      BY ONLY <1>5, <1>7, <2>6, <2>7, <2>8, <2>9
    <2> QED
      BY <1>0, <2>6, <2>10
  <1> QED
    BY <1>5, <1>8, <1>9
=============================================================================
