-------------------------------- MODULE Sums --------------------------------
(***************************************************************************)
(* What SumFunctionOnSet computes, for every finite set of indices, and     *)
(* what finite sets have to that end: a smallest part, a minimal element.  *)
(*                                                                         *)
(* The sum is a fold that takes the elements in the order CHOOSE gives; the *)
(* lemmas say that the order does not matter.  Each is proved without an   *)
(* induction theorem: the sets that refute it would have a smallest one.   *)
(***************************************************************************)
EXTENDS Functions, FiniteSetTheorems, TLAPS

\* The fold over the subsets of S, as Folds writes it.
Pick(s) == CHOOSE x \in s : TRUE
IsFold(f, S, g) ==
    g = [s \in SUBSET S |-> IF s = {} THEN 0 ELSE f[Pick(s)] + g[s \ {Pick(s)}]]
Fold(f, S) == CHOOSE g : IsFold(f, S, g)

LEMMA SumIsFold == \A f, S : SumFunctionOnSet(f, S) = Fold(f, S)[S]
  BY DEF SumFunctionOnSet, FoldFunctionOnSet, MapThenFoldSet, Fold, IsFold, Pick

LEMMA PickIn == ASSUME NEW s, s # {} PROVE Pick(s) \in s
  BY DEF Pick

\* Of subsets of a finite set there is one that contains no other.
LEMMA Smallest ==
    ASSUME NEW S, IsFiniteSet(S), NEW C \in SUBSET SUBSET S, C # {}
    PROVE  \E T \in C : \A R \in C : R \subseteq T => R = T
<1>1. IsWellFoundedOn(StrictSubsetOrdering(S), FiniteSubsetsOf(S))
  BY FS_StrictSubsetOrderingWellFounded
<1>2. C \subseteq FiniteSubsetsOf(S)
  BY FS_Subset DEF FiniteSubsetsOf
<1>3. PICK T \in C : \A R \in C : ~(<<R, T>> \in StrictSubsetOrdering(S))
  BY <1>1, <1>2, WFMin, SMT
<1> QED
  BY <1>3 DEF StrictSubsetOrdering

\* Under a transitive and irreflexive relation a finite set has a minimal element.
LEMMA Minimal ==
    ASSUME NEW S, IsFiniteSet(S), S # {}, NEW R, \A i \in S : <<i, i>> \notin R,
           \A i, j, k \in S : <<i, j>> \in R /\ <<j, k>> \in R => <<i, k>> \in R
    PROVE  \E j \in S : \A k \in S : <<k, j>> \notin R
<1> DEFINE Earlier(j) == {k \in S : <<k, j>> \in R}
           C == {Earlier(j) : j \in S}
<1>1. C \in SUBSET SUBSET S /\ C # {}
  <2>1. \A j \in S : Earlier(j) \subseteq S
    OBVIOUS
  <2>2. \A U \in C : U \subseteq S
    BY <2>1
  <2>3. \A j \in S : Earlier(j) \in C
    OBVIOUS
  <2> HIDE DEF C
  <2> QED
    BY <2>2, <2>3
<1>2. \A D \in SUBSET SUBSET S :
        D # {} => \E T \in D : \A U \in D : U \subseteq T => U = T
  BY Smallest
<1>3. PICK T \in C : \A U \in C : U \subseteq T => U = T
  <2> HIDE DEF C
  <2> QED BY <1>1, <1>2
<1>4. PICK j \in S : T = Earlier(j)
  OBVIOUS
<1>5. ASSUME NEW k \in S, <<k, j>> \in R PROVE FALSE
  <2>1. Earlier(k) \subseteq T /\ k \in T /\ k \notin Earlier(k)
    BY <1>4, <1>5
  <2>2. Earlier(k) \in C
    OBVIOUS
  <2>3. Earlier(k) = T
    <3> HIDE DEF C, Earlier
    <3> QED BY <1>3, <2>1, <2>2
  <2> QED
    BY <2>1, <2>3
<1> QED
  BY <1>5

\* A fold over a set has one value at each subset, and so have two folds.
LEMMA FoldsAgree ==
    ASSUME NEW S, IsFiniteSet(S), NEW f, NEW R \in SUBSET S, NEW g, NEW h,
           IsFold(f, S, g), IsFold(f, R, h)
    PROVE  \A s \in SUBSET R : h[s] = g[s]
<1> DEFINE C == {s \in SUBSET R : h[s] # g[s]}
<1> SUFFICES ASSUME C # {} PROVE FALSE
  OBVIOUS
<1>1. PICK T \in C : \A s \in C : s \subseteq T => s = T
  <2>1. C \in SUBSET SUBSET S
    OBVIOUS
  <2> HIDE DEF C
  <2> QED BY <2>1, Smallest
<1>2. h[T] = IF T = {} THEN 0 ELSE f[Pick(T)] + h[T \ {Pick(T)}]
  BY DEF IsFold
<1>3. g[T] = IF T = {} THEN 0 ELSE f[Pick(T)] + g[T \ {Pick(T)}]
  BY DEF IsFold
<1>4. T # {}
  BY <1>2, <1>3
<1>5. T \ {Pick(T)} \notin C
  BY <1>1, <1>4, PickIn
<1> QED
  BY <1>2, <1>3, <1>4, <1>5

LEMMA FoldExists ==
    ASSUME NEW S, IsFiniteSet(S), NEW f
    PROVE  IsFold(f, S, Fold(f, S))
<1> DEFINE C == {s \in SUBSET S : ~ \E g : IsFold(f, s, g)}
<1>1. C = {}
  <2> SUFFICES ASSUME C # {} PROVE FALSE
    OBVIOUS
  <2>1. PICK T \in C : \A s \in C : s \subseteq T => s = T
    <3>1. C \in SUBSET SUBSET S
      OBVIOUS
    <3> HIDE DEF C
    <3> QED BY <3>1, Smallest
  <2>2. \A s \in SUBSET T : s # T => IsFold(f, s, Fold(f, s))
    BY <2>1 DEF Fold
  <2>3. IsFiniteSet(T)
    BY FS_Subset
  <2> DEFINE Value(s) == Fold(f, s)[s]
             g == [s \in SUBSET T |-> IF s = {} THEN 0 ELSE f[Pick(s)] + Value(s \ {Pick(s)})]
  <2>4. ASSUME NEW s \in SUBSET T, s # T
        PROVE  g[s] = Value(s)
    <3>1. IsFold(f, s, Fold(f, s))
      BY <2>2, <2>4
    <3>2. Value(s) = IF s = {} THEN 0 ELSE f[Pick(s)] + Fold(f, s)[s \ {Pick(s)}]
      BY <3>1 DEF IsFold
    <3>3. CASE s = {}
      BY <3>2, <3>3
    <3>4. CASE s # {}
      <4> DEFINE r == s \ {Pick(s)}
      <4>1. r \in SUBSET s /\ r \in SUBSET T /\ r # T
        BY <2>4, <3>4, PickIn
      <4>2. IsFold(f, r, Fold(f, r))
        BY <2>2, <4>1
      <4>3. IsFiniteSet(s)
        BY <2>3, FS_Subset
      <4> HIDE DEF r
      <4>4. Value(r) = Fold(f, s)[r]
        BY <3>1, <4>1, <4>2, <4>3, FoldsAgree
      <4> QED BY <3>2, <3>4, <4>4 DEF r
    <3> QED BY <3>3, <3>4
  <2>5. ASSUME NEW s \in SUBSET T
        PROVE  g[s] = IF s = {} THEN 0 ELSE f[Pick(s)] + g[s \ {Pick(s)}]
    <3>1. s # {} => s \ {Pick(s)} \in SUBSET T /\ s \ {Pick(s)} # T
      BY PickIn
    <3>2. s # {} => g[s \ {Pick(s)}] = Value(s \ {Pick(s)})
      BY <2>4, <3>1
    <3> HIDE DEF Value
    <3> QED BY <3>2
  <2>6. IsFold(f, T, g)
    BY <2>5 DEF IsFold
  <2> QED BY <2>6
<1> QED
  BY <1>1 DEF Fold

\* The sum takes one element after the other ...
LEMMA SumPicks ==
    ASSUME NEW S, IsFiniteSet(S), NEW f
    PROVE  SumFunctionOnSet(f, S) =
              IF S = {} THEN 0 ELSE f[Pick(S)] + SumFunctionOnSet(f, S \ {Pick(S)})
<1> DEFINE R == S \ {Pick(S)}
<1>1. IsFold(f, S, Fold(f, S)) /\ IsFold(f, R, Fold(f, R)) /\ R \in SUBSET S
  BY FoldExists, FS_Subset
<1>2. Fold(f, R)[R] = Fold(f, S)[R]
  BY <1>1, FoldsAgree
<1>3. Fold(f, S)[S] = IF S = {} THEN 0 ELSE f[Pick(S)] + Fold(f, S)[R]
  BY <1>1 DEF IsFold
<1> QED
  BY <1>2, <1>3, SumIsFold

LEMMA SumEmpty == \A f : SumFunctionOnSet(f, {}) = 0
  BY SumPicks, FS_EmptySet

\* ... of integers, or of naturals ...
LEMMA SumInt ==
    ASSUME NEW S, IsFiniteSet(S), NEW f, \A x \in S : f[x] \in Int
    PROVE  SumFunctionOnSet(f, S) \in Int
<1> DEFINE C == {s \in SUBSET S : SumFunctionOnSet(f, s) \notin Int}
<1> SUFFICES ASSUME C # {} PROVE FALSE
  OBVIOUS
<1>1. C \in SUBSET SUBSET S
  OBVIOUS
<1>2. PICK T \in C : \A s \in C : s \subseteq T => s = T
  <2> HIDE DEF C
  <2> QED BY <1>1, Smallest
<1>3. IsFiniteSet(T)
  BY FS_Subset
<1>4. T # {} => f[Pick(T)] \in Int /\ T \ {Pick(T)} \notin C
  BY <1>2, PickIn
<1>5. T # {} => SumFunctionOnSet(f, T \ {Pick(T)}) \in Int
  BY <1>4
<1>6. SumFunctionOnSet(f, T) = IF T = {} THEN 0
                              ELSE f[Pick(T)] + SumFunctionOnSet(f, T \ {Pick(T)})
  BY <1>3, SumPicks
<1>7. SumFunctionOnSet(f, T) \in Int
  BY <1>4, <1>5, <1>6
<1> QED
  BY <1>7

LEMMA SumNat ==
    ASSUME NEW S, IsFiniteSet(S), NEW f, \A x \in S : f[x] \in Nat
    PROVE  SumFunctionOnSet(f, S) \in Nat
<1> DEFINE C == {s \in SUBSET S : SumFunctionOnSet(f, s) \notin Nat}
<1> SUFFICES ASSUME C # {} PROVE FALSE
  OBVIOUS
<1>1. C \in SUBSET SUBSET S
  OBVIOUS
<1>2. PICK T \in C : \A s \in C : s \subseteq T => s = T
  <2> HIDE DEF C
  <2> QED BY <1>1, Smallest
<1>3. IsFiniteSet(T)
  BY FS_Subset
<1>4. T # {} => f[Pick(T)] \in Nat /\ T \ {Pick(T)} \notin C
  BY <1>2, PickIn
<1>5. T # {} => SumFunctionOnSet(f, T \ {Pick(T)}) \in Nat
  BY <1>4
<1>6. SumFunctionOnSet(f, T) = IF T = {} THEN 0
                              ELSE f[Pick(T)] + SumFunctionOnSet(f, T \ {Pick(T)})
  BY <1>3, SumPicks
<1>7. SumFunctionOnSet(f, T) \in Nat
  BY <1>4, <1>5, <1>6
<1> QED
  BY <1>7

\* ... in whatever order.
LEMMA SumRemove ==
    ASSUME NEW S, IsFiniteSet(S), NEW f, \A x \in S : f[x] \in Int, NEW e \in S
    PROVE  SumFunctionOnSet(f, S) = f[e] + SumFunctionOnSet(f, S \ {e})
<1> DEFINE Sum(s) == SumFunctionOnSet(f, s)
           C == {s \in SUBSET S : \E x \in s : Sum(s) # f[x] + Sum(s \ {x})}
<1> SUFFICES ASSUME C # {} PROVE FALSE
  OBVIOUS
<1>1. C \in SUBSET SUBSET S
  OBVIOUS
<1>2. PICK T \in C : \A s \in C : s \subseteq T => s = T
  <2> HIDE DEF C
  <2> QED BY <1>1, Smallest
<1>3. PICK x \in T : Sum(T) # f[x] + Sum(T \ {x})
  OBVIOUS
<1> DEFINE p == Pick(T)
<1>4. p \in T
  BY PickIn
<1>5. /\ IsFiniteSet(T) /\ IsFiniteSet(T \ {x}) /\ IsFiniteSet(T \ {p})
      /\ IsFiniteSet((T \ {p}) \ {x})
  BY FS_Subset
<1>6. Sum(T) = f[p] + Sum(T \ {p})
  BY <1>4, <1>5, SumPicks
<1>7. CASE x = p
  BY <1>3, <1>6, <1>7
<1>8. CASE x # p
  <2> HIDE DEF p
  <2>1. T \ {p} \notin C /\ T \ {x} \notin C
    BY <1>2, <1>4
  <2>2. Sum(T \ {p}) = f[x] + Sum((T \ {p}) \ {x})
    BY <1>8, <2>1
  <2>3. Sum(T \ {x}) = f[p] + Sum((T \ {x}) \ {p})
    BY <1>4, <1>8, <2>1
  <2>4. (T \ {p}) \ {x} = (T \ {x}) \ {p}
    OBVIOUS
  <2>5. Sum((T \ {p}) \ {x}) \in Int
    BY <1>5, SumInt
  <2>6. f[x] \in Int /\ f[p] \in Int
    BY <1>4
  <2> HIDE DEF Sum
  <2> QED BY <1>3, <1>6, <2>2, <2>3, <2>4, <2>5, <2>6
<1> QED
  BY <1>7, <1>8

LEMMA SumAdd ==
    ASSUME NEW S, IsFiniteSet(S), NEW e, e \notin S, NEW f, \A x \in S \cup {e} : f[x] \in Int
    PROVE  SumFunctionOnSet(f, S \cup {e}) = f[e] + SumFunctionOnSet(f, S)
<1>1. IsFiniteSet(S \cup {e})
  BY FS_AddElement
<1>2. (S \cup {e}) \ {e} = S
  OBVIOUS
<1> QED
  BY <1>1, <1>2, SumRemove

\* It depends on what is summed and on nothing else.
LEMMA SumSame ==
    ASSUME NEW S, IsFiniteSet(S), NEW f, NEW g, \A x \in S : f[x] = g[x]
    PROVE  SumFunctionOnSet(f, S) = SumFunctionOnSet(g, S)
<1> DEFINE C == {s \in SUBSET S : SumFunctionOnSet(f, s) # SumFunctionOnSet(g, s)}
<1> SUFFICES ASSUME C # {} PROVE FALSE
  OBVIOUS
<1>1. C \in SUBSET SUBSET S
  OBVIOUS
<1>2. PICK T \in C : \A s \in C : s \subseteq T => s = T
  <2> HIDE DEF C
  <2> QED BY <1>1, Smallest
<1>3. IsFiniteSet(T)
  BY FS_Subset
<1>4. T # {} => f[Pick(T)] = g[Pick(T)] /\ T \ {Pick(T)} \notin C
  BY <1>2, PickIn
<1>5. T # {} => SumFunctionOnSet(f, T \ {Pick(T)}) = SumFunctionOnSet(g, T \ {Pick(T)})
  BY <1>4
<1> QED
  BY <1>3, <1>4, <1>5, SumPicks

\* One value changes: the sum changes by as much.
LEMMA SumChange ==
    ASSUME NEW S, IsFiniteSet(S), NEW f, NEW g, NEW e \in S,
           \A x \in S : f[x] \in Int /\ g[x] \in Int,
           \A x \in S \ {e} : f[x] = g[x]
    PROVE  SumFunctionOnSet(g, S) = SumFunctionOnSet(f, S) + g[e] - f[e]
<1>1. IsFiniteSet(S \ {e})
  BY FS_RemoveElement
<1>2. SumFunctionOnSet(f, S) = f[e] + SumFunctionOnSet(f, S \ {e})
  BY SumRemove
<1>3. SumFunctionOnSet(g, S) = g[e] + SumFunctionOnSet(g, S \ {e})
  BY SumRemove
<1>4. SumFunctionOnSet(f, S \ {e}) = SumFunctionOnSet(g, S \ {e})
  BY <1>1, SumSame
<1>5. SumFunctionOnSet(f, S \ {e}) \in Int
  BY <1>1, SumInt
<1> QED
  BY <1>2, <1>3, <1>4, <1>5

\* Of naturals, what is part of a set sums to no more.
LEMMA SumSubset ==
    ASSUME NEW S, IsFiniteSet(S), NEW R \in SUBSET S, NEW f, \A x \in S : f[x] \in Nat
    PROVE  SumFunctionOnSet(f, R) <= SumFunctionOnSet(f, S)
<1> DEFINE Sum(s) == SumFunctionOnSet(f, s)
           C == {s \in SUBSET S : R \subseteq s /\ ~(Sum(R) <= Sum(s))}
<1> SUFFICES ASSUME C # {} PROVE FALSE
  OBVIOUS
<1>1. C \in SUBSET SUBSET S
  OBVIOUS
<1>2. PICK T \in C : \A s \in C : s \subseteq T => s = T
  <2> HIDE DEF C
  <2> QED BY <1>1, Smallest
<1>3. IsFiniteSet(T) /\ IsFiniteSet(R)
  BY FS_Subset
<1>4. Sum(T) \in Nat /\ Sum(R) \in Nat
  BY <1>3, SumNat
<1>5. PICK x \in T : x \notin R
  BY <1>4
<1>6. IsFiniteSet(T \ {x}) /\ T \ {x} \notin C
  BY <1>2, <1>3, FS_RemoveElement
<1>7. Sum(T \ {x}) \in Nat /\ f[x] \in Nat
  BY <1>6, SumNat
<1>8. Sum(T) = f[x] + Sum(T \ {x})
  BY <1>3, SumRemove
<1>9. Sum(R) <= Sum(T \ {x})
  BY <1>5, <1>6
<1>10. ~(Sum(R) <= Sum(T))
  OBVIOUS
<1> HIDE DEF Sum
<1> QED
  BY <1>4, <1>7, <1>8, <1>9, <1>10

LEMMA SumZero ==
    ASSUME NEW S, IsFiniteSet(S), NEW f, \A x \in S : f[x] = 0
    PROVE  SumFunctionOnSet(f, S) = 0
<1> DEFINE C == {s \in SUBSET S : SumFunctionOnSet(f, s) # 0}
<1> SUFFICES ASSUME C # {} PROVE FALSE
  OBVIOUS
<1>1. C \in SUBSET SUBSET S
  OBVIOUS
<1>2. PICK T \in C : \A s \in C : s \subseteq T => s = T
  <2> HIDE DEF C
  <2> QED BY <1>1, Smallest
<1>3. IsFiniteSet(T)
  BY FS_Subset
<1>4. T # {} => f[Pick(T)] = 0 /\ T \ {Pick(T)} \notin C
  BY <1>2, PickIn
<1>5. T # {} => SumFunctionOnSet(f, T \ {Pick(T)}) = 0
  BY <1>4
<1> QED
  BY <1>3, <1>4, <1>5, SumPicks
=============================================================================
