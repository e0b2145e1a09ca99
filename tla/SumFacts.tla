------------------------------- MODULE SumFacts -------------------------------
(***************************************************************************)
(* Sums of a function over a finite set (SumFunctionOnSet of the community *)
(* modules): that the recursion behind them is well defined, and that the  *)
(* order in which it takes the elements does not matter.                   *)
(***************************************************************************)
EXTENDS FiniteSetsExt, FiniteSetTheorems, WellFoundedInduction, TLAPS

Total(f, S) == SumFunctionOnSet(f, S)

Pick(s) == CHOOSE x \in s : TRUE

\* iter is the recursion a total over S unfolds.
Unfolds(f, S, iter) ==
    iter = [s \in SUBSET S |-> IF s = {} THEN 0 ELSE f[Pick(s)] + iter[s \ {Pick(s)}]]

Partial(f, S) == CHOOSE iter : Unfolds(f, S, iter)

LEMMA TotalIsPartial ==
    ASSUME NEW f, NEW S
    PROVE  Total(f, S) = Partial(f, S)[S]
  BY DEF Total, SumFunctionOnSet, FoldFunctionOnSet, MapThenFoldSet, Partial, Unfolds, Pick

\* A set of subsets of S that holds a set as soon as it holds its strict
\* subsets holds every one.
LEMMA SubsetInduction ==
    ASSUME NEW S, IsFiniteSet(S), NEW G,
           \A T \in SUBSET S : (\A U \in SUBSET T : U # T => U \in G) => T \in G
    PROVE  SUBSET S \subseteq G
<1>1. IsWellFoundedOn(StrictSubsetOrdering(S), SUBSET S)
  BY FS_StrictSubsetOrderingWellFounded, FS_FiniteSubsetsOfFinite
<1>2. SUFFICES ASSUME (SUBSET S) \ G # {} PROVE FALSE
  OBVIOUS
<1> DEFINE bad == (SUBSET S) \ G
           rel == StrictSubsetOrdering(S)
<1>3. PICK T \in bad : \A U \in bad : ~(<<U, T>> \in rel)
  <2>1. bad \subseteq SUBSET S /\ bad # {} /\ IsWellFoundedOn(rel, SUBSET S)
    BY <1>1, <1>2
  <2> DEFINE P == SUBSET S
  <2>2. bad \subseteq P /\ IsWellFoundedOn(rel, P)
    BY <2>1
  <2> HIDE DEF bad, rel, P
  <2> QED BY <2>1, <2>2, WFMin
<1>4. ASSUME NEW U \in SUBSET T, U # T PROVE U \in G
  <2>1. <<U, T>> \in StrictSubsetOrdering(S)
    BY <1>4 DEF StrictSubsetOrdering
  <2> QED BY <1>3, <2>1
<1> QED BY <1>3, <1>4

LEMMA UnfoldsOnce ==
    ASSUME NEW S, IsFiniteSet(S), NEW f, NEW i, NEW j, Unfolds(f, S, i), Unfolds(f, S, j)
    PROVE  i = j
<1> DEFINE G == {T \in SUBSET S : i[T] = j[T]}
<1>1. ASSUME NEW T \in SUBSET S, \A U \in SUBSET T : U # T => U \in G PROVE T \in G
  <2>1. CASE T = {}
    BY <2>1 DEF Unfolds
  <2>2. CASE T # {}
    <3>1. Pick(T) \in T
      BY <2>2 DEF Pick
    <3>2. i[T \ {Pick(T)}] = j[T \ {Pick(T)}]
      BY <1>1, <3>1
    <3>3. i[T] = f[Pick(T)] + i[T \ {Pick(T)}] /\ j[T] = f[Pick(T)] + j[T \ {Pick(T)}]
      BY <2>2 DEF Unfolds
    <3> QED BY <3>2, <3>3
  <2> QED BY <2>1, <2>2
<1>2. SUBSET S \subseteq G
  <2> HIDE DEF G
  <2> QED BY <1>1, SubsetInduction
<1>3. \A T \in SUBSET S : i[T] = j[T]
  BY <1>2
<1>4. i = [s \in SUBSET S |-> i[s]] /\ j = [s \in SUBSET S |-> j[s]]
  BY DEF Unfolds
<1> QED BY <1>3, <1>4

LEMMA UnfoldsBelow ==
    ASSUME NEW f, NEW S, NEW i, Unfolds(f, S, i), NEW T \in SUBSET S
    PROVE  Unfolds(f, T, [s \in SUBSET T |-> i[s]])
<1> DEFINE g == [s \in SUBSET T |-> i[s]]
<1>1. ASSUME NEW s \in SUBSET T
      PROVE  i[s] = IF s = {} THEN 0 ELSE f[Pick(s)] + g[s \ {Pick(s)}]
  BY DEF Unfolds
<1>2. g = [s \in SUBSET T |-> IF s = {} THEN 0 ELSE f[Pick(s)] + g[s \ {Pick(s)}]]
  BY <1>1
<1> QED BY <1>2 DEF Unfolds

LEMMA PartialUnfolds ==
    ASSUME NEW S, IsFiniteSet(S), NEW f
    PROVE  Unfolds(f, S, Partial(f, S))
<1> DEFINE G == {T \in SUBSET S : Unfolds(f, T, Partial(f, T))}
           V(s) == Partial(f, s)[s]
<1>1. ASSUME NEW T \in SUBSET S, \A U \in SUBSET T : U # T => U \in G PROVE T \in G
  <2> DEFINE x == Pick(T)
             g == [s \in SUBSET T |->
                     IF s = {} THEN 0
                     ELSE IF s = T THEN f[x] + V(T \ {x}) ELSE V(s)]
  <2>1. ASSUME NEW s \in SUBSET T, s # T, s # {}
        PROVE  V(s) = f[Pick(s)] + V(s \ {Pick(s)})
    <3> DEFINE t == s \ {Pick(s)}
    <3>1. Pick(s) \in s /\ t \in SUBSET s /\ s \in SUBSET s /\ t # T
      BY <2>1 DEF Pick
    <3>2. Unfolds(f, s, Partial(f, s)) /\ Unfolds(f, t, Partial(f, t))
      BY <1>1, <2>1, <3>1
    <3>3. V(s) = f[Pick(s)] + Partial(f, s)[t]
      BY <2>1, <3>1, <3>2 DEF Unfolds
    <3>4. IsFiniteSet(t)
      BY FS_Subset
    <3>5. [u \in SUBSET t |-> Partial(f, s)[u]] = Partial(f, t)
      BY <3>1, <3>2, <3>4, UnfoldsBelow, UnfoldsOnce
    <3>6. Partial(f, s)[t] = V(t)
      BY <3>5
    <3> QED BY <3>3, <3>6
  <2>2. ASSUME T # {} PROVE x \in T
    BY <2>2 DEF Pick
  <2>3. V({}) = 0 \/ T = {}
    <3>1. CASE T # {}
      <4>1. Unfolds(f, {}, Partial(f, {}))
        BY <1>1, <3>1
      <4> QED BY <4>1 DEF Unfolds
    <3> QED BY <3>1
  <2>4. ASSUME NEW s \in SUBSET T, s # {}
        PROVE  g[s] = f[Pick(s)] + g[s \ {Pick(s)}]
    <3>1. Pick(s) \in s
      BY <2>4 DEF Pick
    <3>2. s \ {Pick(s)} \in SUBSET T /\ s \ {Pick(s)} # T
      BY <3>1
    <3>3. g[s \ {Pick(s)}] = V(s \ {Pick(s)})
      <4> HIDE DEF V
      <4> QED BY <2>3, <2>4, <3>2
    <3>4. g[s] = f[Pick(s)] + V(s \ {Pick(s)})
      <4> HIDE DEF V
      <4> QED BY <2>1, <2>4
    <3> QED BY <3>3, <3>4
  <2>5. g = [s \in SUBSET T |-> IF s = {} THEN 0 ELSE f[Pick(s)] + g[s \ {Pick(s)}]]
    <3>1. \A s \in SUBSET T : g[s] = IF s = {} THEN 0 ELSE f[Pick(s)] + g[s \ {Pick(s)}]
      BY <2>4
    <3>2. g = [s \in SUBSET T |-> g[s]]
      OBVIOUS
    <3> HIDE DEF g
    <3> QED BY <3>1, <3>2
  <2>6. Unfolds(f, T, g)
    <3> HIDE DEF g
    <3> QED BY <2>5 DEF Unfolds
  <2> HIDE DEF g
  <2> QED BY <2>6 DEF Partial
<1>2. SUBSET S \subseteq G
  <2> HIDE DEF G
  <2> QED BY <1>1, SubsetInduction
<1> QED BY <1>2

-----------------------------------------------------------------------------
(* What totals are. *)

LEMMA TotalEmpty ==
    ASSUME NEW f
    PROVE  Total(f, {}) = 0
  BY PartialUnfolds, TotalIsPartial, FS_EmptySet DEF Unfolds

LEMMA TotalPick ==
    ASSUME NEW S, IsFiniteSet(S), S # {}, NEW f
    PROVE  Total(f, S) = f[Pick(S)] + Total(f, S \ {Pick(S)})
<1> DEFINE t == S \ {Pick(S)}
<1>1. IsFiniteSet(t)
  BY FS_Subset
<1>2. Unfolds(f, S, Partial(f, S)) /\ Unfolds(f, t, Partial(f, t))
  BY <1>1, PartialUnfolds
<1>3. Partial(f, S)[S] = f[Pick(S)] + Partial(f, S)[t]
  BY <1>2 DEF Unfolds
<1>4. [u \in SUBSET t |-> Partial(f, S)[u]] = Partial(f, t)
  BY <1>1, <1>2, UnfoldsBelow, UnfoldsOnce
<1>5. Partial(f, S)[t] = Partial(f, t)[t]
  BY <1>4
<1> QED BY <1>3, <1>5, TotalIsPartial

LEMMA TotalType ==
    ASSUME NEW S, IsFiniteSet(S), NEW f, \A x \in S : f[x] \in Int
    PROVE  Total(f, S) \in Int
<1> DEFINE G == {T \in SUBSET S : Total(f, T) \in Int}
<1>1. ASSUME NEW T \in SUBSET S, \A U \in SUBSET T : U # T => U \in G PROVE T \in G
  <2>1. CASE T = {}
    BY <2>1, TotalEmpty
  <2>2. CASE T # {}
    <3>1. Pick(T) \in T
      BY <2>2 DEF Pick
    <3>2. Total(f, T) = f[Pick(T)] + Total(f, T \ {Pick(T)})
      BY <2>2, TotalPick, FS_Subset
    <3>3. Total(f, T \ {Pick(T)}) \in Int
      BY <1>1, <3>1
    <3> QED BY <3>1, <3>2, <3>3
  <2> QED BY <2>1, <2>2
<1>2. SUBSET S \subseteq G
  <2> HIDE DEF G
  <2> QED BY <1>1, SubsetInduction
<1> QED BY <1>2

\* Whichever element is taken first.
LEMMA TotalTake ==
    ASSUME NEW S, IsFiniteSet(S), NEW f, \A x \in S : f[x] \in Int, NEW x \in S
    PROVE  Total(f, S) = f[x] + Total(f, S \ {x})
<1> DEFINE G == {T \in SUBSET S : \A y \in T : Total(f, T) = f[y] + Total(f, T \ {y})}
<1>1. ASSUME NEW T \in SUBSET S, \A U \in SUBSET T : U # T => U \in G PROVE T \in G
  <2>1. SUFFICES ASSUME NEW y \in T PROVE Total(f, T) = f[y] + Total(f, T \ {y})
    OBVIOUS
  <2> DEFINE p == Pick(T)
  <2>2. p \in T
    BY DEF Pick
  <2>3. Total(f, T) = f[p] + Total(f, T \ {p})
    BY TotalPick, FS_Subset
  <2>4. CASE y = p
    <3> HIDE DEF p
    <3> QED BY <2>3, <2>4
  <2>5. CASE y # p
    <3>1. Total(f, T \ {p}) = f[y] + Total(f, (T \ {p}) \ {y})
      BY <1>1, <2>2, <2>5
    <3>2. Total(f, T \ {y}) = f[p] + Total(f, (T \ {y}) \ {p})
      BY <1>1, <2>2, <2>5
    <3>3. (T \ {p}) \ {y} = (T \ {y}) \ {p}
      OBVIOUS
    <3> DEFINE rest == Total(f, (T \ {p}) \ {y})
    <3>5. Total(f, T) = f[p] + (f[y] + rest) /\ Total(f, T \ {y}) = f[p] + rest
      BY <2>3, <3>1, <3>2, <3>3
    <3>4. rest \in Int /\ f[p] \in Int /\ f[y] \in Int
      BY <2>2, TotalType, FS_Subset
    <3> HIDE DEF p, rest
    <3> QED BY <3>4, <3>5
  <2> QED BY <2>4, <2>5
<1>2. SUBSET S \subseteq G
  <2> HIDE DEF G
  <2> QED BY <1>1, SubsetInduction
<1> QED BY <1>2

LEMMA TotalAdd ==
    ASSUME NEW S, IsFiniteSet(S), NEW f, NEW x, x \notin S, \A y \in S \cup {x} : f[y] \in Int
    PROVE  Total(f, S \cup {x}) = f[x] + Total(f, S)
<1>1. IsFiniteSet(S \cup {x}) /\ (S \cup {x}) \ {x} = S
  BY FS_AddElement
<1> QED BY <1>1, TotalTake

LEMMA TotalAgree ==
    ASSUME NEW S, IsFiniteSet(S), NEW f, NEW g, \A x \in S : f[x] = g[x]
    PROVE  Total(f, S) = Total(g, S)
<1> DEFINE G == {T \in SUBSET S : Total(f, T) = Total(g, T)}
<1>1. ASSUME NEW T \in SUBSET S, \A U \in SUBSET T : U # T => U \in G PROVE T \in G
  <2>1. CASE T = {}
    BY <2>1, TotalEmpty
  <2>2. CASE T # {}
    <3>1. Pick(T) \in T
      BY <2>2 DEF Pick
    <3>2. /\ Total(f, T) = f[Pick(T)] + Total(f, T \ {Pick(T)})
          /\ Total(g, T) = g[Pick(T)] + Total(g, T \ {Pick(T)})
      BY <2>2, TotalPick, FS_Subset
    <3>3. Total(f, T \ {Pick(T)}) = Total(g, T \ {Pick(T)})
      BY <1>1, <3>1
    <3> QED BY <3>1, <3>2, <3>3
  <2> QED BY <2>1, <2>2
<1>2. SUBSET S \subseteq G
  <2> HIDE DEF G
  <2> QED BY <1>1, SubsetInduction
<1> QED BY <1>2

LEMMA TotalUnion ==
    ASSUME NEW S, IsFiniteSet(S), NEW R, IsFiniteSet(R), S \cap R = {},
           NEW f, \A x \in S \cup R : f[x] \in Int
    PROVE  Total(f, S \cup R) = Total(f, S) + Total(f, R)
<1> DEFINE G == {T \in SUBSET S : Total(f, T \cup R) = Total(f, T) + Total(f, R)}
<1>1. ASSUME NEW T \in SUBSET S, \A U \in SUBSET T : U # T => U \in G PROVE T \in G
  <2>0. Total(f, R) \in Int
    BY TotalType
  <2>1. CASE T = {}
    <3>1. T \cup R = R
      BY <2>1
    <3> QED BY <2>0, <2>1, <3>1, TotalEmpty
  <2>2. CASE T # {}
    <3>1. PICK x \in T : TRUE
      BY <2>2
    <3>2. IsFiniteSet(T) /\ IsFiniteSet(T \ {x}) /\ IsFiniteSet(T \cup R)
      BY FS_Subset, FS_Union
    <3>3. Total(f, T) = f[x] + Total(f, T \ {x})
      BY <3>2, TotalTake
    <3>4. Total(f, T \cup R) = f[x] + Total(f, (T \cup R) \ {x})
      BY <3>2, TotalTake
    <3>5. (T \cup R) \ {x} = (T \ {x}) \cup R
      OBVIOUS
    <3>6. Total(f, (T \ {x}) \cup R) = Total(f, T \ {x}) + Total(f, R)
      BY <1>1, <3>1
    <3>7. Total(f, T \ {x}) \in Int /\ f[x] \in Int
      BY <3>2, TotalType
    <3> DEFINE rest == Total(f, T \ {x})
               other == Total(f, R)
    <3>8. Total(f, T \cup R) = f[x] + (rest + other) /\ Total(f, T) = f[x] + rest
      BY <3>3, <3>4, <3>5, <3>6
    <3>9. rest \in Int /\ f[x] \in Int /\ other \in Int
      BY <2>0, <3>7
    <3> HIDE DEF rest
    <3>10. Total(f, T \cup R) = Total(f, T) + other
      <4> HIDE DEF other
      <4> QED BY <3>8, <3>9
    <3> QED BY <3>10
  <2> QED BY <2>1, <2>2
<1>2. SUBSET S \subseteq G
  <2> HIDE DEF G
  <2> QED BY <1>1, SubsetInduction
<1> QED BY <1>2

LEMMA TotalAtMost ==
    ASSUME NEW S, IsFiniteSet(S), NEW f, NEW g,
           \A x \in S : f[x] \in Int /\ g[x] \in Int /\ f[x] <= g[x]
    PROVE  Total(f, S) <= Total(g, S)
<1> DEFINE G == {T \in SUBSET S : Total(f, T) <= Total(g, T)}
<1>1. ASSUME NEW T \in SUBSET S, \A U \in SUBSET T : U # T => U \in G PROVE T \in G
  <2>1. CASE T = {}
    BY <2>1, TotalEmpty
  <2>2. CASE T # {}
    <3>1. PICK x \in T : TRUE
      BY <2>2
    <3>2. IsFiniteSet(T) /\ IsFiniteSet(T \ {x})
      BY FS_Subset
    <3>3. Total(f, T) = f[x] + Total(f, T \ {x}) /\ Total(g, T) = g[x] + Total(g, T \ {x})
      BY <3>2, TotalTake
    <3>4. Total(f, T \ {x}) <= Total(g, T \ {x})
      BY <1>1, <3>1
    <3>5. Total(f, T \ {x}) \in Int /\ Total(g, T \ {x}) \in Int
      BY <3>2, TotalType
    <3>6. f[x] \in Int /\ g[x] \in Int /\ f[x] <= g[x]
      OBVIOUS
    <3> QED BY <3>3, <3>4, <3>5, <3>6
  <2> QED BY <2>1, <2>2
<1>2. SUBSET S \subseteq G
  <2> HIDE DEF G
  <2> QED BY <1>1, SubsetInduction
<1> QED BY <1>2

\* A total of naturals over a larger set is no smaller.
LEMMA TotalGrows ==
    ASSUME NEW S, IsFiniteSet(S), NEW R \in SUBSET S, NEW f, \A x \in S : f[x] \in Nat
    PROVE  0 <= Total(f, S) /\ Total(f, R) <= Total(f, S)
<1>1. ASSUME NEW T \in SUBSET S PROVE 0 <= Total(f, T) /\ Total(f, T) \in Int
  <2> DEFINE z == [x \in S |-> 0]
             G == {U \in SUBSET S : Total(z, U) = 0}
  <2>1. ASSUME NEW U \in SUBSET S, \A V \in SUBSET U : V # U => V \in G PROVE U \in G
    <3>1. CASE U = {}
      BY <3>1, TotalEmpty
    <3>2. CASE U # {}
      <4>1. Pick(U) \in U
        BY <3>2 DEF Pick
      <4>2. Total(z, U) = z[Pick(U)] + Total(z, U \ {Pick(U)})
        BY <3>2, TotalPick, FS_Subset
      <4>3. Total(z, U \ {Pick(U)}) = 0
        BY <2>1, <4>1
      <4> QED BY <4>1, <4>2, <4>3
    <3> QED BY <3>1, <3>2
  <2>2. SUBSET S \subseteq G
    <3> HIDE DEF G
    <3> QED BY <2>1, SubsetInduction
  <2>3. Total(z, T) = 0
    BY <2>2
  <2>4. IsFiniteSet(T) /\ \A x \in T : z[x] \in Int /\ f[x] \in Int /\ z[x] <= f[x]
    BY FS_Subset
  <2> HIDE DEF z
  <2> QED BY <2>3, <2>4, TotalAtMost, TotalType
<1>2. Total(f, R \cup (S \ R)) = Total(f, R) + Total(f, S \ R)
  <2>1. IsFiniteSet(R) /\ IsFiniteSet(S \ R) /\ R \cap (S \ R) = {}
    BY FS_Subset
  <2>2. \A x \in R \cup (S \ R) : f[x] \in Int
    OBVIOUS
  <2> QED BY <2>1, <2>2, TotalUnion
<1>3. R \cup (S \ R) = S
  OBVIOUS
<1>4. 0 <= Total(f, S \ R) /\ Total(f, S \ R) \in Int /\ Total(f, R) \in Int
  BY <1>1
<1> QED BY <1>1, <1>2, <1>3, <1>4

===============================================================================
