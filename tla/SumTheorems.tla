---------------------------- MODULE SumTheorems ----------------------------
(***************************************************************************)
(* Sums of a function's values over a finite set (SumFunctionOnSet of the  *)
(* community modules): the recursive definition is well founded, and one   *)
(* element can be taken out of a sum, put into it or changed in it.        *)
(*                                                                         *)
(* The inductions are over sets of subsets: a family of subsets of S that  *)
(* contains a set whenever it contains all its strict subsets has S in it. *)
(***************************************************************************)
EXTENDS FiniteSetsExt, FiniteSetTheorems, TLAPS

-----------------------------------------------------------------------------
(* Induction over the subsets of a finite set, for a family G of sets.     *)
LEMMA SubsetInduction ==
  ASSUME NEW S, IsFiniteSet(S), NEW G,
         \A s \in SUBSET S : (\A t \in SUBSET s : t # s => t \in G) => s \in G
  PROVE  \A s \in SUBSET S : s \in G
<1> DEFINE Bad == {s \in SUBSET S : s \notin G}
           R == StrictSubsetOrdering(S)
<1> SUFFICES ASSUME Bad # {} PROVE FALSE
  OBVIOUS
<1>1. IsWellFoundedOn(R, SUBSET S)
  <2>1. IsWellFoundedOn(StrictSubsetOrdering(S), FiniteSubsetsOf(S))
    BY FS_StrictSubsetOrderingWellFounded
  <2>2. FiniteSubsetsOf(S) = SUBSET S
    BY FS_FiniteSubsetsOfFinite
  <2> QED
    BY <2>1, <2>2
<1>2. Bad \subseteq SUBSET S
  OBVIOUS
<1> HIDE DEF R, Bad
<1>3. PICK s \in Bad : \A t \in Bad : <<t, s>> \notin R
  BY <1>1, <1>2, WFMin
<1> USE DEF Bad
<1>4. ASSUME NEW t \in SUBSET s, t # s PROVE t \in G
  <2>1. <<t, s>> \in R
    BY <1>4 DEF R, StrictSubsetOrdering
  <2> QED
    BY <1>3, <2>1
<1> QED
  BY <1>4

-----------------------------------------------------------------------------
(* The element a fold takes next, and the equation it iterates.            *)
Next1(s) == CHOOSE x \in s : TRUE

Iterates(g, f, S) ==
  g = [s \in SUBSET S |-> IF s = {} THEN 0 ELSE f[Next1(s)] + g[s \ {Next1(s)}]]

Solution(f, S) == CHOOSE g : Iterates(g, f, S)

LEMMA SumIsSolution ==
  ASSUME NEW f, NEW S
  PROVE  SumFunctionOnSet(f, S) = Solution(f, S)[S]
BY DEF SumFunctionOnSet, FoldFunctionOnSet, MapThenFoldSet, Solution, Iterates, Next1

LEMMA NextIn == ASSUME NEW s, s # {} PROVE Next1(s) \in s
BY DEF Next1

(* The equation has at most one solution, over subsets as over the set.    *)
LEMMA SolutionsAgree ==
  ASSUME NEW S, IsFiniteSet(S), NEW T \in SUBSET S, NEW f, NEW g, NEW h,
         Iterates(g, f, S), Iterates(h, f, T)
  PROVE  \A s \in SUBSET T : g[s] = h[s]
<1> DEFINE G == {s \in SUBSET T : g[s] = h[s]}
<1>1. ASSUME NEW s \in SUBSET T, \A t \in SUBSET s : t # s => t \in G PROVE s \in G
  <2>1. s \in SUBSET S
    OBVIOUS
  <2>2. CASE s = {}
    BY <2>1, <2>2 DEF Iterates
  <2>3. CASE s # {}
    <3>1. s \ {Next1(s)} \in G
      BY <1>1, <2>3, NextIn
    <3>2. g[s] = f[Next1(s)] + g[s \ {Next1(s)}]
      BY <2>1, <2>3 DEF Iterates
    <3>3. h[s] = f[Next1(s)] + h[s \ {Next1(s)}]
      BY <2>3 DEF Iterates
    <3> QED
      BY <3>1, <3>2, <3>3
  <2> QED
    BY <2>2, <2>3
<1>2. IsFiniteSet(T)
  BY FS_Subset
<1> HIDE DEF G
<1>3. \A s \in SUBSET T : s \in G
  BY <1>1, <1>2, SubsetInduction
<1> QED
  BY <1>3 DEF G

(* It has one for every finite set.                                        *)
LEMMA SolutionExists ==
  ASSUME NEW S, IsFiniteSet(S), NEW f
  PROVE  \A s \in SUBSET S : Iterates(Solution(f, s), f, s)
<1> DEFINE G == {s \in SUBSET S : Iterates(Solution(f, s), f, s)}
           Value(t) == Solution(f, t)[t]
<1>1. ASSUME NEW s \in SUBSET S, \A t \in SUBSET s : t # s => t \in G PROVE s \in G
  <2> DEFINE h == [t \in SUBSET s |-> IF t = {} THEN 0 ELSE f[Next1(t)] + Value(t \ {Next1(t)})]
  <2>1. ASSUME NEW t \in SUBSET s, t # s PROVE Value(t) = h[t]
    <3>1. Iterates(Solution(f, t), f, t) /\ IsFiniteSet(t)
      BY <1>1, <2>1, FS_Subset
    <3>2. CASE t = {}
      BY <3>1, <3>2 DEF Iterates
    <3>3. CASE t # {}
      <4> DEFINE u == t \ {Next1(t)}
      <4>1. u \in SUBSET t /\ u # t /\ u \in SUBSET s /\ u # s
        BY <3>3, NextIn
      <4>2. Iterates(Solution(f, u), f, u)
        BY <1>1, <4>1
      <4>3. Solution(f, t)[u] = Solution(f, u)[u]
        BY <3>1, <4>1, <4>2, SolutionsAgree
      <4>4. Solution(f, t)[t] = f[Next1(t)] + Solution(f, t)[u]
        BY <3>1, <3>3 DEF Iterates
      <4> QED
        BY <3>3, <4>3, <4>4
    <3> QED
      BY <3>2, <3>3
  <2> HIDE DEF Value
  <2>2. ASSUME NEW t \in SUBSET s, t # {}
        PROVE  h[t] = f[Next1(t)] + h[t \ {Next1(t)}]
    <3>1. t \ {Next1(t)} \in SUBSET s /\ t \ {Next1(t)} # s
      BY <2>2, NextIn
    <3>2. Value(t \ {Next1(t)}) = h[t \ {Next1(t)}]
      BY <2>1, <3>1
    <3> HIDE DEF h
    <3>3. h[t] = f[Next1(t)] + Value(t \ {Next1(t)})
      BY <2>2 DEF h
    <3> QED
      BY <3>2, <3>3
  <2>3. h[{}] = 0
    OBVIOUS
  <2>4. Iterates(h, f, s)
    <3> DEFINE k == [t \in SUBSET s |-> IF t = {} THEN 0 ELSE f[Next1(t)] + h[t \ {Next1(t)}]]
    <3>1. h = [t \in SUBSET s |-> h[t]]
      OBVIOUS
    <3> HIDE DEF h
    <3>2. \A t \in SUBSET s : h[t] = k[t]
      BY <2>2, <2>3
    <3>3. h = k
      BY <3>1, <3>2
    <3> QED
      BY <3>3 DEF Iterates
  <2> QED
    BY <2>4 DEF Solution
<1> HIDE DEF G
<1>2. \A s \in SUBSET S : s \in G
  BY <1>1, SubsetInduction
<1> QED
  BY <1>2 DEF G

(* A sum over nothing is 0.                                                *)
LEMMA SumEmpty == ASSUME NEW f PROVE SumFunctionOnSet(f, {}) = 0
<1>1. Iterates(Solution(f, {}), f, {})
  BY FS_EmptySet, SolutionExists
<1> QED
  BY <1>1, SumIsSolution DEF Iterates

LEMMA SumNext ==
  ASSUME NEW S, IsFiniteSet(S), S # {}, NEW f
  PROVE  SumFunctionOnSet(f, S) = f[Next1(S)] + SumFunctionOnSet(f, S \ {Next1(S)})
<1> DEFINE T == S \ {Next1(S)}
<1>1. Iterates(Solution(f, S), f, S) /\ Iterates(Solution(f, T), f, T)
  BY SolutionExists
<1>2. Solution(f, S)[S] = f[Next1(S)] + Solution(f, S)[T]
  BY <1>1 DEF Iterates
<1>3. Solution(f, S)[T] = Solution(f, T)[T]
  BY <1>1, SolutionsAgree
<1> QED
  BY <1>2, <1>3, SumIsSolution

(* A sum of natural numbers is one.                                        *)
LEMMA SumNat ==
  ASSUME NEW S, IsFiniteSet(S), NEW f, \A x \in S : f[x] \in Nat
  PROVE  SumFunctionOnSet(f, S) \in Nat
<1> DEFINE G == {s \in SUBSET S : SumFunctionOnSet(f, s) \in Nat}
<1>1. ASSUME NEW s \in SUBSET S, \A t \in SUBSET s : t # s => t \in G PROVE s \in G
  <2>1. CASE s = {}
    BY <2>1, SumEmpty
  <2>2. CASE s # {}
    <3>1. Next1(s) \in s /\ s \ {Next1(s)} \in G
      BY <1>1, <2>2, NextIn
    <3>2. SumFunctionOnSet(f, s) = f[Next1(s)] + SumFunctionOnSet(f, s \ {Next1(s)})
      BY <2>2, FS_Subset, SumNext
    <3> QED
      BY <3>1, <3>2
  <2> QED
    BY <2>1, <2>2
<1> HIDE DEF G
<1>2. \A s \in SUBSET S : s \in G
  BY <1>1, SubsetInduction
<1> QED
  BY <1>2 DEF G

(* A sum depends on the values summed alone.                               *)
LEMMA SumSame ==
  ASSUME NEW S, IsFiniteSet(S), NEW f, NEW g, \A x \in S : f[x] = g[x]
  PROVE  SumFunctionOnSet(f, S) = SumFunctionOnSet(g, S)
<1> DEFINE G == {s \in SUBSET S : SumFunctionOnSet(f, s) = SumFunctionOnSet(g, s)}
<1>1. ASSUME NEW s \in SUBSET S, \A t \in SUBSET s : t # s => t \in G PROVE s \in G
  <2>1. CASE s = {}
    BY <2>1, SumEmpty
  <2>2. CASE s # {}
    <3>1. Next1(s) \in S /\ s \ {Next1(s)} \in G
      BY <1>1, <2>2, NextIn
    <3>2. /\ SumFunctionOnSet(f, s) = f[Next1(s)] + SumFunctionOnSet(f, s \ {Next1(s)})
          /\ SumFunctionOnSet(g, s) = g[Next1(s)] + SumFunctionOnSet(g, s \ {Next1(s)})
      BY <2>2, FS_Subset, SumNext
    <3> QED
      BY <3>1, <3>2
  <2> QED
    BY <2>1, <2>2
<1> HIDE DEF G
<1>2. \A s \in SUBSET S : s \in G
  BY <1>1, SubsetInduction
<1> QED
  BY <1>2 DEF G

LEMMA SumZero ==
  ASSUME NEW S, IsFiniteSet(S), NEW f, \A x \in S : f[x] = 0
  PROVE  SumFunctionOnSet(f, S) = 0
<1> DEFINE G == {s \in SUBSET S : SumFunctionOnSet(f, s) = 0}
<1>1. ASSUME NEW s \in SUBSET S, \A t \in SUBSET s : t # s => t \in G PROVE s \in G
  <2>1. CASE s = {}
    BY <2>1, SumEmpty
  <2>2. CASE s # {}
    <3>1. Next1(s) \in S /\ s \ {Next1(s)} \in G
      BY <1>1, <2>2, NextIn
    <3>2. SumFunctionOnSet(f, s) = f[Next1(s)] + SumFunctionOnSet(f, s \ {Next1(s)})
      BY <2>2, FS_Subset, SumNext
    <3> QED
      BY <3>1, <3>2
  <2> QED
    BY <2>1, <2>2
<1> HIDE DEF G
<1>2. \A s \in SUBSET S : s \in G
  BY <1>1, SubsetInduction
<1> QED
  BY <1>2 DEF G

(* Any element can be taken out first, not only the one the fold chooses.  *)
LEMMA SumRemove ==
  ASSUME NEW S, IsFiniteSet(S), NEW f, \A x \in S : f[x] \in Nat, NEW e \in S
  PROVE  SumFunctionOnSet(f, S) = f[e] + SumFunctionOnSet(f, S \ {e})
<1> DEFINE G == {s \in SUBSET S :
                   \A x \in s : SumFunctionOnSet(f, s) = f[x] + SumFunctionOnSet(f, s \ {x})}
<1>1. ASSUME NEW s \in SUBSET S, \A t \in SUBSET s : t # s => t \in G PROVE s \in G
  <2> SUFFICES ASSUME NEW x \in s
               PROVE  SumFunctionOnSet(f, s) = f[x] + SumFunctionOnSet(f, s \ {x})
    OBVIOUS
  <2> DEFINE y == Next1(s)
  <2>1. y \in s /\ IsFiniteSet(s)
    BY NextIn, FS_Subset
  <2>2. SumFunctionOnSet(f, s) = f[y] + SumFunctionOnSet(f, s \ {y})
    BY <2>1, SumNext
  <2> HIDE DEF y
  <2>3. CASE x = y
    BY <2>2, <2>3
  <2>4. CASE x # y
    <3> DEFINE both == s \ {x, y}
    <3>1. s \ {y} \in G /\ s \ {x} \in G
      BY <1>1, <2>1
    <3>2. (s \ {y}) \ {x} = both /\ (s \ {x}) \ {y} = both
      OBVIOUS
    <3>3. SumFunctionOnSet(f, s \ {y}) = f[x] + SumFunctionOnSet(f, both)
      BY <2>1, <2>4, <3>1, <3>2
    <3>4. SumFunctionOnSet(f, s \ {x}) = f[y] + SumFunctionOnSet(f, both)
      BY <2>1, <2>4, <3>1, <3>2
    <3>5. f[x] \in Nat /\ f[y] \in Nat /\ SumFunctionOnSet(f, both) \in Nat
      <4>1. IsFiniteSet(both) /\ \A z \in both : f[z] \in Nat
        BY FS_Subset
      <4> QED
        BY <2>1, <4>1, SumNat
    <3> HIDE DEF both
    <3> QED
      BY <2>2, <3>3, <3>4, <3>5
  <2> QED
    BY <2>3, <2>4
<1> HIDE DEF G
<1>2. \A s \in SUBSET S : s \in G
  BY <1>1, SubsetInduction
<1> QED
  BY <1>2 DEF G

(* No term of a sum of natural numbers exceeds the sum.                    *)
LEMMA SumBounds ==
  ASSUME NEW S, IsFiniteSet(S), NEW f, \A x \in S : f[x] \in Nat, NEW e \in S
  PROVE  f[e] <= SumFunctionOnSet(f, S)
<1>1. IsFiniteSet(S \ {e}) /\ \A x \in S \ {e} : f[x] \in Nat
  BY FS_Subset
<1>2. SumFunctionOnSet(f, S \ {e}) \in Nat
  BY <1>1, SumNat
<1>3. SumFunctionOnSet(f, S) = f[e] + SumFunctionOnSet(f, S \ {e})
  BY SumRemove
<1> QED
  BY <1>2, <1>3

(* One term changes.                                                       *)
LEMMA SumUpdate ==
  ASSUME NEW S, IsFiniteSet(S), NEW f, \A x \in S : f[x] \in Nat,
         NEW g, \A x \in S : g[x] \in Nat,
         NEW e \in S, \A x \in S : x # e => g[x] = f[x]
  PROVE  SumFunctionOnSet(g, S) = SumFunctionOnSet(f, S) - f[e] + g[e]
<1>1. IsFiniteSet(S \ {e}) /\ \A x \in S \ {e} : f[x] \in Nat /\ g[x] = f[x]
  BY FS_Subset
<1>2. /\ SumFunctionOnSet(f, S \ {e}) \in Nat
      /\ SumFunctionOnSet(g, S \ {e}) = SumFunctionOnSet(f, S \ {e})
  BY <1>1, SumNat, SumSame
<1>3. /\ SumFunctionOnSet(f, S) = f[e] + SumFunctionOnSet(f, S \ {e})
      /\ SumFunctionOnSet(g, S) = g[e] + SumFunctionOnSet(g, S \ {e})
  BY SumRemove
<1> QED
  BY <1>2, <1>3

(* One term is added.                                                      *)
LEMMA SumAdd ==
  ASSUME NEW S, IsFiniteSet(S), NEW e, e \notin S,
         NEW f, \A x \in S \cup {e} : f[x] \in Nat
  PROVE  SumFunctionOnSet(f, S \cup {e}) = SumFunctionOnSet(f, S) + f[e]
<1>1. IsFiniteSet(S \cup {e}) /\ (S \cup {e}) \ {e} = S
  BY FS_AddElement
<1>2. SumFunctionOnSet(f, S \cup {e}) = f[e] + SumFunctionOnSet(f, S)
  BY <1>1, SumRemove
<1>3. SumFunctionOnSet(f, S) \in Nat /\ f[e] \in Nat
  BY SumNat
<1> QED
  BY <1>2, <1>3

=============================================================================
