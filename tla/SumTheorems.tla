----------------------------- MODULE SumTheorems -----------------------------
(***************************************************************************)
(* Facts about MapThenSumSet, with which the models add up amounts over    *)
(* sets: balances over users, amounts over withdrawals, portions over      *)
(* reservations.  Its definition is recursive, so that even the facts one  *)
(* takes for granted need an induction: here, the absence of a smallest    *)
(* counterexample among the subsets of a finite set.  The same induction   *)
(* gives a finite order its least element.                                 *)
(***************************************************************************)
EXTENDS Integers, FiniteSets, FiniteSetsExt, FiniteSetTheorems, TLAPS

\* The sum of the values of f over S.
SumOver(f, S) == MapThenSumSet(LAMBDA x : f[x], S)

IntOn(f, S) == \A x \in S : f[x] \in Int

-----------------------------------------------------------------------------
(***************************************************************************)
(* The recursion has a solution.                                           *)
(***************************************************************************)
Pick(s) == CHOOSE x \in s : TRUE
Unroll(f, g, S) == [s \in SUBSET S |-> IF s = {} THEN 0 ELSE f[Pick(s)] + g[s \ {Pick(s)}]]
Solves(g, f, S) == g = Unroll(f, g, S)

\* A set of subsets of a finite set has a smallest one.
LEMMA SmallestSubset ==
  ASSUME NEW S, IsFiniteSet(S), NEW D, D \subseteq SUBSET S, D # {}
  PROVE  \E s \in D : \A t \in SUBSET s : t # s => t \notin D
<1>1. IsWellFoundedOn(StrictSubsetOrdering(S), SUBSET S)
  BY FS_StrictSubsetOrderingWellFounded, FS_FiniteSubsetsOfFinite
<1>2. PICK s \in D : \A t \in D : ~(<<t, s>> \in StrictSubsetOrdering(S))
  BY <1>1, WFMin
<1>3. ASSUME NEW t \in SUBSET s, t # s, t \in D
      PROVE  FALSE
  <2>1. <<t, s>> \in StrictSubsetOrdering(S)
    BY <1>3 DEF StrictSubsetOrdering
  <2> QED
    BY <2>1, <1>2, <1>3
<1> QED
  BY <1>3

\* MapThenSumSet is defined by a choice among the functions that solve its equation.
LEMMA SumIsSolution ==
  ASSUME NEW f, NEW S
  PROVE  SumOver(f, S) = (CHOOSE g : Solves(g, f, S))[S]
BY DEF SumOver, MapThenSumSet, MapThenFoldSet, Solves, Unroll, Pick

\* The member that the fold takes next.
LEMMA PickIn ==
  ASSUME NEW s, s # {}
  PROVE  Pick(s) \in s
BY DEF Pick

\* Two solutions agree where both are defined.
LEMMA SolutionsAgree ==
  ASSUME NEW f, NEW S, NEW T, IsFiniteSet(S), NEW g, NEW h, Solves(g, f, S), Solves(h, f, T)
  PROVE  \A s \in SUBSET S : s \in SUBSET T => g[s] = h[s]
<1> DEFINE D == {s \in SUBSET S : s \in SUBSET T /\ g[s] # h[s]}
<1> SUFFICES ASSUME D # {} PROVE FALSE
  OBVIOUS
<1>1. PICK s \in D : \A t \in SUBSET s : t # s => t \notin D
  <2>1. D \subseteq SUBSET S
    OBVIOUS
  <2> HIDE DEF D
  <2> QED
    BY <2>1, SmallestSubset
<1>2. g[s] = (IF s = {} THEN 0 ELSE f[Pick(s)] + g[s \ {Pick(s)}])
  BY DEF Solves, Unroll
<1>3. h[s] = (IF s = {} THEN 0 ELSE f[Pick(s)] + h[s \ {Pick(s)}])
  BY DEF Solves, Unroll
<1>4. s # {}
  BY <1>2, <1>3
<1>5. s \ {Pick(s)} \in SUBSET s /\ s \ {Pick(s)} # s
  BY <1>4, PickIn
<1>6. g[s \ {Pick(s)}] = h[s \ {Pick(s)}]
  BY <1>1, <1>5
<1> QED
  BY <1>2, <1>3, <1>6

\* There is a solution over every finite set.
LEMMA SolutionExists ==
  ASSUME NEW f, NEW S, IsFiniteSet(S)
  PROVE  \E g : Solves(g, f, S)
<1> DEFINE D == {s \in SUBSET S : ~\E g : Solves(g, f, s)}
<1> SUFFICES ASSUME D # {} PROVE FALSE
  OBVIOUS
<1>1. PICK s \in D : \A t \in SUBSET s : t # s => t \notin D
  <2>1. D \subseteq SUBSET S
    OBVIOUS
  <2> HIDE DEF D
  <2> QED
    BY <2>1, SmallestSubset
<1>2. \A t \in SUBSET s : t # s => /\ IsFiniteSet(t)
                                    /\ Solves(CHOOSE g : Solves(g, f, t), f, t)
  <2> SUFFICES ASSUME NEW t \in SUBSET s, t # s
               PROVE  IsFiniteSet(t) /\ \E g : Solves(g, f, t)
    BY DEF Solves
  <2> QED
    BY <1>1, FS_Subset
<1> DEFINE G == [t \in SUBSET s |->
                   IF t = {} THEN 0 ELSE f[Pick(t)] + SumOver(f, t \ {Pick(t)})]
<1>3. ASSUME NEW t \in SUBSET s, t # s
      PROVE  G[t] = SumOver(f, t)
  <2> DEFINE g == CHOOSE g : Solves(g, f, t)
  <2>1. SumOver(f, t) = g[t] /\ Solves(g, f, t) /\ IsFiniteSet(t)
    BY <1>2, <1>3, SumIsSolution
  <2> HIDE DEF g
  <2>2. g[t] = (IF t = {} THEN 0 ELSE f[Pick(t)] + g[t \ {Pick(t)}])
    BY <2>1 DEF Solves, Unroll
  <2>3. CASE t = {}
    BY <2>1, <2>2, <2>3
  <2>4. CASE t # {}
    <3> DEFINE u == t \ {Pick(t)}
               h == CHOOSE h : Solves(h, f, u)
    <3>1. u \in SUBSET s /\ u # s /\ u \in SUBSET t
      BY <2>4, PickIn
    <3>2. SumOver(f, u) = h[u] /\ Solves(h, f, u)
      BY <3>1, <1>2, SumIsSolution
    <3> HIDE DEF h
    <3>3. g[u] = h[u]
      <4> HIDE DEF u
      <4> QED
        BY <3>1, <3>2, <2>1, SolutionsAgree
    <3> QED
      BY <3>2, <3>3, <2>1, <2>2, <2>4
  <2> QED
    BY <2>3, <2>4
<1>4. Solves(G, f, s)
  <2> SUFFICES ASSUME NEW t \in SUBSET s, t # {}
               PROVE  G[t] = f[Pick(t)] + G[t \ {Pick(t)}]
    <3> HIDE DEF G
    <3>1. G = [t \in SUBSET s |-> G[t]] /\ G[{}] = 0
      BY DEF G
    <3> QED
      BY <3>1 DEF Solves, Unroll
  <2>1. t \ {Pick(t)} \in SUBSET s /\ t \ {Pick(t)} # s
    BY PickIn
  <2> QED
    BY <2>1, <1>3
<1> QED
  BY <1>4

\* The recursion of MapThenSumSet, as an equation.
LEMMA SumUnrolled ==
  ASSUME NEW f, NEW S, IsFiniteSet(S)
  PROVE  SumOver(f, S) = IF S = {} THEN 0 ELSE f[Pick(S)] + SumOver(f, S \ {Pick(S)})
<1> DEFINE g == CHOOSE g : Solves(g, f, S)
           T == S \ {Pick(S)}
           h == CHOOSE h : Solves(h, f, T)
<1>1. Solves(g, f, S) /\ SumOver(f, S) = g[S]
  BY SolutionExists, SumIsSolution
<1>2. IsFiniteSet(T)
  BY FS_Subset
<1>3. Solves(h, f, T) /\ SumOver(f, T) = h[T]
  BY <1>2, SolutionExists, SumIsSolution
<1> HIDE DEF g, h
<1>4. g[S] = (IF S = {} THEN 0 ELSE f[Pick(S)] + g[T])
  BY <1>1 DEF Solves, Unroll
<1>5. g[T] = h[T]
  <2>1. T \in SUBSET S /\ T \in SUBSET T
    OBVIOUS
  <2> HIDE DEF T
  <2> QED
    BY <2>1, <1>1, <1>3, SolutionsAgree
<1> QED
  BY <1>1, <1>3, <1>4, <1>5

-----------------------------------------------------------------------------
(***************************************************************************)
(* What follows is all that other modules use.                             *)
(***************************************************************************)
LEMMA SumEmpty ==
  ASSUME NEW f
  PROVE  SumOver(f, {}) = 0
BY SumUnrolled, FS_EmptySet

\* The sum depends on the values of f over S only.
LEMMA SumEqual ==
  ASSUME NEW f, NEW g, NEW S, IsFiniteSet(S), \A x \in S : f[x] = g[x]
  PROVE  SumOver(f, S) = SumOver(g, S)
<1> DEFINE D == {s \in SUBSET S : SumOver(f, s) # SumOver(g, s)}
<1> SUFFICES ASSUME D # {} PROVE FALSE
  OBVIOUS
<1>1. PICK s \in D : \A t \in SUBSET s : t # s => t \notin D
  <2>1. D \subseteq SUBSET S
    OBVIOUS
  <2> HIDE DEF D
  <2> QED
    BY <2>1, SmallestSubset
<1>2. IsFiniteSet(s) /\ s # {}
  BY FS_Subset, SumEmpty
<1>3. /\ SumOver(f, s) = f[Pick(s)] + SumOver(f, s \ {Pick(s)})
      /\ SumOver(g, s) = g[Pick(s)] + SumOver(g, s \ {Pick(s)})
  BY <1>2, SumUnrolled
<1>4. Pick(s) \in S /\ s \ {Pick(s)} \in SUBSET s /\ s \ {Pick(s)} # s
  BY <1>2, PickIn
<1>5. SumOver(f, s \ {Pick(s)}) = SumOver(g, s \ {Pick(s)})
  BY <1>1, <1>4
<1> QED
  BY <1>3, <1>4, <1>5

\* A sum of integers is an integer.
LEMMA SumType ==
  ASSUME NEW f, NEW S, IsFiniteSet(S), IntOn(f, S)
  PROVE  SumOver(f, S) \in Int
<1> DEFINE D == {s \in SUBSET S : SumOver(f, s) \notin Int}
<1> SUFFICES ASSUME D # {} PROVE FALSE
  OBVIOUS
<1>1. PICK s \in D : \A t \in SUBSET s : t # s => t \notin D
  <2>1. D \subseteq SUBSET S
    OBVIOUS
  <2> HIDE DEF D
  <2> QED
    BY <2>1, SmallestSubset
<1>2. IsFiniteSet(s) /\ s # {}
  <2>1. SumOver(f, {}) \in Int
    BY SumEmpty
  <2> QED
    BY <2>1, FS_Subset
<1>3. SumOver(f, s) = f[Pick(s)] + SumOver(f, s \ {Pick(s)})
  BY <1>2, SumUnrolled
<1>4. Pick(s) \in S /\ s \ {Pick(s)} \in SUBSET s /\ s \ {Pick(s)} # s
  BY <1>2, PickIn
<1> QED
  BY <1>1, <1>3, <1>4 DEF IntOn

\* Any element may be the first to be added.
LEMMA SumRemove ==
  ASSUME NEW f, NEW S, IsFiniteSet(S), IntOn(f, S), NEW x \in S
  PROVE  SumOver(f, S) = SumOver(f, S \ {x}) + f[x]
<1> DEFINE D == {s \in SUBSET S : \E y \in s : SumOver(f, s) # SumOver(f, s \ {y}) + f[y]}
<1> SUFFICES ASSUME D # {} PROVE FALSE
  OBVIOUS
<1>1. PICK s \in D : \A t \in SUBSET s : t # s => t \notin D
  <2>1. D \subseteq SUBSET S
    OBVIOUS
  <2> HIDE DEF D
  <2> QED
    BY <2>1, SmallestSubset
<1>2. PICK y \in s : SumOver(f, s) # SumOver(f, s \ {y}) + f[y]
  OBVIOUS
<1> DEFINE p == Pick(s)
<1>3. p \in s
  BY PickIn
<1> HIDE DEF p
<1>4. \A t \in SUBSET s : IsFiniteSet(t) /\ SumOver(f, t) \in Int
  <2> SUFFICES ASSUME NEW t \in SUBSET s PROVE IsFiniteSet(t) /\ SumOver(f, t) \in Int
    OBVIOUS
  <2> QED
    BY FS_Subset, SumType DEF IntOn
<1>5. SumOver(f, s) = f[p] + SumOver(f, s \ {p})
  BY <1>4, SumUnrolled DEF p
<1>6. f[p] \in Int /\ f[y] \in Int
  BY <1>3 DEF IntOn
<1>7. CASE y = p
  BY <1>2, <1>4, <1>5, <1>6, <1>7
<1>8. CASE y # p
  <2>1. \A t \in SUBSET s : t # s => \A z \in t : SumOver(f, t) = SumOver(f, t \ {z}) + f[z]
    BY <1>1
  <2>2. /\ s \ {p} \in SUBSET s /\ s \ {p} # s /\ y \in s \ {p}
        /\ s \ {y} \in SUBSET s /\ s \ {y} # s /\ p \in s \ {y}
    BY <1>3, <1>8
  <2>3. SumOver(f, s \ {p}) = SumOver(f, (s \ {p}) \ {y}) + f[y]
    BY <2>1, <2>2
  <2>4. SumOver(f, s \ {y}) = SumOver(f, (s \ {y}) \ {p}) + f[p]
    BY <2>1, <2>2
  <2>5. (s \ {p}) \ {y} = (s \ {y}) \ {p} /\ (s \ {p}) \ {y} \in SUBSET s
    OBVIOUS
  <2>6. SumOver(f, (s \ {p}) \ {y}) \in Int
    BY <2>5, <1>4
  <2> DEFINE rest == SumOver(f, (s \ {p}) \ {y})
  <2>7. /\ SumOver(f, s \ {p}) = rest + f[y] /\ SumOver(f, s \ {y}) = rest + f[p]
        /\ rest \in Int
    BY <2>3, <2>4, <2>5, <2>6
  <2> HIDE DEF rest
  <2>8. SumOver(f, s) = SumOver(f, s \ {y}) + f[y]
    BY <2>7, <1>5, <1>6
  <2> QED
    BY <2>8, <1>2
<1> QED
  BY <1>7, <1>8

\* A new member adds its value.
LEMMA SumAdd ==
  ASSUME NEW f, NEW S, IsFiniteSet(S), NEW x, x \notin S, IntOn(f, S \cup {x})
  PROVE  SumOver(f, S \cup {x}) = SumOver(f, S) + f[x]
<1>1. IsFiniteSet(S \cup {x}) /\ (S \cup {x}) \ {x} = S
  BY FS_AddElement
<1> QED
  BY <1>1, SumRemove

\* One value changes.
LEMMA SumChange ==
  ASSUME NEW f, NEW g, NEW S, IsFiniteSet(S), NEW x \in S, IntOn(f, S), IntOn(g, S),
         \A y \in S \ {x} : f[y] = g[y]
  PROVE  SumOver(g, S) = SumOver(f, S) - f[x] + g[x]
<1>1. SumOver(f, S) = SumOver(f, S \ {x}) + f[x] /\ SumOver(g, S) = SumOver(g, S \ {x}) + g[x]
  BY SumRemove
<1>2. IsFiniteSet(S \ {x}) /\ IntOn(f, S \ {x})
  BY FS_RemoveElement DEF IntOn
<1>3. SumOver(f, S \ {x}) = SumOver(g, S \ {x}) /\ SumOver(f, S \ {x}) \in Int
  BY <1>2, SumEqual, SumType
<1>4. f[x] \in Int /\ g[x] \in Int
  BY DEF IntOn
<1> QED
  BY <1>1, <1>3, <1>4

\* What two members of the set gain, or lose, the sum does.
LEMMA SumMoves ==
  ASSUME NEW f, NEW g, NEW S, IsFiniteSet(S), IntOn(f, S), NEW x \in S, NEW y \in S,
         NEW d \in Int, NEW e \in Int,
         \A z \in S : g[z] = f[z] + (IF z = x THEN d ELSE 0) + (IF z = y THEN e ELSE 0)
  PROVE  SumOver(g, S) = SumOver(f, S) + d + e
<1> DEFINE h == [z \in S |-> f[z] + (IF z = x THEN d ELSE 0)]
<1>1. /\ IntOn(h, S) /\ IntOn(g, S)
      /\ h[x] = f[x] + d /\ g[y] = h[y] + e
      /\ \A z \in S \ {x} : f[z] = h[z]
      /\ \A z \in S \ {y} : h[z] = g[z]
  BY DEF IntOn
<1> HIDE DEF h
<1>2. SumOver(h, S) = SumOver(f, S) - f[x] + h[x]
  BY <1>1, SumChange
<1>3. SumOver(g, S) = SumOver(h, S) - h[y] + g[y]
  BY <1>1, SumChange
<1>4. SumOver(f, S) \in Int /\ SumOver(h, S) \in Int /\ f[x] \in Int /\ h[y] \in Int
  BY <1>1, SumType DEF IntOn
<1> QED
  BY <1>1, <1>2, <1>3, <1>4

\* A sum of naturals is a natural.
LEMMA SumNat ==
  ASSUME NEW f, NEW S, IsFiniteSet(S), \A x \in S : f[x] \in Nat
  PROVE  SumOver(f, S) \in Nat
<1> DEFINE D == {s \in SUBSET S : SumOver(f, s) \notin Nat}
<1> SUFFICES ASSUME D # {} PROVE FALSE
  OBVIOUS
<1>1. PICK s \in D : \A t \in SUBSET s : t # s => t \notin D
  <2>1. D \subseteq SUBSET S
    OBVIOUS
  <2> HIDE DEF D
  <2> QED
    BY <2>1, SmallestSubset
<1>2. IsFiniteSet(s) /\ s # {}
  <2>1. SumOver(f, {}) \in Nat
    BY SumEmpty
  <2> QED
    BY <2>1, FS_Subset
<1>3. SumOver(f, s) = f[Pick(s)] + SumOver(f, s \ {Pick(s)})
  BY <1>2, SumUnrolled
<1>4. Pick(s) \in S /\ s \ {Pick(s)} \in SUBSET s /\ s \ {Pick(s)} # s
  BY <1>2, PickIn
<1> QED
  BY <1>1, <1>3, <1>4

\* A sum of naturals is no less than any of its terms.
LEMMA SumBoundsTerm ==
  ASSUME NEW f, NEW S, IsFiniteSet(S), NEW x \in S, \A y \in S : f[y] \in Nat
  PROVE  f[x] <= SumOver(f, S)
<1>1. SumOver(f, S) = SumOver(f, S \ {x}) + f[x]
  BY SumRemove DEF IntOn
<1>2. SumOver(f, S \ {x}) \in Nat
  BY FS_RemoveElement, SumNat
<1> QED
  BY <1>1, <1>2

\* A sum of naturals over fewer elements is no greater.
LEMMA SumSubset ==
  ASSUME NEW f, NEW T, IsFiniteSet(T), NEW S \in SUBSET T, \A y \in T : f[y] \in Nat
  PROVE  SumOver(f, S) \in Nat /\ SumOver(f, S) <= SumOver(f, T)
<1>1. \A s \in SUBSET T : IsFiniteSet(s) /\ SumOver(f, s) \in Nat
  BY FS_Subset, SumNat
<1> DEFINE D == {s \in SUBSET T : S \subseteq s /\ ~(SumOver(f, S) <= SumOver(f, s))}
<1> SUFFICES ASSUME D # {} PROVE FALSE
  BY <1>1
<1>2. PICK s \in D : \A t \in SUBSET s : t # s => t \notin D
  <2>1. D \subseteq SUBSET T
    OBVIOUS
  <2> HIDE DEF D
  <2> QED
    BY <2>1, SmallestSubset
<1>3. PICK x \in s : x \notin S
  BY <1>1
<1>4. s \ {x} \in SUBSET s /\ s \ {x} # s /\ S \subseteq s \ {x} /\ s \ {x} \in SUBSET T
  BY <1>3
<1>5. SumOver(f, S) <= SumOver(f, s \ {x})
  BY <1>2, <1>4
<1>6. SumOver(f, s) = SumOver(f, s \ {x}) + f[x] /\ f[x] \in Nat
  BY <1>1, SumRemove DEF IntOn
<1>7. /\ SumOver(f, s) \in Nat /\ SumOver(f, S) \in Nat /\ SumOver(f, s \ {x}) \in Nat
      /\ ~(SumOver(f, S) <= SumOver(f, s))
  BY <1>1, <1>4
<1> QED
  BY <1>5, <1>6, <1>7

\* Nothing adds up to nothing.
LEMMA SumZero ==
  ASSUME NEW f, NEW S, IsFiniteSet(S), \A x \in S : f[x] = 0
  PROVE  SumOver(f, S) = 0
<1> DEFINE D == {s \in SUBSET S : SumOver(f, s) # 0}
<1> SUFFICES ASSUME D # {} PROVE FALSE
  OBVIOUS
<1>1. PICK s \in D : \A t \in SUBSET s : t # s => t \notin D
  <2>1. D \subseteq SUBSET S
    OBVIOUS
  <2> HIDE DEF D
  <2> QED
    BY <2>1, SmallestSubset
<1>2. IsFiniteSet(s) /\ s # {}
  <2>1. SumOver(f, {}) = 0
    BY SumEmpty
  <2> QED
    BY <2>1, FS_Subset
<1>3. SumOver(f, s) = f[Pick(s)] + SumOver(f, s \ {Pick(s)})
  BY <1>2, SumUnrolled
<1>4. Pick(s) \in S /\ s \ {Pick(s)} \in SUBSET s /\ s \ {Pick(s)} # s
  BY <1>2, PickIn
<1> QED
  BY <1>1, <1>3, <1>4

\* A sum of equal terms.
LEMMA SumConstant ==
  ASSUME NEW f, NEW S, IsFiniteSet(S), NEW c \in Int, \A x \in S : f[x] = c
  PROVE  SumOver(f, S) = Cardinality(S) * c
<1> DEFINE D == {s \in SUBSET S : SumOver(f, s) # Cardinality(s) * c}
<1> SUFFICES ASSUME D # {} PROVE FALSE
  OBVIOUS
<1>1. PICK s \in D : \A t \in SUBSET s : t # s => t \notin D
  <2>1. D \subseteq SUBSET S
    OBVIOUS
  <2> HIDE DEF D
  <2> QED
    BY <2>1, SmallestSubset
<1>2. IsFiniteSet(s) /\ Cardinality(s) \in Nat
  BY FS_Subset, FS_CardinalityType
<1>3. CASE s = {}
  BY <1>1, <1>3, SumEmpty, FS_EmptySet
<1>4. CASE s # {}
  <2>1. PICK x \in s : TRUE
    BY <1>4
  <2>2. s \ {x} \in SUBSET s /\ s \ {x} # s
    BY <2>1
  <2>3. /\ SumOver(f, s \ {x}) = Cardinality(s \ {x}) * c
    BY <1>1, <2>2
  <2>4. SumOver(f, s) = SumOver(f, s \ {x}) + f[x] /\ f[x] = c
    BY <1>2, <2>1, SumRemove DEF IntOn
  <2>5. Cardinality(s \ {x}) = Cardinality(s) - 1
    BY <1>2, <2>1, FS_RemoveElement
  <2>6. (Cardinality(s) - 1) * c + c = Cardinality(s) * c
    BY <1>2
  <2> QED
    BY <1>1, <2>3, <2>4, <2>5, <2>6
<1> QED
  BY <1>3, <1>4

\* What is zero need not be added.
LEMMA SumSupport ==
  ASSUME NEW f, NEW T, IsFiniteSet(T), NEW S \in SUBSET T, IntOn(f, T), \A x \in T \ S : f[x] = 0
  PROVE  SumOver(f, S) = SumOver(f, T)
<1> DEFINE D == {s \in SUBSET T : S \subseteq s /\ SumOver(f, s) # SumOver(f, S)}
<1> SUFFICES ASSUME D # {} PROVE FALSE
  OBVIOUS
<1>1. PICK s \in D : \A t \in SUBSET s : t # s => t \notin D
  <2>1. D \subseteq SUBSET T
    OBVIOUS
  <2> HIDE DEF D
  <2> QED
    BY <2>1, SmallestSubset
<1>2. PICK x \in s : x \notin S
  <2>1. S \subseteq s /\ SumOver(f, s) # SumOver(f, S)
    BY <1>1
  <2>2. s # S
    BY <2>1
  <2> QED
    BY <2>1, <2>2
<1>3. IsFiniteSet(s) /\ IsFiniteSet(s \ {x}) /\ IntOn(f, s) /\ IntOn(f, s \ {x}) /\ f[x] = 0
  BY <1>1, <1>2, FS_Subset DEF IntOn
<1>4. SumOver(f, s) = SumOver(f, s \ {x}) + f[x] /\ SumOver(f, s \ {x}) \in Int
  BY <1>2, <1>3, SumRemove, SumType
<1>5. SumOver(f, s \ {x}) = SumOver(f, S)
  BY <1>1, <1>2
<1> QED
  BY <1>1, <1>3, <1>4, <1>5
-----------------------------------------------------------------------------
\* By the same argument, a finite set that a relation orders has a first element.
LEMMA LeastExists ==
  ASSUME NEW S, IsFiniteSet(S), S # {}, NEW R,
         \A x, y \in S : x # y => <<x, y>> \in R \/ <<y, x>> \in R,
         \A x, y, z \in S : <<x, y>> \in R /\ <<y, z>> \in R => <<x, z>> \in R
  PROVE  \E m \in S : \A n \in S \ {m} : <<m, n>> \in R
<1> DEFINE Least(s, m) == \A n \in s \ {m} : <<m, n>> \in R
           D == {s \in SUBSET S : s # {} /\ ~\E m \in s : Least(s, m)}
<1> SUFFICES ASSUME D # {} PROVE FALSE
  OBVIOUS
<1>1. PICK s \in D : \A t \in SUBSET s : t # s => t \notin D
  <2>1. D \subseteq SUBSET S
    OBVIOUS
  <2> HIDE DEF D
  <2> QED
    BY <2>1, SmallestSubset
<1>2. PICK x \in s : TRUE
  OBVIOUS
<1>3. CASE s = {x}
  BY <1>3
<1>4. CASE s # {x}
  <2>1. s \ {x} \in SUBSET s /\ s \ {x} # s /\ s \ {x} # {} /\ s \ {x} \in SUBSET S
    BY <1>2, <1>4
  <2>2. PICK m \in s \ {x} : Least(s \ {x}, m)
    BY <1>1, <2>1
  <2>3. CASE <<m, x>> \in R
    BY <2>2, <2>3
  <2>4. CASE <<x, m>> \in R
    BY <2>2, <2>4
  <2> QED
    BY <1>2, <2>1, <2>2, <2>3, <2>4
<1> QED
  BY <1>3, <1>4
=============================================================================
