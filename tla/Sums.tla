-------------------------------- MODULE Sums --------------------------------
(***************************************************************************)
(* Facts about the sums of the community modules, which AgentLoop,         *)
(* StatePayload and EvidenceScoring count with: the total of a budget, of  *)
(* the calls of all stages, of the weights of the evidence.  The modules   *)
(* define them by a function that is recursive over subsets and takes the  *)
(* elements in the order in which CHOOSE gives them; that it exists, and   *)
(* that the order does not matter, is shown here by looking at a least set *)
(* that is an exception.                                                   *)
(***************************************************************************)
EXTENDS Naturals, FiniteSets, Functions, FiniteSetTheorems,
        WellFoundedInduction, TLAPS

Some(s) == CHOOSE x \in s : TRUE

(* g gives the sum of f over each subset of S.                             *)
SumsAre(g, f, S) ==
  g = [s \in SUBSET S |-> IF s = {} THEN 0 ELSE f[Some(s)] + g[s \ {Some(s)}]]

LEMMA SomeIn == ASSUME NEW s, s # {} PROVE Some(s) \in s
  BY DEF Some

(* A collection of subsets of a finite set has a least one.               *)
LEMMA LeastSet ==
  ASSUME NEW S, IsFiniteSet(S), NEW T, T \subseteq SUBSET S, T # {}
  PROVE  \E t \in T : \A u \in SUBSET t : u # t => u \notin T
<1>1. IsWellFoundedOn(StrictSubsetOrdering(S), FiniteSubsetsOf(S))
  BY FS_StrictSubsetOrderingWellFounded
<1>2. T \subseteq FiniteSubsetsOf(S)
  BY FS_FiniteSubsetsOfFinite
<1>3. \E t \in T : \A u \in T : <<u, t>> \notin StrictSubsetOrdering(S)
  BY <1>1, <1>2, WFMin, Zenon
<1> QED
  BY <1>3 DEF StrictSubsetOrdering

LEMMA SumsAt ==
  ASSUME NEW g, NEW f, NEW S, SumsAre(g, f, S), NEW s \in SUBSET S
  PROVE  g[s] = IF s = {} THEN 0 ELSE f[Some(s)] + g[s \ {Some(s)}]
  BY DEF SumsAre

LEMMA SumsIs ==
  ASSUME NEW g, NEW f, NEW S, g = [s \in SUBSET S |-> g[s]],
         \A s \in SUBSET S :
           g[s] = IF s = {} THEN 0 ELSE f[Some(s)] + g[s \ {Some(s)}]
  PROVE  SumsAre(g, f, S)
  BY DEF SumsAre

(* The sum does not depend on the set that the function is defined for.    *)
LEMMA SumsAgree ==
  ASSUME NEW f, NEW g, NEW S, SumsAre(g, f, S), NEW h, NEW R, SumsAre(h, f, R),
         NEW s, IsFiniteSet(s), s \subseteq S, s \subseteq R
  PROVE  g[s] = h[s]
<1> DEFINE T == {t \in SUBSET s : g[t] # h[t]}
<1> SUFFICES ASSUME T # {} PROVE FALSE
  OBVIOUS
<1>1. PICK t \in T : \A u \in SUBSET t : u # t => u \notin T
  <2> HIDE DEF T
  <2>1. T \subseteq SUBSET s
    BY DEF T
  <2> QED BY <2>1, LeastSet
<1>2. g[t] = IF t = {} THEN 0 ELSE f[Some(t)] + g[t \ {Some(t)}]
  BY SumsAt
<1>3. h[t] = IF t = {} THEN 0 ELSE f[Some(t)] + h[t \ {Some(t)}]
  BY SumsAt
<1>4. CASE t = {}
  BY <1>2, <1>3, <1>4
<1>5. CASE t # {}
  <2>1. t \ {Some(t)} \in SUBSET t /\ t \ {Some(t)} # t
    BY <1>5, SomeIn
  <2>2. g[t \ {Some(t)}] = h[t \ {Some(t)}]
    BY <1>1, <2>1
  <2> QED BY <1>2, <1>3, <1>5, <2>2
<1> QED BY <1>4, <1>5

LEMMA SumsExist ==
  ASSUME NEW f, NEW S, IsFiniteSet(S)
  PROVE  \E g : SumsAre(g, f, S)
<1> DEFINE T == {t \in SUBSET S : ~ \E g : SumsAre(g, f, t)}
<1> SUFFICES ASSUME T # {} PROVE FALSE
  OBVIOUS
<1>1. PICK t \in T : \A u \in SUBSET t : u # t => u \notin T
  <2> HIDE DEF T
  <2>1. T \subseteq SUBSET S
    BY DEF T
  <2> QED BY <2>1, LeastSet
<1> DEFINE G(u) == CHOOSE g : SumsAre(g, f, u)
           h == [s \in SUBSET t |-> IF s = {} THEN 0
                                    ELSE f[Some(s)] + G(s \ {Some(s)})[s \ {Some(s)}]]
<1>2. ASSUME NEW u \in SUBSET t, u # t PROVE SumsAre(G(u), f, u)
  <2>1. \E g : SumsAre(g, f, u)
    BY <1>1, <1>2
  <2> QED BY <2>1
<1>3. ASSUME NEW u \in SUBSET t, u # t PROVE h[u] = G(u)[u]
  <2>1. h[u] = IF u = {} THEN 0 ELSE f[Some(u)] + G(u \ {Some(u)})[u \ {Some(u)}]
    OBVIOUS
  <2>2. G(u)[u] = IF u = {} THEN 0 ELSE f[Some(u)] + G(u)[u \ {Some(u)}]
    <3> HIDE DEF G
    <3> QED BY <1>2, <1>3, SumsAt
  <2>3. ASSUME u # {}
        PROVE  G(u)[u \ {Some(u)}] = G(u \ {Some(u)})[u \ {Some(u)}]
    <3> DEFINE v == u \ {Some(u)}
    <3> HIDE DEF G, h
    <3>1. v \in SUBSET t /\ v # t /\ v \subseteq u
      BY <2>3, SomeIn, <1>3
    <3>2. IsFiniteSet(v)
      BY <3>1, FS_Subset
    <3> HIDE DEF v
    <3>3. SumsAre(G(u), f, u) /\ SumsAre(G(v), f, v)
      BY <1>2, <1>3, <3>1
    <3>4. G(u)[v] = G(v)[v]
      BY <3>1, <3>2, <3>3, SumsAgree
    <3> QED BY <3>4 DEF v
  <2> HIDE DEF G, h
  <2> QED BY <2>1, <2>2, <2>3
<1>4. ASSUME NEW s \in SUBSET t, s # {}
      PROVE  h[s \ {Some(s)}] = G(s \ {Some(s)})[s \ {Some(s)}]
  <2>1. s \ {Some(s)} \in SUBSET t /\ s \ {Some(s)} # t
    BY <1>4, SomeIn
  <2> HIDE DEF G, h
  <2> QED BY <2>1, <1>3
<1>5. \A s \in SUBSET t : h[s] = IF s = {} THEN 0 ELSE f[Some(s)] + h[s \ {Some(s)}]
  <2> SUFFICES ASSUME NEW s \in SUBSET t
               PROVE  h[s] = IF s = {} THEN 0 ELSE f[Some(s)] + h[s \ {Some(s)}]
    OBVIOUS
  <2>1. h[s] = IF s = {} THEN 0 ELSE f[Some(s)] + G(s \ {Some(s)})[s \ {Some(s)}]
    OBVIOUS
  <2> HIDE DEF G, h
  <2> QED BY <2>1, <1>4
<1>6. h = [s \in SUBSET t |-> h[s]]
  OBVIOUS
<1>7. SumsAre(h, f, t)
  <2> HIDE DEF h
  <2> QED BY <1>5, <1>6, SumsIs
<1> QED BY <1>7

-----------------------------------------------------------------------------
LEMMA SumIs ==
  ASSUME NEW f, NEW S
  PROVE  SumFunctionOnSet(f, S) = (CHOOSE g : SumsAre(g, f, S))[S]
BY DEF SumFunctionOnSet, FoldFunctionOnSet, MapThenFoldSet, SumsAre, Some

LEMMA SumOfNone == ASSUME NEW f PROVE SumFunctionOnSet(f, {}) = 0
<1> DEFINE g == CHOOSE g : SumsAre(g, f, {})
<1>1. SumsAre(g, f, {})
  BY SumsExist, FS_EmptySet
<1>2. SumFunctionOnSet(f, {}) = g[{}]
  BY SumIs
<1> HIDE DEF g
<1> QED BY <1>1, <1>2, SumsAt

LEMMA SumOfSome ==
  ASSUME NEW f, NEW S, IsFiniteSet(S), S # {}
  PROVE  SumFunctionOnSet(f, S) = f[Some(S)] + SumFunctionOnSet(f, S \ {Some(S)})
<1> DEFINE R == S \ {Some(S)}
           g == CHOOSE g : SumsAre(g, f, S)
           h == CHOOSE h : SumsAre(h, f, R)
<1>1. IsFiniteSet(R) /\ R \subseteq S
  BY FS_Subset
<1>2. SumsAre(g, f, S) /\ SumsAre(h, f, R)
  <2>1. (\E x : SumsAre(x, f, S)) /\ (\E x : SumsAre(x, f, R))
    BY <1>1, SumsExist
  <2> QED BY <2>1
<1>3. SumFunctionOnSet(f, S) = g[S] /\ SumFunctionOnSet(f, R) = h[R]
  BY SumIs
<1> HIDE DEF g, h
<1>4. g[S] = f[Some(S)] + g[R]
  BY <1>2, SumsAt
<1>5. g[R] = h[R]
  <2> HIDE DEF R
  <2> QED BY <1>1, <1>2, SumsAgree
<1> QED BY <1>3, <1>4, <1>5

(* A sum of numbers is a number.                                           *)
LEMMA SumIsNat ==
  ASSUME NEW f, NEW S, IsFiniteSet(S), \A x \in S : f[x] \in Nat
  PROVE  SumFunctionOnSet(f, S) \in Nat
<1> DEFINE T == {t \in SUBSET S : SumFunctionOnSet(f, t) \notin Nat}
<1> SUFFICES ASSUME T # {} PROVE FALSE
  OBVIOUS
<1>1. PICK t \in T : \A u \in SUBSET t : u # t => u \notin T
  <2>1. T \subseteq SUBSET S
    OBVIOUS
  <2> HIDE DEF T
  <2> QED BY <2>1, LeastSet
<1>2. t # {} /\ IsFiniteSet(t)
  <2>1. SumFunctionOnSet(f, {}) = 0
    BY SumOfNone
  <2>2. t # {}
    BY <2>1
  <2>3. IsFiniteSet(t)
    BY FS_Subset
  <2> QED BY <2>2, <2>3
<1>3. Some(t) \in t /\ f[Some(t)] \in Nat
  BY <1>2, SomeIn
<1>4. SumFunctionOnSet(f, t \ {Some(t)}) \in Nat
  <2>1. t \ {Some(t)} \in SUBSET t /\ t \ {Some(t)} # t
    BY <1>3
  <2> QED BY <1>1, <2>1
<1> QED BY <1>2, <1>3, <1>4, SumOfSome

(* The order of the summands does not matter: any can be taken first.      *)
LEMMA SumWithout ==
  ASSUME NEW f, NEW S, IsFiniteSet(S), \A x \in S : f[x] \in Nat, NEW x \in S
  PROVE  SumFunctionOnSet(f, S) = f[x] + SumFunctionOnSet(f, S \ {x})
<1> DEFINE T == {t \in SUBSET S : \E y \in t :
                   SumFunctionOnSet(f, t) # f[y] + SumFunctionOnSet(f, t \ {y})}
<1> SUFFICES ASSUME T # {} PROVE FALSE
  OBVIOUS
<1>1. PICK t \in T : \A u \in SUBSET t : u # t => u \notin T
  <2>1. T \subseteq SUBSET S
    OBVIOUS
  <2> HIDE DEF T
  <2> QED BY <2>1, LeastSet
<1>2. PICK y \in t : SumFunctionOnSet(f, t) # f[y] + SumFunctionOnSet(f, t \ {y})
  OBVIOUS
<1> DEFINE z == Some(t)
<1>3. z \in t /\ IsFiniteSet(t)
  BY SomeIn, FS_Subset
<1>4. SumFunctionOnSet(f, t) = f[z] + SumFunctionOnSet(f, t \ {z})
  BY <1>3, SumOfSome
<1>5. y # z
  BY <1>2, <1>4
<1> HIDE DEF z
<1>6. SumFunctionOnSet(f, t \ {z}) = f[y] + SumFunctionOnSet(f, (t \ {z}) \ {y})
  <2>1. t \ {z} \in SUBSET t /\ t \ {z} # t /\ y \in t \ {z}
    BY <1>3, <1>5
  <2> QED BY <1>1, <2>1
<1>7. SumFunctionOnSet(f, t \ {y}) = f[z] + SumFunctionOnSet(f, (t \ {z}) \ {y})
  <2>1. t \ {y} \in SUBSET t /\ t \ {y} # t /\ z \in t \ {y}
    BY <1>3, <1>5
  <2>2. (t \ {y}) \ {z} = (t \ {z}) \ {y}
    OBVIOUS
  <2>3. SumFunctionOnSet(f, t \ {y}) = f[z] + SumFunctionOnSet(f, (t \ {y}) \ {z})
    BY <1>1, <2>1
  <2> QED BY <2>2, <2>3
<1>8. /\ f[y] \in Nat /\ f[z] \in Nat
      /\ SumFunctionOnSet(f, (t \ {z}) \ {y}) \in Nat
  <2>1. (t \ {z}) \ {y} \subseteq S /\ IsFiniteSet((t \ {z}) \ {y})
    BY <1>3, FS_Subset
  <2> QED BY <1>3, <2>1, SumIsNat
<1> HIDE DEF T
<1> QED BY <1>2, <1>4, <1>6, <1>7, <1>8

(* Greater summands have a greater sum.                                    *)
LEMMA SumMonotone ==
  ASSUME NEW f, NEW g, NEW S, IsFiniteSet(S),
         \A x \in S : f[x] \in Nat /\ g[x] \in Nat /\ f[x] <= g[x]
  PROVE  SumFunctionOnSet(f, S) <= SumFunctionOnSet(g, S)
<1> DEFINE T == {t \in SUBSET S : ~(SumFunctionOnSet(f, t) <= SumFunctionOnSet(g, t))}
<1> SUFFICES ASSUME T # {} PROVE FALSE
  OBVIOUS
<1>1. PICK t \in T : \A u \in SUBSET t : u # t => u \notin T
  <2>1. T \subseteq SUBSET S
    OBVIOUS
  <2> HIDE DEF T
  <2> QED BY <2>1, LeastSet
<1>2. t # {} /\ IsFiniteSet(t)
  <2>1. SumFunctionOnSet(f, {}) = 0 /\ SumFunctionOnSet(g, {}) = 0
    BY SumOfNone
  <2>2. t # {}
    BY <2>1
  <2>3. IsFiniteSet(t)
    BY FS_Subset
  <2> QED BY <2>2, <2>3
<1> DEFINE z == Some(t)
<1>3. z \in t
  BY <1>2, SomeIn
<1>4. /\ SumFunctionOnSet(f, t) = f[z] + SumFunctionOnSet(f, t \ {z})
      /\ SumFunctionOnSet(g, t) = g[z] + SumFunctionOnSet(g, t \ {z})
  BY <1>2, SumOfSome
<1> HIDE DEF z
<1>5. SumFunctionOnSet(f, t \ {z}) <= SumFunctionOnSet(g, t \ {z})
  <2>1. t \ {z} \in SUBSET t /\ t \ {z} # t
    BY <1>3
  <2> QED BY <1>1, <2>1
<1>6. /\ SumFunctionOnSet(f, t \ {z}) \in Nat /\ SumFunctionOnSet(g, t \ {z}) \in Nat
  <2>1. t \ {z} \subseteq S /\ IsFiniteSet(t \ {z})
    BY <1>2, FS_Subset
  <2> QED BY <2>1, SumIsNat
<1>7. f[z] \in Nat /\ g[z] \in Nat /\ f[z] <= g[z]
  BY <1>3
<1>8. ~(SumFunctionOnSet(f, t) <= SumFunctionOnSet(g, t))
  OBVIOUS
<1> HIDE DEF T
<1> QED BY <1>4, <1>5, <1>6, <1>7, <1>8

(* Functions that agree on a set have the same sum over it.                *)
LEMMA SumOfEqual ==
  ASSUME NEW f, NEW g, NEW S, IsFiniteSet(S),
         \A x \in S : f[x] \in Nat /\ g[x] = f[x]
  PROVE  SumFunctionOnSet(f, S) = SumFunctionOnSet(g, S)
<1>1. \A x \in S : f[x] \in Nat /\ g[x] \in Nat /\ f[x] <= g[x] /\ g[x] <= f[x]
  OBVIOUS
<1>2. SumFunctionOnSet(f, S) \in Nat /\ SumFunctionOnSet(g, S) \in Nat
  BY <1>1, SumIsNat
<1>3. SumFunctionOnSet(f, S) <= SumFunctionOnSet(g, S)
  BY <1>1, SumMonotone
<1>4. SumFunctionOnSet(g, S) <= SumFunctionOnSet(f, S)
  BY <1>1, SumMonotone
<1> QED BY <1>2, <1>3, <1>4

(* Equal summands add up to their number times their value.                *)
LEMMA SumOfConstant ==
  ASSUME NEW f, NEW S, IsFiniteSet(S), NEW c \in Nat, \A x \in S : f[x] = c
  PROVE  SumFunctionOnSet(f, S) = Cardinality(S) * c
<1> DEFINE T == {t \in SUBSET S : SumFunctionOnSet(f, t) # Cardinality(t) * c}
<1> SUFFICES ASSUME T # {} PROVE FALSE
  OBVIOUS
<1>1. PICK t \in T : \A u \in SUBSET t : u # t => u \notin T
  <2>1. T \subseteq SUBSET S
    OBVIOUS
  <2> HIDE DEF T
  <2> QED BY <2>1, LeastSet
<1>2. t # {} /\ IsFiniteSet(t)
  <2>1. Cardinality({}) * c = 0
    BY FS_EmptySet
  <2> QED BY <2>1, SumOfNone, FS_Subset
<1> DEFINE z == Some(t)
<1>3. z \in t
  BY <1>2, SomeIn
<1>4. SumFunctionOnSet(f, t) = f[z] + SumFunctionOnSet(f, t \ {z})
  BY <1>2, SumOfSome
<1> HIDE DEF z
<1>5. SumFunctionOnSet(f, t \ {z}) = Cardinality(t \ {z}) * c
  <2>1. t \ {z} \in SUBSET t /\ t \ {z} # t
    BY <1>3
  <2> QED BY <1>1, <2>1
<1>6. Cardinality(t \ {z}) = Cardinality(t) - 1 /\ Cardinality(t) \in Nat
  BY <1>2, <1>3, FS_RemoveElement, FS_CardinalityType
<1>7. f[z] = c
  BY <1>3
<1>8. SumFunctionOnSet(f, t) # Cardinality(t) * c
  OBVIOUS
<1>9. \A n \in Nat : (n - 1) * c = n * c - c /\ n * c \in Nat
  OBVIOUS
<1> HIDE DEF T
<1> QED BY <1>4, <1>5, <1>6, <1>7, <1>8, <1>9
=============================================================================
