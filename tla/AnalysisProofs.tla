--------------------------- MODULE AnalysisProofs ---------------------------
(***************************************************************************)
(* Proofs about ComponentClusters, for any topology; about                 *)
(* PlaybookMatching, for any registry of playbooks, any telemetry and any  *)
(* number of passes; about EvidenceScoring, for any evidence; and about    *)
(* StatePayload, for any number of records and crashes.                    *)
(***************************************************************************)
EXTENDS MCAnalysis, Sums, TLAPS

-----------------------------------------------------------------------------
(* ComponentClusters                                                       *)

LEMMA LeastNumber ==
  ASSUME NEW T, T \subseteq Nat, T # {}
  PROVE  \E n \in T : \A m \in Nat : m < n => m \notin T
<1>1. \E n \in T : \A m \in T : <<m, n>> \notin OpToRel(<, Nat)
  BY NatLessThanWellFounded, WFMin, Zenon
<1> QED BY <1>1 DEF OpToRel

(* The first search.                                                       *)
SearchIs(f, c, n) ==
  f = [degrees \in 0..n |-> IF degrees = 0 THEN {c} ELSE Nearby(f[degrees - 1])]

LEMMA SearchAt ==
  ASSUME NEW f, NEW c, NEW n \in Nat, SearchIs(f, c, n), NEW d \in 0..n
  PROVE  f[d] = IF d = 0 THEN {c} ELSE Nearby(f[d - 1])
BY DEF SearchIs

LEMMA SearchIntro ==
  ASSUME NEW f, NEW c, NEW n \in Nat, f = [degrees \in 0..n |-> f[degrees]],
         \A d \in 0..n : f[d] = IF d = 0 THEN {c} ELSE Nearby(f[d - 1])
  PROVE  SearchIs(f, c, n)
BY DEF SearchIs

LEMMA SearchExists ==
  ASSUME NEW c, NEW n \in Nat
  PROVE  \E f : SearchIs(f, c, n)
<1> DEFINE T == {m \in Nat : ~ \E f : SearchIs(f, c, m)}
<1> SUFFICES ASSUME T # {} PROVE FALSE
  OBVIOUS
<1>1. PICK m \in T : \A l \in Nat : l < m => l \notin T
  <2>1. T \subseteq Nat
    OBVIOUS
  <2> HIDE DEF T
  <2> QED BY <2>1, LeastNumber
<1>2. m \in Nat /\ ~ \E f : SearchIs(f, c, m)
  OBVIOUS
<1>3. CASE m = 0
  <2> DEFINE f == [d \in 0..0 |-> {c}]
  <2>1. f = [d \in 0..0 |-> f[d]] /\ \A d \in 0..0 : d = 0 /\ f[d] = {c}
    OBVIOUS
  <2> HIDE DEF f
  <2>2. SearchIs(f, c, 0)
    BY <2>1, SearchIntro
  <2> QED BY <1>2, <1>3, <2>2
<1>4. CASE m # 0
  <2>1. m - 1 \in Nat /\ m - 1 < m
    BY <1>2, <1>4
  <2>2. PICK f : SearchIs(f, c, m - 1)
    BY <1>1, <2>1
  <2> DEFINE g == [d \in 0..m |-> IF d = m THEN Nearby(f[m - 1]) ELSE f[d]]
  <2>3. g = [d \in 0..m |-> g[d]]
    OBVIOUS
  <2>4. ASSUME NEW d \in 0..m
        PROVE  g[d] = IF d = 0 THEN {c} ELSE Nearby(g[d - 1])
    <3>1. CASE d = m
      <4>1. g[d] = Nearby(f[m - 1]) /\ g[d - 1] = f[m - 1]
        BY <1>2, <1>4, <3>1
      <4> HIDE DEF g
      <4> QED BY <4>1, <3>1, <1>4
    <3>2. CASE d # m
      <4>1. d \in 0..(m - 1)
        BY <3>2, <1>2
      <4>2. g[d] = f[d] /\ (d # 0 => g[d - 1] = f[d - 1])
        BY <4>1, <1>2, <3>2
      <4>3. f[d] = IF d = 0 THEN {c} ELSE Nearby(f[d - 1])
        BY <4>1, <2>1, <2>2, SearchAt
      <4> HIDE DEF g
      <4> QED BY <4>2, <4>3
    <3> QED BY <3>1, <3>2
  <2> HIDE DEF g
  <2>5. SearchIs(g, c, m)
    BY <1>2, <2>3, <2>4, SearchIntro
  <2> QED BY <1>2, <2>5
<1> QED BY <1>3, <1>4

LEMMA ReachedIs ==
  ASSUME NEW c
  PROVE  \E f : SearchIs(f, c, MaxDegrees) /\ Reached(c) = f[MaxDegrees]
<1> DEFINE f == CHOOSE f : SearchIs(f, c, MaxDegrees)
<1>1. SearchIs(f, c, MaxDegrees)
  BY SearchExists, ClustersAssumption
<1>2. Reached(c) = f[MaxDegrees]
  BY DEF Reached, SearchIs
<1> QED BY <1>1, <1>2

(* Walks along calls, in either direction.                                 *)
Joined(a, b) == <<a, b>> \in topology \/ <<b, a>> \in topology

Leads(walk, n, c, d) ==
  /\ walk \in [0..n -> Components]
  /\ walk[0] = c /\ walk[n] = d
  /\ \A i \in 1..n : Joined(walk[i-1], walk[i])

LEMMA CloseIs ==
  ASSUME NEW c, NEW d
  PROVE  Close(c, d) <=> \E n \in 0..MaxDegrees : \E walk : Leads(walk, n, c, d)
BY DEF Close, Leads, Joined

LEMMA CloseSymmetric ==
  ASSUME NEW c, NEW d, Close(c, d)
  PROVE  Close(d, c)
<1>1a. PICK n \in 0..MaxDegrees : \E walk : Leads(walk, n, c, d)
  BY CloseIs
<1>1. PICK walk : Leads(walk, n, c, d)
  BY <1>1a
<1> DEFINE back == [i \in 0..n |-> walk[n - i]]
<1>2. n \in Nat
  BY ClustersAssumption
<1>3. back \in [0..n -> Components] /\ back[0] = d /\ back[n] = c
  BY <1>1, <1>2 DEF Leads
<1>4. ASSUME NEW i \in 1..n PROVE Joined(back[i-1], back[i])
  <2>1. n - i + 1 \in 1..n /\ n - i \in 0..n /\ n - (i - 1) = n - i + 1
    BY <1>2
  <2>2. Joined(walk[n - i], walk[n - i + 1])
    <3>1. (n - i + 1) - 1 = n - i
      BY <1>2
    <3>2. \A j \in 1..n : Joined(walk[j-1], walk[j])
      BY <1>1 DEF Leads
    <3>3. Joined(walk[(n - i + 1) - 1], walk[n - i + 1])
      BY <3>2, <2>1
    <3> QED BY <3>1, <3>3
  <2>3. back[i] = walk[n - i] /\ back[i-1] = walk[n - i + 1]
    BY <2>1, <1>2
  <2> QED BY <2>2, <2>3 DEF Joined
<1> HIDE DEF back
<1>5. Leads(back, n, d, c)
  BY <1>3, <1>4 DEF Leads
<1> QED BY <1>5, CloseIs

LEMMA WalkFurther ==
  ASSUME NEW walk, NEW n \in Nat, NEW c, NEW d, Leads(walk, n, c, d),
         NEW e \in Neighbours(d)
  PROVE  \E longer : Leads(longer, n + 1, c, e)
<1> DEFINE longer == [i \in 0..(n+1) |-> IF i = n + 1 THEN e ELSE walk[i]]
<1>1. /\ longer \in [0..(n+1) -> Components]
      /\ longer[0] = c /\ longer[n+1] = e
      /\ \A i \in 0..n : longer[i] = walk[i]
  BY DEF Leads, Neighbours
<1>2. Joined(d, e) /\ walk[n] = d /\ \A i \in 1..n : Joined(walk[i-1], walk[i])
  BY DEF Leads, Neighbours, Joined
<1> HIDE DEF longer
<1>3. \A i \in 1..(n+1) : Joined(longer[i-1], longer[i])
  <2> SUFFICES ASSUME NEW i \in 1..(n+1) PROVE Joined(longer[i-1], longer[i])
    OBVIOUS
  <2>1. CASE i = n + 1
    <3>1. longer[i-1] = d /\ longer[i] = e
      BY <1>1, <1>2, <2>1
    <3> QED BY <3>1, <1>2
  <2>2. CASE i # n + 1
    <3>1. i \in 1..n /\ longer[i-1] = walk[i-1] /\ longer[i] = walk[i]
      BY <1>1, <2>2
    <3> QED BY <3>1, <1>2
  <2> QED BY <2>1, <2>2
<1> QED BY <1>1, <1>3 DEF Leads

LEMMA ReachedAreClose ==
  ASSUME NEW c \in Components, NEW d \in Reached(c)
  PROVE  Close(c, d)
<1>1. PICK f : SearchIs(f, c, MaxDegrees) /\ Reached(c) = f[MaxDegrees]
  BY ReachedIs
<1>2. MaxDegrees \in Nat
  BY ClustersAssumption
<1> DEFINE T == {n \in 0..MaxDegrees :
                   ~ \A e \in f[n] : \E m \in 0..n : \E walk : Leads(walk, m, c, e)}
<1>3. T = {}
  <2> SUFFICES ASSUME T # {} PROVE FALSE
    OBVIOUS
  <2>1. PICK n \in T : \A m \in Nat : m < n => m \notin T
    <3>1. T \subseteq Nat
      BY <1>2
    <3> HIDE DEF T
    <3> QED BY <3>1, LeastNumber
  <2>2. PICK e \in f[n] : ~ \E m \in 0..n : \E walk : Leads(walk, m, c, e)
    OBVIOUS
  <2>3. n \in 0..MaxDegrees
    OBVIOUS
  <2>4. f[n] = IF n = 0 THEN {c} ELSE Nearby(f[n - 1])
    BY <1>1, <1>2, <2>3, SearchAt
  <2>5. CASE n = 0
    <3> DEFINE walk == [i \in 0..0 |-> c]
    <3>1. walk \in [0..0 -> Components] /\ walk[0] = c
      OBVIOUS
    <3> HIDE DEF walk
    <3>2. Leads(walk, 0, c, c)
      BY <3>1 DEF Leads
    <3> QED BY <2>2, <2>4, <2>5, <3>2
  <2>6. CASE n # 0
    <3>1. n - 1 \in 0..MaxDegrees /\ n - 1 < n
      BY <1>2, <2>3, <2>6
    <3>2. \A b \in f[n - 1] : \E m \in 0..(n - 1) : \E walk : Leads(walk, m, c, b)
      BY <2>1, <3>1
    <3>3. PICK b \in f[n - 1] : e = b \/ e \in Neighbours(b)
      BY <2>2, <2>4, <2>6 DEF Nearby
    <3>4a. PICK m \in 0..(n - 1) : \E walk : Leads(walk, m, c, b)
      BY <3>2
    <3>4. PICK walk : Leads(walk, m, c, b)
      BY <3>4a
    <3>5. m \in 0..n /\ m + 1 \in 0..n /\ m \in Nat
      BY <2>3
    <3>6. CASE e = b
      BY <2>2, <3>4, <3>5, <3>6
    <3>7. CASE e \in Neighbours(b)
      <4>1. \E longer : Leads(longer, m + 1, c, e)
        BY <3>4, <3>5, <3>7, WalkFurther
      <4> HIDE DEF T
      <4> QED BY <2>2, <3>5, <4>1
    <3> QED BY <3>3, <3>6, <3>7
  <2> QED BY <2>5, <2>6
<1>4. MaxDegrees \in 0..MaxDegrees
  BY <1>2
<1>5. \E m \in 0..MaxDegrees : \E walk : Leads(walk, m, c, d)
  BY <1>1, <1>3, <1>4
<1> QED BY <1>5, CloseIs

LEMMA CloseAreReached ==
  ASSUME NEW c, NEW d, Close(c, d)
  PROVE  d \in Reached(c)
<1>1. PICK f : SearchIs(f, c, MaxDegrees) /\ Reached(c) = f[MaxDegrees]
  BY ReachedIs
<1>2. MaxDegrees \in Nat
  BY ClustersAssumption
<1>3a. PICK n \in 0..MaxDegrees : \E walk : Leads(walk, n, c, d)
  BY CloseIs
<1>3. PICK walk : Leads(walk, n, c, d)
  BY <1>3a
<1>4. \A i \in 0..MaxDegrees : f[i] = IF i = 0 THEN {c} ELSE Nearby(f[i - 1])
  BY <1>1, <1>2, SearchAt
(* The search keeps up with the walk, and keeps what it has found.         *)
<1> DEFINE Found(i) == walk[IF i < n THEN i ELSE n]
           T == {i \in 0..MaxDegrees : Found(i) \notin f[i]}
<1>5. T = {}
  <2> SUFFICES ASSUME T # {} PROVE FALSE
    OBVIOUS
  <2>1. PICK i \in T : \A j \in Nat : j < i => j \notin T
    <3>1. T \subseteq Nat
      BY <1>2
    <3> HIDE DEF T
    <3> QED BY <3>1, LeastNumber
  <2>2. i \in 0..MaxDegrees /\ Found(i) \notin f[i]
    OBVIOUS
  <2>3. i # 0
    <3>1. Found(0) = c
      BY <1>3, <1>2 DEF Leads
    <3> QED BY <3>1, <2>2, <1>4, <1>2
  <2>4. i - 1 \in 0..MaxDegrees /\ i - 1 < i
    BY <2>2, <2>3, <1>2
  <2>5. Found(i - 1) \in f[i - 1] /\ f[i] = Nearby(f[i - 1])
    BY <2>1, <2>2, <2>3, <2>4, <1>4
  <2>6. Found(i) = Found(i - 1) \/ Found(i) \in Neighbours(Found(i - 1))
    <3>1. CASE i <= n
      <4>1. Found(i) = walk[i] /\ Found(i - 1) = walk[i - 1] /\ i \in 1..n
        BY <3>1, <2>2, <2>3, <1>2
      <4>2. Joined(walk[i - 1], walk[i]) /\ walk[i] \in Components
        BY <1>3, <4>1, <1>2 DEF Leads
      <4> QED BY <4>1, <4>2 DEF Neighbours, Joined
    <3>2. CASE ~(i <= n)
      BY <3>2, <2>2, <1>2
    <3> QED BY <3>1, <3>2
  <2> QED BY <2>2, <2>5, <2>6 DEF Nearby
<1>6. Found(MaxDegrees) = d
  BY <1>2, <1>3 DEF Leads
<1> QED BY <1>1, <1>2, <1>5, <1>6

(* What the searches fill from both ends is the same from both ends.       *)
LEMMA AdjacentIs ==
  ASSUME ClustersTypeOK, NEW c \in affected
  PROVE  Adjacent(c) = {d \in affected : Close(c, d) /\ d # c}
<1>1. c \in Components
  BY DEF ClustersTypeOK
<1> QED BY <1>1, ReachedAreClose, CloseAreReached DEF Adjacent

(* The second search.  It ends at the least part that holds what it starts *)
(* from and all that is adjacent.                                          *)
GrowthIs(g) ==
  g = [part \in SUBSET Components |-> IF Wider(part) = part THEN part ELSE g[Wider(part)]]

LEMMA GrowthAt ==
  ASSUME NEW g, GrowthIs(g), NEW part \in SUBSET Components
  PROVE  g[part] = IF Wider(part) = part THEN part ELSE g[Wider(part)]
BY DEF GrowthIs

LEMMA GrowthIntro ==
  ASSUME NEW g, g = [part \in SUBSET Components |-> g[part]],
         \A part \in SUBSET Components :
           g[part] = IF Wider(part) = part THEN part ELSE g[Wider(part)]
  PROVE  GrowthIs(g)
BY DEF GrowthIs

LEMMA WiderIs ==
  ASSUME ClustersTypeOK, NEW part \in SUBSET Components
  PROVE  /\ part \subseteq Wider(part) /\ Wider(part) \in SUBSET Components
         /\ \A other : (part \subseteq other /\ Wider(other) = other)
                        => Wider(part) \subseteq other
BY DEF Wider, Adjacent, ClustersTypeOK

LEMMA GrowthExists == ASSUME ClustersTypeOK PROVE \E g : GrowthIs(g)
<1> DEFINE Least(part) == {x \in Components : \A other \in SUBSET Components :
                            part \subseteq other /\ Wider(other) = other => x \in other}
           g == [part \in SUBSET Components |-> Least(part)]
<1>1. ASSUME NEW part \in SUBSET Components
      PROVE  g[part] = IF Wider(part) = part THEN part ELSE g[Wider(part)]
  <2>1. part \subseteq Wider(part) /\ Wider(part) \in SUBSET Components
    BY WiderIs
  <2>2. g[part] = Least(part) /\ g[Wider(part)] = Least(Wider(part))
    BY <2>1
  <2>3. CASE Wider(part) = part
    <3>1. Least(part) = part
      BY <2>3
    <3> HIDE DEF Least
    <3> QED BY <2>2, <2>3, <3>1
  <2>4. CASE Wider(part) # part
    <3>1. \A other : (part \subseteq other /\ Wider(other) = other)
                     <=> (Wider(part) \subseteq other /\ Wider(other) = other)
      BY <2>1, WiderIs
    <3>2. Least(part) = Least(Wider(part))
      BY <3>1
    <3> HIDE DEF Least
    <3> QED BY <2>2, <2>4, <3>2
  <2> QED BY <2>3, <2>4
<1>2. g = [part \in SUBSET Components |-> g[part]]
  OBVIOUS
<1> HIDE DEF g
<1>3. GrowthIs(g)
  BY <1>1, <1>2, GrowthIntro
<1> QED BY <1>3

LEMMA GrownIs ==
  ASSUME ClustersTypeOK, NEW cluster \in SUBSET Components
  PROVE  /\ cluster \subseteq Grown(cluster)
         /\ Grown(cluster) \in SUBSET Components
         /\ Wider(Grown(cluster)) = Grown(cluster)
         /\ \A other \in SUBSET Components :
              cluster \subseteq other /\ Wider(other) = other => Grown(cluster) \subseteq other
<1> DEFINE g == CHOOSE g : GrowthIs(g)
<1>1. GrowthIs(g)
  BY GrowthExists
<1>2. Grown(cluster) = g[cluster]
  BY DEF Grown, GrowthIs
<1> DEFINE Good(part) ==
             /\ part \subseteq g[part] /\ g[part] \in SUBSET Components
             /\ Wider(g[part]) = g[part]
             /\ \A other \in SUBSET Components :
                  part \subseteq other /\ Wider(other) = other => g[part] \subseteq other
           Left(part) == Components \ part
           T == {t \in SUBSET Components : ~Good(Left(t))}
<1>3. T = {}
  <2> SUFFICES ASSUME T # {} PROVE FALSE
    OBVIOUS
  <2>1. PICK t \in T : \A u \in SUBSET t : u # t => u \notin T
    <3>1. T \subseteq SUBSET Components
      OBVIOUS
    <3> HIDE DEF T
    <3> QED BY <3>1, LeastSet, ClustersAssumption
  <2> DEFINE part == Left(t)
  <2>2. t \in SUBSET Components /\ part \in SUBSET Components /\ ~Good(part)
    OBVIOUS
  <2>3. g[part] = IF Wider(part) = part THEN part ELSE g[Wider(part)]
    <3> HIDE DEF g, part
    <3> QED BY <1>1, <2>2, GrowthAt
  <2>4. /\ part \subseteq Wider(part) /\ Wider(part) \in SUBSET Components
        /\ \A other : (part \subseteq other /\ Wider(other) = other)
                       => Wider(part) \subseteq other
    <3> HIDE DEF part
    <3> QED BY <2>2, WiderIs
  <2>5. CASE Wider(part) = part
    <3> HIDE DEF g, part
    <3> QED BY <2>2, <2>3, <2>5
  <2>6. CASE Wider(part) # part
    <3> DEFINE u == Components \ Wider(part)
    <3>1. u \in SUBSET t /\ u # t /\ Left(u) = Wider(part)
      BY <2>2, <2>4, <2>6
    <3>2. Good(Wider(part))
      <4>1. u \in SUBSET Components /\ u \notin T
        BY <2>1, <2>2, <3>1
      <4>2. Good(Left(u))
        BY <4>1
      <4> HIDE DEF Good
      <4> QED BY <4>2, <3>1
    <3> HIDE DEF g, part
    <3> QED BY <2>2, <2>3, <2>4, <2>6, <3>2
  <2> QED BY <2>5, <2>6
<1>4. Left(Left(cluster)) = cluster /\ Left(cluster) \in SUBSET Components
  OBVIOUS
<1>5. Good(cluster)
  <2>1. Good(Left(Left(cluster)))
    <3> HIDE DEF Good
    <3> QED BY <1>3, <1>4
  <2> HIDE DEF Good
  <2> QED BY <2>1, <1>4
<1> HIDE DEF g
<1> QED BY <1>2, <1>5

(* A part of the affected components is finished when no other affected    *)
(* component is close to one of its own.                                   *)
Finished(part) ==
  \A c \in part, d \in affected : Close(c, d) => d \in part

LEMMA FinishedIs ==
  ASSUME ClustersTypeOK, NEW part \in SUBSET affected
  PROVE  Finished(part) <=> Wider(part) = part
<1>1. \A c \in part : Adjacent(c) = {d \in affected : Close(c, d) /\ d # c}
  BY AdjacentIs
<1> QED BY <1>1 DEF Finished, Wider

LEMMA GrownFinishes ==
  ASSUME ClustersTypeOK, NEW c \in affected
  PROVE  /\ c \in Grown({c}) /\ Grown({c}) \subseteq affected
         /\ Finished(Grown({c}))
         /\ \A part \in SUBSET affected :
              c \in part /\ Finished(part) => Grown({c}) \subseteq part
<1>1. affected \in SUBSET Components /\ {c} \in SUBSET Components
  BY DEF ClustersTypeOK
<1>2. Wider(affected) = affected
  BY FinishedIs DEF Finished
<1>3. /\ {c} \subseteq Grown({c})
      /\ Wider(Grown({c})) = Grown({c})
      /\ \A other \in SUBSET Components :
           {c} \subseteq other /\ Wider(other) = other => Grown({c}) \subseteq other
  BY <1>1, GrownIs
<1>4. Grown({c}) \subseteq affected
  BY <1>1, <1>2, <1>3
<1>5. Finished(Grown({c}))
  BY <1>3, <1>4, FinishedIs
<1>6. ASSUME NEW part \in SUBSET affected, c \in part, Finished(part)
      PROVE  Grown({c}) \subseteq part
  BY <1>1, <1>3, <1>6, FinishedIs
<1> QED BY <1>3, <1>4, <1>5, <1>6

(* Which of its components a cluster is grown from does not matter.        *)
LEMMA GrownFromAny ==
  ASSUME ClustersTypeOK, NEW c \in affected, NEW d \in Grown({c})
  PROVE  Grown({d}) = Grown({c})
<1> DEFINE k == Grown({c})
           l == Grown({d})
<1>1. /\ c \in k /\ k \subseteq affected /\ Finished(k)
      /\ \A part \in SUBSET affected : c \in part /\ Finished(part) => k \subseteq part
  BY GrownFinishes
<1>2. d \in affected /\ d \in k
  BY <1>1
<1>3. /\ d \in l /\ l \subseteq affected /\ Finished(l)
      /\ \A part \in SUBSET affected : d \in part /\ Finished(part) => l \subseteq part
  BY <1>2, GrownFinishes
<1> HIDE DEF k, l
<1>4. l \subseteq k
  BY <1>1, <1>2, <1>3
<1>5. c \in l
  <2> SUFFICES ASSUME c \notin l PROVE FALSE
    OBVIOUS
  <2>1. Finished(k \ l)
    BY <1>1, <1>3, CloseSymmetric DEF Finished
  <2>2. k \subseteq k \ l
    BY <1>1, <2>1
  <2> QED BY <1>2, <1>3, <2>2
<1>6. k \subseteq l
  BY <1>1, <1>3, <1>5
<1> QED BY <1>4, <1>6 DEF k, l

(* A component without a call is a cluster of its own.                     *)
LEMMA GhostsAreAlone ==
  ASSUME ClustersTypeOK, NEW c \in Ghosts
  PROVE  Grown({c}) = {c}
<1>1. c \in affected /\ c \in Components /\ Neighbours(c) = {}
  BY DEF Ghosts, ClustersTypeOK
<1>2. ASSUME NEW d, Close(c, d) PROVE d = c
  <2>1a. PICK n \in 0..MaxDegrees : \E walk : Leads(walk, n, c, d)
    BY <1>2, CloseIs
  <2>1. PICK walk : Leads(walk, n, c, d)
    BY <2>1a
  <2>2. CASE n = 0
    BY <2>1, <2>2 DEF Leads
  <2>3. CASE n # 0
    <3>1. n \in Nat /\ 1 \in 1..n /\ 1 \in 0..n
      BY <2>3, ClustersAssumption
    <3>2. Joined(walk[1 - 1], walk[1]) /\ walk[1] \in Components /\ walk[0] = c
      BY <2>1, <3>1 DEF Leads
    <3> QED BY <1>1, <3>2 DEF Neighbours, Joined
  <2> QED BY <2>2, <2>3
<1>3. Finished({c})
  BY <1>2 DEF Finished
<1> QED BY <1>1, <1>3, GrownFinishes

LEMMA ClustersAre ==
  ASSUME ClustersTypeOK
  PROVE  Clusters = {Grown({c}) : c \in affected}
<1>1. affected = Located \cup Ghosts
  BY DEF Located, Ghosts
<1>2. \A c \in Ghosts : Grown({c}) = {c}
  BY GhostsAreAlone
<1> QED BY <1>1, <1>2 DEF Clusters

LEMMA ClustersPartition ==
  ASSUME ClustersTypeOK
  PROVE  /\ UNION Clusters = affected
         /\ \A k, l \in Clusters :
              k # l => \A c \in k, d \in l : c # d /\ ~Close(c, d)
         /\ \A k \in Clusters : \A part \in (SUBSET k) \ {{}, k} :
              \E c \in part, d \in k \ part : Close(c, d)
<1>1. UNION Clusters = affected
  <2>1. \A c \in affected : c \in Grown({c}) /\ Grown({c}) \subseteq affected
    BY GrownFinishes
  <2> QED BY <2>1, ClustersAre
<1>2. ASSUME NEW k \in Clusters, NEW l \in Clusters,
             NEW c \in k, NEW d \in l, c = d \/ Close(c, d)
      PROVE  k = l
  <2>1. PICK a \in affected : k = Grown({a})
    BY ClustersAre
  <2>2. PICK b \in affected : l = Grown({b})
    BY ClustersAre
  <2>3. d \in affected
    BY <2>2, GrownFinishes
  <2>4. d \in k
    BY <1>2, <2>1, <2>3, GrownFinishes DEF Finished
  <2> QED BY <2>1, <2>2, <2>4, GrownFromAny
<1>3. ASSUME NEW k \in Clusters, NEW part \in (SUBSET k) \ {{}, k},
             \A c \in part, d \in k \ part : ~Close(c, d)
      PROVE  FALSE
  <2>1. PICK a \in affected : k = Grown({a})
    BY ClustersAre
  <2>2. /\ a \in k /\ k \subseteq affected /\ Finished(k)
        /\ \A other \in SUBSET affected : a \in other /\ Finished(other) => k \subseteq other
    BY <2>1, GrownFinishes
  <2>3. CASE a \in part
    <3>1. Finished(part)
      BY <1>3, <2>2 DEF Finished
    <3>2. k \subseteq part
      BY <2>2, <2>3, <3>1
    <3> QED BY <3>2
  <2>4. CASE a \notin part
    <3>1. Finished(k \ part)
      BY <1>3, <2>2, CloseSymmetric DEF Finished
    <3>2. k \subseteq k \ part
      BY <2>2, <2>4, <3>1
    <3> QED BY <3>2
  <2> QED BY <2>3, <2>4
<1> QED BY <1>1, <1>2, <1>3

(* The answer names the clusters, the largest as the primary one.          *)
ClustersInv ==
  /\ ClustersTypeOK
  /\ (report # Unanswered /\ ~empty) =>
       \E k \in Largest : report.primary = k /\ report.concurrent = Clusters \ {k}

LEMMA ClustersStep == ClustersInv /\ [ClustersNext]_clustersVars => ClustersInv'
<1> SUFFICES ASSUME ClustersInv, [ClustersNext]_clustersVars PROVE ClustersInv'
  OBVIOUS
<1>0. ASSUME topology' = topology, affected' = affected
      PROVE  Largest' = Largest /\ Clusters' = Clusters
  BY <1>0 DEF Largest, Clusters, Grown, Wider, Adjacent, Reached, Nearby, Located,
              Ghosts, Neighbours
<1>1. CASE RunConnectedComponentAnalysis
  <2>1. topology' = topology /\ affected' = affected /\ empty' = empty
    BY <1>1 DEF RunConnectedComponentAnalysis
  <2>2. CASE empty
    <3>1. report' = [primary |-> affected, concurrent |-> {}, boundary |-> {}]
      BY <1>1, <2>2 DEF RunConnectedComponentAnalysis, Unanswered
    <3> QED BY <2>1, <2>2, <3>1 DEF ClustersInv, ClustersTypeOK
  <2>3. CASE ~empty
    <3>1. PICK k \in Largest :
            report' = [primary |-> k, concurrent |-> Clusters \ {k},
                       boundary |-> BoundaryAmbiguous]
      BY <1>1, <2>3 DEF RunConnectedComponentAnalysis
    <3>2. k \in Clusters /\ UNION Clusters = affected
      BY ClustersPartition DEF Largest, ClustersInv
    <3>3. affected \subseteq Components /\ BoundaryAmbiguous \subseteq affected
      BY DEF ClustersInv, ClustersTypeOK, BoundaryAmbiguous, Located
    <3>4. report'.primary = k /\ report'.concurrent = Clusters \ {k}
          /\ report'.boundary = BoundaryAmbiguous
      BY <3>1
    <3>5. ClustersTypeOK'
      BY <2>1, <3>2, <3>3, <3>4 DEF ClustersInv, ClustersTypeOK
    <3> QED BY <1>0, <2>1, <3>4, <3>5 DEF ClustersInv
  <2> QED BY <2>2, <2>3
<1>2. CASE UNCHANGED clustersVars
  <2>1. /\ topology' = topology /\ affected' = affected /\ report' = report
        /\ empty' = empty
    BY <1>2 DEF clustersVars
  <2> QED BY <1>0, <2>1 DEF ClustersInv, ClustersTypeOK, Unanswered
<1> QED BY <1>1, <1>2 DEF ClustersNext

LEMMA ClustersInvInit == ClustersInit => ClustersInv
BY DEF ClustersInit, ClustersInv, ClustersTypeOK, Unanswered

LEMMA ClustersInvariant == ClustersSpec => []ClustersInv
BY ClustersInvInit, ClustersStep, PTL DEF ClustersSpec

(* The components the tool names are components of the topology it was     *)
(* given (RunConnectedComponentAnalysisTool).                              *)
THEOREM ClustersTypeCorrect == ClustersSpec => []ClustersTypeOK
<1>1. ClustersInv => ClustersTypeOK
  BY DEF ClustersInv
<1> QED BY <1>1, ClustersInvariant, PTL

(* ClustersAreIncidents: the two searches of the tool compute the finest   *)
(* partition of the affected components that keeps close ones together,    *)
(* for any finite topology and any number of degrees, and none of its      *)
(* clusters is larger than the primary one.                                *)
THEOREM ClustersAreIncidentsHolds == ClustersSpec => []ClustersAreIncidents
<1>1. ClustersInv => ClustersAreIncidents
  <2> SUFFICES ASSUME ClustersInv, report # Unanswered, ~empty
               PROVE  /\ Incidents = Clusters
                      /\ \A k \in Clusters : Cardinality(k) <= Cardinality(report.primary)
    BY ClustersPartition DEF ClustersInv, ClustersAreIncidents
  <2>1. PICK k \in Largest : report.primary = k /\ report.concurrent = Clusters \ {k}
    BY DEF ClustersInv
  <2> QED BY <2>1 DEF Incidents, Largest
<1> QED BY <1>1, ClustersInvariant, PTL

-----------------------------------------------------------------------------
(* PlaybookMatching                                                        *)

RulesOf(playbooks) == UNION {p.rules : p \in playbooks}

(* The nodes behind the evaluator and the matcher find what these have     *)
(* written in this very pass.                                              *)
FactsInv ==
  at \in {"route", "verify", "triage", "failed"} =>
    facts = {<<r, pass>> : r \in RulesOf(Fired)}

SentInv == at \in {"verify", "triage", "failed"} => sent \subseteq Fired

VerdictsInv ==
  \A v \in verdicts :
    /\ v.pass \in Nat /\ v.pass <= pass
    /\ v.pass = pass => at \in {"context_assembly", "verify", "triage", "failed"}
    /\ (v.pass = pass /\ at \in {"verify", "triage", "failed"}) => v.candidate \in Fired

MatchingInv == pass \in Nat /\ FactsInv /\ SentInv /\ VerdictsInv

LEMMA CandidatesFired == Candidates \subseteq Fired
BY DEF Candidates, Fired

(* A step that leaves the results alone leaves what has fired alone.       *)
LEMMA FiredStays == results' = results => Fired' = Fired
BY DEF Fired

LEMMA MatchingInvInit == MatchingInit => MatchingInv
BY DEF MatchingInit, MatchingInv, FactsInv, SentInv, VerdictsInv

LEMMA VerifyStep ==
  ASSUME MatchingInv, NEW p \in Registry, VerifyPlaybook(p)
  PROVE  MatchingInv'
<1> USE DEF MatchingInv
<1>1. /\ at = "verify" /\ p \in sent /\ sent' = sent \ {p}
      /\ at' = at /\ pass' = pass /\ results' = results /\ facts' = facts
  BY DEF VerifyPlaybook
<1>2. Fired' = Fired
  BY <1>1, FiredStays
<1>3. PICK confirmed \in BOOLEAN, named \in Registry \cup {p} :
        verdicts' = verdicts \cup
          {[pass |-> pass, candidate |-> p, names |-> named, confirmed |-> confirmed]}
  BY DEF VerifyPlaybook
<1>4. FactsInv'
  BY <1>1, <1>2 DEF FactsInv, RulesOf
<1>5. SentInv'
  BY <1>1, <1>2 DEF SentInv
<1>6. VerdictsInv'
  <2> SUFFICES ASSUME NEW v \in verdicts'
               PROVE  /\ v.pass \in Nat /\ v.pass <= pass
                      /\ v.candidate \in Fired \/ v.pass # pass
    BY <1>1, <1>2 DEF VerdictsInv
  <2>1. CASE v \in verdicts
    BY <2>1, <1>1 DEF VerdictsInv
  <2>2. CASE v = [pass |-> pass, candidate |-> p, names |-> named,
                  confirmed |-> confirmed]
    BY <2>2, <1>1 DEF SentInv
  <2> QED BY <1>3, <2>1, <2>2
<1> QED BY <1>1, <1>4, <1>5, <1>6

LEMMA MatchingInvStep == MatchingInv /\ [MatchingNext]_matchingVars => MatchingInv'
<1> SUFFICES ASSUME MatchingInv, [MatchingNext]_matchingVars  PROVE MatchingInv'
  OBVIOUS
<1>1. ASSUME ContextAssembly  PROVE MatchingInv'
  BY <1>1 DEF ContextAssembly, MatchingInv, FactsInv, SentInv, VerdictsInv
<1>2. ASSUME Matcher  PROVE MatchingInv'
  <2>1. at = "matcher" /\ at' = "evaluator" /\ pass' = pass /\ verdicts' = verdicts
    BY <1>2 DEF Matcher
  <2> QED BY <2>1 DEF MatchingInv, FactsInv, SentInv, VerdictsInv
<1>3. ASSUME Evaluator  PROVE MatchingInv'
  <2>1. /\ at = "evaluator" /\ at' = "route" /\ pass' = pass
        /\ results' = results /\ verdicts' = verdicts
        /\ facts' = {<<r, pass>> : r \in RulesOf(Fired)}
    BY <1>3 DEF Evaluator, RulesOf
  <2>2. Fired' = Fired
    BY <2>1, FiredStays
  <2>3. FactsInv'
    BY <2>1, <2>2 DEF FactsInv, RulesOf
  <2> QED BY <2>1, <2>3 DEF MatchingInv, SentInv, VerdictsInv
<1>4. ASSUME RouteToVerifiers  PROVE MatchingInv'
  <2>1. /\ at = "route" /\ at' \in {"triage", "verify"} /\ pass' = pass
        /\ results' = results /\ verdicts' = verdicts /\ facts' = facts
        /\ sent' = Candidates
    BY <1>4 DEF RouteToVerifiers
  <2>2. Fired' = Fired
    BY <2>1, FiredStays
  <2>3. FactsInv'
    BY <2>1, <2>2 DEF MatchingInv, FactsInv, RulesOf
  <2>4. SentInv'
    BY <2>1, <2>2, CandidatesFired DEF SentInv
  <2>5. VerdictsInv'
    BY <2>1, <2>2 DEF MatchingInv, VerdictsInv
  <2> QED BY <2>1, <2>3, <2>4, <2>5 DEF MatchingInv
<1>5. ASSUME NEW p \in Registry, VerifyPlaybook(p)  PROVE MatchingInv'
  BY <1>5, VerifyStep
<1>6. ASSUME ResolveVerdicts \/ RestartContext \/ \E p \in Registry : VerdictMissing(p)
      PROVE  MatchingInv'
  <2>1. /\ pass' = pass /\ results' = results /\ facts' = facts
        /\ sent' = sent /\ verdicts' = verdicts
        /\ \/ at = "verify" /\ at' \in {"triage", "failed"}
           \/ at = "triage" /\ at' = "context_assembly"
    BY <1>6 DEF ResolveVerdicts, RestartContext, VerdictMissing
  <2>2. Fired' = Fired
    BY <2>1, FiredStays
  <2>3. FactsInv'
    BY <2>1, <2>2 DEF MatchingInv, FactsInv, RulesOf
  <2>4. SentInv' /\ VerdictsInv'
    BY <2>1, <2>2 DEF MatchingInv, SentInv, VerdictsInv
  <2> QED BY <2>1, <2>3, <2>4 DEF MatchingInv
<1>7. ASSUME UNCHANGED matchingVars  PROVE MatchingInv'
  <2>1. /\ at' = at /\ pass' = pass /\ results' = results /\ facts' = facts
        /\ sent' = sent /\ verdicts' = verdicts
    BY <1>7 DEF matchingVars
  <2>2. Fired' = Fired
    BY <2>1, FiredStays
  <2>3. FactsInv'
    BY <2>1, <2>2 DEF MatchingInv, FactsInv, RulesOf
  <2> QED BY <2>1, <2>2, <2>3 DEF MatchingInv, SentInv, VerdictsInv
<1> QED BY <1>1, <1>2, <1>3, <1>4, <1>5, <1>6, <1>7 DEF MatchingNext

(* A playbook that a verifier of this pass has confirmed had fired in this *)
(* pass, so that its rules have been evaluated.                            *)
LEMMA InjectedHaveFacts == MatchingInv => InjectedComeWithFacts
<1> SUFFICES ASSUME MatchingInv, at = "triage"
             PROVE  /\ \A f \in facts : f[2] = pass
                    /\ \A p \in InjectedPlaybooks :
                         \/ \A r \in p.rules : <<r, pass>> \in facts
                         \/ \A v \in Confirmed :
                              v.names = p => v.pass < pass \/ v.candidate # p
  BY DEF InjectedComeWithFacts
<1>1. facts = {<<r, pass>> : r \in RulesOf(Fired)}
  BY DEF MatchingInv, FactsInv
<1>2. \A f \in facts : f[2] = pass
  BY <1>1
<1>3. ASSUME NEW p \in InjectedPlaybooks,
             NEW v \in Confirmed, v.names = p, ~(v.pass < pass \/ v.candidate # p)
      PROVE  \A r \in p.rules : <<r, pass>> \in facts
  <2>1. v \in verdicts
    BY DEF Confirmed
  <2>2. v.pass = pass /\ v.candidate = p
    BY <1>3, <2>1 DEF MatchingInv, VerdictsInv
  <2>3. p \in Fired
    BY <2>1, <2>2 DEF MatchingInv, VerdictsInv
  <2> QED BY <2>3, <1>1 DEF RulesOf
<1> QED BY <1>2, <1>3

(* InjectedComeWithFacts: what deterministic_matcher, semantic_evaluator   *)
(* and the verifiers tell triage belongs together, for any registry.       *)
THEOREM InjectedComeWithFactsHolds == MatchingSpec => []InjectedComeWithFacts
<1>1. MatchingSpec => []MatchingInv
  BY MatchingInvInit, MatchingInvStep, PTL DEF MatchingSpec
<1> QED BY <1>1, InjectedHaveFacts, PTL

(* Context assembly starts once more only while passes are left.           *)
PassInv ==
  /\ at # "context_assembly" => pass \in 1..MaxPasses
  /\ at = "context_assembly" => pass < MaxPasses

MatchingTypeInv == MatchingTypeOK /\ PassInv

LEMMA StrengthTypes ==
  ASSUME MatchingTypeOK, NEW p \in Registry
  PROVE  Strength(p).num \in Nat /\ Strength(p).den \in Nat
<1>1. IsFiniteSet(DOMAIN kpis)
  <2>1. CASE kpis \in KpiMaps
    <3>1. DOMAIN kpis \subseteq Hosts
      BY <2>1, MatchingAssumption
    <3> QED BY <3>1, FS_Subset, MatchingAssumption
  <2>2. CASE kpis = <<>>
    <3>1. DOMAIN kpis = {}
      BY <2>2
    <3> QED BY <3>1, FS_EmptySet
  <2> QED BY <2>1, <2>2 DEF MatchingTypeOK
<1>2. ASSUME NEW categories PROVE Having(categories) \in Nat
  <2> DEFINE having == {c \in DOMAIN kpis : kpis[c] \cap categories # {}}
  <2>1. IsFiniteSet(having)
    BY <1>1, FS_Subset
  <2> HIDE DEF having
  <2>2. Cardinality(having) \in Nat
    BY <2>1, FS_CardinalityType
  <2> QED BY <2>2 DEF Having, having
<1>3. Cardinality(DOMAIN kpis) \in Nat
  BY <1>1, FS_CardinalityType
<1> QED BY <1>2, <1>3 DEF Strength

LEMMA MatchingTypeInit == MatchingInit => MatchingTypeInv
BY MatchingAssumption DEF MatchingInit, MatchingTypeInv, MatchingTypeOK, PassInv

LEMMA MatchingTypeStep ==
  MatchingTypeInv /\ [MatchingNext]_matchingVars => MatchingTypeInv'
<1> SUFFICES ASSUME MatchingTypeInv, [MatchingNext]_matchingVars
             PROVE  MatchingTypeInv'
  OBVIOUS
<1> USE DEF MatchingTypeInv
<1>0. MaxPasses \in Nat \ {0} /\ pass \in 0..MaxPasses
  BY MatchingAssumption DEF MatchingTypeOK
<1>1. CASE ContextAssembly
  <2>1. pass + 1 \in 1..MaxPasses
    BY <1>0, <1>1 DEF ContextAssembly, PassInv
  <2> QED BY <1>0, <1>1, <2>1 DEF ContextAssembly, MatchingTypeOK, PassInv
<1>2. CASE Matcher
  <2>1. ASSUME NEW r \in results'
        PROVE  r.playbook \in Registry /\ r.num \in Nat /\ r.den \in Nat
    <3>1. PICK p \in Registry : r = MatchPlaybook(p)
      BY <1>2 DEF Matcher
    <3> QED BY <3>1, StrengthTypes DEF MatchPlaybook
  <2> QED BY <1>0, <1>2, <2>1 DEF Matcher, MatchingTypeOK, PassInv
<1>3. CASE Evaluator
  <2>1. UNION {p.rules : p \in Fired} \subseteq Rules
    BY DEF Fired, Rules, MatchingTypeOK
  <2>2. facts' \subseteq Rules \X (1..MaxPasses)
    BY <1>0, <1>3, <2>1 DEF Evaluator, PassInv
  <2> QED BY <1>0, <1>3, <2>2 DEF Evaluator, MatchingTypeOK, PassInv
<1>4. CASE RouteToVerifiers
  <2>1. Candidates \subseteq Registry
    BY DEF Candidates, MatchingTypeOK
  <2> QED BY <1>0, <1>4, <2>1 DEF RouteToVerifiers, MatchingTypeOK, PassInv
<1>5. ASSUME NEW p \in Registry, VerifyPlaybook(p) PROVE MatchingTypeInv'
  <2>1. PICK confirmed \in BOOLEAN, named \in Registry :
          verdicts' = verdicts \cup
            {[pass |-> pass, candidate |-> p, names |-> named, confirmed |-> confirmed]}
    BY <1>5 DEF VerifyPlaybook
  <2>2. pass \in 1..MaxPasses
    BY <1>5 DEF VerifyPlaybook, PassInv
  <2>3. verdicts' \subseteq Verdicts
    BY <2>1, <2>2 DEF MatchingTypeOK, Verdicts
  <2>4. /\ at' = at /\ pass' = pass /\ kpis' = kpis /\ results' = results
        /\ facts' = facts /\ sent' \subseteq sent
    BY <1>5 DEF VerifyPlaybook
  <2> QED BY <1>0, <2>3, <2>4 DEF MatchingTypeOK, PassInv
<1>6. CASE ResolveVerdicts
  BY <1>0, <1>6 DEF ResolveVerdicts, MatchingTypeOK, PassInv
<1>7. CASE RestartContext
  BY <1>0, <1>7 DEF RestartContext, MatchingTypeOK, PassInv
<1>8. ASSUME NEW p \in Registry, VerdictMissing(p) PROVE MatchingTypeInv'
  BY <1>0, <1>8 DEF VerdictMissing, MatchingTypeOK, PassInv
<1>9. CASE UNCHANGED matchingVars
  BY <1>9 DEF matchingVars, MatchingTypeOK, PassInv
<1> QED
  BY <1>1, <1>2, <1>3, <1>4, <1>5, <1>6, <1>7, <1>8, <1>9 DEF MatchingNext

(* What the nodes between context assembly and triage hand on has its      *)
(* type, for any telemetry: the shares that are compared are fractions of  *)
(* finite counts (match_playbook, semantic_evaluator, the verifiers).      *)
THEOREM MatchingTypeCorrect == MatchingSpec => []MatchingTypeOK
<1>1. MatchingTypeInv => MatchingTypeOK
  BY DEF MatchingTypeInv
<1> QED BY <1>1, MatchingTypeInit, MatchingTypeStep, PTL DEF MatchingSpec

-----------------------------------------------------------------------------
(* EvidenceScoring                                                         *)

(* What has been decided was decided from the scores of the state.         *)
ScoringInv ==
  /\ ScoringTypeOK
  /\ outcome \notin {"unscored", "critic"} =>
       \E s \in Softmaxes : outcome = Override(s)

LEMMA ScoringInvInit == ScoringInit => ScoringInv
<1> SUFFICES ASSUME ScoringInit PROVE ScoringInv
  OBVIOUS
<1>1. items \subseteq Findings
  BY DEF ScoringInit, kSubset
<1>2. DOMAIN critic_verdicts = {}
  BY DEF ScoringInit
<1> QED BY <1>1, <1>2 DEF ScoringInit, ScoringInv, ScoringTypeOK

LEMMA OverrideTypes == ASSUME NEW s, judged \in Overrides \cup {"active"}
                       PROVE  Override(s) \in Overrides \cup {"none"}
BY DEF Override, Overrides

LEMMA ScoringInvStep == ScoringInv /\ [ScoringNext]_scoringVars => ScoringInv'
<1> SUFFICES ASSUME ScoringInv, [ScoringNext]_scoringVars PROVE ScoringInv'
  OBVIOUS
<1>1. CASE DeterministicScoring
  <2>1. /\ hypotheses' = hypotheses /\ items' = items
        /\ critic_verdicts' = critic_verdicts /\ judged' = judged
    BY <1>1 DEF DeterministicScoring
  <2>2. outcome' = "critic" \/ \E s \in Softmaxes : outcome' = Override(s)
    BY <1>1 DEF DeterministicScoring
  <2>3. Softmaxes' = Softmaxes /\ \A s : Override(s)' = Override(s)
    BY <2>1 DEF Softmaxes, LogOdds, Support, Override, Flat, Entropy
  <2>4. ScoringTypeOK'
    BY <2>1, <2>2, OverrideTypes DEF ScoringInv, ScoringTypeOK
  <2> QED BY <2>2, <2>3, <2>4 DEF ScoringInv
<1>2. CASE CriticAgent
  <2>1. PICK reviewed \in SUBSET items :
          DOMAIN critic_verdicts' = reviewed \cup DOMAIN critic_verdicts
    BY <1>2 DEF CriticAgent
  <2>2. outcome' = "unscored" /\ hypotheses' = hypotheses /\ items' = items
        /\ judged' = judged
    BY <1>2 DEF CriticAgent
  <2> QED BY <2>1, <2>2 DEF ScoringInv, ScoringTypeOK
<1>3. CASE UNCHANGED scoringVars
  <2>1. /\ hypotheses' = hypotheses /\ items' = items /\ outcome' = outcome
        /\ critic_verdicts' = critic_verdicts /\ judged' = judged
    BY <1>3 DEF scoringVars
  <2>2. Softmaxes' = Softmaxes /\ \A s : Override(s)' = Override(s)
    BY <2>1 DEF Softmaxes, LogOdds, Support, Override, Flat, Entropy
  <2> QED BY <2>1, <2>2 DEF ScoringInv, ScoringTypeOK
<1> QED BY <1>1, <1>2, <1>3 DEF ScoringNext

(* Evidence that tells nothing apart weighs nothing.                       *)
LEMMA IndifferentOdds ==
  ASSUME ScoringTypeOK, Indifferent, NEW h \in hypotheses
  PROVE  LogOdds(h) = 0
<1> DEFINE about == {i \in items : i.of = h}
           weights == [i \in items |-> Weight(i.source, Support(i))]
<1>1. IsFiniteSet(about)
  <2>1. about \subseteq Findings
    BY DEF ScoringTypeOK
  <2> QED BY <2>1, FS_Subset, ScoringAssumption
<1>2. ASSUME NEW i \in about PROVE weights[i] = 0
  <2>1. Support(i) = "neutral"
    BY <1>2 DEF Indifferent, SaysOf, Support, Strengths
  <2>2. weights[i] = Weight(i.source, "neutral")
    BY <2>1
  <2>3. \A source : Weight(source, "neutral") = 0
    BY DEF Weight
  <2> QED BY <2>2, <2>3
<1>3. Cardinality(about) * 0 = 0
  BY <1>1, FS_CardinalityType
<1> HIDE DEF about, weights
<1>4. SumFunctionOnSet(weights, about) = 0
  BY <1>1, <1>2, <1>3, SumOfConstant
<1> QED BY <1>4 DEF LogOdds, about, weights

(* Then all hypotheses share alike.                                        *)
LEMMA IndifferentShares ==
  ASSUME ScoringTypeOK, Indifferent, NEW s \in Softmaxes
  PROVE  \E c \in 0..12 : /\ s = [h \in hypotheses |-> c]
                          /\ Cardinality(hypotheses) * c = 12
<1>1. IsFiniteSet(hypotheses) /\ Cardinality(hypotheses) \in Nat
      /\ Cardinality(hypotheses) # 0
  BY ScoringAssumption DEF ScoringTypeOK
<1>2. hypotheses # {}
  BY <1>1, FS_EmptySet
<1>3. PICK f \in [{LogOdds(h) : h \in hypotheses} -> 0..12] :
        /\ s = [h \in hypotheses |-> f[LogOdds(h)]]
        /\ SumFunction([h \in hypotheses |-> f[LogOdds(h)]]) = 12
  BY DEF Softmaxes
<1> DEFINE c == f[0]
<1>4. \A h \in hypotheses : LogOdds(h) = 0
  BY IndifferentOdds
<1>5. c \in 0..12
  BY <1>2, <1>3, <1>4
<1>6. s = [h \in hypotheses |-> c]
  BY <1>3, <1>4
<1> HIDE DEF c
<1>7. SumFunctionOnSet(s, hypotheses) = Cardinality(hypotheses) * c
  BY <1>1, <1>5, <1>6, SumOfConstant
<1>8. SumFunction(s) = SumFunctionOnSet(s, hypotheses)
  BY <1>6 DEF SumFunction
<1> QED BY <1>3, <1>5, <1>6, <1>7, <1>8

(* The entropy of equal shares.                                            *)
LEMMA EntropyOfEqual ==
  ASSUME ScoringTypeOK, NEW c \in 1..12, Cardinality(hypotheses) * c = 12
  PROVE  Entropy([h \in hypotheses |-> c]) = Surprise[c]
<1> DEFINE parts == [h \in hypotheses |-> c * Surprise[c]]
           n == Cardinality(hypotheses)
<1>1. IsFiniteSet(hypotheses) /\ n \in {1, 2, 3, 4, 6}
  BY ScoringAssumption DEF ScoringTypeOK
<1>2. Surprise[c] \in Nat
  BY DEF Surprise
<1>3. c * Surprise[c] \in Nat /\ \A h \in hypotheses : parts[h] = c * Surprise[c]
  BY <1>2
<1>4. SumFunction(parts) = SumFunctionOnSet(parts, hypotheses)
  BY DEF SumFunction
<1> HIDE DEF parts, n
<1>5. SumFunctionOnSet(parts, hypotheses) = n * (c * Surprise[c])
  BY <1>1, <1>3, SumOfConstant DEF n
<1>6. n * (c * Surprise[c]) = 12 * Surprise[c]
  <2>1. n * c = 12
    BY DEF n
  <2> QED BY <1>1, <1>2, <2>1
<1>7. (12 * Surprise[c]) \div 12 = Surprise[c]
  BY <1>2
<1>8. [h \in hypotheses |-> IF [k \in hypotheses |-> c][h] = 0 THEN 0
                            ELSE [k \in hypotheses |-> c][h] * Surprise[[k \in hypotheses |-> c][h]]]
        = parts
  BY DEF parts
<1> QED BY <1>4, <1>5, <1>6, <1>7, <1>8 DEF Entropy

LEMMA IndifferenceShows ==
  ASSUME ScoringTypeOK, judged = "active", Indifferent,
         Cardinality(items) >= MinEvidence, NEW s \in Softmaxes
  PROVE  Cardinality(hypotheses) >= 4 => Override(s) = "AMBIGUOUS"
<1> DEFINE n == Cardinality(hypotheses)
<1>1. n \in {1, 2, 3, 4, 6}
  BY ScoringAssumption DEF ScoringTypeOK
<1>2. PICK c \in 0..12 : s = [h \in hypotheses |-> c] /\ n * c = 12
  BY IndifferentShares
<1>3. c \in 1..12
  BY <1>1, <1>2
<1>4. Entropy(s) = Surprise[c]
  BY <1>2, <1>3, EntropyOfEqual
<1>5. Flat(s) <=> 100 * Surprise[c] > 85 * Log2[n + 1]
  BY <1>4 DEF Flat
<1>6. ~(Cardinality(items) < MinEvidence)
  <2>1. IsFiniteSet(items)
    BY FS_Subset, ScoringAssumption DEF ScoringTypeOK
  <2> QED BY <2>1, FS_CardinalityType, ScoringAssumption
<1>7. Override(s) = "AMBIGUOUS" <=> Flat(s) /\ n > 1
  BY <1>6 DEF Override, Overrides
<1> HIDE DEF n
<1>8. CASE n = 1
  BY <1>7, <1>8 DEF n
<1>9. CASE n = 2
  <2>1. c = 6
    BY <1>2, <1>9
  <2> QED BY <1>5, <1>7, <1>9, <2>1 DEF Surprise, Log2, n
<1>10. CASE n = 3
  <2>1. c = 4
    BY <1>2, <1>10
  <2> QED BY <1>5, <1>7, <1>10, <2>1 DEF Surprise, Log2, n
<1>11. CASE n = 4
  <2>1. c = 3
    BY <1>2, <1>11
  <2> QED BY <1>5, <1>7, <1>11, <2>1 DEF Surprise, Log2, n
<1>12. CASE n = 6
  <2>1. c = 2
    BY <1>2, <1>12
  <2> QED BY <1>5, <1>7, <1>12, <2>1 DEF Surprise, Log2, n
<1> QED BY <1>1, <1>8, <1>9, <1>10, <1>11, <1>12

LEMMA ScoringInvariant == ScoringSpec => []ScoringInv
BY ScoringInvInit, ScoringInvStep, PTL DEF ScoringSpec

(* What is scored and what scoring leaves have their types; verdicts are   *)
(* about items of the evidence (deterministic_scoring, critic_agent).      *)
THEOREM ScoringTypeCorrect == ScoringSpec => []ScoringTypeOK
<1>1. ScoringInv => ScoringTypeOK
  BY DEF ScoringInv
<1> QED BY <1>1, ScoringInvariant, PTL

(* IndifferenceShowsFromFour: for any findings, weights of the two sources *)
(* and corrections, evidence that tells four hypotheses or more not apart  *)
(* makes the result AMBIGUOUS (DeterministicScorer,                        *)
(* RCAConvergenceEvaluator.evaluate).                                      *)
THEOREM IndifferenceShowsHolds == ScoringSpec => []IndifferenceShowsFromFour
<1>1. ScoringInv => IndifferenceShowsFromFour
  BY IndifferenceShows DEF ScoringInv, IndifferenceShowsFromFour, ScoredIndifferent
<1> QED BY <1>1, ScoringInvariant, PTL

-----------------------------------------------------------------------------
(* StatePayload                                                            *)

(* Logs and what is counted about them.                                    *)
LEMMA AppendOccurs ==
  ASSUME NEW S, NEW log \in Seq(S), NEW x \in S, NEW k
  PROVE  /\ Occurrences(log, k) \in Nat
         /\ Occurrences(Append(log, x), k) =
              Occurrences(log, k) + (IF k = x THEN 1 ELSE 0)
<1> DEFINE I == {i \in DOMAIN log : log[i] = k}
           J == {i \in DOMAIN Append(log, x) : Append(log, x)[i] = k}
           n == Len(log)
<1>1. /\ n \in Nat /\ DOMAIN log = 1..n /\ DOMAIN Append(log, x) = 1..(n+1)
      /\ Append(log, x)[n+1] = x
      /\ \A i \in 1..n : Append(log, x)[i] = log[i]
  OBVIOUS
<1>2. IsFiniteSet(I) /\ Cardinality(I) \in Nat
  <2>1. n \in Nat
    BY <1>1
  <2> HIDE DEF n
  <2>2. n \in Int /\ 1 \in Int
    BY <2>1
  <2>3. IsFiniteSet(1..n)
    BY ONLY <2>2, FS_Interval
  <2>4. IsFiniteSet(I)
    BY <1>1, <2>3, FS_Subset
  <2> HIDE DEF I
  <2> QED BY <2>4, FS_CardinalityType
<1>3. J = IF k = x THEN I \cup {n+1} ELSE I
  <2>1. 1..(n+1) = (1..n) \cup {n+1}
    BY <1>1
  <2> QED BY <1>1, <2>1
<1>4. n + 1 \notin I
  BY <1>1
<1> HIDE DEF I, J, n
<1>5. Cardinality(J) = Cardinality(I) + (IF k = x THEN 1 ELSE 0)
  <2>1. CASE k = x
    BY <2>1, <1>2, <1>3, <1>4, FS_AddElement
  <2>2. CASE k # x
    BY <2>2, <1>2, <1>3
  <2> QED BY <2>1, <2>2
<1> QED BY <1>2, <1>5 DEF Occurrences, I, J

LEMMA IncrementedIs ==
  ASSUME NEW counts, NEW key
  PROVE  /\ DOMAIN Incremented(counts, key) = DOMAIN counts \cup {key}
         /\ Incremented(counts, key)[key] =
              (IF key \in DOMAIN counts THEN counts[key] ELSE 0) + 1
         /\ \A k \in DOMAIN counts : k # key => Incremented(counts, key)[k] = counts[k]
BY DEF Incremented, SetKey

LEMMA IncrementedSumsUp ==
  ASSUME NEW S, NEW log \in Seq(S), NEW x \in S, NEW counts, SumsUp(counts, log)
  PROVE  SumsUp(Incremented(counts, x), Append(log, x))
<1> DEFINE more == Incremented(counts, x)
           longer == Append(log, x)
<1>1. /\ DOMAIN more = DOMAIN counts \cup {x}
      /\ more[x] = (IF x \in DOMAIN counts THEN counts[x] ELSE 0) + 1
      /\ \A k \in DOMAIN counts : k # x => more[k] = counts[k]
  BY IncrementedIs
<1>2. /\ DOMAIN longer = DOMAIN log \cup {Len(log) + 1}
      /\ longer[Len(log) + 1] = x
      /\ \A i \in DOMAIN log : longer[i] = log[i]
  OBVIOUS
<1>3. \A k : /\ Occurrences(log, k) \in Nat
             /\ Occurrences(longer, k) = Occurrences(log, k) + (IF k = x THEN 1 ELSE 0)
  BY AppendOccurs
<1>4. ASSUME x \notin DOMAIN counts PROVE Occurrences(log, x) = 0
  <2>1. {i \in DOMAIN log : log[i] = x} = {}
    BY <1>4 DEF SumsUp
  <2> QED BY <2>1, FS_EmptySet DEF Occurrences
<1>5. \A k \in DOMAIN counts : counts[k] = Occurrences(log, k)
  BY DEF SumsUp
<1>6. \A i \in DOMAIN log : log[i] \in DOMAIN counts
  BY DEF SumsUp
<1> HIDE DEF more, longer
<1>7. \A k \in DOMAIN more : more[k] = Occurrences(longer, k)
  BY <1>1, <1>3, <1>4, <1>5
<1>8. \A i \in DOMAIN longer : longer[i] \in DOMAIN more
  BY <1>1, <1>2, <1>6
<1>9. SumsUp(more, longer)
  BY <1>7, <1>8 DEF SumsUp
<1> QED BY <1>9 DEF more, longer

LEMMA NothingSumsUp == SumsUp(<<>>, <<>>)
BY DEF SumsUp

LEMMA NothingOccurs == ASSUME NEW k PROVE Occurrences(<<>>, k) = 0
<1>1. {i \in DOMAIN <<>> : <<>>[i] = k} = {}
  OBVIOUS
<1> QED BY <1>1, FS_EmptySet DEF Occurrences

(* Each history with its counters, as the state holds it ...               *)
GuardrailsHold(g) ==
  /\ DOMAIN g = DOMAIN Guardrails
  /\ g.retry_log \in Seq(FailureTypes)
  /\ g.tool_call_log \in Seq([stage: Stages, version: {0, 1}])
  /\ GuardrailsAddUp(g)

FailuresHold(f) ==
  /\ DOMAIN f = DOMAIN Failures
  /\ f.events \in Seq(FailureTypes)
  /\ SumsUp(f.counts_by_type, f.events)

FallbacksHold(f) ==
  /\ DOMAIN f = DOMAIN Fallbacks
  /\ f.activations \in Seq(FallbackTypes)
  /\ FallbacksAddUp(f)

MetricsHold(m) ==
  /\ DOMAIN m = DOMAIN Metrics
  /\ IsFiniteSet(DOMAIN m.stage_metrics)
  /\ \A s \in DOMAIN m.stage_metrics : m.stage_metrics[s] \in Nat
  /\ m.total_tool_calls \in Nat
  /\ m.total_tool_calls >= SumFunctionOnSet(m.stage_metrics, DOMAIN m.stage_metrics)

(* ... and as the payload does, in which calls have lost their version.    *)
WrittenGuardrailsHold(j) ==
  /\ DOMAIN j = DOMAIN Guardrails
  /\ j.retry_log \in Seq(FailureTypes)
  /\ j.tool_call_log \in Seq(Stages)
  /\ j.total_llm_retry_attempts = Len(j.retry_log)
  /\ SumsUp(j.tool_calls_per_stage, j.tool_call_log)

OthersHold(s) ==
  /\ s.failure_history # Nothing => FailuresHold(s.failure_history)
  /\ s.fallback_history # Nothing => FallbacksHold(s.fallback_history)
  /\ s.metrics # Nothing => MetricsHold(s.metrics)

StateHolds(s) ==
  /\ DOMAIN s = Histories \cup {"version", "healthy_components"}
  /\ s.guardrails # Nothing => GuardrailsHold(s.guardrails)
  /\ OthersHold(s)

WrittenHolds(j) ==
  /\ DOMAIN j = Histories \cup {"version"}
  /\ j.guardrails # Nothing => WrittenGuardrailsHold(j.guardrails)
  /\ OthersHold(j)

PayloadInv ==
  /\ PayloadTypeOK
  /\ state # Nothing => StateHolds(state)
  /\ payload # Nothing => WrittenHolds(payload)

(* Each operation keeps its history adding up.                             *)
LEMMA UnversionedIs ==
  ASSUME NEW log \in Seq([stage: Stages, version: {0, 1}])
  PROVE  /\ Unversioned(log) \in Seq(Stages)
         /\ Len(Unversioned(log)) = Len(log)
         /\ \A i \in 1..Len(log) : Unversioned(log)[i] = log[i].stage
<1>1. /\ Len(log) \in Nat /\ DOMAIN log = 1..Len(log)
      /\ \A i \in 1..Len(log) : log[i].stage \in Stages
  <2> DEFINE ToolCalls == [stage: Stages, version: {0, 1}]
  <2>1. log \in Seq(ToolCalls) /\ \A call \in ToolCalls : call.stage \in Stages
    OBVIOUS
  <2> HIDE DEF ToolCalls
  <2> QED BY <2>1
<1>2. Unversioned(log) \in [1..Len(log) -> Stages]
  BY <1>1 DEF Unversioned
<1> QED BY <1>1, <1>2 DEF Unversioned

LEMMA UnversionedAppend ==
  ASSUME NEW log \in Seq([stage: Stages, version: {0, 1}]),
         NEW call \in [stage: Stages, version: {0, 1}]
  PROVE  Unversioned(Append(log, call)) = Append(Unversioned(log), call.stage)
<1> DEFINE longer == Append(log, call)
<1>1. longer \in Seq([stage: Stages, version: {0, 1}]) /\ Len(longer) = Len(log) + 1
      /\ longer[Len(log) + 1] = call
      /\ \A i \in 1..Len(log) : longer[i] = log[i]
  OBVIOUS
<1> HIDE DEF longer
<1>2. Unversioned(longer) \in Seq(Stages) /\ Len(Unversioned(longer)) = Len(log) + 1
      /\ \A i \in 1..(Len(log) + 1) : Unversioned(longer)[i] = longer[i].stage
  BY <1>1, UnversionedIs
<1>3. Unversioned(log) \in Seq(Stages) /\ Len(Unversioned(log)) = Len(log)
      /\ \A i \in 1..Len(log) : Unversioned(log)[i] = log[i].stage
  BY UnversionedIs
<1>4. call.stage \in Stages /\ Len(log) \in Nat
  OBVIOUS
<1>5. Unversioned(longer) = Append(Unversioned(log), call.stage)
  <2> DEFINE u == Unversioned(longer)
             v == Append(Unversioned(log), call.stage)
  <2>1. v \in Seq(Stages) /\ Len(v) = Len(log) + 1 /\ v[Len(log) + 1] = call.stage
        /\ \A i \in 1..Len(log) : v[i] = Unversioned(log)[i]
    BY <1>3, <1>4
  <2>2. \A i \in 1..(Len(log) + 1) : u[i] = v[i]
    BY <1>1, <1>2, <1>3, <1>4, <2>1
  <2>3. u \in Seq(Stages) /\ Len(u) = Len(v)
    BY <1>2, <2>1
  <2> HIDE DEF u, v
  <2>4. u = v
    BY <2>1, <2>2, <2>3
  <2> QED BY <2>4 DEF u, v
<1> QED BY <1>5 DEF longer

LEMMA EmptyHolds ==
  /\ GuardrailsHold(Guardrails) /\ FailuresHold(Failures)
  /\ FallbacksHold(Fallbacks) /\ MetricsHold(Metrics)
<1>1. GuardrailsHold(Guardrails)
  <2>1. Unversioned(<<>>) = <<>>
    BY DEF Unversioned
  <2> QED BY <2>1, NothingSumsUp DEF GuardrailsHold, GuardrailsAddUp, Guardrails
<1>2. FailuresHold(Failures)
  BY NothingSumsUp DEF FailuresHold, Failures
<1>3. FallbacksHold(Fallbacks)
  BY NothingOccurs DEF FallbacksHold, Fallbacks, FallbacksAddUp
<1>4. MetricsHold(Metrics)
  <2>1. DOMAIN <<>> = {}
    OBVIOUS
  <2> QED BY <2>1, SumOfNone, FS_EmptySet DEF MetricsHold, Metrics
<1> QED BY <1>1, <1>2, <1>3, <1>4

LEMMA AppendRetryHolds ==
  ASSUME NEW g, GuardrailsHold(g), NEW type \in FailureTypes
  PROVE  GuardrailsHold(AppendRetry(g, type))
BY DEF AppendRetry, Evolve, GuardrailsHold, GuardrailsAddUp, Guardrails

LEMMA UpdateStageTimingHolds ==
  ASSUME NEW g, GuardrailsHold(g), NEW stage, NEW status
  PROVE  GuardrailsHold(UpdateStageTiming(g, stage, status))
BY DEF UpdateStageTiming, Evolve, GuardrailsHold, GuardrailsAddUp, Guardrails

LEMMA AppendToolCallHolds ==
  ASSUME NEW g, GuardrailsHold(g), NEW stage \in Stages, NEW closed \in BOOLEAN
  PROVE  GuardrailsHold(AppendToolCall(g, stage, closed))
<1> DEFINE call == [stage |-> stage, version |-> IF closed THEN 1 ELSE 0]
           more == AppendToolCall(g, stage, closed)
<1>1. call \in [stage: Stages, version: {0, 1}] /\ call.stage = stage
  OBVIOUS
<1>2. /\ g.tool_call_log \in Seq([stage: Stages, version: {0, 1}])
      /\ SumsUp(g.tool_calls_per_stage, Unversioned(g.tool_call_log))
  BY DEF GuardrailsHold, GuardrailsAddUp
<1>3. /\ DOMAIN more = DOMAIN Guardrails
      /\ more.retry_log = g.retry_log
      /\ more.total_llm_retry_attempts = g.total_llm_retry_attempts
      /\ more.tool_call_log = Append(g.tool_call_log, call)
      /\ more.tool_calls_per_stage = Incremented(g.tool_calls_per_stage, stage)
  BY DEF AppendToolCall, Evolve, GuardrailsHold, Guardrails
<1> HIDE DEF call, more
<1>4. more.tool_call_log \in Seq([stage: Stages, version: {0, 1}])
  BY <1>1, <1>2, <1>3
<1>5. Unversioned(more.tool_call_log) = Append(Unversioned(g.tool_call_log), stage)
  BY <1>1, <1>2, <1>3, UnversionedAppend
<1>6. SumsUp(more.tool_calls_per_stage, Unversioned(more.tool_call_log))
  BY <1>2, <1>3, <1>5, IncrementedSumsUp, UnversionedIs
<1>7. GuardrailsHold(more)
  BY <1>3, <1>4, <1>6 DEF GuardrailsHold, GuardrailsAddUp
<1> QED BY <1>7 DEF more

LEMMA AppendFailureHolds ==
  ASSUME NEW f, FailuresHold(f), NEW type \in FailureTypes
  PROVE  FailuresHold(AppendFailure(f, type))
<1>1. SumsUp(Incremented(f.counts_by_type, type), Append(f.events, type))
  BY IncrementedSumsUp DEF FailuresHold
<1> QED BY <1>1 DEF AppendFailure, Evolve, FailuresHold, Failures

LEMMA AppendFallbackHolds ==
  ASSUME NEW f, FallbacksHold(f), NEW type \in FallbackTypes
  PROVE  FallbacksHold(AppendFallback(f, type))
<1> DEFINE more == AppendFallback(f, type)
<1>1. /\ DOMAIN more = DOMAIN Fallbacks
      /\ more.activations = Append(f.activations, type)
      /\ more.trace_degradation_count =
           f.trace_degradation_count + (IF type = "trace_degradation" THEN 1 ELSE 0)
      /\ more.forced_exit_count =
           f.forced_exit_count + (IF type = "forced_exit_no_survivors" THEN 1 ELSE 0)
  BY DEF AppendFallback, Evolve, FallbacksHold, Fallbacks
<1>2. \A k : Occurrences(Append(f.activations, type), k) =
               Occurrences(f.activations, k) + (IF k = type THEN 1 ELSE 0)
  BY AppendOccurs DEF FallbacksHold
<1> HIDE DEF more
<1>3. FallbacksAddUp(more)
  BY <1>1, <1>2 DEF FallbacksHold, FallbacksAddUp
<1>4. more.activations \in Seq(FallbackTypes)
  BY <1>1 DEF FallbacksHold
<1>5. FallbacksHold(more)
  BY <1>1, <1>3, <1>4 DEF FallbacksHold
<1> QED BY <1>5 DEF more

(* A stage that is listed again takes its new calls in place of the old    *)
(* ones, while the total keeps both.                                       *)
LEMMA AddStageHolds ==
  ASSUME NEW m, MetricsHold(m), NEW stage, NEW calls \in Nat
  PROVE  MetricsHold(AddStage(m, stage, calls))
<1> DEFINE more == AddStage(m, stage, calls)
           old == m.stage_metrics
           listed == more.stage_metrics
           D == DOMAIN m.stage_metrics
<1>1. /\ DOMAIN more = DOMAIN Metrics
      /\ more.total_tool_calls = m.total_tool_calls + calls
      /\ more.stage_metrics = SetKey(m.stage_metrics, stage, calls)
  BY DEF AddStage, Evolve, MetricsHold, Metrics
<1>2. /\ DOMAIN listed = D \cup {stage}
      /\ listed[stage] = calls
      /\ \A s \in D : s # stage => listed[s] = old[s]
  BY <1>1 DEF SetKey
<1>3. /\ IsFiniteSet(D) /\ \A s \in D : old[s] \in Nat
      /\ m.total_tool_calls \in Nat
      /\ m.total_tool_calls >= SumFunctionOnSet(old, D)
  BY DEF MetricsHold
<1> DEFINE R == D \ {stage}
<1>4. IsFiniteSet(D \cup {stage}) /\ IsFiniteSet(R)
  BY <1>3, FS_AddElement, FS_Subset
<1> HIDE DEF more, old, D, listed
<1>5. \A s \in D \cup {stage} : listed[s] \in Nat
  BY <1>2, <1>3
<1>6. SumFunctionOnSet(listed, D \cup {stage}) = calls + SumFunctionOnSet(listed, R)
  <2>1. (D \cup {stage}) \ {stage} = R /\ stage \in D \cup {stage}
    OBVIOUS
  <2> HIDE DEF R
  <2> QED BY <1>2, <1>4, <1>5, <2>1, SumWithout
<1>7. SumFunctionOnSet(old, R) = SumFunctionOnSet(listed, R)
  BY <1>2, <1>3, <1>4, SumOfEqual
<1>8. SumFunctionOnSet(old, R) \in Nat /\ SumFunctionOnSet(old, D) \in Nat
  BY <1>3, <1>4, SumIsNat
<1>9. SumFunctionOnSet(old, R) <= SumFunctionOnSet(old, D)
  <2>1. CASE stage \in D
    <3>1. SumFunctionOnSet(old, D) = old[stage] + SumFunctionOnSet(old, R)
      BY <2>1, <1>3, SumWithout
    <3> QED BY <3>1, <2>1, <1>3, <1>8
  <2>2. CASE stage \notin D
    <3>1. R = D
      BY <2>2
    <3> QED BY <3>1, <1>8
  <2> QED BY <2>1, <2>2
<1>10. more.total_tool_calls >= SumFunctionOnSet(listed, DOMAIN listed)
  BY <1>1, <1>2, <1>3, <1>6, <1>7, <1>8, <1>9
<1>11. more.total_tool_calls \in Nat
  BY <1>1, <1>3
<1>12. MetricsHold(more)
  BY <1>1, <1>2, <1>4, <1>5, <1>10, <1>11 DEF MetricsHold, listed
<1> QED BY <1>12 DEF more

LEMMA MetricsAreCovered == ASSUME NEW m, MetricsHold(m) PROVE MetricsCover(m)
BY DEF MetricsCover, MetricsHold, SumFunction

(* A step that replaces one history by one that adds up.                   *)
LEMMA GrowStep ==
  ASSUME PayloadInv, state # Nothing, NEW history \in Histories, NEW successor,
         Grow(history, successor),
         history = "guardrails" => GuardrailsHold(successor),
         history = "failure_history" => FailuresHold(successor),
         history = "fallback_history" => FallbacksHold(successor),
         history = "metrics" => MetricsHold(successor)
  PROVE  PayloadInv'
<1>1. /\ DOMAIN state' = DOMAIN state
      /\ state'[history] = successor
      /\ \A h \in Histories : h # history => state'[h] = state[h]
  BY DEF Grow, Evolve, PayloadInv, StateHolds, Histories
<1>2. declared' = declared /\ payload' = payload /\ put' = put /\ crashes' = crashes
      /\ appended' = appended + 1 /\ appended < MaxAppends
  BY DEF Grow
<1>3. DOMAIN state = Histories \cup {"version", "healthy_components"}
  BY DEF PayloadInv, StateHolds
<1>4. PayloadTypeOK'
  BY <1>1, <1>2, <1>3, PayloadAssumption DEF PayloadInv, PayloadTypeOK
<1>5. StateHolds(state')
  <2>1. state'.guardrails # Nothing => GuardrailsHold(state'.guardrails)
    BY <1>1 DEF PayloadInv, StateHolds, Histories
  <2>2. state'.failure_history # Nothing => FailuresHold(state'.failure_history)
    BY <1>1 DEF PayloadInv, StateHolds, OthersHold, Histories
  <2>3. state'.fallback_history # Nothing => FallbacksHold(state'.fallback_history)
    BY <1>1 DEF PayloadInv, StateHolds, OthersHold, Histories
  <2>4. state'.metrics # Nothing => MetricsHold(state'.metrics)
    BY <1>1 DEF PayloadInv, StateHolds, OthersHold, Histories
  <2> QED BY <1>1, <1>3, <2>1, <2>2, <2>3, <2>4 DEF StateHolds, OthersHold
<1> QED BY <1>2, <1>4, <1>5 DEF PayloadInv

LEMMA HeldHolds ==
  ASSUME PayloadInv, state # Nothing
  PROVE  /\ GuardrailsHold(Held("guardrails", Guardrails))
         /\ FailuresHold(Held("failure_history", Failures))
         /\ FallbacksHold(Held("fallback_history", Fallbacks))
         /\ MetricsHold(Held("metrics", Metrics))
BY EmptyHolds DEF Held, PayloadInv, StateHolds, OthersHold

LEMMA GuardrailsStep ==
  ASSUME PayloadInv, state # Nothing, GrowGuardrails
  PROVE  PayloadInv'
<1> DEFINE g == Held("guardrails", Guardrails)
<1>1. PICK successor : Grow("guardrails", successor) /\ GuardrailsHold(successor)
  <2>1. GuardrailsHold(g)
    BY HeldHolds
  <2>2. CASE \E t \in FailureTypes : Grow("guardrails", AppendRetry(g, t))
    BY <2>1, <2>2, AppendRetryHolds
  <2>3. CASE \E s \in Stages, closed \in BOOLEAN :
               Grow("guardrails", AppendToolCall(g, s, closed))
    BY <2>1, <2>3, AppendToolCallHolds
  <2>4. CASE \E s \in Stages, status \in {"completed", "timeout"} :
               Grow("guardrails", UpdateStageTiming(g, s, status))
    BY <2>1, <2>4, UpdateStageTimingHolds
  <2> QED BY <2>2, <2>3, <2>4 DEF GrowGuardrails
<1>2. "guardrails" \in Histories
  BY DEF Histories
<1> QED BY <1>1, <1>2, GrowStep

LEMMA HistoriesStep ==
  ASSUME PayloadInv, state # Nothing, GrowHistories
  PROVE  PayloadInv'
<1> USE DEF Histories
<1>1. CASE \E t \in FailureTypes :
             Grow("failure_history", AppendFailure(Held("failure_history", Failures), t))
  BY <1>1, HeldHolds, AppendFailureHolds, GrowStep
<1>2. CASE \E t \in FallbackTypes :
             Grow("fallback_history", AppendFallback(Held("fallback_history", Fallbacks), t))
  BY <1>2, HeldHolds, AppendFallbackHolds, GrowStep
<1>3. CASE \E s \in Stages, calls \in 0..2 :
             Grow("metrics", AddStage(Held("metrics", Metrics), s, calls))
  <2>1. PICK s \in Stages, calls \in 0..2 :
               Grow("metrics", AddStage(Held("metrics", Metrics), s, calls))
    BY <1>3
  <2>2. calls \in Nat
    OBVIOUS
  <2>3. MetricsHold(AddStage(Held("metrics", Metrics), s, calls))
    BY <2>2, HeldHolds, AddStageHolds
  <2> QED BY <2>1, <2>3, GrowStep
<1>4. ASSUME NEW successor,
             Grow("recovery", successor) \/ Grow("timeouts", successor)
      PROVE  PayloadInv'
  BY <1>4, GrowStep
<1> QED BY <1>1, <1>2, <1>3, <1>4 DEF GrowHistories

(* What is written adds up, and so does what is read.                      *)
LEMMA EncodedHolds ==
  ASSUME NEW s, StateHolds(s)
  PROVE  WrittenHolds(Encoded(s))
<1> DEFINE j == Encoded(s)
<1>1. /\ DOMAIN j = Histories \cup {"version"}
      /\ j.guardrails = OrNothing(s.guardrails, SerialiseGuardrails)
      /\ j.failure_history = OrNothing(s.failure_history, SerialiseFailures)
      /\ j.fallback_history = OrNothing(s.fallback_history, SerialiseFallbacks)
      /\ j.metrics = OrNothing(s.metrics, SerialiseMetrics)
  BY DEF Encoded, Histories
<1> HIDE DEF j
<1>2. j.guardrails # Nothing => WrittenGuardrailsHold(j.guardrails)
  <2> SUFFICES ASSUME j.guardrails # Nothing PROVE WrittenGuardrailsHold(j.guardrails)
    OBVIOUS
  <2>1. GuardrailsHold(s.guardrails) /\ j.guardrails = SerialiseGuardrails(s.guardrails)
    BY <1>1 DEF OrNothing, StateHolds
  <2>2. Unversioned(s.guardrails.tool_call_log) \in Seq(Stages)
    BY <2>1, UnversionedIs DEF GuardrailsHold
  <2> QED BY <2>1, <2>2 DEF GuardrailsHold, GuardrailsAddUp, WrittenGuardrailsHold,
                            SerialiseGuardrails, Guardrails
<1>3. j.failure_history # Nothing => FailuresHold(j.failure_history)
  BY <1>1 DEF OrNothing, StateHolds, OthersHold, FailuresHold, SerialiseFailures, Failures
<1>4. j.fallback_history # Nothing => FallbacksHold(j.fallback_history)
  BY <1>1 DEF OrNothing, StateHolds, OthersHold, FallbacksHold, FallbacksAddUp,
              SerialiseFallbacks, Fallbacks
<1>5. j.metrics # Nothing => MetricsHold(j.metrics)
  BY <1>1 DEF OrNothing, StateHolds, OthersHold, MetricsHold, SerialiseMetrics, Metrics
<1>6. WrittenHolds(j)
  BY <1>1, <1>2, <1>3, <1>4, <1>5 DEF WrittenHolds, OthersHold
<1> QED BY <1>6 DEF j

LEMMA DecodedHolds ==
  ASSUME NEW j, WrittenHolds(j)
  PROVE  StateHolds(Decoded(j))
<1> DEFINE s == Decoded(j)
<1>1. /\ DOMAIN s = Histories \cup {"version", "healthy_components"}
      /\ s.guardrails = OrNothing(j.guardrails, DeserialiseGuardrails)
      /\ s.failure_history = OrNothing(j.failure_history, DeserialiseFailures)
      /\ s.fallback_history = OrNothing(j.fallback_history, DeserialiseFallbacks)
      /\ s.metrics = OrNothing(j.metrics, DeserialiseMetrics)
  BY DEF Decoded, Histories
<1> HIDE DEF s
<1>2. s.guardrails # Nothing => GuardrailsHold(s.guardrails)
  <2> SUFFICES ASSUME s.guardrails # Nothing PROVE GuardrailsHold(s.guardrails)
    OBVIOUS
  <2> DEFINE written == j.guardrails
             g == s.guardrails
  <2>1. WrittenGuardrailsHold(written) /\ g = DeserialiseGuardrails(written)
    BY <1>1 DEF OrNothing, WrittenHolds
  <2>2. /\ DOMAIN g = DOMAIN Guardrails
        /\ g.retry_log = written.retry_log
        /\ g.total_llm_retry_attempts = written.total_llm_retry_attempts
        /\ g.tool_calls_per_stage = written.tool_calls_per_stage
        /\ g.tool_call_log = [i \in DOMAIN written.tool_call_log |->
                               [stage |-> written.tool_call_log[i], version |-> 0]]
    BY <2>1 DEF DeserialiseGuardrails, Guardrails
  <2> HIDE DEF written, g
  <2>3. written.tool_call_log \in Seq(Stages)
    BY <2>1 DEF WrittenGuardrailsHold
  <2>4. g.tool_call_log \in Seq([stage: Stages, version: {0, 1}])
    <3>1. \A i \in 1..Len(written.tool_call_log) :
            [stage |-> written.tool_call_log[i], version |-> 0]
              \in [stage: Stages, version: {0, 1}]
      BY <2>3
    <3> DEFINE ToolCalls == [stage: Stages, version: {0, 1}]
               Read(i) == [stage |-> written.tool_call_log[i], version |-> 0]
    <3>2. \A i \in 1..Len(written.tool_call_log) : Read(i) \in ToolCalls
      BY <3>1
    <3>3. g.tool_call_log = [i \in 1..Len(written.tool_call_log) |-> Read(i)]
      BY <2>2, <2>3
    <3>4. Len(written.tool_call_log) \in Nat
      BY <2>3
    <3> HIDE DEF ToolCalls, Read
    <3>5. g.tool_call_log \in Seq(ToolCalls)
      BY <3>2, <3>3, <3>4
    <3> QED BY <3>5 DEF ToolCalls
  <2>5. /\ DOMAIN Unversioned(g.tool_call_log) = DOMAIN written.tool_call_log
        /\ \A i \in DOMAIN written.tool_call_log :
             Unversioned(g.tool_call_log)[i] = written.tool_call_log[i]
    BY <2>2 DEF Unversioned
  <2>6. SumsUp(written.tool_calls_per_stage, written.tool_call_log)
    BY <2>1 DEF WrittenGuardrailsHold
  <2>7. SumsUp(g.tool_calls_per_stage, Unversioned(g.tool_call_log))
    <3> DEFINE u == Unversioned(g.tool_call_log)
               log == written.tool_call_log
    <3>1. DOMAIN u = DOMAIN log /\ \A i \in DOMAIN log : u[i] = log[i]
      BY <2>5
    <3> HIDE DEF u, log
    <3>2. ASSUME NEW k PROVE Occurrences(u, k) = Occurrences(log, k)
      <4>1. {i \in DOMAIN u : u[i] = k} = {i \in DOMAIN log : log[i] = k}
        BY <3>1
      <4> QED BY <4>1 DEF Occurrences
    <3>3. SumsUp(g.tool_calls_per_stage, log)
      BY <2>2, <2>6 DEF log
    <3>4. SumsUp(g.tool_calls_per_stage, u)
      BY <3>1, <3>2, <3>3 DEF SumsUp
    <3> QED BY <3>4 DEF u
  <2>8. GuardrailsHold(g)
    BY <2>1, <2>2, <2>4, <2>7 DEF GuardrailsHold, GuardrailsAddUp, WrittenGuardrailsHold
  <2> QED BY <2>8 DEF g
<1>3. s.failure_history # Nothing => FailuresHold(s.failure_history)
  BY <1>1 DEF OrNothing, WrittenHolds, OthersHold, FailuresHold, DeserialiseFailures,
              Failures
<1>4. s.fallback_history # Nothing => FallbacksHold(s.fallback_history)
  BY <1>1 DEF OrNothing, WrittenHolds, OthersHold, FallbacksHold, FallbacksAddUp,
              DeserialiseFallbacks, Fallbacks
<1>5. s.metrics # Nothing => MetricsHold(s.metrics)
  BY <1>1 DEF OrNothing, WrittenHolds, OthersHold, MetricsHold, DeserialiseMetrics,
              Metrics
<1>6. StateHolds(s)
  BY <1>1, <1>2, <1>3, <1>4, <1>5 DEF StateHolds, OthersHold
<1> QED BY <1>6 DEF s

LEMMA AputStep == ASSUME PayloadInv, Aput PROVE PayloadInv'
<1> DEFINE hydrated == Deserialise(Encoded(state))
<1>1. /\ payload' = Serialise(hydrated) /\ put' = TRUE
      /\ declared' = declared /\ state' = state
      /\ appended' = appended /\ crashes' = crashes
  BY DEF Aput
<1>2. StateHolds(state)
  BY DEF Aput, PayloadInv
<1>3. hydrated # Nothing => StateHolds(hydrated)
  BY <1>2, EncodedHolds, DecodedHolds DEF Deserialise
<1>4. payload' # Nothing => WrittenHolds(payload')
  <2> HIDE DEF hydrated
  <2> QED BY <1>1, <1>3, EncodedHolds DEF Serialise
<1>5. PayloadTypeOK'
  BY <1>1, <1>4 DEF PayloadInv, PayloadTypeOK, WrittenHolds
<1> QED BY <1>1, <1>4, <1>5 DEF PayloadInv

LEMMA ResumeStep == ASSUME PayloadInv, Resume PROVE PayloadInv'
<1> DEFINE hydrated == Deserialise(payload)
<1>1. /\ hydrated # Nothing
      /\ state' = IF hydrated.timeouts = Nothing THEN Evolve(hydrated)
                  ELSE [Evolve(Evolve(hydrated)) EXCEPT !.timeouts = ResumeHitl(@)]
      /\ declared' = declared /\ payload' = payload /\ put' = put
      /\ appended' = appended /\ crashes' = crashes
  BY DEF Resume
<1>2. StateHolds(hydrated)
  BY <1>1, DecodedHolds DEF Deserialise, PayloadInv
<1> HIDE DEF hydrated
<1>3. /\ DOMAIN state' = DOMAIN hydrated
      /\ state'.guardrails = hydrated.guardrails
      /\ state'.failure_history = hydrated.failure_history
      /\ state'.fallback_history = hydrated.fallback_history
      /\ state'.metrics = hydrated.metrics
  BY <1>1, <1>2 DEF Evolve, StateHolds, Histories
<1>4. StateHolds(state')
  BY <1>2, <1>3 DEF StateHolds, OthersHold
<1>5. PayloadTypeOK'
  BY <1>1, <1>4 DEF PayloadInv, PayloadTypeOK, StateHolds
<1> QED BY <1>1, <1>4, <1>5 DEF PayloadInv

LEMMA PayloadInvInit == PayloadInit => PayloadInv
<1> SUFFICES ASSUME PayloadInit PROVE PayloadInv
  OBVIOUS
<1>1. PICK healthy \in BOOLEAN :
        state = [version |-> 0, healthy_components |-> healthy,
                 guardrails |-> Nothing, failure_history |-> Nothing,
                 fallback_history |-> Nothing, metrics |-> Nothing,
                 timeouts |-> Nothing, recovery |-> Nothing]
  BY DEF PayloadInit
<1>2. StateHolds(state)
  BY <1>1 DEF StateHolds, OthersHold, Histories
<1>3. /\ declared \in Declarations /\ payload = Nothing /\ put \in BOOLEAN
      /\ appended = 0 /\ crashes = 0
  BY DEF PayloadInit
<1>4. PayloadTypeOK
  BY <1>2, <1>3, PayloadAssumption DEF PayloadTypeOK, StateHolds
<1> QED BY <1>2, <1>3, <1>4 DEF PayloadInv

LEMMA PayloadInvStep == PayloadInv /\ [PayloadNext]_payloadVars => PayloadInv'
<1> SUFFICES ASSUME PayloadInv, [PayloadNext]_payloadVars PROVE PayloadInv'
  OBVIOUS
<1>1. CASE Crash
  <2>1. crashes' \in 0..MaxCrashes
    BY <1>1, PayloadAssumption DEF Crash, PayloadInv, PayloadTypeOK
  <2> QED BY <1>1, <2>1 DEF Crash, PayloadInv, PayloadTypeOK
<1>2. CASE UNCHANGED payloadVars
  BY <1>2 DEF payloadVars, PayloadInv, PayloadTypeOK
<1> QED
  BY <1>1, <1>2, GuardrailsStep, HistoriesStep, AputStep, ResumeStep DEF PayloadNext

LEMMA PayloadInvariant == PayloadSpec => []PayloadInv
BY PayloadInvInit, PayloadInvStep, PTL DEF PayloadSpec

(* What the worker holds and what the row holds have their fields, and a   *)
(* row without a checkpoint has no payload (InvestigationState, aput).     *)
THEOREM PayloadTypeCorrect == PayloadSpec => []PayloadTypeOK
<1>1. PayloadInv => PayloadTypeOK
  BY DEF PayloadInv
<1> QED BY <1>1, PayloadInvariant, PTL

(* CountersMatchLogs: however often an investigation has been put, lost    *)
(* and resumed, the counters kept next to the logs agree with them, for    *)
(* any number of records, stages and failure types (append_retry,          *)
(* append_tool_call, append, add_stage and their serializers).             *)
THEOREM CountersMatchLogsHolds == PayloadSpec => []CountersMatchLogs
<1>1. PayloadInv => CountersMatchLogs
  BY MetricsAreCovered DEF PayloadInv, StateHolds, OthersHold, GuardrailsHold,
     FailuresHold, FallbacksHold, CountersMatchLogs
<1> QED BY <1>1, PayloadInvariant, PTL

-----------------------------------------------------------------------------
(* The instance that the run checks: whichever component it exercises      *)
(* takes its own steps and has its own invariant.                          *)
AnalysisInv ==
  /\ exercised = "clusters" => ClustersInv
  /\ exercised = "matching" => MatchingTypeInv
  /\ exercised = "scoring" => ScoringInv
  /\ exercised = "payload" => PayloadInv

LEMMA AnalysisInvInit == AnalysisInit => AnalysisInv
<1> SUFFICES ASSUME AnalysisInit PROVE AnalysisInv
  OBVIOUS
<1>1. CASE exercised = "clusters"
  BY <1>1, ClustersInvInit DEF AnalysisInit, AnalysisPartsInit, AnalysisInv
<1>2. CASE exercised = "matching"
  BY <1>2, MatchingTypeInit DEF AnalysisInit, AnalysisPartsInit, AnalysisInv
<1>3. CASE exercised = "scoring"
  BY <1>3, ScoringInvInit DEF AnalysisInit, AnalysisPartsInit, AnalysisInv
<1>4. CASE exercised = "payload"
  BY <1>4, PayloadInvInit DEF AnalysisInit, AnalysisPartsInit, AnalysisInv
<1> QED BY <1>1, <1>2, <1>3, <1>4 DEF AnalysisInit

LEMMA AnalysisInvStep == AnalysisInv /\ [AnalysisNext]_analysisVars => AnalysisInv'
<1> SUFFICES ASSUME AnalysisInv, [AnalysisNext]_analysisVars PROVE AnalysisInv'
  OBVIOUS
<1>1. /\ exercised' = exercised
      /\ exercised = "clusters" => [ClustersNext]_clustersVars
      /\ exercised = "matching" => [MatchingNext]_matchingVars
      /\ exercised = "scoring" => [ScoringNext]_scoringVars
      /\ exercised = "payload" => [PayloadNext]_payloadVars
  BY DEF AnalysisNext, Exercising, analysisVars
<1> QED
  BY <1>1, ClustersStep, MatchingTypeStep, ScoringInvStep, PayloadInvStep
  DEF AnalysisInv

(* AnalysisTypeOK: whichever of the four is exercised, its state is well   *)
(* typed.                                                                  *)
THEOREM AnalysisTypes == AnalysisSpec => []AnalysisTypeOK
<1>1. AnalysisInv => AnalysisTypeOK
  BY DEF AnalysisInv, AnalysisTypeOK, ClustersInv, MatchingTypeInv, ScoringInv, PayloadInv
<1> QED BY <1>1, AnalysisInvInit, AnalysisInvStep, PTL DEF AnalysisSpec
=============================================================================
