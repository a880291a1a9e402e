-------------------------- MODULE ComponentClusters --------------------------
(***************************************************************************)
(* RunConnectedComponentAnalysisTool: the components in which triage has   *)
(* found anomalies are grouped into clusters that lie close together in    *)
(* the topology.  The largest cluster is investigated; the others are      *)
(* reported as concurrent incidents.                                       *)
(***************************************************************************)
EXTENDS Naturals, FiniteSets

CONSTANTS
  Components,   \* cmdb_ids
  Calls,        \* the calls between components that a topology may have
  MaxEdges,     \* bound: how many of them it has
  MaxDegrees    \* max_degrees_of_separation (2)

ASSUME ClustersAssumption ==
  /\ IsFiniteSet(Components)
  /\ Calls \subseteq Components \X Components
  /\ MaxEdges \in Nat /\ MaxDegrees \in Nat

VARIABLES
  empty,      \* whether ctx.topology_graph is missing or names no component
  topology,   \* ctx.topology_graph, as a set of calls
  affected,   \* affected_components
  report      \* what the tool has answered

clustersVars == <<empty, topology, affected, report>>

Unanswered == [primary |-> {}, concurrent |-> {}, boundary |-> {}]

ClustersTypeOK ==
  /\ empty \in BOOLEAN /\ (empty => topology = {})
  /\ topology \subseteq Calls
  /\ affected \subseteq Components
  /\ report.primary \subseteq Components
  /\ report.concurrent \subseteq SUBSET Components
  /\ report.boundary \subseteq Components

-----------------------------------------------------------------------------
(* Calls count in both directions.                                         *)
Neighbours(c) == {d \in Components : <<c, d>> \in topology \/ <<d, c>> \in topology}

(* A component without a call is in no adjacency list.                     *)
Ghosts == {c \in affected : Neighbours(c) = {}}

Located == affected \ Ghosts

BoundaryAmbiguous == {c \in Located : Neighbours(c) \ affected # {}}

Nearby(part) == part \cup UNION {Neighbours(d) : d \in part}

(* The breadth-first search from a component, degree by degree.            *)
Reached(c) ==
  LET reached[degrees \in 0..MaxDegrees] ==
        IF degrees = 0 THEN {c} ELSE Nearby(reached[degrees - 1])
  IN  reached[MaxDegrees]

(* Mutant: the search stops at components that are not affected.           *)
AdjacentByAffected(c) ==
  LET reached[degrees \in 0..MaxDegrees] ==
        IF degrees = 0 THEN {c}
        ELSE reached[degrees - 1] \cup Nearby(reached[degrees - 1] \cap affected)
  IN  (reached[MaxDegrees] \cap affected) \ {c}

(* affected_adj, which the searches fill from both ends.                   *)
Adjacent(c) == (Reached(c) \cap affected) \ {c}

(* The second search: what hangs together with the given components.       *)
Wider(cluster) == cluster \cup UNION {Adjacent(c) : c \in cluster}

Grown(cluster) ==
  LET grown[part \in SUBSET Components] ==
        IF Wider(part) = part THEN part ELSE grown[Wider(part)]
  IN  grown[cluster]

Clusters == {Grown({c}) : c \in Located} \cup {{c} : c \in Ghosts}

(* The clusters are sorted by size only: which of the largest comes first  *)
(* depends on the order in which Python walks a set.                       *)
Largest == {k \in Clusters : \A other \in Clusters : Cardinality(other) <= Cardinality(k)}

(* Without a topology all affected components are taken for one cluster;   *)
(* one that names components but no calls has each of them alone.          *)
RunConnectedComponentAnalysis ==
  /\ report = Unanswered
  /\ affected # {}
  /\ IF empty
       THEN report' = [Unanswered EXCEPT !.primary = affected]
       ELSE \E k \in Largest :
              report' = [primary |-> k, concurrent |-> Clusters \ {k},
                         boundary |-> BoundaryAmbiguous]
  /\ UNCHANGED <<empty, topology, affected>>

ClustersInit ==
  /\ topology \in {t \in SUBSET Calls : Cardinality(t) <= MaxEdges}
  /\ empty \in BOOLEAN /\ (empty => topology = {})
  /\ affected \in SUBSET Components
  /\ report = Unanswered

ClustersNext == RunConnectedComponentAnalysis

ClustersSpec == ClustersInit /\ [][ClustersNext]_clustersVars

-----------------------------------------------------------------------------
(* A walk of at most MaxDegrees calls leads from c to d.                   *)
Close(c, d) ==
  \E degrees \in 0..MaxDegrees : \E walk \in [0..degrees -> Components] :
    /\ walk[0] = c /\ walk[degrees] = d
    /\ \A i \in 1..degrees :
         <<walk[i-1], walk[i]>> \in topology \/ <<walk[i], walk[i-1]>> \in topology

(* The clusters are the finest partition of the affected components that   *)
(* keeps close ones together: each component is in exactly one cluster, no *)
(* two clusters hold components close to each other, and no cluster can be *)
(* divided without separating two that are.  None is larger than the       *)
(* primary one.  (Components that are not affected lie in between without  *)
(* belonging to a cluster; components without calls are alone.)            *)
Incidents == {report.primary} \cup report.concurrent

ClustersAreIncidents ==
  (report # Unanswered /\ ~empty) =>
    /\ UNION Incidents = affected
    /\ \A k, l \in Incidents : k # l => \A c \in k, d \in l : c # d /\ ~Close(c, d)
    /\ \A k \in Incidents : \A part \in (SUBSET k) \ {{}, k} :
         \E c \in part, d \in k \ part : Close(c, d)
    /\ \A k \in Incidents : Cardinality(k) <= Cardinality(report.primary)
=============================================================================
