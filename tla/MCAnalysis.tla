----------------------------- MODULE MCAnalysis -----------------------------
(* Instances of ComponentClusters, PlaybookMatching, EvidenceScoring and   *)
(* StatePayload for TLC.  The four share no state: a behaviour exercises   *)
(* one of them.                                                            *)
EXTENDS ComponentClusters, PlaybookMatching, EvidenceScoring, StatePayload

CONSTANTS c1, c2, c3, c4, c5

VARIABLE exercised

Order == <<c1, c2, c3, c4, c5>>

(* Calls count in both directions, so one of each pair is enough.          *)
MCCalls ==
  {<<Order[p[1]], Order[p[2]]>> : p \in {q \in (1..5) \X (1..5) : q[1] < q[2]}}

(* The matcher only counts hosts: one map for each choice of how many show *)
(* jvm alone, both categories, cpu alone, or neither.                      *)
MCKpiMaps ==
  {[h \in 1..n[4] |-> IF h <= n[1] THEN {"jvm"} ELSE IF h <= n[2] THEN {"cpu", "jvm"}
                      ELSE IF h <= n[3] THEN {"cpu"} ELSE {}] :
     n \in {m \in [1..4 -> 0..5] : \A i \in 1..3 : m[i] <= m[i+1]}}

MCRegistry ==
  {[id |-> "high_cpu", tier |-> "easy", categories |-> {"cpu"}, rules |-> {"r1", "r2"}],
   [id |-> "jvm_gc", tier |-> "hard", categories |-> {"jvm"}, rules |-> {"r2", "r3"}]}

MCRanked == {1..n : n \in {1, 2, 3, 4, 6}}

(* Hypothesis 7 is not ranked.                                             *)
MCFindings ==
  [of: {1}, source: {"metric"}, claim: {"strongly_supports", "neutral"},
   shows: {"normal", "anomalous"}]
    \cup [of: {2}, source: {"metric"}, claim: {"strongly_supports"}, shows: {"normal"}]
    \cup [of: {2}, source: {"log"}, claim: {"neutral", "weakly_contradicts"},
          shows: {"anomalous"}]
    \cup [of: {7}, source: {"log"}, claim: {"neutral"}, shows: {"anomalous"}]

AnalysisTypeOK ==
  /\ exercised = "clusters" => ClustersTypeOK
  /\ exercised = "matching" => MatchingTypeOK
  /\ exercised = "scoring" => ScoringTypeOK
  /\ exercised = "payload" => PayloadTypeOK

analysisVars == <<exercised, clustersVars, matchingVars, scoringVars, payloadVars>>

ClustersRest == empty = TRUE /\ topology = {} /\ affected = {} /\ report = Unanswered

ScoringRests ==
  /\ hypotheses = {1} /\ items = {} /\ critic_verdicts = <<>>
  /\ judged = "active" /\ outcome = "unscored"

PayloadRests ==
  /\ declared = FALSE /\ state = Nothing /\ payload = Nothing
  /\ put = FALSE /\ appended = 0 /\ crashes = 0

(* Of the parts that are not exercised there is one first state.           *)
AnalysisPartsInit ==
  /\ IF exercised = "clusters" THEN ClustersInit ELSE ClustersRest
  /\ MatchingInit
  /\ IF exercised = "scoring" THEN ScoringInit ELSE ScoringRests
  /\ IF exercised = "payload" THEN PayloadInit ELSE PayloadRests

AnalysisInit ==
  exercised \in {"clusters", "matching", "scoring", "payload"} /\ AnalysisPartsInit

Exercising(part) == exercised = part /\ UNCHANGED exercised

AnalysisNext ==
  \/ /\ Exercising("clusters") /\ ClustersNext
     /\ UNCHANGED <<matchingVars, scoringVars, payloadVars>>
  \/ /\ Exercising("matching") /\ MatchingNext
     /\ UNCHANGED <<clustersVars, scoringVars, payloadVars>>
  \/ /\ Exercising("scoring") /\ ScoringNext
     /\ UNCHANGED <<clustersVars, matchingVars, payloadVars>>
  \/ /\ Exercising("payload") /\ PayloadNext
     /\ UNCHANGED <<clustersVars, matchingVars, scoringVars>>

AnalysisSpec == AnalysisInit /\ [][AnalysisNext]_analysisVars
=============================================================================
