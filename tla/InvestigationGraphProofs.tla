---------------------- MODULE InvestigationGraphProofs ----------------------
(* What InvestigationGraph guarantees for every set of evidence, every     *)
(* threshold and every allowance of supersteps.                            *)
EXTENDS InvestigationGraph, FiniteSetTheorems, TLAPS

(* Every leaf about a step needs the frame: what Goto and the groups of    *)
(* keys stand for.                                                         *)

-----------------------------------------------------------------------------
(* A run that is running has supersteps left.                              *)
HasSteps == phase = "running" => steps < RecursionLimit

TInv == TypeOK /\ HasSteps

LEMMA InitTypes == Init => TInv
<1> SUFFICES ASSUME Init PROVE TInv
  OBVIOUS
<1>1. steps \in 0..RecursionLimit /\ HasSteps
  BY GraphAssumption DEF Init, HasSteps
<1>2. evidence \in Reports /\ evidence.mismatched \subseteq evidence.items
  BY DEF Init, NoEvidence, Reports
<1>3. dedup \in {"unset"} \cup Decisions /\ kept \in BOOLEAN
  BY GraphAssumption DEF Init
<1> QED
  BY <1>1, <1>2, <1>3 DEF Init, TInv, TypeOK, Nodes, AgentStates

(* Where a node leads, the keys it leaves alone keep their types.          *)
LEMMA GotoTypes ==
  ASSUME TInv, phase = "running",
         NEW n \in Nodes \cup {"END"}, Goto(n)
  PROVE  /\ next' \in Nodes \cup {"END"}
         /\ phase' \in {"running", "paused", "ended", "failed", "recursion_error"}
         /\ steps' \in 0..RecursionLimit
         /\ phase' = "paused" => next' \in InterruptBefore
         /\ phase' = "ended" <=> next' = "END"
         /\ HasSteps'
  BY GraphAssumption DEF TInv, TypeOK, HasSteps, Goto, InterruptBefore, HitlNodes

LEMMA StepTypes == TInv /\ [Next]_vars => TInv'
<1> SUFFICES ASSUME TInv, [Next]_vars PROVE TInv'
  OBVIOUS
<1> USE DEF triageKeys, rcaKeys, scoringKeys, dedupKeys
<1>1. CASE Deduplication
  <2> DEFINE n == IF dedup' = "DUPLICATE" THEN "duplicate_halt"
                  ELSE IF dedup' = "SUBSET" /\ stage0 THEN "triage"
                  ELSE "context_assembly"
  <2>1. n \in Nodes \cup {"END"} /\ Goto(n) /\ phase = "running"
    BY <1>1 DEF Deduplication, Nodes, Running
  <2>2. dedup' \in {"unset"} \cup Decisions
    BY <1>1 DEF Deduplication, TInv, TypeOK, Decisions
  <2> HIDE DEF n
  <2> QED BY <1>1, <2>1, <2>2, GotoTypes DEF Deduplication, TInv, TypeOK
<1>2. ASSUME NEW from \in Nodes, NEW to \in Nodes, Prepare(from, to)
      PROVE  TInv'
  BY <1>2, GotoTypes DEF Prepare, Running, TInv, TypeOK
<1>3. CASE SaveStage0Artifacts
  <2>1. "deterministic_matcher" \in Nodes
    BY DEF Nodes
  <2> QED BY <1>3, <2>1, GotoTypes DEF SaveStage0Artifacts, Running, TInv, TypeOK
<1>4. CASE SemanticEvaluator
  BY <1>2, <1>4 DEF SemanticEvaluator, Nodes
<1>5. RouteAfterTriage \in Nodes
  BY DEF RouteAfterTriage, Nodes
<1>6. CASE TriageReports
  BY <1>5, <1>6, GotoTypes DEF TriageReports, Running, TInv, TypeOK
<1>7. CASE TriageLoopBreak
  BY <1>5, <1>7, GotoTypes DEF TriageLoopBreak, Running, TInv, TypeOK, AgentStates
<1>8. ConfidenceGate \in Nodes
  BY DEF ConfidenceGate, Nodes
<1>9. CASE RcaReports
  <2>1. evidence' \in Reports /\ evidence'.mismatched \subseteq evidence'.items
        /\ questions' \in BOOLEAN
    BY <1>9 DEF RcaReports, Submitted, TInv, TypeOK
  <2> QED BY <1>8, <1>9, <2>1, GotoTypes DEF RcaReports, Running, TInv, TypeOK
<1>10. ASSUME NEW s \in {"AMBIGUOUS", "active"}, RcaForcedExit(s)
       PROVE  TInv'
  <2>1. evidence' \in Reports /\ evidence'.mismatched \subseteq evidence'.items
        /\ questions' \in BOOLEAN
    BY <1>10 DEF RcaForcedExit, Submitted, NoEvidence, Reports, TInv, TypeOK
  <2>2. state' \in AgentStates
    BY <1>10 DEF RcaForcedExit, AgentStates
  <2> QED BY <1>8, <1>10, <2>1, <2>2, GotoTypes DEF RcaForcedExit, Running, TInv, TypeOK
<1>11. CASE RcaSilent
  BY <1>8, <1>11, GotoTypes DEF RcaSilent, Running, TInv, TypeOK
<1>12. CASE DeterministicScoring
  <2>1. review' \subseteq Evidence
    BY <1>12 DEF DeterministicScoring, Unreviewed, Reports, TInv, TypeOK
  <2>2. RouteAfterScoring \in Nodes /\ "critic" \in Nodes
    BY DEF RouteAfterScoring, Nodes
  <2>3. Judged(state) \subseteq AgentStates \cup {"complete"}
    BY DEF Judged, TInv, TypeOK, AgentStates
  <2> QED BY <1>12, <2>1, <2>2, <2>3, GotoTypes
        DEF DeterministicScoring, Running, TInv, TypeOK
<1>13. CASE Critic
  <2>1. "deterministic_scoring" \in Nodes
    BY DEF Nodes
  <2> QED BY <1>13, <2>1, GotoTypes DEF Critic, Running, TInv, TypeOK
<1>14. CASE CriticReminds
  BY <1>14 DEF CriticReminds, TInv, TypeOK, HasSteps
<1>15. CASE AmbiguityNode
  <2>1. RouteAfterAmbiguity \in Nodes
    BY DEF RouteAfterAmbiguity, Nodes
  <2> QED BY <1>15, <2>1, GotoTypes DEF AmbiguityNode, Running, TInv, TypeOK, AgentStates
<1>16. ASSUME NEW n \in HitlNodes, HitlNode(n)
       PROVE  TInv'
  <2>1. "resume_after_hitl" \in Nodes
    BY DEF Nodes
  <2> QED BY <1>16, <2>1, GotoTypes DEF HitlNode, Running, TInv, TypeOK
<1>17. CASE ResumeAfterHitl
  <2>1. RouteAfterHitlResume \in Nodes
    BY DEF RouteAfterHitlResume, Nodes
  <2> QED BY <1>17, <2>1, GotoTypes DEF ResumeAfterHitl, Running, TInv, TypeOK, AgentStates
<1>18. ASSUME NEW n \in Nodes, Close(n)
       PROVE  TInv'
  BY <1>18, GotoTypes DEF Close, Running, TInv, TypeOK
<1>19. ASSUME NEW n \in Nodes, Raise(n)
       PROVE  TInv'
  BY <1>19 DEF Raise, Running, TInv, TypeOK, HasSteps
<1>20. ASSUME NEW a \in HitlAnswers \cup AmbiguityAnswers, Resume(a)
       PROVE  TInv'
  BY <1>20, GraphAssumption DEF Resume, TInv, TypeOK, HasSteps, InterruptBefore
<1>21. CASE UNCHANGED vars
  BY <1>21 DEF vars, TInv, TypeOK, HasSteps
<1> QED
  BY <1>1, <1>2, <1>3, <1>4, <1>6, <1>7, <1>9, <1>10, <1>11, <1>12, <1>13,
     <1>14, <1>15, <1>16, <1>17, <1>18, <1>19, <1>20, <1>21
  DEF Next, Step, Nodes

(* Every reachable state of the graph is well typed; a run that goes on    *)
(* has supersteps left, one that waits does so before an interrupt node    *)
(* (Goto, the superstep of LangGraph).                                     *)
THEOREM GraphTypes == Spec => [](TypeOK /\ HasSteps)
<1>1. TInv => TypeOK /\ HasSteps
  BY DEF TInv
<1> QED
  BY <1>1, InitTypes, StepTypes, PTL DEF Spec

-----------------------------------------------------------------------------
(* A report without a human's word.                                        *)

Grounded ==
  \/ dedup = "DUPLICATE" \/ ~affected \/ resolved
  \/ /\ cause # "none" /\ chain
     /\ Cardinality(evidence.items) >= MinEvidenceDepth
     /\ ManyMismatches => evidence.mismatched \subseteq verdicts

(* The nodes behind which a report may follow, and what holds there while  *)
(* no human has answered.                                                  *)
Closing == {"duplicate_halt", "deterministic_scoring", "critic",
            "report_delivery", "resume_after_hitl", "END"}

AloneInv ==
  /\ Running("duplicate_halt") => dedup = "DUPLICATE"
  /\ (phase = "running" /\ answer = "none") =>
       /\ next \notin InterruptBefore \cup {"resume_after_hitl"}
       /\ next \in {"deterministic_scoring", "critic"} => cause # "none" /\ chain
       /\ next = "report_delivery" => Grounded
  /\ (phase = "ended" /\ answer = "none") => Grounded

LEMMA GotoElsewhere ==
  ASSUME NEW n \in Nodes \ Closing, Goto(n)
  PROVE  AloneInv'
  BY DEF Goto, Closing, AloneInv, Running, InterruptBefore, HitlNodes, Nodes

LEMMA AloneStep == TypeOK /\ AloneInv /\ [Next]_vars => AloneInv'
<1> SUFFICES ASSUME TypeOK, AloneInv, [Next]_vars PROVE AloneInv'
  OBVIOUS
<1> USE DEF triageKeys, rcaKeys, scoringKeys, dedupKeys
<1>1. CASE Deduplication
  <2>1. CASE dedup' = "DUPLICATE"
    BY <1>1, <2>1 DEF Deduplication, Goto, AloneInv, Running, InterruptBefore, HitlNodes
  <2>2. CASE dedup' # "DUPLICATE"
    <3> DEFINE n == IF dedup' = "SUBSET" /\ stage0 THEN "triage" ELSE "context_assembly"
    <3>1. n \in Nodes \ Closing /\ Goto(n)
      BY <1>1, <2>2 DEF Deduplication, Nodes, Closing
    <3> QED BY <3>1, GotoElsewhere
  <2> QED BY <2>1, <2>2
<1>2. ASSUME NEW from, NEW to \in Nodes \ Closing, Prepare(from, to)
      PROVE  AloneInv'
  BY <1>2, GotoElsewhere DEF Prepare
<1>3. CASE SaveStage0Artifacts
  <2>1. "deterministic_matcher" \in Nodes \ Closing
    BY DEF Nodes, Closing
  <2> QED BY <1>3, <2>1, GotoElsewhere DEF SaveStage0Artifacts
<1>4. CASE SemanticEvaluator
  BY <1>2, <1>4 DEF SemanticEvaluator, Nodes, Closing
<1>5. CASE TriageReports \/ TriageLoopBreak
  <2>1. Goto(RouteAfterTriage)
    BY <1>5 DEF TriageReports, TriageLoopBreak
  <2>2. CASE RouteAfterTriage \in {"rca", "hitl_pre_evidence"}
    BY <2>1, <2>2, GotoElsewhere DEF Nodes, Closing
  <2>3. CASE RouteAfterTriage = "report_delivery" /\ (~affected' \/ resolved')
    BY <2>1, <2>3 DEF Goto, AloneInv, Grounded, Running, InterruptBefore, HitlNodes
  <2> QED BY <2>2, <2>3 DEF RouteAfterTriage
<1>6. CASE RcaReports \/ (\E s \in {"AMBIGUOUS", "active"} : RcaForcedExit(s)) \/ RcaSilent
  <2>1. Goto(ConfidenceGate)
    BY <1>6 DEF RcaReports, RcaForcedExit, RcaSilent
  <2>2. CASE ConfidenceGate = "ambiguity_node"
    BY <2>1, <2>2, GotoElsewhere DEF Nodes, Closing
  <2>3. CASE ConfidenceGate = "deterministic_scoring" /\ cause' # "none" /\ chain'
    BY <2>1, <2>3 DEF Goto, AloneInv, Running, InterruptBefore, HitlNodes
  <2> QED BY <2>2, <2>3 DEF ConfidenceGate
<1>7. CASE DeterministicScoring
  <2>1. CASE NeedsCritic
    BY <1>7, <2>1 DEF DeterministicScoring, Goto, AloneInv, Running, InterruptBefore, HitlNodes
  <2>2. CASE ~NeedsCritic /\ RouteAfterScoring # "report_delivery"
    <3>1. RouteAfterScoring \in Nodes \ Closing /\ Goto(RouteAfterScoring)
      BY <1>7, <2>2 DEF DeterministicScoring, RouteAfterScoring, Nodes, Closing
    <3> QED BY <3>1, GotoElsewhere
  <2>3. CASE ~NeedsCritic /\ RouteAfterScoring = "report_delivery"
    <3>1. state' \in Judged(state) /\ state' \notin {"AMBIGUOUS", "INCONCLUSIVE"}
      BY <1>7, <2>3 DEF DeterministicScoring, RouteAfterScoring
    <3>2. Cardinality(evidence.items) \in Nat
      <4>1. IsFiniteSet(evidence.items)
        BY GraphAssumption, FS_Subset DEF TypeOK, Reports
      <4> QED BY <4>1, FS_CardinalityType
    <3>3. Cardinality(evidence.items) >= MinEvidenceDepth
      BY <3>1, <3>2, GraphAssumption DEF Judged
    <3>4. ManyMismatches => evidence.mismatched \subseteq verdicts
      BY <2>3 DEF NeedsCritic, Unreviewed
    <3>5. UNCHANGED <<triageKeys, rcaKeys, verdicts, dedupKeys, answer>>
      BY <1>7 DEF DeterministicScoring
    <3>6. (answer = "none" => cause # "none" /\ chain)
      BY <1>7 DEF DeterministicScoring, AloneInv, Running
    <3>7. answer' = "none" => Grounded'
      BY <3>3, <3>4, <3>5, <3>6 DEF Grounded, ManyMismatches
    <3>8. Goto("report_delivery")
      BY <1>7, <2>3 DEF DeterministicScoring
    <3> QED BY <3>7, <3>8 DEF Goto, AloneInv, Running, InterruptBefore, HitlNodes
  <2> QED BY <2>1, <2>2, <2>3
<1>8. CASE Critic
  BY <1>8 DEF Critic, Goto, AloneInv, Running, InterruptBefore, HitlNodes
<1>9. CASE CriticReminds
  BY <1>9 DEF CriticReminds, AloneInv, Grounded, ManyMismatches, Running
<1>10. CASE AmbiguityNode
  BY <1>10 DEF AmbiguityNode, Goto, AloneInv, Running, InterruptBefore, HitlNodes,
     RouteAfterAmbiguity
<1>11. ASSUME NEW n \in HitlNodes, HitlNode(n)
       PROVE  AloneInv'
  BY <1>11 DEF HitlNode, Goto, AloneInv, Running, InterruptBefore, HitlNodes
<1>12. CASE ResumeAfterHitl
  <2>1. answer # "none" /\ UNCHANGED answer
    BY <1>12 DEF ResumeAfterHitl, AloneInv, Running
  <2>2. next' # "duplicate_halt"
    BY <1>12 DEF ResumeAfterHitl, Goto, RouteAfterHitlResume
  <2> QED BY <2>1, <2>2 DEF AloneInv, Running
<1>13. ASSUME NEW n \in {"report_delivery", "duplicate_halt"}, Close(n)
       PROVE  AloneInv'
  <2>1. answer = "none" => Grounded
    BY <1>13 DEF Close, AloneInv, Grounded, Running
  <2>2. UNCHANGED <<triageKeys, rcaKeys, verdicts, dedupKeys, answer>> /\ Goto("END")
    BY <1>13 DEF Close
  <2>3. answer' = "none" => Grounded'
    BY <2>1, <2>2 DEF Grounded, ManyMismatches
  <2> QED BY <2>2, <2>3 DEF Goto, AloneInv, Running, InterruptBefore, HitlNodes
<1>14. ASSUME NEW n, Raise(n)
       PROVE  AloneInv'
  BY <1>14 DEF Raise, AloneInv, Running
<1>15. ASSUME NEW a \in HitlAnswers \cup AmbiguityAnswers, Resume(a)
       PROVE  AloneInv'
  <2>1. a # "none"
    BY DEF HitlAnswers, AmbiguityAnswers, Restarts
  <2>2. next # "duplicate_halt"
    BY <1>15 DEF Resume, TypeOK, InterruptBefore, HitlNodes
  <2> QED BY <1>15, <2>1, <2>2 DEF Resume, AloneInv, Running
<1>16. CASE UNCHANGED vars
  BY <1>16 DEF vars, AloneInv, Grounded, ManyMismatches, Running
<1> QED
  BY <1>1, <1>2, <1>3, <1>4, <1>5, <1>6, <1>7, <1>8, <1>9, <1>10, <1>11, <1>12,
     <1>13, <1>14, <1>15, <1>16
  DEF Next, Step, Nodes, Closing

(* An investigation that ends with a report and without any human's word   *)
(* has nothing to report on, or has a cause, a causal chain, enough        *)
(* evidence and no unreviewed run of mismatches (confidence_gate,          *)
(* deterministic_scoring_node and RCAConvergenceEvaluator together).       *)
THEOREM UnattendedReports == Spec => []UnattendedIsGrounded
<1>1. Init => AloneInv
  BY DEF Init, AloneInv, Running, InterruptBefore, HitlNodes
<1>2. AloneInv => UnattendedIsGrounded
  BY DEF AloneInv, Grounded, UnattendedIsGrounded
<1> QED
  BY <1>1, <1>2, AloneStep, GraphTypes, PTL DEF Spec

-----------------------------------------------------------------------------
(* Supersteps.  Between two answers the state as declared lets the graph   *)
(* only climb these levels: what a node leads to is above it, or waits for *)
(* the human.  The critic is never called, because no evidence is kept.    *)

Level(n) ==
  IF n = "report_delivery" THEN 10
  ELSE IF n = "deterministic_scoring" THEN 9
  ELSE IF n = "rca" THEN 8
  ELSE IF n = "triage" THEN 7
  ELSE IF n = "verify_playbook" THEN 6
  ELSE IF n = "semantic_evaluator" THEN 5
  ELSE IF n = "deterministic_matcher" THEN 4
  ELSE IF n = "save_stage0_artifacts" THEN 3
  ELSE IF n = "context_assembly" THEN 2
  ELSE IF n \in {"resume_after_hitl", "duplicate_halt"} THEN 1
  ELSE 0

Climbs ==
  ~kept =>
    /\ evidence = NoEvidence
    /\ phase # "recursion_error"
    /\ phase = "running" => next # "critic" /\ steps <= Level(next)

LEMMA ClimbStep ==
  ASSUME RecursionLimit > 10, TypeOK, Climbs,
         NEW m \in Nodes, NEW n, Running(m), Goto(n),
         UNCHANGED kept, ~kept => evidence' = NoEvidence,
         n # "critic" \/ kept,
         n \in InterruptBefore \cup {"END", "critic"} \/ Level(m) < Level(n)
  PROVE  Climbs'
<1> SUFFICES ASSUME ~kept PROVE Climbs'
  BY DEF Climbs
<1>1. steps \in Nat /\ steps <= Level(m)
  BY DEF Climbs, Running, TypeOK
<1>2. CASE n \in InterruptBefore \cup {"END"}
  BY <1>2 DEF Goto, Climbs
<1>3. CASE Level(m) < Level(n) /\ n # "critic" /\ n \notin InterruptBefore \cup {"END"}
  <2>1. Level(n) \in 0..10 /\ Level(m) \in Nat
    BY DEF Level
  <2>2. steps' <= Level(n) /\ steps' # RecursionLimit
    BY <1>1, <1>3, <2>1, GraphAssumption DEF Goto
  <2> QED BY <1>3, <2>2 DEF Goto, Climbs
<1> QED BY <1>2, <1>3

LEMMA ClimbsStep ==
  ASSUME RecursionLimit > 10, TypeOK, Climbs, [Next]_vars
  PROVE  Climbs'
<1> USE DEF triageKeys, rcaKeys, scoringKeys, dedupKeys
<1>1. CASE Deduplication
  <2>1. PICK n \in {"duplicate_halt", "triage", "context_assembly"} : Goto(n)
    BY <1>1 DEF Deduplication
  <2>2. Level("deduplication") = 0 /\ Level(n) > 0
    BY DEF Level
  <2> QED BY <1>1, <2>1, <2>2, ClimbStep DEF Deduplication, Nodes, Climbs
<1>2. ASSUME NEW from \in Nodes, NEW to \in Nodes \ {"critic"},
             Prepare(from, to), Level(from) < Level(to)
      PROVE  Climbs'
  BY <1>2, ClimbStep DEF Prepare, Climbs
<1>3. /\ Level("context_assembly") = 2 /\ Level("save_stage0_artifacts") = 3
      /\ Level("deterministic_matcher") = 4 /\ Level("semantic_evaluator") = 5
      /\ Level("verify_playbook") = 6 /\ Level("triage") = 7 /\ Level("rca") = 8
      /\ Level("deterministic_scoring") = 9 /\ Level("report_delivery") = 10
      /\ Level("ambiguity_node") = 0 /\ Level("resume_after_hitl") = 1
  BY DEF Level
<1>4. CASE SaveStage0Artifacts
  BY <1>3, <1>4, ClimbStep DEF SaveStage0Artifacts, Nodes, Climbs
<1>5. CASE SemanticEvaluator
  BY <1>2, <1>3, <1>5 DEF SemanticEvaluator, Nodes
<1>6. CASE TriageReports \/ TriageLoopBreak
  <2>1. Goto(RouteAfterTriage) /\ Running("triage") /\ UNCHANGED <<evidence, kept>>
    BY <1>6 DEF TriageReports, TriageLoopBreak
  <2>2. RouteAfterTriage \in {"hitl_pre_evidence", "report_delivery", "rca"}
    BY DEF RouteAfterTriage
  <2> QED BY <1>3, <2>1, <2>2, ClimbStep DEF Nodes, InterruptBefore, HitlNodes, Climbs
<1>7. CASE RcaReports \/ (\E s \in {"AMBIGUOUS", "active"} : RcaForcedExit(s)) \/ RcaSilent
  <2>1. Goto(ConfidenceGate) /\ Running("rca") /\ UNCHANGED kept
    BY <1>7 DEF RcaReports, RcaForcedExit, RcaSilent
  <2>2. ~kept => UNCHANGED evidence
    BY <1>7 DEF RcaReports, RcaForcedExit, RcaSilent, Submitted
  <2>3. ConfidenceGate \in {"ambiguity_node", "deterministic_scoring"}
    BY DEF ConfidenceGate
  <2> QED BY <1>3, <2>1, <2>2, <2>3, ClimbStep DEF Nodes, InterruptBefore, HitlNodes, Climbs
<1>8. CASE DeterministicScoring
  <2>1. PICK n \in {"critic", "hitl_ambiguous_evidence", "hitl_inconclusive",
                    "report_delivery"} : Goto(n) /\ (n = "critic" => NeedsCritic)
    BY <1>8 DEF DeterministicScoring, RouteAfterScoring
  <2>2. ~kept => ~NeedsCritic
    BY DEF Climbs, NeedsCritic, Unreviewed, NoEvidence
  <2> QED BY <1>3, <1>8, <2>1, <2>2, ClimbStep
        DEF DeterministicScoring, Nodes, InterruptBefore, HitlNodes, Climbs
<1>9. CASE Critic
  BY <1>9 DEF Critic, Running, Climbs
<1>10. CASE CriticReminds
  BY <1>10 DEF CriticReminds, Climbs
<1>11. CASE AmbiguityNode
  <2>1. PICK n \in {"triage", "deterministic_scoring", "report_delivery"} : Goto(n)
    BY <1>11 DEF AmbiguityNode, RouteAfterAmbiguity
  <2> QED BY <1>3, <1>11, <2>1, ClimbStep DEF AmbiguityNode, Nodes, Climbs
<1>12. ASSUME NEW n \in HitlNodes, HitlNode(n)
       PROVE  Climbs'
  <2>1. Level(n) = 0 /\ n \in Nodes
    BY DEF HitlNodes, Level, Nodes
  <2> QED BY <1>3, <1>12, <2>1, ClimbStep DEF HitlNode, Climbs
<1>13. CASE ResumeAfterHitl
  <2>1. RouteAfterHitlResume \in {"triage", "rca", "context_assembly", "report_delivery"}
    BY Zenon DEF RouteAfterHitlResume
  <2> QED BY <1>3, <1>13, <2>1, ClimbStep DEF ResumeAfterHitl, Nodes, Climbs
<1>14. ASSUME NEW n \in Nodes, Close(n)
       PROVE  Climbs'
  BY <1>14, ClimbStep DEF Close, Climbs
<1>15. ASSUME NEW n, Raise(n)
       PROVE  Climbs'
  BY <1>15 DEF Raise, Climbs
<1>16. ASSUME NEW a, Resume(a)
       PROVE  Climbs'
  <2>1. next # "critic" /\ Level(next) = 0
    BY <1>16 DEF Resume, TypeOK, InterruptBefore, HitlNodes, Level
  <2> QED BY <1>16, <2>1 DEF Resume, Climbs
<1>17. CASE UNCHANGED vars
  BY <1>17 DEF vars, Climbs
<1> QED
  BY <1>1, <1>2, <1>3, <1>4, <1>5, <1>6, <1>7, <1>8, <1>9, <1>10, <1>11, <1>12,
     <1>13, <1>14, <1>15, <1>16, <1>17
  DEF Next, Step, Nodes

(* With more than ten supersteps between two answers (LangGraph grants 25) *)
(* the graph, its state as declared, never uses them up: every cycle of    *)
(* its routing passes a human (build_investigation_graph).                 *)
THEOREM NoRecursionError == RecursionLimit > 10 => (Spec => []SuperstepsSuffice)
<1> SUFFICES ASSUME RecursionLimit > 10 PROVE Spec => []SuperstepsSuffice
  OBVIOUS
<1>1. Init => Climbs
  BY DEF Init, Climbs, Level
<1>2. Climbs => SuperstepsSuffice
  BY DEF Climbs, SuperstepsSuffice
<1>3. TypeOK /\ Climbs /\ [Next]_vars => Climbs'
  BY ClimbsStep
<1> QED
  BY <1>1, <1>2, <1>3, GraphTypes, PTL DEF Spec
=============================================================================
