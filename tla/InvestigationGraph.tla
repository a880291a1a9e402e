------------------------- MODULE InvestigationGraph -------------------------
(***************************************************************************)
(* The investigation graph: its nodes, the routing functions between them, *)
(* the interrupts that hand over to a human and the loop of run-incident   *)
(* that resumes it.  One action runs one node and the routing behind it,   *)
(* which is one superstep of LangGraph (verify_playbook fans out into      *)
(* parallel tasks, but they all join in one superstep).                    *)
(*                                                                         *)
(* Of the state the model keeps the keys that routing and scoring read.    *)
(* Keys that the state's TypedDict does not declare are dropped by         *)
(* LangGraph.  kept = FALSE is the state as it is declared; kept = TRUE    *)
(* describes the nodes as they are written, with evidence_items and        *)
(* unresolved_questions among the declared keys.                           *)
(***************************************************************************)
EXTENDS Naturals, FiniteSets

CONSTANTS
  Runtimes,          \* values of kept: {FALSE} is LangGraph
  Injected,          \* dedup decisions a caller starts with, or "unset"
  Evidence,          \* ids of evidence items
  MinEvidenceDepth,  \* evidence below which every result is AMBIGUOUS (3)
  MismatchPercent,   \* share of mismatches above which the critic is called (15)
  RecursionLimit     \* supersteps LangGraph grants between two answers (25)

Decisions == {"NEW", "DUPLICATE", "SUBSET", "SUPERSET", "PARTIAL_OVERLAP"}

ASSUME GraphAssumption ==
  /\ Runtimes \subseteq BOOLEAN
  /\ Injected \subseteq {"unset"} \cup Decisions
  /\ IsFiniteSet(Evidence)
  /\ MinEvidenceDepth \in Nat \ {0}
  /\ MismatchPercent \in 0..100
  /\ RecursionLimit \in Nat \ {0}

VARIABLES
  next,        \* the node to run next
  phase,       \* "running", "paused", "ended", "failed", "recursion_error"
  steps,       \* supersteps since the last human answer
  dedup,       \* dedup_decision
  stage0,      \* stage0_artifacts_available
  state,       \* investigation_state
  affected,    \* is affected_component_candidates non-empty
  resolved,    \* is incident_state "resolved"
  cause,       \* root_cause_candidate: "none", or who named it
  chain,       \* is causal_chain non-empty
  questions,   \* are there two unresolved_questions or more
  evidence,    \* evidence_items, as [items, mismatched]
  review,      \* current_evidence_items_to_review
  verdicts,    \* evidence items that critic_verdicts covers
  answer,      \* what the human answered last, "none" before
  reminded,    \* parity of the reminders in the critic's conversation
  kept         \* does the state keep the undeclared keys

triageKeys == <<affected, resolved>>
rcaKeys == <<cause, chain, questions, evidence>>
scoringKeys == <<review, verdicts, reminded>>
dedupKeys == <<dedup, stage0>>
vars == <<next, phase, steps, state, triageKeys, rcaKeys, scoringKeys,
          dedupKeys, answer, kept>>

(* What an agent can report; "active" stands for every state that routing  *)
(* does not know by name (active, complete, API_ERROR).                    *)
AgentStates == {"active", "AMBIGUOUS_PRE_EVIDENCE", "AMBIGUOUS", "INCONCLUSIVE"}

Nodes ==
  {"deduplication", "context_assembly", "save_stage0_artifacts",
   "deterministic_matcher", "semantic_evaluator", "verify_playbook",
   "triage", "rca", "ambiguity_node", "deterministic_scoring", "critic",
   "hitl_pre_evidence", "hitl_ambiguous_evidence", "hitl_inconclusive",
   "resume_after_hitl", "report_delivery", "duplicate_halt"}

HitlNodes ==
  {"hitl_pre_evidence", "hitl_ambiguous_evidence", "hitl_inconclusive"}

InterruptBefore == HitlNodes \cup {"ambiguity_node"}

Restarts == {"RESTART_TRIAGE", "RESTART_RCA", "RESTART_CONTEXT"}

(* What a human can give a HITL node; RESTART_EVIDENCE stands for every     *)
(* text the routing does not know.                                         *)
HitlAnswers == Restarts \cup {"FORCE_CLOSE", "RESTART_EVIDENCE"}

AmbiguityAnswers == {"manual_root_cause", "hint", "ignore"}

Reports == [items: SUBSET Evidence, mismatched: SUBSET Evidence]

NoEvidence == [items |-> {}, mismatched |-> {}]

TypeOK ==
  /\ next \in Nodes \cup {"END"}
  /\ phase \in {"running", "paused", "ended", "failed", "recursion_error"}
  /\ steps \in 0..RecursionLimit
  /\ dedup \in {"unset"} \cup Decisions
  /\ state \in AgentStates \cup {"complete"}
  /\ cause \in {"none", "agent", "manual"}
  /\ evidence \in Reports /\ evidence.mismatched \subseteq evidence.items
  /\ review \subseteq Evidence /\ verdicts \subseteq Evidence
  /\ answer \in HitlAnswers \cup AmbiguityAnswers \cup {"none"}
  /\ stage0 \in BOOLEAN /\ affected \in BOOLEAN /\ resolved \in BOOLEAN
  /\ chain \in BOOLEAN /\ questions \in BOOLEAN /\ reminded \in BOOLEAN
  /\ kept \in BOOLEAN
  /\ phase = "paused" => next \in InterruptBefore
  /\ phase = "ended" <=> next = "END"

-----------------------------------------------------------------------------
(* A node has run and n is the one its routing chose: the run goes on,     *)
(* stops before an interrupt node, ends, or has no superstep left.         *)
Goto(n) ==
  /\ next' = n
  /\ steps' = steps + 1
  /\ phase' = IF n = "END" THEN "ended"
              ELSE IF n \in InterruptBefore THEN "paused"
              ELSE IF steps' = RecursionLimit THEN "recursion_error"
              ELSE "running"

Running(n) == phase = "running" /\ next = n

(* An exception leaves the node; run-incident reports a failed             *)
(* investigation and stops.                                                *)
Raise(n) ==
  /\ Running(n)
  /\ phase' = "failed"
  /\ UNCHANGED <<next, steps, state, triageKeys, rcaKeys, scoringKeys,
                 dedupKeys, answer, kept>>

Deduplication ==
  /\ Running("deduplication")
  /\ dedup' = IF dedup = "unset" THEN "NEW" ELSE dedup
  /\ Goto(IF dedup' = "DUPLICATE" THEN "duplicate_halt"
          ELSE IF dedup' = "SUBSET" /\ stage0 THEN "triage"
          ELSE "context_assembly")
  /\ UNCHANGED <<stage0, state, triageKeys, rcaKeys, scoringKeys, answer, kept>>

(* The nodes that only prepare data for triage, in their fixed order.      *)
Prepare(from, to) ==
  /\ Running(from)
  /\ Goto(to)
  /\ UNCHANGED <<state, triageKeys, rcaKeys, scoringKeys, dedupKeys, answer, kept>>

SaveStage0Artifacts ==
  /\ Running("save_stage0_artifacts")
  /\ stage0' = TRUE
  /\ Goto("deterministic_matcher")
  /\ UNCHANGED <<dedup, state, triageKeys, rcaKeys, scoringKeys, answer, kept>>

(* route_to_verifiers: with a candidate above the signal floor, or none.   *)
SemanticEvaluator ==
  \/ Prepare("semantic_evaluator", "verify_playbook")
  \/ Prepare("semantic_evaluator", "triage")

RouteAfterTriage ==
  IF state' = "AMBIGUOUS_PRE_EVIDENCE" THEN "hitl_pre_evidence"
  ELSE IF ~affected' \/ resolved' THEN "report_delivery"
  ELSE "rca"

(* The triage subgraph returns a report, or the forced exit of its loop    *)
(* prevention, which leaves incident_state as it was.                      *)
TriageReports ==
  /\ Running("triage")
  /\ affected' \in BOOLEAN
  /\ resolved' \in BOOLEAN
  /\ state' \in AgentStates
  /\ Goto(RouteAfterTriage)
  /\ UNCHANGED <<rcaKeys, scoringKeys, dedupKeys, answer, kept>>

TriageLoopBreak ==
  /\ Running("triage")
  /\ affected' = FALSE
  /\ state' = "AMBIGUOUS_PRE_EVIDENCE"
  /\ Goto(RouteAfterTriage)
  /\ UNCHANGED <<resolved, rcaKeys, scoringKeys, dedupKeys, answer, kept>>

(* assess_ambiguity and confidence_gate.  The report's confidence never    *)
(* reaches confidence_level, which only a manual cause sets, to HIGH.      *)
ConfidenceGate ==
  IF cause' = "none" \/ questions' \/ ~chain'
    THEN "ambiguity_node" ELSE "deterministic_scoring"

(* Evidence and questions, as far as the state keeps them.                 *)
Submitted(reports, open) ==
  IF kept THEN evidence' \in reports /\ questions' \in open
          ELSE UNCHANGED <<evidence, questions>>

(* The rca subgraph returns a report.  Its arguments are written as they   *)
(* are: what the model leaves out keeps the value of an earlier pass.      *)
RcaReports ==
  /\ Running("rca")
  /\ cause' \in {cause, "none", "agent"}
  /\ chain' \in BOOLEAN
  /\ state' \in AgentStates
  /\ Submitted({e \in Reports : e.mismatched \subseteq e.items}, BOOLEAN)
  /\ Goto(ConfidenceGate)
  /\ UNCHANGED <<triageKeys, scoringKeys, dedupKeys, answer, kept>>

(* Loop prevention or the budget has forced the exit, or the model cannot  *)
(* be reached (API_ERROR).                                                 *)
RcaForcedExit(s) ==
  /\ Running("rca")
  /\ state' = s
  /\ UNCHANGED <<cause, chain>>
  /\ Submitted({NoEvidence}, {questions})
  /\ Goto(ConfidenceGate)
  /\ UNCHANGED <<triageKeys, scoringKeys, dedupKeys, answer, kept>>

(* The loop has met its stopping condition: no hypothesis is left.         *)
RcaSilent ==
  /\ Running("rca")
  /\ UNCHANGED <<rcaKeys, state>>
  /\ Goto(ConfidenceGate)
  /\ UNCHANGED <<triageKeys, scoringKeys, dedupKeys, answer, kept>>

-----------------------------------------------------------------------------
(* Scoring and the critic.                                                 *)

Unreviewed == evidence.mismatched \ verdicts

ManyMismatches ==
  Cardinality(evidence.mismatched) * 100
    > MismatchPercent * Cardinality(evidence.items)

NeedsCritic == ManyMismatches /\ Unreviewed # {}

(* Mutant: the evaluator trusts scores that rest on hardly any evidence.   *)
JudgedByScores(s) ==
  IF s \in {"AMBIGUOUS", "INCONCLUSIVE"} THEN {s} ELSE {s, "AMBIGUOUS"}

(* RCAConvergenceEvaluator.evaluate: the states it may leave.  The         *)
(* evidence log is always empty, so that only the items count; with        *)
(* enough of them the entropy of the scores, not modelled, decides.        *)
Judged(s) ==
  IF s \in {"AMBIGUOUS", "INCONCLUSIVE"} THEN {s}
  ELSE IF Cardinality(evidence.items) < MinEvidenceDepth THEN {"AMBIGUOUS"}
  ELSE {s, "AMBIGUOUS"}

(* Mutant: an inconclusive result is worked on again without the human.    *)
RouteAfterScoringRetry ==
  IF state' = "AMBIGUOUS" THEN "hitl_ambiguous_evidence"
  ELSE IF state' = "INCONCLUSIVE" THEN "rca"
  ELSE "report_delivery"

RouteAfterScoring ==
  IF state' = "AMBIGUOUS" THEN "hitl_ambiguous_evidence"
  ELSE IF state' = "INCONCLUSIVE" THEN "hitl_inconclusive"
  ELSE "report_delivery"

DeterministicScoring ==
  /\ Running("deterministic_scoring")
  /\ review' = Unreviewed
  /\ IF NeedsCritic
       THEN UNCHANGED state /\ Goto("critic")
       ELSE state' \in Judged(state) /\ Goto(RouteAfterScoring)
  /\ UNCHANGED <<triageKeys, rcaKeys, verdicts, reminded, dedupKeys, answer, kept>>

(* The critic submits verdicts for the items it chooses, or calls another  *)
(* tool, which ends the node without verdicts.                             *)
Critic ==
  /\ Running("critic")
  /\ \E reviewed \in SUBSET Evidence : verdicts' = verdicts \cup reviewed
  /\ reminded' = FALSE
  /\ Goto("deterministic_scoring")
  /\ UNCHANGED <<state, triageKeys, rcaKeys, review, dedupKeys, answer, kept>>

(* A reply without a tool call: the node reminds the model and asks again, *)
(* without bound.                                                          *)
CriticReminds ==
  /\ Running("critic")
  /\ reminded' = ~reminded
  /\ UNCHANGED <<next, phase, steps, state, triageKeys, rcaKeys, review,
                 verdicts, dedupKeys, answer, kept>>

-----------------------------------------------------------------------------
(* The human.                                                              *)

(* run-incident reads an answer and starts the graph again, with a new     *)
(* allowance of supersteps.                                                *)
Resume(a) ==
  /\ phase = "paused"
  /\ a \in (IF next = "ambiguity_node" THEN AmbiguityAnswers ELSE HitlAnswers)
  /\ answer' = a
  /\ phase' = "running"
  /\ steps' = 0
  /\ UNCHANGED <<next, state, triageKeys, rcaKeys, scoringKeys, dedupKeys, kept>>

(* Mutant: what is not a manual cause is taken as a hint.                  *)
RouteAfterAmbiguityHint ==
  IF answer = "manual_root_cause" THEN "deterministic_scoring" ELSE "triage"

RouteAfterAmbiguity ==
  IF answer = "hint" THEN "triage"
  ELSE IF answer = "manual_root_cause" THEN "deterministic_scoring"
  ELSE "report_delivery"

AmbiguityNode ==
  /\ Running("ambiguity_node")
  /\ state' = IF answer \in {"manual_root_cause", "hint"} THEN "active" ELSE "complete"
  /\ cause' = IF answer = "manual_root_cause" THEN "manual" ELSE cause
  /\ Goto(RouteAfterAmbiguity)
  /\ UNCHANGED <<triageKeys, chain, questions, evidence, scoringKeys, dedupKeys,
                 answer, kept>>

HitlNode(n) ==
  /\ Running(n)
  /\ Goto("resume_after_hitl")
  /\ UNCHANGED <<state, triageKeys, rcaKeys, scoringKeys, dedupKeys, answer, kept>>

(* Mutant: the action the state declares is passed on as a node name.      *)
RouteAfterHitlByName ==
  CASE answer = "RESTART_TRIAGE" -> "triage"
    [] answer = "RESTART_RCA" -> "rca"
    [] answer = "RESTART_CONTEXT" -> "context_assembly"
    [] answer = "RESTART_EVIDENCE" -> "evidence_collection"
    [] OTHER -> "report_delivery"

RouteAfterHitlResume ==
  CASE answer = "RESTART_TRIAGE" -> "triage"
    [] answer = "RESTART_RCA" -> "rca"
    [] answer = "RESTART_CONTEXT" -> "context_assembly"
    [] OTHER -> "report_delivery"

ResumeAfterHitl ==
  /\ Running("resume_after_hitl")
  /\ state' = "active"
  /\ Goto(RouteAfterHitlResume)
  /\ UNCHANGED <<triageKeys, rcaKeys, scoringKeys, dedupKeys, answer, kept>>

(* report_delivery and duplicate_halt.                                     *)
Close(n) ==
  /\ Running(n)
  /\ state' = "complete"
  /\ Goto("END")
  /\ UNCHANGED <<triageKeys, rcaKeys, scoringKeys, dedupKeys, answer, kept>>

-----------------------------------------------------------------------------
Init ==
  /\ next = "deduplication" /\ phase = "running" /\ steps = 0
  /\ dedup \in Injected
  /\ stage0 \in BOOLEAN
  /\ state = "active"
  /\ affected = FALSE /\ resolved = FALSE
  /\ cause = "none" /\ chain = FALSE /\ questions = FALSE
  /\ evidence = NoEvidence /\ review = {} /\ verdicts = {} /\ reminded = FALSE
  /\ answer = "none"
  /\ kept \in Runtimes

(* The graph's own steps, between two answers.                             *)
Step ==
  \/ Deduplication
  \/ Prepare("context_assembly", "save_stage0_artifacts")
  \/ SaveStage0Artifacts
  \/ Prepare("deterministic_matcher", "semantic_evaluator")
  \/ SemanticEvaluator
  \/ Prepare("verify_playbook", "triage")
  \/ TriageReports
  \/ TriageLoopBreak
  \/ RcaReports
  \/ \E s \in {"AMBIGUOUS", "active"} : RcaForcedExit(s)
  \/ RcaSilent
  \/ DeterministicScoring
  \/ Critic
  \/ CriticReminds
  \/ AmbiguityNode
  \/ \E n \in HitlNodes : HitlNode(n)
  \/ ResumeAfterHitl
  \/ \E n \in {"report_delivery", "duplicate_halt"} : Close(n)
  \/ \E n \in {"context_assembly", "triage", "rca", "critic"} : Raise(n)

Next == Step \/ \E a \in HitlAnswers \cup AmbiguityAnswers : Resume(a)

Spec == Init /\ [][Next]_vars

(* LangGraph runs the next node as long as there is one; nobody makes the  *)
(* human answer.                                                           *)
FairSpec == Spec /\ WF_vars(Step)

-----------------------------------------------------------------------------
(* An investigation that delivers a report without any human's word has    *)
(* found nothing to report on, or has a cause, a causal chain, enough      *)
(* evidence and no unreviewed run of mismatches (confidence_gate, scoring  *)
(* and critic together).  As the state is declared it has no evidence, so  *)
(* only the first is possible.                                             *)
UnattendedIsGrounded ==
  (phase = "ended" /\ answer = "none") =>
    \/ dedup = "DUPLICATE" \/ ~affected \/ resolved
    \/ /\ cause # "none" /\ chain
       /\ Cardinality(evidence.items) >= MinEvidenceDepth
       /\ ManyMismatches => evidence.mismatched \subseteq verdicts

(* As the state is declared, the graph itself never uses up its supersteps *)
(* between two answers: every cycle of its routing passes a human.         *)
SuperstepsSuffice == ~kept => phase # "recursion_error"

(* An investigation stays open for ever only while it waits for a human,   *)
(* the human goes on giving hints and restarts, or the critic's model      *)
(* never calls a tool.                                                     *)
KeepsOpen == Restarts \cup {"hint"}

ClosesUnlessKeptOpen ==
  <>[](answer \notin KeepsOpen) =>
    \/ <>(phase \in {"ended", "failed", "recursion_error"})
    \/ <>[](phase = "paused")
    \/ <>[](next = "critic")
=============================================================================
