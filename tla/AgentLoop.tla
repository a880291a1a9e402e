----------------------------- MODULE AgentLoop -----------------------------
(***************************************************************************)
(* The triage and the rca subgraph: a model node that asks the language    *)
(* model for its next message and a tools node that works through the tool *)
(* calls of that message, round by round, until a report is submitted or a *)
(* guardrail forces an exit.  The two differ in the budget and the         *)
(* stopping condition, which only rca has.                                 *)
(*                                                                         *)
(* The counters of the guardrails live in the graph state; the tools node  *)
(* works on copies and writes them back only when it returns after the     *)
(* last call.  The exception is the dict rca_hypothesis_calls: once the    *)
(* state has one, the node updates it in place.  An early return (a        *)
(* report, a forced exit) writes its outcome and a completion flag,        *)
(* triage_completed or rca_completed, which the state's TypedDict does not *)
(* declare.  LangGraph keeps declared keys only, so that the flag is never *)
(* seen; flagged = TRUE describes the nodes as they are written, with a    *)
(* runtime that keeps the flag.                                            *)
(***************************************************************************)
EXTENDS Naturals, Sequences, FiniteSets, Functions

CONSTANTS
  Runtimes,          \* values of flagged: {FALSE} is LangGraph
  Requests,          \* fingerprints of tool calls: tool name and arguments
  Hypotheses,        \* hypothesis names
  HypothesisOf,      \* the hypothesis a request is counted for (when it names
                     \* none, the one that survives first)
  MaxCalls,          \* bound: tool calls in one message
  DuplicateLimit,    \* repeated requests that force an exit (3)
  HypothesisBudget,  \* requests for one hypothesis (5)
  TotalBudget,       \* requests in all (15)
  RecursionLimit     \* supersteps LangGraph grants a run

ASSUME AgentLoopAssumption ==
  /\ Runtimes \subseteq BOOLEAN
  /\ HypothesisOf \in [Requests -> Hypotheses]
  /\ IsFiniteSet(Hypotheses)
  /\ Requests \cap {"submit", "unknown"} = {}
  /\ MaxCalls \in Nat /\ RecursionLimit \in Nat \ {0}
  /\ DuplicateLimit \in Nat \ {0}
  /\ HypothesisBudget \in Nat /\ TotalBudget \in Nat

VARIABLES
  stage,      \* "triage" or "rca"
  flagged,    \* does the state keep the completion flag
  decisive,   \* hypotheses scored above 0.75 by an earlier scoring pass
  node,       \* the node to run ("reminder" is the tools node when there was
              \* no tool call), or how the run of the subgraph ended
  steps,      \* supersteps taken
  calls,      \* tool calls of the last message still to be handled
  stored,     \* duplicates, fingerprints and hypothesis_calls in the state
  local,      \* what the tools node has in hand of them
  shared,     \* is local.spent the very dict of the state
  surviving,  \* surviving_hypotheses, or ranked_hypotheses while it is None
  completed,  \* the completion flag, as the state has it
  output,     \* the last outcome written to the state
  executed,   \* history: tool executions per hypothesis
  counted     \* history: those since the counters were last lost

input == <<stage, flagged, decisive>>
history == <<executed, counted>>
vars == <<input, node, steps, calls, stored, local, shared, surviving,
          completed, output, history>>

Messages ==
  UNION {[1..n -> Requests \cup {"submit", "unknown"}] : n \in 0..MaxCalls}

Counters ==
  [duplicates: Nat, fingerprints: SUBSET Requests, spent: [Hypotheses -> Nat]]

NoCounts ==
  [duplicates |-> 0, fingerprints |-> {}, spent |-> [h \in Hypotheses |-> 0]]

Total(spent) == FoldFunction(+, 0, spent)

TypeOK ==
  /\ stage \in {"triage", "rca"} /\ flagged \in Runtimes
  /\ decisive \subseteq Hypotheses
  /\ node \in {"llm", "tools", "reminder", "end", "recursion_error"}
  /\ steps \in 0..RecursionLimit
  /\ calls \in Seq(Requests \cup {"submit", "unknown"})
  /\ stored \in Counters /\ local \in Counters
  /\ stored.duplicates < DuplicateLimit
  /\ surviving \subseteq Hypotheses
  /\ completed \in BOOLEAN /\ shared \in BOOLEAN
  /\ output \in {"silent", "report", "loop_break", "budget"}
  /\ executed \in [Hypotheses -> Nat] /\ counted \in [Hypotheses -> Nat]

-----------------------------------------------------------------------------
(* LangGraph starts a superstep only while the run has some left.          *)
Goto(n) ==
  /\ steps' = steps + 1
  /\ node' = IF n # "end" /\ steps' = RecursionLimit THEN "recursion_error" ELSE n

(* _global_stopping_condition_met; the scores do not change during a run.  *)
StoppingConditionMet ==
  \/ surviving = {}
  \/ Cardinality(surviving) = 1 /\ surviving \subseteq decisive

(* triage_should_continue and rca_should_continue.                         *)
ShouldEnd ==
  \/ stored.duplicates >= DuplicateLimit
  \/ stage = "rca" /\ StoppingConditionMet
  \/ stage = "rca" /\ Total(stored.spent) > TotalBudget

(* triage_llm_node, rca_llm_node.  A model that cannot be reached is       *)
(* answered for with a submitted report.                                   *)
AskModel ==
  /\ node = "llm"
  /\ calls' \in Messages
  /\ local' = stored
  /\ Goto(IF ShouldEnd THEN "end" ELSE IF calls' = <<>> THEN "reminder" ELSE "tools")
  /\ UNCHANGED <<input, stored, shared, surviving, completed, output, history>>

(* Mutant: the model's reply is taken as the end of the loop.              *)
LeaveToolsAtOnce == Goto("end")

(* route_after_triage_tools, route_after_rca_tools.                        *)
LeaveTools == Goto(IF completed' THEN "end" ELSE "llm")

(* The tools node returns before its last call, with an outcome and the    *)
(* completion flag, and without its counters: what they counted in this    *)
(* message is lost, but for a dict that is the state's own.                *)
ReturnEarly(outcome) ==
  /\ output' = outcome
  /\ completed' = flagged
  /\ LeaveTools
  /\ calls' = <<>>
  /\ counted' = IF shared THEN counted ELSE NoCounts.spent
  /\ UNCHANGED <<input, local, shared, executed>>

-----------------------------------------------------------------------------
(* The tools node, one tool call at a time.                                *)

Handling(call) == node = "tools" /\ calls # <<>> /\ Head(calls) = call

(* The report's arguments are written as they are; the model may leave     *)
(* surviving_hypotheses out of them.                                       *)
SubmitReport ==
  /\ Handling("submit")
  /\ \/ UNCHANGED surviving
     \/ stage = "rca" /\ surviving' \in SUBSET Hypotheses
  /\ UNCHANGED stored
  /\ ReturnEarly("report")

(* The counters when a request has been looked at.                         *)
Counted(r) ==
  [duplicates |-> local.duplicates + (IF r \in local.fingerprints THEN 1 ELSE 0),
   fingerprints |-> local.fingerprints \cup {r},
   spent |-> IF stage = "rca"
               THEN [local.spent EXCEPT ![HypothesisOf[r]] = @ + 1]
               ELSE local.spent]

(* Mutant: the tools node works on a copy of the dict, as it does of the   *)
(* other counters.                                                         *)
ChargeCopy(r) == UNCHANGED stored

(* The request is charged to its hypothesis, in the state's dict if that   *)
(* is the one in hand.                                                     *)
Charge(r) ==
  stored' = IF shared THEN [stored EXCEPT !.spent = Counted(r).spent] ELSE stored

(* Mutant: the duplicates are looked at one request too late.              *)
IsLoopingLate(r) == Counted(r).duplicates > DuplicateLimit

IsLooping(r) == Counted(r).duplicates >= DuplicateLimit

OverBudget(r) ==
  /\ stage = "rca"
  /\ \/ Total(Counted(r).spent) > TotalBudget
     \/ Counted(r).spent[HypothesisOf[r]] > HypothesisBudget

LoopBreak(r) ==
  /\ Handling(r)
  /\ IsLooping(r)
  /\ UNCHANGED <<stored, surviving>>
  /\ ReturnEarly("loop_break")

BudgetExhausted(r) ==
  /\ Handling(r)
  /\ ~IsLooping(r)
  /\ OverBudget(r)
  /\ Charge(r)
  /\ UNCHANGED surviving
  /\ ReturnEarly("budget")

(* The tool runs; whatever it returns or raises is a message to the model. *)
CallTool(r) ==
  /\ Handling(r)
  /\ ~IsLooping(r) /\ ~OverBudget(r)
  /\ local' = Counted(r)
  /\ Charge(r)
  /\ executed' = [executed EXCEPT ![HypothesisOf[r]] = @ + 1]
  /\ counted' = [counted EXCEPT ![HypothesisOf[r]] = @ + 1]
  /\ calls' = Tail(calls)
  /\ UNCHANGED <<input, node, steps, shared, surviving, completed, output>>

UnknownTool ==
  /\ Handling("unknown")
  /\ calls' = Tail(calls)
  /\ UNCHANGED <<input, node, steps, stored, local, shared, surviving,
                 completed, output, history>>

(* After the last call.                                                    *)
ToolsReturn ==
  /\ node = "tools"
  /\ calls = <<>>
  /\ stored' = local
  /\ shared' = (stage = "rca")
  /\ UNCHANGED completed
  /\ LeaveTools
  /\ UNCHANGED <<input, calls, local, surviving, output, history>>

(* A message without a tool call: the model is told to call one.           *)
Remind ==
  /\ node = "reminder"
  /\ UNCHANGED completed
  /\ LeaveTools
  /\ UNCHANGED <<input, calls, stored, local, shared, surviving, output, history>>

-----------------------------------------------------------------------------
Init ==
  /\ stage \in {"triage", "rca"} /\ flagged \in Runtimes
  /\ decisive \in {{}} \cup {{h} : h \in Hypotheses}
  /\ node = "llm" /\ steps = 0
  /\ calls = <<>>
  /\ stored = NoCounts /\ local = NoCounts
  /\ surviving \in SUBSET Hypotheses
  /\ completed = FALSE /\ shared = FALSE
  /\ output = "silent"
  /\ executed = NoCounts.spent /\ counted = NoCounts.spent

Next ==
  \/ AskModel
  \/ SubmitReport
  \/ \E r \in Requests : LoopBreak(r) \/ BudgetExhausted(r) \/ CallTool(r)
  \/ UnknownTool
  \/ ToolsReturn
  \/ Remind

Spec == Init /\ [][Next]_vars

-----------------------------------------------------------------------------
WithinBudgets(runs) ==
  /\ \A h \in Hypotheses : runs[h] <= HypothesisBudget
  /\ Total(runs) <= TotalBudget

(* The budget of rca is as hard as its counters: whatever the messages mix *)
(* and however often the run goes on after a forced exit or a report, the  *)
(* executions since the counters were last lost stay within the budgets of *)
(* a hypothesis and of the run.  They are lost only by an early return     *)
(* before the first full one; from then on the state's own dict counts     *)
(* (rca_tools_node).                                                       *)
CountedBudgetIsHard == stage = "rca" => WithinBudgets(counted)

(* The budget of rca is hard ("we enforce hard budget"): no hypothesis gets *)
(* more tool executions than its budget and the run not more than its own. *)
(* Refuted for LangGraph: an early return before the first full one loses  *)
(* the counts of its message, and the run goes on.                         *)
BudgetIsHard == stage = "rca" => WithinBudgets(executed)

(* To the graph the loop is a call that returns one of Results, or fails;  *)
(* without the flag triage only fails.                                     *)
Call ==
  INSTANCE SubgraphCall WITH
    result <- IF node = "end" THEN output
              ELSE IF node = "recursion_error" THEN node ELSE "pending"

ImplementsSubgraphCall == Call!SSpec

(* A report or a forced exit is the last thing a run does ("You must call  *)
(* SubmitTriageReport to finish").  Refuted for LangGraph, which drops the  *)
(* flag: the model is asked again until the supersteps run out.            *)
SubmitFinishes == output # "silent" => node = "end"
=============================================================================
