--------------------------- MODULE AgentLoopProofs ---------------------------
(* What AgentLoop guarantees for every set of requests and hypotheses and  *)
(* every limit.                                                            *)
EXTENDS AgentLoop, Sums, TLAPS

AtWork == node \in {"llm", "tools", "reminder"}

(* While a run goes on it has supersteps left and has not been completed,  *)
(* and what the tools node has counted would not have let it go on looping. *)
LoopInv ==
  /\ TypeOK
  /\ AtWork => steps < RecursionLimit /\ ~completed
  /\ local.duplicates < DuplicateLimit

LEMMA InitLoop == Init => LoopInv
<1> SUFFICES ASSUME Init PROVE LoopInv
  OBVIOUS
<1>1. NoCounts \in Counters /\ NoCounts.duplicates = 0
  BY DEF NoCounts, Counters
<1>2. decisive \subseteq Hypotheses /\ surviving \subseteq Hypotheses
  BY DEF Init
<1>3. calls \in Seq(Requests \cup {"submit", "unknown"})
  BY DEF Init
<1>4. executed \in [Hypotheses -> Nat] /\ counted \in [Hypotheses -> Nat]
  BY DEF Init, NoCounts
<1>5. stored \in Counters /\ local = stored /\ stored.duplicates = 0
  BY <1>1 DEF Init
<1>6. /\ node = "llm" /\ steps = 0 /\ completed = FALSE /\ shared = FALSE
      /\ output = "silent"
      /\ stage \in {"triage", "rca"} /\ flagged \in Runtimes
  BY DEF Init
<1>7. 0 < DuplicateLimit /\ 0 < RecursionLimit /\ 0 \in 0..RecursionLimit
  BY AgentLoopAssumption
<1>8. TypeOK
  BY <1>2, <1>3, <1>4, <1>5, <1>6, <1>7 DEF TypeOK
<1> QED
  BY <1>5, <1>6, <1>7, <1>8 DEF LoopInv, AtWork

LEMMA MessageTypes == Messages \subseteq Seq(Requests \cup {"submit", "unknown"})
  BY DEF Messages

(* Where a superstep leads.                                                *)
LEMMA GotoTypes ==
  ASSUME LoopInv, AtWork, NEW n \in {"llm", "tools", "reminder", "end"}, Goto(n)
  PROVE  /\ node' \in {n, "recursion_error"}
         /\ n = "end" => node' = "end"
         /\ steps' \in 0..RecursionLimit
         /\ n # "end" /\ node' = n => steps' < RecursionLimit
  BY AgentLoopAssumption DEF Goto, LoopInv, TypeOK

LEMMA EarlyTypes ==
  ASSUME LoopInv, node = "tools", NEW outcome \in {"report", "loop_break", "budget"},
         surviving' \subseteq Hypotheses, stored' \in Counters,
         stored'.duplicates = stored.duplicates, ReturnEarly(outcome)
  PROVE  LoopInv'
<1>1. PICK n \in {"end", "llm"} : Goto(n) /\ (n = "end" <=> completed') /\ completed' = flagged
  BY DEF ReturnEarly, LeaveTools, LoopInv, TypeOK
<1>2. /\ node' \in {n, "recursion_error"}
      /\ n = "end" => node' = "end"
      /\ steps' \in 0..RecursionLimit
      /\ n # "end" /\ node' = n => steps' < RecursionLimit
  BY <1>1, GotoTypes DEF AtWork
<1>3. completed' \in BOOLEAN
  BY <1>1, AgentLoopAssumption DEF LoopInv, TypeOK
<1>4. calls' \in Seq(Requests \cup {"submit", "unknown"})
  BY DEF ReturnEarly
<1>5. node' \in {"llm", "tools", "reminder", "end", "recursion_error"}
  BY <1>2
<1>7. counted' \in [Hypotheses -> Nat]
  BY DEF ReturnEarly, NoCounts, LoopInv, TypeOK
<1>6. TypeOK'
  BY <1>2, <1>3, <1>4, <1>5, <1>7 DEF ReturnEarly, LoopInv, TypeOK, input, history
<1> QED
  BY <1>1, <1>2, <1>6 DEF ReturnEarly, LoopInv, AtWork, input, history

LEMMA CountedTypes ==
  ASSUME TypeOK, NEW r \in Requests
  PROVE  /\ Counted(r) \in Counters
         /\ Counted(r).duplicates = local.duplicates + (IF r \in local.fingerprints THEN 1 ELSE 0)
<1>1. HypothesisOf[r] \in Hypotheses
  BY AgentLoopAssumption
<1>2. [local.spent EXCEPT ![HypothesisOf[r]] = @ + 1] \in [Hypotheses -> Nat]
  BY <1>1 DEF TypeOK, Counters
<1> QED
  BY <1>2 DEF Counted, Counters, TypeOK

(* Charging a request leaves the number of duplicates alone.               *)
LEMMA ChargeTypes ==
  ASSUME TypeOK, NEW r \in Requests, Charge(r)
  PROVE  stored' \in Counters /\ stored'.duplicates = stored.duplicates
<1>1. Counted(r).spent \in [Hypotheses -> Nat]
  BY CountedTypes DEF Counters
<1> QED
  BY <1>1 DEF Charge, TypeOK, Counters

LEMMA LoopStep == LoopInv /\ [Next]_vars => LoopInv'
<1> SUFFICES ASSUME LoopInv, [Next]_vars PROVE LoopInv'
  OBVIOUS
<1> USE DEF input, history
<1>1. CASE AskModel
  <2>1. PICK n \in {"end", "reminder", "tools"} : Goto(n)
    BY <1>1 DEF AskModel
  <2>2. /\ node' \in {n, "recursion_error"}
        /\ n = "end" => node' = "end"
        /\ steps' \in 0..RecursionLimit
        /\ n # "end" /\ node' = n => steps' < RecursionLimit
    BY <1>1, <2>1, GotoTypes DEF AskModel, AtWork
  <2>3. calls' \in Seq(Requests \cup {"submit", "unknown"})
    BY <1>1, MessageTypes DEF AskModel
  <2>4. TypeOK'
    BY <1>1, <2>2, <2>3 DEF AskModel, LoopInv, TypeOK
  <2> QED
    BY <1>1, <2>2, <2>4 DEF AskModel, LoopInv, TypeOK, AtWork
<1>2. CASE SubmitReport
  <2>1. surviving' \subseteq Hypotheses /\ stored' = stored /\ stored \in Counters
    BY <1>2 DEF SubmitReport, LoopInv, TypeOK
  <2> QED BY <1>2, <2>1, EarlyTypes DEF SubmitReport, Handling
<1>3. ASSUME NEW r \in Requests, LoopBreak(r) \/ BudgetExhausted(r)
      PROVE  LoopInv'
  <2>1. surviving' \subseteq Hypotheses /\ node = "tools"
    BY <1>3 DEF LoopBreak, BudgetExhausted, Handling, LoopInv, TypeOK
  <2>2. stored' \in Counters /\ stored'.duplicates = stored.duplicates
    BY <1>3, ChargeTypes DEF LoopBreak, BudgetExhausted, LoopInv, TypeOK
  <2> QED BY <1>3, <2>1, <2>2, EarlyTypes DEF LoopBreak, BudgetExhausted
<1>4. ASSUME NEW r \in Requests, CallTool(r)
      PROVE  LoopInv'
  <2>1. HypothesisOf[r] \in Hypotheses /\ DuplicateLimit \in Nat
    BY AgentLoopAssumption
  <2>2. local' \in Counters /\ local'.duplicates < DuplicateLimit
        /\ local'.duplicates = local.duplicates + (IF r \in local.fingerprints THEN 1 ELSE 0)
    <3>1. Counted(r).duplicates \in Nat
      BY CountedTypes DEF LoopInv, Counters
    <3> QED BY <1>4, <2>1, <3>1, CountedTypes DEF CallTool, IsLooping, LoopInv
  <2>3. executed' \in [Hypotheses -> Nat]
    BY <1>4, <2>1 DEF CallTool, LoopInv, TypeOK
  <2>4. calls' \in Seq(Requests \cup {"submit", "unknown"})
    BY <1>4 DEF CallTool, Handling, LoopInv, TypeOK
  <2>5. counted' \in [Hypotheses -> Nat]
    BY <1>4, <2>1 DEF CallTool, LoopInv, TypeOK
  <2>6. node = "tools" /\ node' = "tools" /\ flagged' = flagged
    BY <1>4 DEF CallTool, Handling
  <2>10. stored' \in Counters /\ stored'.duplicates = stored.duplicates
    BY <1>4, ChargeTypes DEF CallTool, LoopInv
  <2>7. TypeOK'
    BY <1>4, <2>2, <2>3, <2>4, <2>5, <2>10 DEF CallTool, LoopInv, TypeOK
  <2>9. AtWork' => steps' < RecursionLimit /\ ~completed'
    BY <1>4, <2>6 DEF CallTool, LoopInv, AtWork
  <2> QED
    BY <2>2, <2>7, <2>9 DEF LoopInv
<1>5. CASE UnknownTool
  <2>1. calls' \in Seq(Requests \cup {"submit", "unknown"})
    BY <1>5 DEF UnknownTool, Handling, LoopInv, TypeOK
  <2>2. TypeOK'
    BY <1>5, <2>1 DEF UnknownTool, LoopInv, TypeOK
  <2> QED BY <1>5, <2>2 DEF UnknownTool, LoopInv, AtWork
<1>6. CASE ToolsReturn
  <2>1. Goto("llm") /\ node = "tools" /\ ~completed'
    BY <1>6 DEF ToolsReturn, LeaveTools, LoopInv, AtWork, TypeOK
  <2>2. /\ node' \in {"llm", "recursion_error"}
        /\ steps' \in 0..RecursionLimit
        /\ node' = "llm" => steps' < RecursionLimit
    BY <2>1, GotoTypes DEF AtWork
  <2>3. TypeOK'
    BY <1>6, <2>2 DEF ToolsReturn, LoopInv, TypeOK
  <2> QED
    BY <1>6, <2>1, <2>2, <2>3 DEF ToolsReturn, LoopInv, AtWork
<1>7. CASE Remind
  <2>1. Goto("llm") /\ node = "reminder" /\ ~completed'
    BY <1>7 DEF Remind, LeaveTools, LoopInv, AtWork, TypeOK
  <2>2. /\ node' \in {"llm", "recursion_error"}
        /\ steps' \in 0..RecursionLimit
        /\ node' = "llm" => steps' < RecursionLimit
    BY <2>1, GotoTypes DEF AtWork
  <2>3. TypeOK'
    BY <1>7, <2>2 DEF Remind, LoopInv, TypeOK
  <2> QED
    BY <1>7, <2>1, <2>2, <2>3 DEF Remind, LoopInv, AtWork
<1>8. CASE UNCHANGED vars
  BY <1>8 DEF vars, LoopInv, TypeOK, AtWork
<1> QED
  BY <1>1, <1>2, <1>3, <1>4, <1>5, <1>6, <1>7, <1>8 DEF Next

LEMMA LoopInvariant == Spec => []LoopInv
  BY InitLoop, LoopStep, PTL DEF Spec

(* Every reachable state of a subgraph is well typed; the counter of       *)
(* repeated requests in the state stays below its limit, so that only the  *)
(* tools node ever acts on it (triage_tools_node, rca_tools_node).         *)
THEOREM LoopTypes == Spec => []TypeOK
  BY LoopInvariant, PTL DEF LoopInv

-----------------------------------------------------------------------------
(* The budgets.  The counters never say that less is spent than was        *)
(* executed since they were last lost.                                     *)

LEMMA TotalIsNat ==
  ASSUME NEW spent \in [Hypotheses -> Nat]
  PROVE  Total(spent) \in Nat
<1>1. Total(spent) = SumFunctionOnSet(spent, Hypotheses)
  BY DEF Total, FoldFunction, SumFunctionOnSet
<1> QED BY <1>1, SumIsNat, AgentLoopAssumption

LEMMA NothingIsSpent == Total([h \in Hypotheses |-> 0]) = 0
<1> DEFINE spent == [h \in Hypotheses |-> 0]
<1>1. Total(spent) = SumFunctionOnSet(spent, Hypotheses)
  BY DEF Total, FoldFunction, SumFunctionOnSet
<1>2. \A h \in Hypotheses : spent[h] = 0
  OBVIOUS
<1>3. Cardinality(Hypotheses) * 0 = 0
  BY FS_CardinalityType, AgentLoopAssumption
<1> HIDE DEF spent
<1>4. SumFunctionOnSet(spent, Hypotheses) = Cardinality(Hypotheses) * 0
  BY <1>2, SumOfConstant, AgentLoopAssumption
<1>5. Total(spent) = 0
  BY <1>1, <1>3, <1>4
<1> QED BY <1>5 DEF spent

(* Smaller counts have a smaller total.                                    *)
LEMMA TotalMonotone ==
  ASSUME NEW few \in [Hypotheses -> Nat], NEW many \in [Hypotheses -> Nat],
         \A h \in Hypotheses : few[h] <= many[h]
  PROVE  Total(few) <= Total(many)
<1>1. /\ Total(few) = SumFunctionOnSet(few, Hypotheses)
      /\ Total(many) = SumFunctionOnSet(many, Hypotheses)
  BY DEF Total, FoldFunction, SumFunctionOnSet
<1> QED BY <1>1, SumMonotone, AgentLoopAssumption

AtMost(few, many) == \A h \in Hypotheses : few[h] <= many[h]

(* In hand or in the state, the counters of rca cover the executions; and  *)
(* a dict that is the state's own says the same in both places, so that an *)
(* early return loses nothing of it.                                       *)
SpentInv ==
  stage = "rca" =>
    /\ node \in {"llm", "reminder"} => AtMost(counted, stored.spent)
    /\ node = "tools" => AtMost(counted, local.spent)
    /\ shared /\ node = "tools" => local.spent = stored.spent
    /\ WithinBudgets(counted)

LEMMA NothingWithinBudgets == WithinBudgets(NoCounts.spent)
<1>1. \A h \in Hypotheses : NoCounts.spent[h] <= HypothesisBudget
  BY AgentLoopAssumption DEF NoCounts
<1>2. Total(NoCounts.spent) <= TotalBudget
  BY NothingIsSpent, AgentLoopAssumption DEF NoCounts
<1> QED BY <1>1, <1>2 DEF WithinBudgets

(* An early return keeps the counts, or loses them together with counted.  *)
LEMMA EarlySpent ==
  ASSUME LoopInv, SpentInv, stage = "rca", node = "tools", NEW outcome,
         ReturnEarly(outcome), stored' \in Counters,
         shared => AtMost(local.spent, stored'.spent)
  PROVE  SpentInv'
<1>1. node' # "tools"
  BY DEF ReturnEarly, LeaveTools, Goto
<1>2. /\ counted \in [Hypotheses -> Nat] /\ local.spent \in [Hypotheses -> Nat]
      /\ stored'.spent \in [Hypotheses -> Nat]
  BY DEF LoopInv, TypeOK, Counters
<1>3. CASE shared
  <2>1. counted' = counted /\ AtMost(counted, local.spent)
    BY <1>3 DEF ReturnEarly, SpentInv
  <2>2. AtMost(counted', stored'.spent)
    BY <1>2, <1>3, <2>1 DEF AtMost
  <2> QED BY <1>1, <2>1, <2>2 DEF SpentInv
<1>4. CASE ~shared
  <2>1. counted' = NoCounts.spent
    BY <1>4 DEF ReturnEarly
  <2>2. AtMost(counted', stored'.spent)
    BY <1>2, <2>1 DEF AtMost, NoCounts
  <2>3. WithinBudgets(counted')
    BY <2>1, NothingWithinBudgets
  <2> QED BY <1>1, <2>2, <2>3 DEF SpentInv
<1> QED BY <1>3, <1>4

LEMMA SpentStep == LoopInv /\ SpentInv /\ [Next]_vars => SpentInv'
<1> SUFFICES ASSUME LoopInv, SpentInv, [Next]_vars PROVE SpentInv'
  OBVIOUS
<1>0. UNCHANGED input
  <2>1. ASSUME NEW outcome, ReturnEarly(outcome)
        PROVE  UNCHANGED input
    BY <2>1 DEF ReturnEarly
  <2>2. AskModel \/ UnknownTool \/ ToolsReturn \/ Remind \/ (\E r \in Requests : CallTool(r))
          => UNCHANGED input
    BY DEF AskModel, UnknownTool, ToolsReturn, Remind, CallTool
  <2>3. SubmitReport \/ (\E r \in Requests : LoopBreak(r) \/ BudgetExhausted(r))
          => UNCHANGED input
    BY <2>1 DEF SubmitReport, LoopBreak, BudgetExhausted
  <2>4. UNCHANGED vars => UNCHANGED input
    BY DEF vars
  <2> QED BY <2>2, <2>3, <2>4 DEF Next
<1> SUFFICES ASSUME stage = "rca" PROVE SpentInv'
  BY <1>0 DEF SpentInv, input
<1>9. stored \in Counters /\ local \in Counters /\ counted \in [Hypotheses -> Nat]
  BY DEF LoopInv, TypeOK
<1> USE DEF input, history
<1>1. CASE AskModel
  BY <1>1 DEF AskModel, Goto, SpentInv, AtMost
<1>2. CASE SubmitReport \/ \E r \in Requests : LoopBreak(r)
  <2>1. node = "tools" /\ stored' = stored /\ \E outcome : ReturnEarly(outcome)
    BY <1>2 DEF SubmitReport, LoopBreak, Handling
  <2>2. shared => AtMost(local.spent, stored'.spent)
    BY <1>9, <2>1 DEF SpentInv, AtMost, Counters
  <2> QED BY <1>9, <2>1, <2>2, EarlySpent
<1>3. ASSUME NEW r \in Requests, BudgetExhausted(r)
      PROVE  SpentInv'
  <2>1. node = "tools" /\ Charge(r) /\ ReturnEarly("budget")
    BY <1>3 DEF BudgetExhausted, Handling
  <2>2. stored' \in Counters
    BY <2>1, ChargeTypes DEF LoopInv
  <2>3. AtMost(local.spent, Counted(r).spent)
    BY <1>9, AgentLoopAssumption DEF Counted, AtMost, Counters
  <2>4. shared => stored'.spent = Counted(r).spent
    BY <1>9, <2>1 DEF Charge, Counters
  <2> QED BY <2>1, <2>2, <2>3, <2>4, EarlySpent
<1>4. ASSUME NEW r \in Requests, CallTool(r)
      PROVE  SpentInv'
  <2> DEFINE h == HypothesisOf[r]
             spent == Counted(r).spent
  <2>1. h \in Hypotheses /\ HypothesisBudget \in Nat /\ TotalBudget \in Nat
    BY AgentLoopAssumption
  <2>2. /\ node = "tools" /\ node' = "tools" /\ local' = Counted(r) /\ Charge(r)
        /\ counted' = [counted EXCEPT ![h] = @ + 1]
        /\ shared' = shared /\ ~OverBudget(r)
    BY <1>4 DEF CallTool, Handling
  <2>3. spent = [local.spent EXCEPT ![h] = @ + 1]
    BY DEF Counted
  <2>4. /\ AtMost(counted, local.spent) /\ WithinBudgets(counted)
        /\ local.spent \in [Hypotheses -> Nat]
    BY <1>9, <2>2 DEF SpentInv, Counters
  <2>5. shared => stored'.spent = spent
    BY <1>9, <2>2 DEF Charge, Counters
  <2>6. ~(Total(spent) > TotalBudget) /\ ~(spent[h] > HypothesisBudget)
    BY <2>2 DEF OverBudget
  <2> HIDE DEF h, spent
  <2>7. spent \in [Hypotheses -> Nat] /\ counted' \in [Hypotheses -> Nat]
    BY <1>9, <2>1, <2>2, <2>3, <2>4
  <2>8. AtMost(counted', spent)
    BY <1>9, <2>1, <2>2, <2>3, <2>4 DEF AtMost
  <2>9. \A g \in Hypotheses : counted'[g] <= HypothesisBudget
    <3>1. counted'[h] <= HypothesisBudget
      BY <2>1, <2>6, <2>7, <2>8 DEF AtMost
    <3>2. ASSUME NEW g \in Hypotheses, g # h
          PROVE  counted'[g] <= HypothesisBudget
      BY <1>9, <2>2, <2>4, <3>2 DEF WithinBudgets
    <3> QED BY <3>1, <3>2
  <2>10. Total(counted') <= TotalBudget
    <3>1. Total(counted') <= Total(spent)
      BY <2>7, <2>8, TotalMonotone DEF AtMost
    <3>2. Total(counted') \in Nat /\ Total(spent) \in Nat
      BY <2>7, TotalIsNat
    <3> QED BY <2>1, <2>6, <3>1, <3>2
  <2>11. local'.spent = spent
    BY <2>2 DEF spent
  <2> QED BY <2>2, <2>5, <2>8, <2>9, <2>10, <2>11 DEF SpentInv, WithinBudgets
<1>5. CASE UnknownTool
  BY <1>5 DEF UnknownTool, SpentInv
<1>6. CASE ToolsReturn
  BY <1>6 DEF ToolsReturn, LeaveTools, Goto, SpentInv
<1>7. CASE Remind
  BY <1>7 DEF Remind, LeaveTools, Goto, SpentInv
<1>8. CASE UNCHANGED vars
  BY <1>8 DEF vars, SpentInv
<1> QED
  BY <1>1, <1>2, <1>3, <1>4, <1>5, <1>6, <1>7, <1>8 DEF Next

(* With or without the flag, what rca executes after its counters were     *)
(* last lost stays within the budget of every hypothesis and of the run,   *)
(* for any number of hypotheses, whatever the messages mix and however     *)
(* often the run goes on after a forced exit (rca_tools_node).             *)
THEOREM CountedBudgetHolds == Spec => []CountedBudgetIsHard
<1>1. Init => SpentInv
  <2> SUFFICES ASSUME Init PROVE SpentInv
    OBVIOUS
  <2>1. counted = stored.spent /\ counted = NoCounts.spent /\ node = "llm"
    BY DEF Init
  <2>2. AtMost(counted, stored.spent)
    BY <2>1 DEF AtMost, NoCounts
  <2> QED BY <2>1, <2>2, NothingWithinBudgets DEF SpentInv
<1>2. SpentInv => CountedBudgetIsHard
  BY DEF SpentInv, CountedBudgetIsHard
<1> QED
  BY <1>1, <1>2, LoopInvariant, SpentStep, PTL DEF Spec

-----------------------------------------------------------------------------
(* Refinement.                                                             *)

Outcome == IF node = "end" THEN output
           ELSE IF node = "recursion_error" THEN node ELSE "pending"

(* A run that has completed did so with a result of its stage.             *)
OutcomeInv ==
  /\ LoopInv
  /\ completed => flagged
  /\ stage = "triage" => output # "budget"

LEMMA OutcomeStep == LoopInv' /\ OutcomeInv /\ [Next]_vars => OutcomeInv'
<1> SUFFICES ASSUME LoopInv', OutcomeInv, [Next]_vars PROVE OutcomeInv'
  OBVIOUS
<1> USE DEF input, history
<1>1. CASE AskModel
  BY <1>1 DEF AskModel, OutcomeInv
<1>2. CASE SubmitReport
  BY <1>2 DEF SubmitReport, ReturnEarly, OutcomeInv
<1>3. ASSUME NEW r \in Requests, LoopBreak(r)
      PROVE  OutcomeInv'
  BY <1>3 DEF LoopBreak, ReturnEarly, OutcomeInv
<1>4. ASSUME NEW r \in Requests, BudgetExhausted(r)
      PROVE  OutcomeInv'
  BY <1>4 DEF BudgetExhausted, OverBudget, ReturnEarly, OutcomeInv
<1>5. ASSUME NEW r \in Requests, CallTool(r)
      PROVE  OutcomeInv'
  BY <1>5 DEF CallTool, OutcomeInv
<1>6. CASE UnknownTool
  BY <1>6 DEF UnknownTool, OutcomeInv
<1>7. CASE ToolsReturn
  BY <1>7 DEF ToolsReturn, OutcomeInv
<1>8. CASE Remind
  BY <1>8 DEF Remind, OutcomeInv
<1>9. CASE UNCHANGED vars
  BY <1>9 DEF vars, OutcomeInv
<1> QED
  BY <1>1, <1>2, <1>3, <1>4, <1>5, <1>6, <1>7, <1>8, <1>9 DEF Next

LEMMA ReturnsRefine ==
  ASSUME LoopInv, OutcomeInv, OutcomeInv', AtWork, node' = "end", UNCHANGED input,
         flagged \/ stage = "rca", stage = "triage" => output' # "silent"
  PROVE  Call!Return
<1>1. output' \in Call!Results(stage)
  BY DEF Call!Results, OutcomeInv, LoopInv, TypeOK, input
<1> QED
  BY <1>1 DEF Call!Return, AtWork, input

LEMMA FailsRefine ==
  ASSUME AtWork, node' = "recursion_error", UNCHANGED input
  PROVE  Call!Fail
  BY DEF Call!Fail, AtWork, input

LEMMA CallStep ==
  ASSUME OutcomeInv, OutcomeInv', [Next]_vars
  PROVE  [Call!SNext]_<<stage, flagged, Outcome>>
<1> USE DEF input, history
<1>0. LoopInv
  BY DEF OutcomeInv
<1>1. CASE AskModel
  <2>1. AtWork /\ UNCHANGED input /\ UNCHANGED output
    BY <1>1 DEF AskModel, AtWork
  <2>2. CASE ShouldEnd
    <3>1. stage = "rca"
      BY <1>0, <2>2, AgentLoopAssumption DEF ShouldEnd, LoopInv, TypeOK, Counters
    <3>2. node' = "end"
      BY <1>1, <2>2 DEF AskModel, Goto
    <3> QED BY <1>0, <2>1, <3>1, <3>2, ReturnsRefine DEF Call!SNext
  <2>3. CASE ~ShouldEnd
    <3>1. node' \in {"tools", "reminder", "recursion_error"}
      BY <1>1, <2>3 DEF AskModel, Goto
    <3> QED BY <2>1, <3>1, FailsRefine DEF Call!SNext, Outcome, AtWork
  <2> QED BY <2>2, <2>3
<1>2. ASSUME NEW outcome \in {"report", "loop_break", "budget"},
             node = "tools", ReturnEarly(outcome)
      PROVE  [Call!SNext]_<<stage, flagged, Outcome>>
  <2>1. AtWork /\ UNCHANGED input /\ output' = outcome
    BY <1>2 DEF ReturnEarly, AtWork
  <2>2. CASE flagged
    <3>1. node' = "end"
      BY <1>2, <2>2 DEF ReturnEarly, LeaveTools, Goto
    <3> QED BY <1>0, <2>1, <2>2, <3>1, ReturnsRefine DEF Call!SNext
  <2>3. CASE ~flagged
    <3>1. node' \in {"llm", "recursion_error"}
      BY <1>2, <2>3 DEF ReturnEarly, LeaveTools, Goto
    <3> QED BY <2>1, <3>1, FailsRefine DEF Call!SNext, Outcome, AtWork
  <2> QED BY <2>2, <2>3
<1>3. CASE SubmitReport
  BY <1>2, <1>3 DEF SubmitReport, Handling
<1>4. ASSUME NEW r \in Requests, LoopBreak(r) \/ BudgetExhausted(r)
      PROVE  [Call!SNext]_<<stage, flagged, Outcome>>
  BY <1>2, <1>4 DEF LoopBreak, BudgetExhausted, Handling
<1>5. ASSUME NEW r \in Requests, CallTool(r)
      PROVE  [Call!SNext]_<<stage, flagged, Outcome>>
  BY <1>5 DEF CallTool, Outcome
<1>6. CASE UnknownTool
  BY <1>6 DEF UnknownTool, Outcome
<1>7. CASE ToolsReturn \/ Remind
  <2>1. AtWork /\ UNCHANGED input /\ Goto("llm")
    BY <1>0, <1>7 DEF ToolsReturn, Remind, LeaveTools, LoopInv, AtWork, TypeOK
  <2>2. node' \in {"llm", "recursion_error"}
    BY <2>1 DEF Goto
  <2> QED BY <2>1, <2>2, FailsRefine DEF Call!SNext, Outcome, AtWork
<1>8. CASE UNCHANGED vars
  BY <1>8 DEF vars, Outcome
<1> QED
  BY <1>1, <1>3, <1>4, <1>5, <1>6, <1>7, <1>8 DEF Next

(* To the investigation graph a subgraph is a call that returns a result   *)
(* of its stage once, or fails; the triage subgraph returns only if its    *)
(* flag is kept (route_after_triage_tools, rca_should_continue).           *)
THEOREM LoopImplementsCall == Spec => ImplementsSubgraphCall
<1>1. Init => OutcomeInv
  BY InitLoop DEF Init, OutcomeInv
<1>2. Init => Call!SInit
  BY DEF Init, Call!SInit
<1>3. OutcomeInv => LoopInv
  BY DEF OutcomeInv
<1>4. Spec => []OutcomeInv
  BY <1>1, LoopInvariant, OutcomeStep, PTL DEF Spec
<1>5. OutcomeInv /\ OutcomeInv' /\ [Next]_vars => [Call!SNext]_<<stage, flagged, Outcome>>
  BY CallStep
<1> QED
  BY <1>2, <1>4, <1>5, PTL DEF Spec, ImplementsSubgraphCall, Call!SSpec, Outcome
=============================================================================
