---------------------------- MODULE StageExecution ----------------------------
(***************************************************************************)
(* A stage of an investigation under its guardrails: StageTimeoutEnforcer  *)
(* runs the node in a thread of its own and waits for it as long as the    *)
(* InvestigationClock allows; in the thread the RetryCoordinator calls the *)
(* agent until it answers or its retries are used up.                      *)
(***************************************************************************)
EXTENDS Integers, FiniteSets

CONSTANTS
  GlobalBudget,     \* global_timeout_seconds (1800), in ticks
  NodeLimit,        \* the limit of a stage (300, 600 or 60)
  Buffer,           \* seconds kept for the checkpoint (5)
  MaxToolRetries,   \* max_tool_failure_retries (3)
  MaxSchemaRetries, \* max_schema_violation_retries (2)
  MaxRepairs,       \* max_output_repair_attempts (1)
  MaxTime           \* bound: how long time passes

ASSUME StageAssumption ==
  /\ GlobalBudget \in Nat /\ NodeLimit \in Nat /\ Buffer \in Nat
  /\ MaxToolRetries \in Nat /\ MaxSchemaRetries \in Nat /\ MaxRepairs \in Nat
  /\ MaxTime \in Nat

VARIABLES
  now,       \* time.time()
  clock,     \* the investigation clock
  enforcer,  \* the thread that called execute_with_timeout
  runner     \* the thread of the executor, with the node

stageVars == <<now, clock, enforcer, runner>>

(* What a stage or a node yields.                                          *)
Yields == {"nothing", "result", "agent_failure", "exception", "timeout"}

Clocks == [paused: BOOLEAN, total: Nat, started: Nat]

Stages == [at: {"between", "waiting", "joining"}, until: Nat, yield: Yields]

Nodes == [at: {"none", "agent", "backoff", "done"}, yield: Yields,
          tool: 0..MaxToolRetries, schema: 0..MaxSchemaRetries, repair: 0..MaxRepairs]

StageTypeOK ==
  /\ now \in Nat
  /\ clock \in Clocks
  /\ enforcer \in Stages
  /\ runner \in Nodes

NoNode == [at |-> "none", yield |-> "nothing", tool |-> 0, schema |-> 0, repair |-> 0]

Smaller(m, n) == IF m < n THEN m ELSE n

Larger(m, n) == IF m < n THEN n ELSE m

-----------------------------------------------------------------------------
(* InvestigationClock                                                      *)

Elapsed == IF clock.paused THEN clock.total ELSE clock.total + (now - clock.started)

Remaining == Larger(0, GlobalBudget - Elapsed)

BudgetForNode == Smaller(Remaining, NodeLimit)

(* start and resume                                                        *)
StartClock ==
  /\ enforcer.at = "between"
  /\ clock' = IF clock.paused THEN [clock EXCEPT !.started = now, !.paused = FALSE]
              ELSE clock
  /\ UNCHANGED <<now, enforcer, runner>>

PauseClock ==
  /\ enforcer.at = "between"
  /\ clock' = IF clock.paused THEN clock
              ELSE [clock EXCEPT !.total = Elapsed, !.paused = TRUE]
  /\ UNCHANGED <<now, enforcer, runner>>

-----------------------------------------------------------------------------
(* StageTimeoutEnforcer.execute_with_timeout                               *)

ExecutorTimeout == Larger(1, BudgetForNode - Buffer)

BeginStage ==
  /\ enforcer.at = "between"
  /\ enforcer' = [at |-> "waiting", until |-> now + ExecutorTimeout, yield |-> "nothing"]
  /\ runner' = [NoNode EXCEPT !.at = "agent"]
  /\ UNCHANGED <<now, clock>>

(* A TimeoutError that the node raises is taken for a timeout of the stage. *)
TakenFor(yield) == {yield} \cup (IF yield = "exception" THEN {"timeout"} ELSE {})

(* The future has the node's result, or its exception.                     *)
EndStage ==
  /\ enforcer.at = "waiting"
  /\ runner.at = "done"
  /\ \E yield \in TakenFor(runner.yield) :
       enforcer' = [enforcer EXCEPT !.at = "between", !.yield = yield]
  /\ UNCHANGED <<now, clock, runner>>

(* Mutant: the executor is not waited for.                                 *)
TimeOutAndLeave ==
  /\ enforcer.at = "waiting"
  /\ now >= enforcer.until
  /\ runner.at # "done"
  /\ enforcer' = [enforcer EXCEPT !.at = "between", !.yield = "timeout"]
  /\ UNCHANGED <<now, clock, runner>>

(* The timeout is returned from within the with statement, whose end waits *)
(* for the node.                                                           *)
TimeOut ==
  /\ enforcer.at = "waiting"
  /\ now >= enforcer.until
  /\ runner.at # "done"
  /\ enforcer' = [enforcer EXCEPT !.at = "joining", !.yield = "timeout"]
  /\ UNCHANGED <<now, clock, runner>>

(* What the node yields now is lost.                                       *)
Join ==
  /\ enforcer.at = "joining"
  /\ runner.at = "done"
  /\ enforcer' = [enforcer EXCEPT !.at = "between"]
  /\ UNCHANGED <<now, clock, runner>>

-----------------------------------------------------------------------------
(* RetryCoordinator.execute_with_retry                                     *)

NodeYields(what) == runner' = [runner EXCEPT !.at = "done", !.yield = what]

Agent(step) ==
  /\ runner.at = "agent"
  /\ step
  /\ UNCHANGED <<now, clock, enforcer>>

AgentAnswers == Agent(NodeYields("result"))

(* An exception that is no ToolCallException, CircuitOpenException among   *)
(* them, leaves the loop.                                                  *)
AgentRaises == Agent(NodeYields("exception"))

(* The failure is none that can be corrected, or a baseline reference:     *)
(* attempt_recovery never succeeds.                                        *)
Uncorrectable == Agent(NodeYields("agent_failure"))

(* Mutant: a failing tool is tried again without being counted.            *)
ToolFailureUncounted ==
  Agent(IF runner.tool = MaxToolRetries
          THEN NodeYields("agent_failure")
          ELSE runner' = [runner EXCEPT !.at = "backoff"])

(* A tool failure that can be corrected: a pause, and the agent again.     *)
ToolFailure ==
  Agent(IF runner.tool = MaxToolRetries
          THEN NodeYields("agent_failure")
          ELSE runner' = [runner EXCEPT !.at = "backoff", !.tool = @ + 1])

(* Output that does not match the schema: the agent is asked to repair it. *)
SchemaViolation ==
  Agent(IF runner.schema = MaxSchemaRetries
          THEN NodeYields("agent_failure")
          ELSE runner' = [runner EXCEPT !.schema = @ + 1])

(* Output that is no JSON.                                                 *)
Unparseable ==
  Agent(IF runner.repair = MaxRepairs
          THEN NodeYields("agent_failure")
          ELSE runner' = [runner EXCEPT !.repair = @ + 1])

Wake ==
  /\ runner.at = "backoff"
  /\ runner' = [runner EXCEPT !.at = "agent"]
  /\ UNCHANGED <<now, clock, enforcer>>

Tick ==
  /\ now < MaxTime
  /\ now' = now + 1
  /\ UNCHANGED <<clock, enforcer, runner>>

-----------------------------------------------------------------------------
StageInit ==
  /\ now = 0
  /\ clock = [paused |-> TRUE, total |-> 0, started |-> 0]
  /\ enforcer = [at |-> "between", until |-> 0, yield |-> "nothing"]
  /\ runner = NoNode

NodeStep ==
  \/ AgentAnswers \/ AgentRaises \/ Uncorrectable
  \/ ToolFailure \/ SchemaViolation \/ Unparseable
  \/ Wake

EnforcerStep == EndStage \/ TimeOut \/ Join

StageNext == StartClock \/ PauseClock \/ BeginStage \/ EnforcerStep \/ NodeStep \/ Tick

(* Every call of the agent and every pause ends; then the enforcer goes on. *)
StageFairness == WF_stageVars(NodeStep) /\ WF_stageVars(EndStage \/ Join)

StageSpec == StageInit /\ [][StageNext]_stageVars /\ StageFairness

-----------------------------------------------------------------------------
(* A stage that has returned leaves no node behind that could still change *)
(* the state another stage works on, not even when it timed out.           *)
NodeRunsAlone == enforcer.at = "between" => runner.at \in {"none", "done"}

(* Whatever fails in whatever order, a stage returns: its retries are used *)
(* up one after the other, after at most 1 + 3 + 2 + 1 calls of its agent. *)
(* (It returns when its agent lets it, not when its time is over.)         *)
StageReturns == enforcer.at # "between" ~> enforcer.at = "between"
=============================================================================
