# DevOpsAgent in TLA+

DevOpsAgent investigates incidents: a LangGraph graph of language-model agents
gathers evidence with tools, scores hypotheses, asks a human when it is not sure,
and delivers a report. Around it there is a persistence layer (a registry of
investigations and a chain of checkpoints in PostgreSQL, an artifact cache in
Redis) and a recovery layer (budgets, breakers, retries). This directory models
the parts that decide things, checks them with TLC and proves the most important
statements with TLAPS.

## Inventory

| Component | State | Operations | Interacts with | What is hard | What makes it correct |
|---|---|---|---|---|---|
| Investigation registry (`state/repositories/postgres_investigation_repository.py`, migration v001) | one row per investigation: status, version, decision, related id, window | claim with deduplication, update_status (with and without version), save, mark_superseded, delete | every caller shares the table; the checkpoint manager sets statuses in it | claims race; entities are written back stale; retries; the live index is met late | one live investigation per symptom; a sound version check; claims see claims |
| Checkpoint table and managers (`postgres_checkpoint_repository.py`, `checkpoint_manager.py`, `resume_manager.py`) | rows with sequence number, latest mark, status, payload; the investigation's status | write, pause, resume, restart, rollback, delete | LangGraph's saver writes through it; status in the registry | every operation is several auto-committed statements; crashes between them | one head, head not lost, history immutable, no revival of what has ended |
| Investigation graph (`orchestrator/graph.py`, `nodes/`, `run-incident.py`) | the keys of `InvestigationState`, the next node | 17 nodes, routing, interrupts, the resume loop | calls the subgraphs; the human answers interrupts | cycles through critic and human, stale keys after a restart, supersteps | grounded reports, progress, closure |
| Triage and rca subgraphs (`triage_subgraph.py`, `rca_subgraph.py`) | message history, duplicates, fingerprints, hypothesis calls, completion flag | model node, tools node | called by the graph; call tools through the adapter | counters kept in part only, budgets inside one message, termination | a hard budget, an end |
| Tool framework (`tools/executor.py`, `langchain_adapter.py`) | budget, breakers, cache on an executor | a call with validation, attempts, timeout, cancellation | called by the subgraphs; runs tools | state read before an await and written after it | bounded attempts, exact breaker, answers reused, calls end |
| Playbook matching (`deterministic_matcher.py`, `semantic_evaluator.py`, `playbook_verifier.py`) | matches, facts, verdicts | match, evaluate, verify in parallel, resolve | nodes of the graph | verdicts accumulate over passes, facts are replaced | injected playbooks come with the facts of this pass |
| Scoring and convergence (`scoring_engine.py`, `rca_convergence.py`) | critic verdicts | score, evaluate, review | called by the scoring node | order of the overrides, boundaries | AMBIGUOUS when the evidence tells no hypothesis apart |
| Circuit breaker (`core/recovery/circuit_breaker/`) | state, failure count, time of opening | call | wraps a tool; shared by threads, no lock | half-open probes, late answers of earlier calls, lost counts | heals with its tool |
| Stage execution (`timeout_enforcer.py`, `investigation_clock.py`, `llm_retry/`) | clock, the waiting thread, the node's thread, retry counters | execute with timeout, retry, pause the clock | wraps nodes and agents | a node that outlives its timeout, three counters in one loop | the node runs alone, the stage returns |
| Artifact cache (`redis_artifact_cache_repository.py`) | bundle, in-progress sentinel | get, set, elect, clear | shared by workers | expiry, crashes, a late clear | one worker computes, everybody is served |
| Breaker and baseline repositories | one row per tool; statistics | upsert with version, reset, delete | shared by workers | lost updates, stale copies | no transition lost |
| Migrations (`migration_manager.py`) | recorded versions | migrate, roll back | processes share a database | versions are read once, others commit meanwhile | a run that returns has done as asked |
| Serializers, models, checkpointer adapter | the histories of an investigation | append to a log, to and from JSON, put, resume | checkpoints | counters beside logs, defaults on the way back, failing conversions | counters match logs; a put checkpoint has a state |
| Connected component analysis (`discovery_tools.py`) | none | cluster | called by triage | searches within searches, distances | clusters are the finest partition that keeps close components together |
| Other tools, prompts, provider, events, entry points | - | I/O | - | - | outside the model |

The full list, with the status of each, is in `PROJECT.json` under `components`;
`hazards` there lists what is hard to test, at its line.

## Modules

| Module | Models | State and actions |
|---|---|---|
| `InvestigationRegistry` | the registry table | one action per auto-committed statement, two for a claim: `Select` takes the snapshot and the locks, `CommitClaim` inserts and commits; `call[c]` is what a client has in hand between two statements: a claim and the rows it has selected, or an entity it has read |
| `LiveClaims` | what the registry promises | a symptom has at most one holder and is let go before it is acquired again; `ImplementsLiveClaims` maps the holder to the live row |
| `CheckpointStore` | one thread's checkpoints and the investigation's status | `op[c]` is where client c is in its operation; `Exclusive` says whether callers keep operations apart (nothing in the code does, so both are checked) |
| `CheckpointChain` | what the chain promises | append behind the head, rewind, lose the head, forget; numbers repeat after a rewind and begin again after a loss |
| `AgentLoop` | triage and rca, which differ only in budget and stopping condition | `stored` is what the graph state has of the counters, `local` what the tools node works with, `shared` whether the dict in hand is the state's own |
| `SubgraphCall` | what the graph sees of a subgraph | it returns one of its results or fails |
| `InvestigationGraph` | the graph and its human | one action runs one node with the routing behind it, one LangGraph superstep; `TriageReports`, `TriageLoopBreak`, `RcaReports`, `RcaForcedExit`, `RcaSilent` are the results of `SubgraphCall`, `Raise` its failure |
| `ToolExecution` | one executor and the adapter's tables on it | an action is what happens between two awaits |
| `BreakerStore` | the row of one tool in `circuit_breaker_state`, `CircuitBreakerState`'s transitions | get, evolve a copy, upsert, read back; reset and delete |
| `ArtifactCache` | one cache key and its sentinel | look, elect, store, clear; expiry, crash, loss |
| `SchemaMigrations` | `schema_migrations` and the processes that migrate or roll back | one transaction per version; `seen` is what a run has read at its start |
| `CircuitBreaker` | the in-memory breaker of one tool | one action per read or write of an attribute, so that threads interleave as the interpreter lets them |
| `StageExecution` | a stage: clock, enforcer with its executor, retry coordinator inside | the stage's thread and the node's thread take turns; `Tick` is time |
| `ComponentClusters` | `RunConnectedComponentAnalysisTool` | one action computes the answer, as the code's two nested searches do; both are recursive functions |
| `PlaybookMatching` | context assembly to triage, over several passes | one action per node; `VerifyPlaybook` is one of the parallel verifiers |
| `EvidenceScoring` | `deterministic_scoring`, scorer, evaluator, critic | scores are any shares that grow with the log odds; weights in tenths, entropy in thousandths |
| `StatePayload` | the logs of `InvestigationState`, their serializers, `aput` and `resume` | `Grow*` append to one log, `Aput` writes the payload, `Crash` and `Resume` lose and read it |

`MC*` modules are the instances for TLC, `*Proofs` the theorems. `MCAnalysis`,
`MCComponents` (which extends it) and `MCRecovery` put components side by side that
share no state: a behaviour chooses one of them at its start (`exercised`) and leaves
the others in their first state, so that the run has the sum of their states and not
the product. `MCComponents` has those about which only safety is claimed,
`MCRecovery` those that have to finish what they begin.

In each module a comment `Mutant:` marks a variant of the definition that follows
it: a plausible mistake in the code that the properties have to notice.
`PROJECT.json` names, for every property, the variant that breaks it.

### How the modules fit together

`AgentLoop` implements `SubgraphCall`, which `InvestigationGraph` takes for its two
subgraphs; `ToolExecution` is the call behind the loop's tools node.
`PlaybookMatching` and `EvidenceScoring` open up nodes that are one step of
`InvestigationGraph`: the graph lets routing see any outcome, the two modules say
which data lead to which. `StatePayload` opens up the payload that
`CheckpointStore` only classifies (sound, stale, timed out, absent).
`StageExecution` would wrap a node and `CircuitBreaker` a tool; the repository has
both, and no node or tool is called through them yet.

### The claim, and what PostgreSQL adds to it

`claim_with_dedup` selects the overlapping live rows `FOR UPDATE` and inserts, in one
SERIALIZABLE transaction. Any client may run between the two statements, and the
decision is taken on the rows of the snapshot. Two things that PostgreSQL does are
taken from its documentation and are all that keeps claims apart:

- Rows the select has returned are locked until the claim ends (`Locked`): whoever
  writes one waits.
- Of two claims, each of which inserts a live row that the select of the other would
  have returned, the second to commit is aborted (`Overtaken`); so is one whose id
  has been inserted since its snapshot. Aborts may also happen without a cause
  (`ClaimSerializationFailure`).

`save` and `update_status` run READ COMMITTED. They are outside the serializable
conflict graph, and a row they make live between select and insert is missed: the
claim is decided NEW beside it. `ClaimsSeeClaims` is therefore about rows that were
claimed and have been live ever since (the history variable `standing`); against
the other writers only the unique index holds, which `OneLivePerSymptom` is about.

### Three switches: `flagged`, `kept` and `declared`

LangGraph keeps the keys a state's TypedDict declares and drops the others.
Four keys the nodes rely on are not declared: the completion flags
`triage_completed` and `rca_completed`, and `evidence_items` (with
`unresolved_questions`). What the code does is therefore `flagged = FALSE` and
`kept = FALSE`. `AgentLoop` and `InvestigationGraph` have a constant `Runtimes` and
are checked and proved for both values. No property of a loop has `flagged` as its
condition: `CountedBudgetIsHard` and `ImplementsSubgraphCall` hold for the program as
it runs and for the nodes as they are written.

As the code is, triage cannot return at all (`SubgraphCall` only lets it fail, and
`AgentLoop` implements that), and every investigation that reaches triage fails
with LangGraph's recursion error. Nor is the budget of rca hard: an early return
drops the counts of its message together with the flag that should have ended the
run (`hard_budget`). What remains is that tools stay within the budgets from one loss
of the counters to the next, and that after the first full return of the tools node
nothing is lost any more, because the dict in hand is then the state's own.

`InvestigationGraph` is checked under the assumption that its subgraphs may return;
that includes everything the present code does, and the behaviour once the flags are
declared.

In the same way `InvestigationSerializer` names a field `tc_to_operation_map` that
`InvestigationState` does not declare: `declared = FALSE`. Every conversion then
raises, and every checkpoint that `aput` writes has an empty payload
(`put_is_kept`). `CountersMatchLogs` is checked for both values; its part about
appended records speaks of the program, its part about put, loss and resume only of
`declared = TRUE`.

## Runs

| Run | Shows |
|---|---|
| `registry` | two clients, two investigations, three alerts (twins apart in time, one window around both), two attempts per claim, two versions per row: `OneLivePerSymptom`, `VersionDeterminesStatus`, `ClaimsSeeClaims`, refinement of `LiveClaims` |
| `checkpoint_concurrent` | two clients interleaved statement by statement, three checkpoints: `HeadNeverLost`, `HistoryIsImmutable` |
| `checkpoint_exclusive` | one operation at a time with crashes, four checkpoints, payloads that forbid a resume: `AtMostOneLatest`, `PausedHasCheckpoint`, `ResumeRespectsEnd`, refinement of `CheckpointChain` |
| `investigation_graph` | all nodes and every answer of models and human: `UnattendedIsGrounded`, `SuperstepsSuffice`, liveness `ClosesUnlessKeptOpen` |
| `recovery` | an executor with two slots, two tools and an invalid request; three workers of a cache key; three threads in one breaker; one stage under clock and retries: `AttemptsAreBounded`, `BreakerCountsFailures`, `AnswersAreReused`, `ComputesAlone`, `NodeRunsAlone`, liveness `CallsEnd`, `AskedIsServed`, `HealsWithItsTool`, `StageReturns` |
| `components` | both subgraphs with messages of up to two calls; a breaker's row; the schema; clusters, playbooks, scores and payloads over all small inputs: `CountedBudgetIsHard`, refinement of `SubgraphCall`, `NoTransitionLost`, `RunsDoAsAsked`, `ClustersAreIncidents`, `InjectedComeWithFacts`, `IndifferenceShowsFromFour`, `CountersMatchLogs` |
| `two_heads` | two concurrent `write_checkpoint` calls leave two rows marked latest, which the interface says happens atomically |
| `sequence_grows` | one operation at a time: after a rollback a checkpoint repeats a number, and starts again at 0 after a torn one, where the model says that numbers increase within a thread |
| `submit_finishes` | a submitted report does not end the loop of a subgraph, although the nodes tell the model that it does |
| `hard_budget` | a forced exit loses the counts of its message, the run goes on, and tools are run past the budget that the tools node says it enforces |
| `put_is_kept` | a checkpoint that `aput` has put has no payload, although a comment says that none is dropped |
| `flat_prior` | two hypotheses with equal scores are not AMBIGUOUS, although the evaluator's comments call such a prior flat and ambiguous |

The last six are violations: the `findings` in `PROJECT.json` quote the lines the
code disagrees with.

### What the models made visible

Besides the six findings, these facts shaped the properties; each is stated at the
property or definition it belongs to.

- The entropy of n scores is divided by the logarithm of n + 1. A flat distribution
  of two or three hypotheses never passes the threshold of 0.85, so that the agent's
  choice stands however equal the scores are (the finding `flat_prior`); from four on
  it becomes AMBIGUOUS (`IndifferenceShowsFromFour`).
- A claim does not see what `save` or `update_status` make live after its select.
- A tool whose output json cannot write has answered, and is asked again: once more
  for each such answer (`AnswersAreReused` counts both).
- A structured answer of None ends a verifier, and with it the run, outside of its
  `try` (`VerdictMissing`).
- A `TimeoutError` that a node raises itself is taken for a timeout of the stage
  (`TakenFor`).
- The message that starts a verifier leaves `semantic_facts` out, and the verdict's
  `scenario_id` is only corrected when it is empty: a verifier may confirm another
  playbook than its own, and a confirmed playbook stays confirmed after the
  telemetry has changed (the two exceptions in `InjectedComeWithFacts`).
- A copy of a breaker with two transitions has a version two ahead; it may replace
  a row that somebody else has written since (the condition in `NoTransitionLost`).
- A worker that outlives its sentinel clears that of its successor (the condition in
  `ComputesAlone`).
- A timeout does not bound a stage: the executor's `with` block waits for the node
  (`StageReturns`), which is also what makes `NodeRunsAlone` hold.
- A round trip loses `healthy_components`, `discovered_topology_graph`,
  `dependencies_unknown` and the versions of the records inside a log; a
  second pause without a resume leaves an interval open for good, as
  `resume_hitl` closes only the last one.
- Pausing does not look at the status, and a repeated pause takes a checkpoint that
  was marked before a crash for a finished pause; no property objects to either. A
  concurrent resume may make an investigation active that has ended meanwhile.
  `PausedHasCheckpoint` and `ResumeRespectsEnd` speak of operations that do not
  overlap: the second then says no more than that the check is made.

### Bounds, and why they are enough

- Registry: races need two clients; the classification needs a twin, a window that
  overlaps and one that contains. `MaxVersion = 2` lets a row be written between a
  read and a write twice; the proofs do without any bound.
- Checkpoints: two heads need two writers and two rows, a rollback that demotes
  something newer needs three, one that follows a torn rollback four.
  `list_chain`'s limit of 1000 rows is the assumption `ChainFits`.
- Agent loop: limits 2 (duplicates), 2 and 3 (budgets) instead of 3, 5 and 15, so
  that each is reached inside one message and over several; six supersteps are
  three rounds (eight and four in the violations). The theorems hold for any limits.
- Graph: two evidence items and a threshold of 50 percent (one mismatch of two does
  not call the critic, two do); depth 2 instead of 3. `RecursionLimit = 14`
  instead of 25: the longest path between two answers has ten steps, which
  `NoRecursionError` proves for every limit above 10.
- Tools: budget 4, breaker 2, attempts 2, five calls, one more than the budget.
- Stores: two workers with threshold 2 and copies of up to two transitions, because
  a lost update needs a reader, a writer in between and one transition to lose;
  `MaxVersion = 3`. Three workers at a cache key (the slow one, its successor and the
  one let in by the late clear) and two faults. Two processes and three versions: a
  run can be overtaken before, at and after the version it considers. The theorems
  hold for any of these numbers.
- Recovery: three threads, so that a probe, a late failure and a late success meet;
  threshold 2 and open timeout 2 instead of 5 and 120. The stage has a budget of 4,
  a limit of 3 and retries 2, 1 and 1 instead of 3, 2 and 1; time runs to 6, past
  budget and timeout. Counts above the threshold and times above the timeout are
  cut off there: the code only compares them with it.
- Analysis: five components with up to four calls hold a chain of three degrees, two
  clusters joined by a component that is not affected, and ghosts. Five hosts
  separate the thresholds 0.1, 0.25, 0.3 and one half; two playbooks, two passes.
  Up to three findings with `MIN_EVIDENCE_DEPTH` 2 instead of 3, and 1, 2, 3, 4 or 6
  hypotheses, around the point where indifference begins to show. Three appended
  records and two crashes repeat a key, replace a stage's metrics and convert the
  converted.

Deadlock is not checked because every one of these systems may stop: ids and
versions run out, investigations and loops end, calls are used up, workers rest.

### Fairness

- `InvestigationGraph!FairSpec`: weak fairness of `Step` alone, as LangGraph runs the
  next node while there is one. The human is never fair, so an investigation may
  wait for ever, and `ClosesUnlessKeptOpen` says so. The critic's endless reminders
  are not excluded by it either: `CriticReminds` is a step.
- `ToolFairness`: weak fairness of each slot's `Attempt`;
  `asyncio.wait_for` ends every attempt and `asyncio.sleep` every pause.
- `CacheFairness`: a worker that has not crashed proceeds, and Redis expires a key
  that has a time to live. Nobody has to ask, and crashes are not fair.
- `CircuitFairness`: time passes, and each thread goes on calling. That the tool is
  sound again is the premise of `HealsWithItsTool`, not a fairness assumption.
- `StageFairness`: every call of the agent and every pause ends, and the enforcer
  goes on when its node is done. The timeout is not fair: `StageReturns` does not
  rest on it.

In `MCRecovery` these stand side by side. A component that is not exercised rests in
its first state, where nothing is to be finished and its fairness holds of itself;
only the threads of the breaker may always call, so that their fairness has the
condition that the breaker is exercised.

The other modules claim safety only.

## Proofs

Each proof module has inductive invariants, the proof that the initial states have
them and that every action keeps them, and the properties that follow. The theorems
hold for all values of the constants that satisfy the named assumptions of the
modules; TLC evaluates these in every run.

- `InvestigationRegistryProofs`: `TypeCorrect`, `CasSound`, `OneLive`, `NewSeesClaims`,
  `RegistryImplementsLiveClaims`. The invariant joins types, one live row per
  symptom, what a claim knows about the rows it has not selected (each row that was
  claimed and is live and in its window has been selected, or the claim is overtaken
  or will not add a live row) and the version argument: versions never fall, a held version is at most
  the row's, and equal versions mean equal status. It needs that no client holds an
  entity whose row has been deleted (the retention job comes long after).
- `CheckpointStoreProofs`: `CheckpointTypes`, `HeadIsKept`, `HistoryKept` for any
  clients, concurrent or not. History needs that the copies a rollback holds agree in
  sequence and payload with the table, even when other operations come in between.
  Under `Exclusive`: `OneHead`, `PausedKeepsCheckpoint` and `StoreImplementsChain`, the refinement of `CheckpointChain`. Their invariant
  (`ChainInv`) says what an operation knows between two statements: a write continues
  the head, a rollback has demoted nothing but the one former head and its target is
  stored, a resume that has passed its check meets a live investigation, a pause has
  a row. In the simulation the second statement of a write appends, the promotion at
  the end of a rollback rewinds, and everything in between is a stutter or the loss
  of the head.
- `AgentLoopProofs`: `LoopTypes`, `CountedBudgetHolds`, `LoopImplementsCall`. The
  executions since the counters were last lost are those that the dict in hand has
  been charged with, or fewer, with the flag and without it; so the check of a call
  against that dict, its sum included, is a check against these executions.
- `Sums`: lemmas about `SumFunctionOnSet` of the community modules, which the budgets,
  the calls per stage and the weights of the evidence add up with. The module defines
  it by a function that is recursive over subsets and takes the elements as CHOOSE
  gives them. That this function exists, that the order does not matter, that a sum is
  monotone and what a change of one summand does is proved by looking at a least
  set that would be an exception (`LeastSet`, from the well-foundedness of strict
  inclusion), because the library's induction theorems have an operator as parameter.
- `InvestigationGraphProofs`: `GraphTypes`, `UnattendedReports`, `NoRecursionError`. The invariant says for each node what must hold on the way to
  it; for the supersteps it gives each node a bound on the steps taken so far.
- `ToolExecutionProofs`: `ExecutionTypes`, `BreakersAreSound`, `OnlyLostAnswersAgain`:
  one call at a time, the failures seen at its start are still the count at its end,
  and a request that is not cached has only answers that were not written.
  `AttemptsStayBounded`, for calls that overlap in any way: the attempts made,
  together with those the calls under way may still make, are paid for by the calls
  that the budget has admitted.
- `StoresAndRecoveryProofs`: type correctness of the three stores, the breaker and the
  stage. `NoTransitionLostHolds` from `VersionsTellLineage` (a copy one version ahead
  of the row was made from this row, unless it carries several transitions: versions
  only grow while the row is not deleted); `ComputesAloneHolds` (as long as nobody has
  overrun, whoever computes or clears is the one the sentinel names);
  `RunsDoAsAskedHolds` (an up-run has left nothing unrecorded behind it unless
  somebody crossed it, and a down-run nothing recorded); `NodeRunsAloneHolds`, with a
  clock that never runs ahead of time.
- `AnalysisProofs`, one part for each of the four components of `MCAnalysis`, and
  `AnalysisTypes` for the four side by side:
  - *Clusters*: `ClustersTypeCorrect`, `ClustersAreIncidentsHolds`. The first search
    reaches what a walk of at most `MaxDegrees` calls leads to (`ReachedAreClose`,
    `CloseAreReached`), so that adjacency is closeness and symmetric. The second
    search ends at the least part that holds its start and all that is adjacent
    (`GrownFinishes`), which is the same part whichever of its components it starts
    from (`GrownFromAny`); hence the clusters are a partition and none can be divided.
    Both searches are recursive functions; that they exist is shown as in `Sums`.
  - *Matching*: `MatchingTypeCorrect`, `InjectedComeWithFactsHolds`. The facts are
    those of what fired in this pass from the evaluator to triage, and every verdict
    of this pass was given on a playbook that fired.
  - *Scoring*: `ScoringTypeCorrect`, `IndifferenceShowsHolds`. Indifferent evidence
    weighs nothing for or against any hypothesis, equal log odds have equal shares,
    and the entropy of equal shares passes the threshold from four on.
  - *Payload*: `PayloadTypeCorrect`, `CountersMatchLogsHolds`. Each operation keeps
    its own history adding up, each serializer writes a dictionary that adds up, and
    each deserializer reads such a dictionary into a history that does.

Type correctness of tool execution, the stores and the recovery modules is proved
and not checked by a run of its own. Every other invariant and every action property
of a passing run is both checked and the statement of a theorem, and so are the three
refinements; the exception is `ResumeRespectsEnd`, which TLC alone checks.

### Assumptions

The theorems rest on the named `ASSUME`s of the modules only. Those that are more
than types:

- checkpoint ids, hosts, playbooks and their rules, components, hypotheses, evidence
  and findings are finite sets, and `None` is neither an id, a row nor a number;
- `MaxPasses` is at least 1 (the graph assembles a context before it matches) and
  `ChainFits` keeps a thread below `list_chain`'s 1000 rows;
- there are one, two, three, four or six hypotheses in `EvidenceScoring`: scores are
  twelfths there, which five hypotheses cannot share evenly, and the logarithms of
  the entropy are a table. `IndifferenceShowsHolds` says nothing of five, or of more
  than six;
- `Exclusive` and `RecursionLimit > 10` are premises of the theorems they occur in.

That PostgreSQL locks and aborts as described above is part of the model of the
registry, not of its assumptions: `NewSeesClaims` rests on it.

### Only model-checked

The liveness properties `ClosesUnlessKeptOpen`, `CallsEnd`, `AskedIsServed`,
`HealsWithItsTool` and `StageReturns`: they rest on fairness, hence on ENABLED, which
the prover does not handle. `ResumeRespectsEnd` is
checked only: among exclusive operations it is the guard of `BeginResume`. The six
findings are counterexamples of TLC.

## Not modelled, and why

- Prompts, model answers and tool results are chosen freely from what their schemas
  allow.
- The tool interfaces other than the component analysis: SQL over DuckDB and
  statistics on data frames, without state or control that a model would show.
- The checkpoint repository's `delete` of a single row, which could take away the latest
  alone and leave the thread without a head: nothing in the code calls it.
- What the handler of the unique violation answers to the claimant: it is not state.
- The baseline repository: two statements that nothing calls; the loop prevention
  helpers, the degradation activator and the trace assessor: single expressions
  without a caller.
- `update_terminal_fields` and the read-only queries of the registry, `replay` and
  `snapshot` of the checkpoint manager, the tuples of the LangGraph adapter, and
  columns that no property tells apart.
- Events, telemetry, the DuckDB client, the language model provider, configuration,
  factories, scripts and tests: input, output and wiring.
- Numbers: scores are shares of twelve with the order of the log odds, not the values
  of an exponential; the signal strength of a match is an exact fraction.
