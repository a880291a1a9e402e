----------------------------- MODULE StatePayload -----------------------------
(***************************************************************************)
(* What becomes of an investigation's histories between one checkpoint and *)
(* the resume that takes it up: InvestigationState and its nested logs     *)
(* grow by evolve, LangGraphCheckpointerAdapter.aput turns them into the   *)
(* payload of a checkpoint row, and ResumeManager.resume hydrates them.    *)
(*                                                                         *)
(* InvestigationSerializer names the field tc_to_operation_map, which      *)
(* InvestigationState does not declare, so that serialise and deserialise  *)
(* both raise: that is declared = FALSE.  TRUE is the program once the     *)
(* field is there.                                                         *)
(***************************************************************************)
EXTENDS Naturals, Sequences, FiniteSets, Functions

CONSTANTS
  Stages,         \* stage keys
  FailureTypes,   \* FailureType
  Declarations,   \* values of declared to consider
  MaxAppends,     \* bound: records that are appended
  MaxCrashes,     \* bound: how often the worker dies
  Nothing         \* None: no state, no history, NULL

ASSUME PayloadAssumption ==
  /\ Declarations \subseteq BOOLEAN
  /\ MaxAppends \in Nat /\ MaxCrashes \in Nat

VARIABLES
  declared,   \* whether InvestigationState has all fields its serializer names
  state,      \* the worker's InvestigationState
  payload,    \* of the latest checkpoint
  put,        \* history: a checkpoint has been put
  appended,   \* history: how many records have been appended
  crashes     \* history: how often the worker has died

payloadVars == <<declared, state, payload, put, appended, crashes>>

Histories == {"guardrails", "failure_history", "fallback_history", "metrics",
              "timeouts", "recovery"}

PayloadTypeOK ==
  /\ declared \in Declarations
  /\ state # Nothing =>
       DOMAIN state = Histories \cup {"version", "healthy_components"}
  /\ payload # Nothing => put /\ DOMAIN payload = Histories \cup {"version"}
  /\ put \in BOOLEAN
  /\ appended \in 0..MaxAppends /\ crashes \in 0..MaxCrashes

FallbackTypes == {"trace_degradation", "metric_fallback", "forced_exit_no_survivors"}

-----------------------------------------------------------------------------
(* The histories.  Each operation below is an evolve, and counts it.       *)
Evolve(s) == [s EXCEPT !.version = @ + 1]

(* dict[key] = value.                                                      *)
SetKey(dict, key, value) ==
  [k \in DOMAIN dict \cup {key} |-> IF k = key THEN value ELSE dict[k]]

Incremented(counts, key) ==
  SetKey(counts, key, (IF key \in DOMAIN counts THEN counts[key] ELSE 0) + 1)

Guardrails ==
  [version |-> 0, retry_log |-> <<>>, total_llm_retry_attempts |-> 0,
   tool_call_log |-> <<>>, tool_calls_per_stage |-> <<>>, stage_timings |-> <<>>]

AppendRetry(g, type) ==
  Evolve([g EXCEPT !.retry_log = Append(@, type), !.total_llm_retry_attempts = @ + 1])

(* A call that was closed has evolved once.                                *)
AppendToolCall(g, stage, closed) ==
  Evolve([g EXCEPT
    !.tool_call_log = Append(@, [stage |-> stage, version |-> IF closed THEN 1 ELSE 0]),
    !.tool_calls_per_stage = Incremented(@, stage)])

UpdateStageTiming(g, stage, status) ==
  Evolve([g EXCEPT !.stage_timings = SetKey(@, stage, status)])

Failures == [version |-> 0, events |-> <<>>, counts_by_type |-> <<>>]

AppendFailure(f, type) ==
  Evolve([f EXCEPT !.events = Append(@, type), !.counts_by_type = Incremented(@, type)])

Fallbacks ==
  [version |-> 0, activations |-> <<>>, trace_degradation_count |-> 0,
   forced_exit_count |-> 0]

AppendFallback(f, type) ==
  Evolve([f EXCEPT
    !.activations = Append(@, type),
    !.trace_degradation_count = @ + (IF type = "trace_degradation" THEN 1 ELSE 0),
    !.forced_exit_count = @ + (IF type = "forced_exit_no_survivors" THEN 1 ELSE 0)])

Metrics == [version |-> 0, stage_metrics |-> <<>>, total_tool_calls |-> 0]

(* The metrics of a stage replace its earlier ones; the total adds both.   *)
AddStage(m, stage, calls) ==
  Evolve([m EXCEPT !.stage_metrics = SetKey(@, stage, calls),
                   !.total_tool_calls = @ + calls])

Timeouts == [version |-> 0, hitl_pause_intervals |-> <<>>]

PauseHitl(t) == Evolve([t EXCEPT !.hitl_pause_intervals = Append(@, "open")])

(* Only the last interval is closed, and only if it is open.               *)
ResumeHitl(t) ==
  Evolve([t EXCEPT !.hitl_pause_intervals =
            IF @ = <<>> THEN @ ELSE [@ EXCEPT ![Len(@)] = "closed"]])

Recovery == [version |-> 0, recovery_actions |-> <<>>, hitl_escalated |-> FALSE]

AppendAction(r, type) ==
  Evolve([r EXCEPT !.recovery_actions = Append(@, type)])

MarkHitlEscalated(r) == Evolve([r EXCEPT !.hitl_escalated = TRUE])

-----------------------------------------------------------------------------
(* The serializers.  The records of a log are written without their        *)
(* version and read as new ones; counters and dictionaries are written     *)
(* next to the log they summarise.                                         *)
OrNothing(x, Op(_)) == IF x = Nothing THEN Nothing ELSE Op(x)

Unversioned(log) == [i \in DOMAIN log |-> log[i].stage]

SerialiseGuardrails(g) == [g EXCEPT !.tool_call_log = Unversioned(@)]

SerialiseFailures(f) ==
  [version |-> f.version, events |-> f.events, counts_by_type |-> f.counts_by_type]

SerialiseFallbacks(f) ==
  [version |-> f.version, activations |-> f.activations,
   trace_degradation_count |-> f.trace_degradation_count,
   forced_exit_count |-> f.forced_exit_count]

SerialiseMetrics(m) ==
  [version |-> m.version, stage_metrics |-> m.stage_metrics,
   total_tool_calls |-> m.total_tool_calls]

SerialiseTimeouts(t) ==
  [version |-> t.version, hitl_pause_intervals |-> t.hitl_pause_intervals]

SerialiseRecovery(r) ==
  [version |-> r.version, recovery_actions |-> r.recovery_actions,
   hitl_escalated |-> r.hitl_escalated]

DeserialiseGuardrails(j) ==
  [version |-> j.version, retry_log |-> j.retry_log,
   total_llm_retry_attempts |-> j.total_llm_retry_attempts,
   tool_call_log |-> [i \in DOMAIN j.tool_call_log |->
                        [stage |-> j.tool_call_log[i], version |-> 0]],
   tool_calls_per_stage |-> j.tool_calls_per_stage,
   stage_timings |-> j.stage_timings]

(* Mutant: the counts are left to their default.                           *)
DeserialiseFailuresUncounted(j) ==
  [version |-> j.version, events |-> j.events, counts_by_type |-> <<>>]

DeserialiseFailures(j) ==
  [version |-> j.version, events |-> j.events, counts_by_type |-> j.counts_by_type]

DeserialiseFallbacks(j) ==
  [version |-> j.version, activations |-> j.activations,
   trace_degradation_count |-> j.trace_degradation_count,
   forced_exit_count |-> j.forced_exit_count]

DeserialiseMetrics(j) ==
  [version |-> j.version, stage_metrics |-> j.stage_metrics,
   total_tool_calls |-> j.total_tool_calls]

DeserialiseTimeouts(j) ==
  [version |-> j.version, hitl_pause_intervals |-> j.hitl_pause_intervals]

DeserialiseRecovery(j) ==
  [version |-> j.version, recovery_actions |-> j.recovery_actions,
   hitl_escalated |-> j.hitl_escalated]

(* healthy_components is not among the fields that are written.            *)
Encoded(s) ==
  [version |-> s.version,
   guardrails |-> OrNothing(s.guardrails, SerialiseGuardrails),
   failure_history |-> OrNothing(s.failure_history, SerialiseFailures),
   fallback_history |-> OrNothing(s.fallback_history, SerialiseFallbacks),
   metrics |-> OrNothing(s.metrics, SerialiseMetrics),
   timeouts |-> OrNothing(s.timeouts, SerialiseTimeouts),
   recovery |-> OrNothing(s.recovery, SerialiseRecovery)]

Decoded(j) ==
  [version |-> j.version, healthy_components |-> FALSE,
   guardrails |-> OrNothing(j.guardrails, DeserialiseGuardrails),
   failure_history |-> OrNothing(j.failure_history, DeserialiseFailures),
   fallback_history |-> OrNothing(j.fallback_history, DeserialiseFallbacks),
   metrics |-> OrNothing(j.metrics, DeserialiseMetrics),
   timeouts |-> OrNothing(j.timeouts, DeserialiseTimeouts),
   recovery |-> OrNothing(j.recovery, DeserialiseRecovery)]

(* Whoever calls them turns an exception into None, and the row's payload  *)
(* into NULL.                                                              *)
Serialise(s) == IF declared /\ s # Nothing THEN Encoded(s) ELSE Nothing

Deserialise(j) == IF declared /\ j # Nothing THEN Decoded(j) ELSE Nothing

-----------------------------------------------------------------------------
Held(history, empty) == IF state[history] = Nothing THEN empty ELSE state[history]

(* The worker replaces one history by its successor.                       *)
Grow(history, successor) ==
  /\ appended < MaxAppends
  /\ appended' = appended + 1
  /\ state' = [Evolve(state) EXCEPT ![history] = successor]
  /\ UNCHANGED <<declared, payload, put, crashes>>

GrowGuardrails ==
  LET g == Held("guardrails", Guardrails)
  IN  \/ \E t \in FailureTypes : Grow("guardrails", AppendRetry(g, t))
      \/ \E s \in Stages, closed \in BOOLEAN :
           Grow("guardrails", AppendToolCall(g, s, closed))
      \/ \E s \in Stages, status \in {"completed", "timeout"} :
           Grow("guardrails", UpdateStageTiming(g, s, status))

GrowHistories ==
  \/ \E t \in FailureTypes :
       Grow("failure_history", AppendFailure(Held("failure_history", Failures), t))
  \/ \E t \in FallbackTypes :
       Grow("fallback_history", AppendFallback(Held("fallback_history", Fallbacks), t))
  \/ \E s \in Stages, calls \in 0..2 :
       Grow("metrics", AddStage(Held("metrics", Metrics), s, calls))
  \/ \E t \in FailureTypes :
       Grow("recovery", AppendAction(Held("recovery", Recovery), t))
  \/ Grow("recovery", MarkHitlEscalated(Held("recovery", Recovery)))
  \/ Grow("timeouts", PauseHitl(Held("timeouts", Timeouts)))

(* aput hydrates the channel values, and write_checkpoint serialises what  *)
(* that has given; neither keeps the channel values themselves.            *)
Aput ==
  /\ state # Nothing
  /\ payload' = Serialise(Deserialise(Encoded(state)))
  /\ put' = TRUE
  /\ UNCHANGED <<declared, state, appended, crashes>>

Crash ==
  /\ state # Nothing
  /\ crashes < MaxCrashes
  /\ crashes' = crashes + 1
  /\ state' = Nothing
  /\ UNCHANGED <<declared, payload, put, appended>>

(* ResumeManager.resume: without a state it raises.                        *)
Resume ==
  LET hydrated == Deserialise(payload)
  IN  /\ state = Nothing
      /\ hydrated # Nothing
      /\ state' = IF hydrated.timeouts = Nothing THEN Evolve(hydrated)
                  ELSE [Evolve(Evolve(hydrated)) EXCEPT !.timeouts = ResumeHitl(@)]
      /\ UNCHANGED <<declared, payload, put, appended, crashes>>

PayloadInit ==
  /\ declared \in Declarations
  /\ \E healthy \in BOOLEAN :
       state = [version |-> 0, healthy_components |-> healthy,
                guardrails |-> Nothing, failure_history |-> Nothing,
                fallback_history |-> Nothing, metrics |-> Nothing,
                timeouts |-> Nothing, recovery |-> Nothing]
  /\ payload = Nothing /\ put = FALSE /\ appended = 0 /\ crashes = 0

PayloadNext ==
  \/ state # Nothing /\ GrowGuardrails
  \/ state # Nothing /\ GrowHistories
  \/ Aput
  \/ Crash
  \/ Resume

PayloadSpec == PayloadInit /\ [][PayloadNext]_payloadVars

-----------------------------------------------------------------------------
(* Counters kept so that nobody has to walk the log agree with it, however *)
(* often the investigation has been put, lost and resumed: attempts, calls *)
(* per stage, failures per type and fallbacks.  The total of the calls     *)
(* covers at least the stages that are listed (append_retry,               *)
(* append_tool_call, append, add_stage and their serializers).             *)
Occurrences(log, x) == Cardinality({i \in DOMAIN log : log[i] = x})

SumsUp(counts, log) ==
  /\ \A k \in DOMAIN counts : counts[k] = Occurrences(log, k)
  /\ \A i \in DOMAIN log : log[i] \in DOMAIN counts

GuardrailsAddUp(g) ==
  /\ g.total_llm_retry_attempts = Len(g.retry_log)
  /\ SumsUp(g.tool_calls_per_stage, Unversioned(g.tool_call_log))

FallbacksAddUp(f) ==
  /\ f.trace_degradation_count = Occurrences(f.activations, "trace_degradation")
  /\ f.forced_exit_count = Occurrences(f.activations, "forced_exit_no_survivors")

MetricsCover(m) == m.total_tool_calls >= SumFunction(m.stage_metrics)

CountersMatchLogs ==
  state # Nothing =>
    /\ state.guardrails # Nothing => GuardrailsAddUp(state.guardrails)
    /\ state.failure_history # Nothing =>
         SumsUp(state.failure_history.counts_by_type, state.failure_history.events)
    /\ state.fallback_history # Nothing => FallbacksAddUp(state.fallback_history)
    /\ state.metrics # Nothing => MetricsCover(state.metrics)

(* Once a checkpoint has been put, the thread's latest checkpoint has a    *)
(* state to resume from ("Store raw anyway - never drop a checkpoint",     *)
(* aput).                                                                  *)
PutIsKept == put => payload # Nothing
=============================================================================
