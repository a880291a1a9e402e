---------------------------- MODULE ToolExecution ----------------------------
(***************************************************************************)
(* Tool calls through the LangChain adapter and the tool executor: the     *)
(* call budget, the circuit breakers and the cache of answers that         *)
(* create_langchain_tool attaches to a ToolExecutor, and execute_tool with *)
(* its validation, its attempts and its timeout.                           *)
(*                                                                         *)
(* The adapter reads and writes its tables without a lock, and awaits the  *)
(* tool in between.  The subgraphs make one call after the other; overlap  *)
(* = TRUE is an executor whose calls run concurrently, as execute_parallel *)
(* runs them.  An action is what happens between two awaits.               *)
(***************************************************************************)
EXTENDS Naturals, FiniteSets

CONSTANTS
  Overlaps,      \* values of overlap: {FALSE} is the subgraphs' use
  Slots,         \* calls that can be in progress at a time
  ToolRequests,  \* tool name and arguments
  Tools,         \* tool names
  ToolOf,        \* the tool of a request
  Invalid,       \* requests whose arguments do not validate
  Budget,        \* calls of one executor (25)
  FailureLimit,  \* consecutive failures that disable a tool (3)
  MaxAttempts,   \* attempts of one call (3)
  MaxToolCalls   \* bound: calls that are made

ASSUME ToolAssumption ==
  /\ Overlaps \subseteq BOOLEAN
  /\ ToolOf \in [ToolRequests -> Tools]
  /\ Invalid \subseteq ToolRequests
  /\ Budget \in Nat /\ FailureLimit \in Nat \ {0} /\ MaxAttempts \in Nat \ {0}
  /\ MaxToolCalls \in Nat

VARIABLES
  overlap,  \* may calls of the executor be in progress together
  spend,    \* budget_spend
  fails,    \* circuit_breakers
  cache,    \* the requests dedup_cache has an answer for
  call,     \* what each slot does
  tries,    \* history: attempts of all calls
  streak,   \* history: calls of a tool that failed since one succeeded
  answers,  \* history: times a tool has answered a request
  unwritten \* history: those of them that json could not write

toolVars ==
  <<overlap, spend, fails, cache, call, tries, streak, answers, unwritten>>

NoCall == [at |-> "idle"]

(* A call in progress, its attempt and the failures it saw at its start.   *)
Trying == [at: {"trying"}, request: ToolRequests, seen: 0..FailureLimit - 1,
           attempt: 1..MaxAttempts]

ToolTypeOK ==
  /\ overlap \in Overlaps
  /\ spend \in 0..MaxToolCalls
  /\ fails \in [Tools -> 0..FailureLimit]
  /\ cache \subseteq ToolRequests \ Invalid
  /\ call \in [Slots -> {NoCall} \cup Trying]
  /\ tries \in Nat
  /\ streak \in [Tools -> Nat]
  /\ answers \in [ToolRequests -> Nat] /\ unwritten \in [ToolRequests -> Nat]

Busy(s) == call[s] # NoCall

-----------------------------------------------------------------------------
(* A call begins: it is counted, checked against the budget, the breaker   *)
(* and the cache, in this order.                                           *)
Admitted(s) ==
  /\ ~Busy(s)
  /\ overlap \/ \A t \in Slots : ~Busy(t)
  /\ spend < MaxToolCalls
  /\ spend' = spend + 1

(* Mutant: the budget is looked at one call too late.                      *)
WithinBudgetLate == spend <= Budget

WithinBudget == spend' <= Budget

BreakerOpen(tool) == fails[tool] >= FailureLimit

(* The call is over the budget, its tool disabled, or its answer known.    *)
Answer(s, r) ==
  /\ Admitted(s)
  /\ ~WithinBudget \/ BreakerOpen(ToolOf[r]) \/ r \in cache
  /\ UNCHANGED <<overlap, fails, cache, call, tries, streak, answers, unwritten>>

GoesToTool(r) == WithinBudget /\ ~BreakerOpen(ToolOf[r]) /\ r \notin cache

(* A failed call is written as one more than the failures it saw.          *)
CallFails(tool, seen) ==
  /\ fails' = [fails EXCEPT ![tool] = seen + 1]
  /\ streak' = [streak EXCEPT ![tool] = @ + 1]

(* Mutant: the failures a tool had before its last success are kept.       *)
ToolAnswersOnly(r) ==
  /\ UNCHANGED fails
  /\ streak' = [streak EXCEPT ![ToolOf[r]] = 0]

ToolAnswers(r) ==
  /\ fails' = [fails EXCEPT ![ToolOf[r]] = 0]
  /\ streak' = [streak EXCEPT ![ToolOf[r]] = 0]

(* Validation fails: no attempt is made.                                   *)
Reject(s, r) ==
  /\ Admitted(s)
  /\ GoesToTool(r)
  /\ r \in Invalid
  /\ CallFails(ToolOf[r], fails[ToolOf[r]])
  /\ UNCHANGED <<overlap, cache, call, tries, answers, unwritten>>

Start(s, r) ==
  /\ Admitted(s)
  /\ GoesToTool(r)
  /\ r \notin Invalid
  /\ call' = [call EXCEPT ![s] = [at |-> "trying", request |-> r,
                                  seen |-> fails[ToolOf[r]], attempt |-> 1]]
  /\ tries' = tries + 1
  /\ UNCHANGED <<overlap, fails, cache, streak, answers, unwritten>>

-----------------------------------------------------------------------------
(* The attempt under way ends.                                             *)

Finish(s) == call' = [call EXCEPT ![s] = NoCall]

(* Mutant: an answer is not remembered.                                    *)
SucceedUncached(s) ==
  /\ Busy(s)
  /\ ToolAnswers(call[s].request)
  /\ answers' = [answers EXCEPT ![call[s].request] = @ + 1]
  /\ Finish(s)
  /\ UNCHANGED <<overlap, spend, cache, tries, unwritten>>

Succeed(s) ==
  /\ Busy(s)
  /\ ToolAnswers(call[s].request)
  /\ cache' = cache \cup {call[s].request}
  /\ answers' = [answers EXCEPT ![call[s].request] = @ + 1]
  /\ Finish(s)
  /\ UNCHANGED <<overlap, spend, tries, unwritten>>

(* The tool succeeds with an output json cannot write: the breaker is      *)
(* reset, the answer lost, and the caller gets an exception.               *)
Unserializable(s) ==
  /\ Busy(s)
  /\ ToolAnswers(call[s].request)
  /\ answers' = [answers EXCEPT ![call[s].request] = @ + 1]
  /\ unwritten' = [unwritten EXCEPT ![call[s].request] = @ + 1]
  /\ Finish(s)
  /\ UNCHANGED <<overlap, spend, cache, tries>>

IsLastAttempt(s) == call[s].attempt = MaxAttempts

(* Mutant: a call that goes on retrying.                                   *)
RetryAnew(s) ==
  /\ Busy(s)
  /\ call' = [call EXCEPT ![s].attempt = IF IsLastAttempt(s) THEN 1 ELSE @ + 1]
  /\ UNCHANGED <<overlap, spend, fails, cache, tries, streak, answers, unwritten>>

(* The tool raises or exceeds its timeout; whatever the error code, it is  *)
(* tried again after a pause.                                              *)
Retry(s) ==
  /\ Busy(s)
  /\ ~IsLastAttempt(s)
  /\ call' = [call EXCEPT ![s].attempt = @ + 1]
  /\ tries' = tries + 1
  /\ UNCHANGED <<overlap, spend, fails, cache, streak, answers, unwritten>>

GiveUp(s) ==
  /\ Busy(s)
  /\ IsLastAttempt(s)
  /\ CallFails(ToolOf[call[s].request], call[s].seen)
  /\ Finish(s)
  /\ UNCHANGED <<overlap, spend, cache, tries, answers, unwritten>>

(* The call is cancelled, in an attempt or between two: an exception leaves *)
(* the adapter, and nothing is recorded.                                   *)
Cancel(s) ==
  /\ Busy(s)
  /\ Finish(s)
  /\ UNCHANGED <<overlap, spend, fails, cache, tries, streak, answers, unwritten>>

-----------------------------------------------------------------------------
ToolInit ==
  /\ overlap \in Overlaps
  /\ spend = 0
  /\ fails = [t \in Tools |-> 0]
  /\ cache = {}
  /\ call = [s \in Slots |-> NoCall]
  /\ tries = 0
  /\ streak = [t \in Tools |-> 0]
  /\ answers = [r \in ToolRequests |-> 0]
  /\ unwritten = [r \in ToolRequests |-> 0]

Attempt(s) == Succeed(s) \/ Unserializable(s) \/ Retry(s) \/ GiveUp(s)

ToolNext ==
  \E s \in Slots :
    \/ \E r \in ToolRequests : Answer(s, r) \/ Reject(s, r) \/ Start(s, r)
    \/ Attempt(s)
    \/ Cancel(s)

ToolSpec == ToolInit /\ [][ToolNext]_toolVars

(* asyncio.wait_for ends every attempt, and every pause ends.              *)
ToolFairness == \A s \in Slots : WF_toolVars(Attempt(s))

-----------------------------------------------------------------------------
(* However calls overlap, fail and are retried, a tool is never attempted  *)
(* more often than the budget times the attempts of a call.                *)
AttemptsAreBounded == tries <= Budget * MaxAttempts

(* Called one at a time, a breaker counts the calls that failed in a row   *)
(* (validation errors among them, cancelled calls not), so that a tool is  *)
(* disabled exactly after FailureLimit failures in a row and gets no       *)
(* further call.                                                           *)
BreakerCountsFailures == ~overlap => fails = streak

(* Called one at a time, a tool answers a request again only after answers *)
(* that json could not write, once more for each: an answer that was       *)
(* returned to the model always comes from dedup_cache afterwards, whatever *)
(* fails, is retried or cancelled in between.                              *)
AnswersAreReused ==
  ~overlap => \A r \in ToolRequests : answers[r] <= 1 + unwritten[r]

(* Every call ends: at an answer, at its last attempt or cancelled.        *)
CallsEnd == \A s \in Slots : Busy(s) ~> ~Busy(s)
=============================================================================
