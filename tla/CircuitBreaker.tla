---------------------------- MODULE CircuitBreaker ----------------------------
(***************************************************************************)
(* The in-memory circuit breaker of one tool, called by several threads.   *)
(*                                                                         *)
(* The breaker has no lock: a step reads or writes one of its attributes,  *)
(* and the threads take turns between any two steps.  The registry hands   *)
(* the same breaker to everybody who asks for the tool.                    *)
(***************************************************************************)
EXTENDS Naturals, FiniteSets

CONSTANTS
  Threads,            \* threads that call the tool
  FailureThreshold,   \* failure_threshold (5)
  OpenTimeout         \* open_timeout_s (120), in ticks

ASSUME CircuitBreakerAssumption ==
  FailureThreshold \in Nat \ {0} /\ OpenTimeout \in Nat \ {0}

VARIABLES
  state,      \* self.state
  failures,   \* self.failure_count, counted up to the threshold
  openFor,    \* the time since self.open_since, counted up to the timeout
  thread      \* where in call() each thread is

circuitVars == <<state, failures, openFor, thread>>

(* seen is the count that "failure_count += 1" has read.                   *)
Steps == {"away", "timing", "halving", "admitting", "calling", "failed", "counting",
          "judging", "comparing", "opening", "stamping", "succeeded", "closing",
          "clearing"}

CircuitTypeOK ==
  /\ state \in {"closed", "open", "half_open"}
  /\ failures \in 0..FailureThreshold
  /\ openFor \in 0..OpenTimeout
  /\ thread \in [Threads -> [at: Steps, seen: 0..FailureThreshold]]

At(t, step) == thread[t].at = step

Moves(t, step) == thread' = [thread EXCEPT ![t].at = step]

-----------------------------------------------------------------------------
(* _check_state                                                            *)

Check(t) ==
  /\ At(t, "away")
  /\ Moves(t, IF state = "open" THEN "timing" ELSE "admitting")
  /\ UNCHANGED <<state, failures, openFor>>

(* The timeout has passed, or not.                                         *)
CheckTime(t) ==
  /\ At(t, "timing")
  /\ Moves(t, IF openFor = OpenTimeout THEN "halving" ELSE "admitting")
  /\ UNCHANGED <<state, failures, openFor>>

Halve(t) ==
  /\ At(t, "halving")
  /\ state' = "half_open"
  /\ Moves(t, "admitting")
  /\ UNCHANGED <<failures, openFor>>

(* Mutant: the call that is refused is counted as a failure.               *)
AdmitOrFail(t) ==
  /\ At(t, "admitting")
  /\ Moves(t, IF state = "open" THEN "failed" ELSE "calling")
  /\ UNCHANGED <<state, failures, openFor>>

(* CircuitOpenException is raised before the try: it is not recorded.      *)
Admit(t) ==
  /\ At(t, "admitting")
  /\ Moves(t, IF state = "open" THEN "away" ELSE "calling")
  /\ UNCHANGED <<state, failures, openFor>>

(* The tool raises, or returns a dict with an error.                       *)
ToolFails(t) ==
  /\ At(t, "calling")
  /\ Moves(t, "failed")
  /\ UNCHANGED <<state, failures, openFor>>

ToolSucceeds(t) ==
  /\ At(t, "calling")
  /\ Moves(t, "succeeded")
  /\ UNCHANGED <<state, failures, openFor>>

-----------------------------------------------------------------------------
(* _record_success                                                         *)

SeeHalfOpen(t) ==
  /\ At(t, "succeeded")
  /\ Moves(t, IF state = "half_open" THEN "closing" ELSE "clearing")
  /\ UNCHANGED <<state, failures, openFor>>

Close(t) ==
  /\ At(t, "closing")
  /\ state' = "closed"
  /\ Moves(t, "clearing")
  /\ UNCHANGED <<failures, openFor>>

ClearFailures(t) ==
  /\ At(t, "clearing")
  /\ failures' = 0
  /\ Moves(t, "away")
  /\ UNCHANGED <<state, openFor>>

-----------------------------------------------------------------------------
(* _record_failure                                                         *)

ReadFailures(t) ==
  /\ At(t, "failed")
  /\ thread' = [thread EXCEPT ![t] = [at |-> "counting", seen |-> failures]]
  /\ UNCHANGED <<state, failures, openFor>>

CountFailure(t) ==
  /\ At(t, "counting")
  /\ failures' = IF thread[t].seen = FailureThreshold THEN FailureThreshold
                 ELSE thread[t].seen + 1
  /\ thread' = [thread EXCEPT ![t] = [at |-> "judging", seen |-> 0]]
  /\ UNCHANGED <<state, openFor>>

Judge(t) ==
  /\ At(t, "judging")
  /\ Moves(t, IF state = "half_open" THEN "opening" ELSE "comparing")
  /\ UNCHANGED <<state, failures, openFor>>

Compare(t) ==
  /\ At(t, "comparing")
  /\ Moves(t, IF failures = FailureThreshold THEN "opening" ELSE "away")
  /\ UNCHANGED <<state, failures, openFor>>

Open(t) ==
  /\ At(t, "opening")
  /\ state' = "open"
  /\ Moves(t, "stamping")
  /\ UNCHANGED <<failures, openFor>>

Stamp(t) ==
  /\ At(t, "stamping")
  /\ openFor' = 0
  /\ Moves(t, "away")
  /\ UNCHANGED <<state, failures>>

(* Time passes.                                                            *)
TimePasses ==
  /\ openFor < OpenTimeout
  /\ openFor' = openFor + 1
  /\ UNCHANGED <<state, failures, thread>>

(* open_since is 0.0 at first: that is long ago.                           *)
CircuitInit ==
  /\ state = "closed"
  /\ failures = 0
  /\ openFor = OpenTimeout
  /\ thread = [t \in Threads |-> [at |-> "away", seen |-> 0]]

Recording(t) ==
  \/ SeeHalfOpen(t) \/ Close(t) \/ ClearFailures(t)
  \/ ReadFailures(t) \/ CountFailure(t) \/ Judge(t) \/ Compare(t) \/ Open(t)
  \/ Stamp(t)

ThreadStep(t) ==
  \/ Check(t) \/ CheckTime(t) \/ Halve(t) \/ Admit(t)
  \/ ToolFails(t) \/ ToolSucceeds(t)
  \/ Recording(t)

CircuitNext == (\E t \in Threads : ThreadStep(t)) \/ TimePasses

(* Time passes, every call of the tool ends, and somebody goes on calling. *)
CircuitFairness ==
  WF_circuitVars(TimePasses) /\ \A t \in Threads : WF_circuitVars(ThreadStep(t))

CircuitSpec == CircuitInit /\ [][CircuitNext]_circuitVars /\ CircuitFairness

-----------------------------------------------------------------------------
(* The breaker heals: when the tool fails no more, the breaker ends up     *)
(* closed and stays so, whatever the threads that raced with each other    *)
(* have left in its attributes: late failures, lost counts, a half-open    *)
(* breaker with several probes, an open one without its time.              *)
HealsWithItsTool ==
  <>[][\A t \in Threads : ~ToolFails(t)]_circuitVars => <>[](state = "closed")
=============================================================================
