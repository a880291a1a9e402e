----------------------------- MODULE BreakerStore -----------------------------
(***************************************************************************)
(* The circuit breaker of one tool as a row of circuit_breaker_state, and  *)
(* the workers that read it, apply transitions of CircuitBreakerState to   *)
(* their copy and write the copy back with an upsert guarded by version.   *)
(*                                                                         *)
(* Every statement of the repository commits on its own: get_by_tool, the  *)
(* upsert and the get_by_tool behind it are three steps.  Rows of other    *)
(* tools are not touched, except by reset_all, which treats all alike.     *)
(***************************************************************************)
EXTENDS Naturals, FiniteSets

CONSTANTS
  Workers,      \* processes that share the table
  Threshold,    \* failure_threshold (5)
  MaxEvolves,   \* bound: transitions a worker applies to one copy
  MaxVersion,   \* bound: version of a row
  NoRow         \* the tool has no row

ASSUME BreakerStoreAssumption ==
  /\ Threshold \in Nat \ {0}
  /\ MaxEvolves \in Nat /\ MaxVersion \in Nat

Statuses == {"closed", "open", "half_open"}

(* CircuitBreakerState; the instants are left to the choice of when        *)
(* try_half_open finds the timeout elapsed.                                *)
Breaker == [status: Statuses, count: Nat, opens: Nat, closes: Nat, version: Nat]

ASSUME NoRowAssumption == NoRow \notin Breaker

Fresh == [status |-> "closed", count |-> 0, opens |-> 0, closes |-> 0, version |-> 0]

VARIABLES
  row,      \* the row of the tool
  copy,     \* the copy each worker holds
  deleted   \* history: the row has been deleted

breakerVars == <<row, copy, deleted>>

Idle == [at |-> "idle"]

(* evolved counts the transitions applied to what was read.                *)
Holding == [at: {"holding"}, state: Breaker, read: Breaker \cup {NoRow},
            evolved: 0..MaxEvolves]

Saved == [at: {"saved"}, state: Breaker]

BreakerStoreTypeOK ==
  /\ row \in Breaker \cup {NoRow}
  /\ copy \in [Workers -> {Idle} \cup Holding \cup Saved]
  /\ deleted \in BOOLEAN

-----------------------------------------------------------------------------
(* The transitions of CircuitBreakerState; each is an evolve.              *)

Evolved(s) == [s EXCEPT !.version = @ + 1]

Trips(s) == s.status = "half_open" \/ (s.status = "closed" /\ s.count + 1 >= Threshold)

RecordFailure(s) ==
  IF Trips(s)
    THEN [Evolved(s) EXCEPT !.count = @ + 1, !.status = "open", !.opens = @ + 1]
    ELSE [Evolved(s) EXCEPT !.count = @ + 1]

RecordSuccess(s) ==
  IF s.status = "closed"
    THEN [Evolved(s) EXCEPT !.count = 0]
    ELSE [Evolved(s) EXCEPT !.count = 0, !.status = "closed", !.closes = @ + 1]

(* The timeout of an open breaker has elapsed; else the copy is kept.      *)
HalfOpen(s) == [Evolved(s) EXCEPT !.status = "half_open"]

Transitions(s) ==
  {RecordFailure(s), RecordSuccess(s)} \cup (IF s.status = "open" THEN {HalfOpen(s)} ELSE {})

-----------------------------------------------------------------------------
(* What get_by_tool finds; a worker that finds nothing starts afresh.      *)
Found(r) == IF r = NoRow THEN Fresh ELSE r

Copied(r) == [at |-> "holding", state |-> Found(r), read |-> r, evolved |-> 0]

Get(w) ==
  /\ copy[w] = Idle
  /\ copy' = [copy EXCEPT ![w] = Copied(row)]
  /\ UNCHANGED <<row, deleted>>

EvolveCopy(w) ==
  /\ copy[w].at = "holding"
  /\ copy[w].evolved < MaxEvolves
  /\ \E s \in Transitions(copy[w].state) :
       copy' = [copy EXCEPT ![w].state = s, ![w].evolved = @ + 1]
  /\ UNCHANGED <<row, deleted>>

(* Mutant: any copy that is not older than the row replaces it.            *)
UpsertedUnlessOlder(s) ==
  IF row = NoRow THEN s
  ELSE IF row.version <= s.version THEN [s EXCEPT !.version = row.version + 1]
  ELSE row

(* INSERT ... ON CONFLICT (tool_name) DO UPDATE ... WHERE version = $13 - 1 *)
Upserted(s) ==
  IF row = NoRow THEN s
  ELSE IF row.version + 1 = s.version THEN [s EXCEPT !.version = row.version + 1]
  ELSE row

Upsert(w) ==
  /\ copy[w].at = "holding"
  /\ copy[w].state.version <= MaxVersion
  /\ row' = Upserted(copy[w].state)
  /\ copy' = [copy EXCEPT ![w] = [at |-> "saved", state |-> copy[w].state]]
  /\ UNCHANGED deleted

(* The upsert returns the row it finds now, whoever wrote it, and the copy *)
(* itself when there is none.                                              *)
ReadBack(w) ==
  /\ copy[w].at = "saved"
  /\ copy' = [copy EXCEPT ![w] =
       IF row = NoRow THEN [Copied(row) EXCEPT !.state = copy[w].state] ELSE Copied(row)]
  /\ UNCHANGED <<row, deleted>>

(* The worker is done with its copy, or crashes.                           *)
Drop(w) ==
  /\ copy[w] # Idle
  /\ copy' = [copy EXCEPT ![w] = Idle]
  /\ UNCHANGED <<row, deleted>>

Reset(r) == [Evolved(r) EXCEPT !.status = "closed", !.count = 0]

ResetAll ==
  /\ row # NoRow
  /\ row.version < MaxVersion
  /\ row' = Reset(row)
  /\ UNCHANGED <<copy, deleted>>

Delete ==
  /\ row # NoRow
  /\ row' = NoRow
  /\ deleted' = TRUE
  /\ UNCHANGED copy

BreakerStoreInit ==
  /\ row = NoRow
  /\ copy = [w \in Workers |-> Idle]
  /\ deleted = FALSE

WorkerStep(w) == Get(w) \/ EvolveCopy(w) \/ Upsert(w) \/ ReadBack(w) \/ Drop(w)

BreakerStoreNext == (\E w \in Workers : WorkerStep(w)) \/ ResetAll \/ Delete

BreakerStoreSpec == BreakerStoreInit /\ [][BreakerStoreNext]_breakerVars

-----------------------------------------------------------------------------
(* The rows one transition away from a row.                                *)
Successors(r) ==
  Transitions(Found(r)) \cup (IF r = NoRow THEN {Fresh} ELSE {Reset(r)})

Saves(w) == copy[w].at = "holding" /\ copy'[w].at = "saved"

(* No update is lost: while the row is not deleted, whatever the workers   *)
(* do in between, a copy to which one transition was applied replaces the  *)
(* row only by a row one transition away from it, as if the transition had *)
(* been applied to the row itself.  A copy with two transitions has the    *)
(* version two ahead and may replace the row of somebody else.             *)
NoTransitionLost ==
  [][\A w \in Workers :
       Saves(w) /\ copy[w].evolved <= 1 /\ ~deleted =>
         row' = row \/ row' \in Successors(row)]_breakerVars
=============================================================================
