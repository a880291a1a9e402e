--------------------------- MODULE SchemaMigrations ---------------------------
(***************************************************************************)
(* MigrationManager: processes that migrate one database up or roll it     *)
(* back, each after reading once which versions are recorded.              *)
(*                                                                         *)
(* A migration and its row of schema_migrations are one transaction, so    *)
(* that the tables of a version exist exactly when the version is          *)
(* recorded; a step is a transaction that commits.  up() creates what is   *)
(* not there and down() drops what is: the row decides about failure.      *)
(***************************************************************************)
EXTENDS Naturals, FiniteSets

CONSTANTS
  Processes,   \* processes that call migrate or rollback
  Latest       \* the migrations are 1..Latest (4), in the order of the list

ASSUME LatestAssumption == Latest \in Nat \ {0}

Versions == 1..Latest

VARIABLES
  recorded,   \* schema_migrations
  run,        \* what each process does
  crossed     \* history: did an opposite run commit since this run began

schemaVars == <<recorded, run, crossed>>

Resting == [at |-> "resting"]

(* A run towards a version; seen is applied, next the version it considers *)
(* next.  A run is done when it returns, and resting when it has failed.   *)
UpRuns == [at: {"up", "up_done"}, goal: 0..Latest, seen: SUBSET Versions,
           next: 1..Latest + 1]

DownRuns == [at: {"down", "down_done"}, goal: 0..Latest, seen: SUBSET Versions,
             next: 0..Latest]

SchemaTypeOK ==
  /\ recorded \subseteq Versions
  /\ run \in [Processes -> {Resting} \cup UpRuns \cup DownRuns]
  /\ crossed \in [Processes -> BOOLEAN]

Free(p) == run[p].at \notin {"up", "down"}

Begins(p, at, goal, first) ==
  /\ Free(p)
  /\ run' = [run EXCEPT ![p] = [at |-> at, goal |-> goal, seen |-> recorded, next |-> first]]
  /\ crossed' = [crossed EXCEPT ![p] = FALSE]
  /\ UNCHANGED recorded

(* migrate(target), or to the last version.                                *)
BeginMigrate(p, target) == Begins(p, "up", target, 1)

BeginRollback(p, version) == Begins(p, "down", version, Latest)

Considers(p, v) == run' = [run EXCEPT ![p].next = v]

Returns(p, at) ==
  /\ run' = [run EXCEPT ![p].at = at]
  /\ UNCHANGED <<recorded, crossed>>

(* A commit is seen by the runs of the other direction.                    *)
Crosses(others) ==
  crossed' = [q \in Processes |-> crossed[q] \/ run[q].at \in others]

-----------------------------------------------------------------------------
(* The next version is recorded already, as far as the run has read.       *)
SkipUp(p) ==
  /\ run[p].at = "up"
  /\ run[p].next \in run[p].seen
  /\ Considers(p, run[p].next + 1)
  /\ UNCHANGED <<recorded, crossed>>

(* Mutant: the target itself is not applied.                               *)
PendingBelow(p) == run[p].next \notin run[p].seen /\ run[p].next < run[p].goal

Pending(p) == run[p].next \notin run[p].seen /\ run[p].next <= run[p].goal

Apply(p) ==
  /\ run[p].at = "up"
  /\ Pending(p)
  /\ run[p].next \notin recorded
  /\ recorded' = recorded \cup {run[p].next}
  /\ Considers(p, run[p].next + 1)
  /\ Crosses({"down", "down_done"})

(* Somebody else has recorded the version meanwhile: the INSERT violates   *)
(* the primary key, the transaction is undone and migrate raises.          *)
ApplyTwice(p) ==
  /\ run[p].at = "up"
  /\ Pending(p)
  /\ run[p].next \in recorded
  /\ run' = [run EXCEPT ![p] = Resting]
  /\ UNCHANGED <<recorded, crossed>>

EndMigrate(p) ==
  /\ run[p].at = "up"
  /\ run[p].next \notin run[p].seen
  /\ ~Pending(p)
  /\ Returns(p, "up_done")

-----------------------------------------------------------------------------
SkipDown(p) ==
  /\ run[p].at = "down"
  /\ run[p].next \in Versions \ run[p].seen
  /\ Considers(p, run[p].next - 1)
  /\ UNCHANGED <<recorded, crossed>>

(* Rolling back what somebody else has rolled back drops and deletes       *)
(* nothing, and counts as done.                                            *)
Revert(p) ==
  /\ run[p].at = "down"
  /\ run[p].next \in run[p].seen
  /\ run[p].next > run[p].goal
  /\ recorded' = recorded \ {run[p].next}
  /\ Considers(p, run[p].next - 1)
  /\ Crosses({"up", "up_done"})

EndRollback(p) ==
  /\ run[p].at = "down"
  /\ run[p].next = 0 \/ (run[p].next \in run[p].seen /\ run[p].next <= run[p].goal)
  /\ Returns(p, "down_done")

(* The process dies, or its transaction fails and is undone.               *)
Fail(p) ==
  /\ run[p].at \in {"up", "down"}
  /\ run' = [run EXCEPT ![p] = Resting]
  /\ UNCHANGED <<recorded, crossed>>

SchemaInit ==
  /\ recorded = {}
  /\ run = [p \in Processes |-> Resting]
  /\ crossed = [p \in Processes |-> FALSE]

RunStep(p) ==
  \/ SkipUp(p) \/ Apply(p) \/ ApplyTwice(p) \/ EndMigrate(p)
  \/ SkipDown(p) \/ Revert(p) \/ EndRollback(p)

SchemaNext ==
  \E p \in Processes :
    \/ \E v \in 0..Latest : BeginMigrate(p, v) \/ BeginRollback(p, v)
    \/ RunStep(p)
    \/ Fail(p)

SchemaSpec == SchemaInit /\ [][SchemaNext]_schemaVars

-----------------------------------------------------------------------------
(* A run that returns has done what was asked, however many others run in  *)
(* the same direction: all versions up to the target are recorded, or none *)
(* above the version rolled back to, unless a run of the other direction   *)
(* has committed since it began.                                           *)
RunsDoAsAsked ==
  \A p \in Processes :
    ~crossed[p] =>
      /\ run[p].at = "up_done" => 1..run[p].goal \subseteq recorded
      /\ run[p].at = "down_done" => recorded \subseteq 1..run[p].goal
=============================================================================
