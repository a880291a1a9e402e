----------------------------- MODULE MCRecovery -----------------------------
(* Instances for TLC of the components that have to finish what they have  *)
(* begun: the tool executor, the artifact cache, the breaker of a tool and *)
(* the stage.  They share no state: a behaviour exercises one of them,     *)
(* chosen at its start, and leaves the others in their first state.        *)
EXTENDS ToolExecution, ArtifactCache, CircuitBreaker, StageExecution, TLC

(* Two requests of one tool, one of another, and one that is invalid.      *)
TwoTools == "a1" :> "a" @@ "a2" :> "a" @@ "a3" :> "a" @@ "b1" :> "b"

VARIABLE exercised

recoveryVars == <<exercised, toolVars, cacheVars, circuitVars, stageVars>>

RecoveryInit ==
  /\ exercised \in {"tools", "cache", "circuit", "stage"}
  /\ ToolInit /\ (exercised = "tools" \/ ~overlap)
  /\ CacheInit /\ CircuitInit /\ StageInit

Exercising(part) == exercised = part /\ UNCHANGED exercised

RecoveryNext ==
  \/ /\ Exercising("tools") /\ ToolNext
     /\ UNCHANGED <<cacheVars, circuitVars, stageVars>>
  \/ /\ Exercising("cache") /\ CacheNext
     /\ UNCHANGED <<toolVars, circuitVars, stageVars>>
  \/ /\ Exercising("circuit") /\ CircuitNext
     /\ UNCHANGED <<toolVars, cacheVars, stageVars>>
  \/ /\ Exercising("stage") /\ StageNext
     /\ UNCHANGED <<toolVars, cacheVars, circuitVars>>

(* A component in its first state has nothing to finish, so that the       *)
(* fairness of those that are not exercised holds of itself; but the       *)
(* threads of the breaker may call at any time.                            *)
ExercisedCircuitFairness ==
  /\ WF_circuitVars(exercised = "circuit" /\ TimePasses)
  /\ \A t \in Threads : WF_circuitVars(exercised = "circuit" /\ ThreadStep(t))

RecoverySpec ==
  /\ RecoveryInit /\ [][RecoveryNext]_recoveryVars
  /\ ToolFairness /\ CacheFairness /\ StageFairness /\ ExercisedCircuitFairness
=============================================================================
