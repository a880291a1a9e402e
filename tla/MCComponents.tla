---------------------------- MODULE MCComponents ----------------------------
(* Instances for TLC of the components about which only safety is checked: *)
(* the loop of a subgraph, the breakers' rows, the schema migrations and   *)
(* the four parts of the analysis.  They share no state: a behaviour       *)
(* exercises one of them, chosen at its start, and leaves the others in    *)
(* their first state.                                                      *)
EXTENDS MCAnalysis, MCAgentLoop, BreakerStore, SchemaMigrations

componentVars == <<analysisVars, vars, breakerVars, schemaVars>>

LoopRests == stage = "triage" /\ ~flagged /\ decisive = {} /\ surviving = {}

ComponentsInit ==
  /\ exercised \in {"clusters", "matching", "scoring", "payload",
                    "loop", "breaker", "schema"}
  /\ AnalysisPartsInit
  /\ Init /\ (exercised = "loop" \/ LoopRests)
  /\ BreakerStoreInit /\ SchemaInit

ComponentsNext ==
  \/ AnalysisNext /\ UNCHANGED <<vars, breakerVars, schemaVars>>
  \/ /\ UNCHANGED <<clustersVars, matchingVars, scoringVars, payloadVars>>
     /\ \/ Exercising("loop") /\ Next /\ UNCHANGED <<breakerVars, schemaVars>>
        \/ Exercising("breaker") /\ BreakerStoreNext /\ UNCHANGED <<vars, schemaVars>>
        \/ Exercising("schema") /\ SchemaNext /\ UNCHANGED <<vars, breakerVars>>

ComponentsSpec == ComponentsInit /\ [][ComponentsNext]_componentVars
=============================================================================
