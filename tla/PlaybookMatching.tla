--------------------------- MODULE PlaybookMatching ---------------------------
(***************************************************************************)
(* The nodes between context assembly and triage: the matcher scores every *)
(* playbook against the KPI categories of the components, the evaluator    *)
(* checks the rules of those that fired, the strong ones are verified in   *)
(* parallel, and triage is told of the confirmed ones.  A human may send   *)
(* the investigation back to context assembly, so that the nodes run       *)
(* again: match_results and semantic_facts are then replaced, while        *)
(* playbook_verdicts is appended to.                                       *)
(***************************************************************************)
EXTENDS Naturals, FiniteSets

CONSTANTS
  Hosts,         \* cmdb_ids
  KpiMaps,       \* what the telemetry may say: hosts -> sets of categories
  Categories,    \* KPI categories, "jvm" among them
  Registry,      \* PLAYBOOK_REGISTRY: playbooks [id, tier, categories, rules]
  MaxPasses      \* bound: how often context assembly runs

ASSUME MatchingAssumption ==
  /\ IsFiniteSet(Hosts) /\ IsFiniteSet(Registry)
  /\ \A kpi_map \in KpiMaps :
       \A c \in DOMAIN kpi_map : c \in Hosts /\ kpi_map[c] \subseteq Categories
  /\ \A p \in Registry : p.categories \subseteq Categories /\ IsFiniteSet(p.rules)
  /\ MaxPasses \in Nat \ {0}

VARIABLES
  at,         \* the node to run next; "failed" once a node has raised
  pass,       \* how often context assembly has run
  kpis,       \* discovered_kpi_map: the components' categories
  results,    \* match_results, as [playbook, num, den, fired]
  facts,      \* semantic_facts: the rules, and the pass whose telemetry they judge
  sent,       \* playbooks whose verifier runs
  verdicts    \* playbook_verdicts, as [pass, candidate, names, confirmed]

matchingVars == <<at, pass, kpis, results, facts, sent, verdicts>>

Rules == UNION {p.rules : p \in Registry}

(* Nobody tells refuted from inconclusive, or reads what they name.        *)
Verdicts == [pass: 1..MaxPasses, candidate: Registry, names: Registry,
             confirmed: BOOLEAN]

MatchingTypeOK ==
  /\ at \in {"context_assembly", "matcher", "evaluator", "route", "verify", "triage",
            "failed"}
  /\ pass \in 0..MaxPasses
  /\ kpis \in KpiMaps \cup {<<>>}
  /\ \A r \in results : r.playbook \in Registry /\ r.num \in Nat /\ r.den \in Nat
  /\ facts \subseteq Rules \X (1..MaxPasses)
  /\ sent \subseteq Registry
  /\ verdicts \subseteq Verdicts

-----------------------------------------------------------------------------
(* The KPIs that the telemetry has for each component.                     *)
ContextAssembly ==
  /\ at = "context_assembly"
  /\ pass' = pass + 1
  /\ kpis' \in KpiMaps
  /\ at' = "matcher"
  /\ UNCHANGED <<results, facts, sent, verdicts>>

Having(categories) == Cardinality({c \in DOMAIN kpis : kpis[c] \cap categories # {}})

(* The share of components with one of the playbook's categories.  CPU     *)
(* counts half where more than half of the components have JVM anomalies.  *)
Strength(p) ==
  LET total == Cardinality(DOMAIN kpis)
      discounted == p.id = "high_cpu" /\ 2 * Having({"jvm"}) > total
  IN  IF total = 0 THEN [num |-> 0, den |-> 1]
      ELSE [num |-> Having(p.categories),
            den |-> IF discounted THEN 2 * total ELSE total]

ThresholdTenths(p) == IF p.tier = "easy" THEN 3 ELSE 1

MatchPlaybook(p) ==
  LET s == Strength(p)
  IN  [playbook |-> p, num |-> s.num, den |-> s.den,
       fired |-> 10 * s.num >= ThresholdTenths(p) * s.den]

Matcher ==
  /\ at = "matcher"
  /\ results' = {MatchPlaybook(p) : p \in Registry}
  /\ at' = "evaluator"
  /\ UNCHANGED <<pass, kpis, facts, sent, verdicts>>

Fired == {r.playbook : r \in {s \in results : s.fired}}

(* Mutant: a rule is evaluated only once in an investigation.              *)
EvaluatorOnceForAll ==
  /\ at = "evaluator"
  /\ facts' = {<<r, pass>> : r \in {s \in UNION {p.rules : p \in Fired} :
                                       \A n \in 1..MaxPasses : <<s, n>> \notin facts}}
  /\ at' = "route"
  /\ UNCHANGED <<pass, kpis, results, sent, verdicts>>

(* Every rule of the playbooks that fired gives one fact, also when the    *)
(* query fails or its type is not supported.                               *)
Evaluator ==
  /\ at = "evaluator"
  /\ facts' = {<<r, pass>> : r \in UNION {p.rules : p \in Fired}}
  /\ at' = "route"
  /\ UNCHANGED <<pass, kpis, results, sent, verdicts>>

(* SIGNAL_FLOOR is 0.25.                                                   *)
Candidates ==
  {r.playbook : r \in {s \in results : s.fired /\ 4 * s.num >= s.den}}

(* Mutant: without a candidate the route names a node the graph has not.   *)
RouteToVerifiersAstray ==
  /\ at = "route"
  /\ sent' = Candidates
  /\ at' = IF Candidates = {} THEN "triage_agent" ELSE "verify"
  /\ UNCHANGED <<pass, kpis, results, facts, verdicts>>

RouteToVerifiers ==
  /\ at = "route"
  /\ sent' = Candidates
  /\ at' = IF Candidates = {} THEN "triage" ELSE "verify"
  /\ UNCHANGED <<pass, kpis, results, facts, verdicts>>

(* A verifier confirms, refutes, or fails (inconclusive).  Its verdict may *)
(* name another playbook than the one it was to verify: the node corrects  *)
(* only an empty name.  It is not given the facts, which the message that  *)
(* starts it leaves out.                                                   *)
VerifyPlaybook(p) ==
  /\ at = "verify"
  /\ p \in sent
  /\ \E confirmed \in BOOLEAN : \E named \in (IF confirmed THEN Registry ELSE {p}) :
       verdicts' = verdicts \cup
         {[pass |-> pass, candidate |-> p, names |-> named, confirmed |-> confirmed]}
  /\ sent' = sent \ {p}
  /\ UNCHANGED <<at, pass, kpis, results, facts>>

(* A structured answer without a verdict is None: to correct its empty     *)
(* name raises, outside of the try, and ends the run.                      *)
VerdictMissing(p) ==
  /\ at = "verify"
  /\ p \in sent
  /\ at' = "failed"
  /\ UNCHANGED <<pass, kpis, results, facts, sent, verdicts>>

(* resolve_verdicts, once all verifiers have answered: all of its three    *)
(* answers lead to triage.                                                 *)
ResolveVerdicts ==
  /\ at = "verify"
  /\ sent = {}
  /\ at' = "triage"
  /\ UNCHANGED <<pass, kpis, results, facts, sent, verdicts>>

(* What triage is told to reckon with, whichever pass has confirmed it.    *)
Confirmed == {v \in verdicts : v.confirmed}

InjectedPlaybooks == {v.names : v \in Confirmed}

RestartContext ==
  /\ at = "triage"
  /\ pass < MaxPasses
  /\ at' = "context_assembly"
  /\ UNCHANGED <<pass, kpis, results, facts, sent, verdicts>>

-----------------------------------------------------------------------------
MatchingInit ==
  /\ at = "context_assembly" /\ pass = 0
  /\ kpis = <<>> /\ results = {} /\ facts = {} /\ sent = {} /\ verdicts = {}

MatchingNext ==
  \/ ContextAssembly
  \/ Matcher
  \/ Evaluator
  \/ RouteToVerifiers
  \/ \E p \in Registry : VerifyPlaybook(p) \/ VerdictMissing(p)
  \/ ResolveVerdicts
  \/ RestartContext

MatchingSpec == MatchingInit /\ [][MatchingNext]_matchingVars

-----------------------------------------------------------------------------
(* Triage is told the facts along with the confirmed playbooks: none of    *)
(* the facts is older than the telemetry of this pass, and every rule of   *)
(* an injected playbook has one, unless the playbook owes its place to an  *)
(* earlier pass or to the verifier of another.  Matcher, evaluator and     *)
(* router each apply a threshold of their own.                             *)
InjectedComeWithFacts ==
  at = "triage" =>
    /\ \A f \in facts : f[2] = pass
    /\ \A p \in InjectedPlaybooks :
         \/ \A r \in p.rules : <<r, pass>> \in facts
         \/ \A v \in Confirmed : v.names = p => v.pass < pass \/ v.candidate # p
=============================================================================
