--------------------------- MODULE EvidenceScoring ---------------------------
(***************************************************************************)
(* deterministic_scoring: DeterministicScorer weighs the evidence for each *)
(* hypothesis, and RCAConvergenceEvaluator decides from the scores whether *)
(* the result may stand.  Claims that the raw data do not bear out go to   *)
(* the critic first.  Weights are in tenths, the softmax of the log odds   *)
(* in twelfths, logarithms and entropies in thousandths.                   *)
(***************************************************************************)
EXTENDS Integers, FiniteSets, FiniteSetsExt, Functions

CONSTANTS
  Ranked,         \* sets of hypotheses that an investigation may rank
  Findings,       \* evidence items [of, source, claim, shows], by evidence_id
  MaxFindings,    \* bound: how many items there are
  Corrections,    \* supports a critic corrects a claim to
  MinEvidence,    \* MIN_EVIDENCE_DEPTH (3)
  MismatchPercent \* mismatch_ratio_threshold (15)

ASSUME ScoringAssumption ==
  /\ \A h \in Ranked :   \* five could not share twelfths evenly; Log2 ends at six
       IsFiniteSet(h) /\ Cardinality(h) \in {1, 2, 3, 4, 6}
  /\ IsFiniteSet(Findings)
  /\ MaxFindings \in Nat /\ MinEvidence \in Nat /\ MismatchPercent \in 0..100

VARIABLES
  hypotheses,        \* surviving_hypotheses
  items,             \* evidence_items
  critic_verdicts,   \* by item: a corrected support, or "confirm_original"
  judged,            \* what the agent says: "active", "AMBIGUOUS" or "INCONCLUSIVE"
  outcome            \* what scoring leaves: an override, "none", or "critic"

scoringVars == <<hypotheses, items, critic_verdicts, judged, outcome>>

Overrides == {"AMBIGUOUS", "INCONCLUSIVE"}

ScoringTypeOK ==
  /\ hypotheses \in Ranked
  /\ items \subseteq Findings
  /\ DOMAIN critic_verdicts \subseteq items
  /\ judged \in Overrides \cup {"active"}
  /\ outcome \in Overrides \cup {"none", "critic", "unscored"}

-----------------------------------------------------------------------------
(* DeterministicScorer                                                     *)

Strengths == {"strongly_supports", "weakly_supports", "neutral",
              "weakly_contradicts", "strongly_contradicts"}

(* evidence_weights.yaml                                                   *)
Weight(source, support) ==
  LET strong == IF source = "metric" THEN 15 ELSE 12
      weak == IF source = "metric" THEN 5 ELSE 4
  IN  CASE support = "strongly_supports" -> strong
        [] support = "weakly_supports" -> weak
        [] support = "neutral" -> 0
        [] support = "weakly_contradicts" -> 0 - weak
        [] support = "strongly_contradicts" -> 0 - strong

(* The claim disagrees with what the raw data show, if they show anything. *)
IsMismatch(i) ==
  \/ i.claim \in {"strongly_supports", "strongly_contradicts"} /\ i.shows = "normal"
  \/ i.claim = "neutral" /\ i.shows = "anomalous"

Mismatched == {i \in items : IsMismatch(i)}

(* A critic's override replaces the claim.                                 *)
Support(i) ==
  IF i \in DOMAIN critic_verdicts /\ critic_verdicts[i] \in Strengths
    THEN critic_verdicts[i] ELSE i.claim

(* Items of a hypothesis that is not ranked weigh nothing.                 *)
LogOdds(h) ==
  SumFunctionOnSet([i \in items |-> Weight(i.source, Support(i))],
                   {i \in items : i.of = h})

(* The softmax gives equal log odds equal scores and keeps their order;    *)
(* its values are not computed.                                            *)
Softmaxes ==
  LET odds == {LogOdds(h) : h \in hypotheses}
      shares == {f \in [odds -> 0..12] :
                   /\ \A x, y \in odds : x < y => f[x] <= f[y]
                   /\ SumFunction([h \in hypotheses |-> f[LogOdds(h)]]) = 12}
  IN  {[h \in hypotheses |-> f[LogOdds(h)]] : f \in shares}

-----------------------------------------------------------------------------
(* RCAConvergenceEvaluator                                                 *)

(* The logarithm of 12 / share.                                            *)
Surprise == <<3585, 2585, 2000, 1585, 1263, 1000, 778, 585, 415, 263, 126, 0>>

(* The logarithm of n.                                                     *)
Log2 == <<0, 1000, 1585, 2000, 2322, 2585, 2807>>

Entropy(s) ==
  SumFunction([h \in hypotheses |-> IF s[h] = 0 THEN 0 ELSE s[h] * Surprise[s[h]]])
    \div 12

(* Mutant: the entropy is in nats, its divisor in bits.                    *)
FlatInNats(s) ==
  100 * Entropy(s) * 693 > 85 * Log2[Cardinality(hypotheses) + 1] * 1000

(* entropy > ENTROPY_THRESHOLD: it is divided by the logarithm of n + 1,   *)
(* which a flat distribution of n scores does not reach.                   *)
Flat(s) == 100 * Entropy(s) > 85 * Log2[Cardinality(hypotheses) + 1]

(* evaluate.  tool_calls_made is the length of the evidence log, which is  *)
(* empty; evidence counts whatever hypothesis it is about.                 *)
Override(s) ==
  IF judged \in Overrides THEN judged
  ELSE IF Cardinality(items) < MinEvidence THEN "AMBIGUOUS"
  ELSE IF Flat(s) /\ Cardinality(hypotheses) > 1 THEN "AMBIGUOUS"
  ELSE "none"

(* The claims that the critic has still to look at.                        *)
Unreviewed == Mismatched \ DOMAIN critic_verdicts

NeedsCritic ==
  /\ 100 * Cardinality(Mismatched) > MismatchPercent * Cardinality(items)
  /\ Unreviewed # {}

DeterministicScoring ==
  /\ outcome = "unscored"
  /\ IF NeedsCritic
       THEN outcome' = "critic"
       ELSE \E s \in Softmaxes : outcome' = Override(s)
  /\ UNCHANGED <<hypotheses, items, critic_verdicts, judged>>

(* The critic is to speak of the claims it was shown; it may leave some    *)
(* out, and a verdict on any other item counts as well.  The last verdict  *)
(* on an item stands.                                                      *)
CriticAgent ==
  /\ outcome = "critic"
  /\ \E reviewed \in SUBSET items :
       \E said \in [reviewed -> Corrections \cup {"confirm_original"}] :
         critic_verdicts' =
           [i \in reviewed \cup DOMAIN critic_verdicts |->
              IF i \in reviewed THEN said[i] ELSE critic_verdicts[i]]
  /\ outcome' = "unscored"
  /\ UNCHANGED <<hypotheses, items, judged>>

ScoringInit ==
  /\ hypotheses \in Ranked
  /\ items \in UNION {kSubset(n, Findings) : n \in 0..MaxFindings}
  /\ critic_verdicts = <<>>
  /\ judged \in Overrides \cup {"active"}
  /\ outcome = "unscored"

ScoringNext == DeterministicScoring \/ CriticAgent

ScoringSpec == ScoringInit /\ [][ScoringNext]_scoringVars

-----------------------------------------------------------------------------
SaysOf(i) ==
  IF i \in DOMAIN critic_verdicts THEN critic_verdicts[i] ELSE "confirm_original"

Indifferent ==
  \A i \in items :
    i.of \in hypotheses =>
      SaysOf(i) = "neutral" \/ (i.claim = "neutral" /\ SaysOf(i) = "confirm_original")

(* The agent has not judged, and the evidence, of which there is enough,   *)
(* tells none of the hypotheses apart once the critic has corrected it.    *)
ScoredIndifferent ==
  /\ outcome \notin {"unscored", "critic"} /\ judged = "active"
  /\ Indifferent /\ Cardinality(items) >= MinEvidence

(* Then four hypotheses or more, whose scores are a flat prior, make the   *)
(* result AMBIGUOUS.                                                       *)
IndifferenceShowsFromFour ==
  ScoredIndifferent /\ Cardinality(hypotheses) >= 4 => outcome = "AMBIGUOUS"

(* The evaluator's comments: a flat prior has an entropy score of 1.0, and *)
(* nearly flat scores are ambiguous, however many hypotheses there are.    *)
(* Two and three flat scores stay below the threshold.                     *)
FlatIsAmbiguous ==
  ScoredIndifferent /\ Cardinality(hypotheses) > 1 => outcome = "AMBIGUOUS"
=============================================================================
