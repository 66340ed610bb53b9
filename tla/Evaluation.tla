----------------------------- MODULE Evaluation -----------------------------
(***************************************************************************)
(* The benchmark's gates, from evaluation.py: which metric maps are        *)
(* accepted, and the decision recomputed from the values of the baseline   *)
(* and of the candidate.  Values and gates are counted in units of         *)
(* 1/Scale.                                                                *)
(***************************************************************************)
EXTENDS Metrics, Candidate

METRIC_DIRECTIONS ==
    [mae |-> "lower", spearman |-> "higher", pairwise_accuracy |-> "higher",
     ndcg_at_10 |-> "higher", ndcg_at_50 |-> "higher", f1 |-> "higher",
     calibration_error |-> "lower"]

(* Least and largest absolute threshold, and the largest minimum delta.    *)
_gate_ranges(name) ==
    CASE name = "mae"      -> <<0, 100 * Scale, 100 * Scale>>
      [] name = "spearman" -> <<-Scale, Scale, 2 * Scale>>
      [] OTHER             -> <<0, Scale, Scale>>

Between(low, value, high) == low <= value /\ value <= high

(* A definition is its direction, its gate and the parameters of f1, of    *)
(* calibration_error and of pairwise_accuracy; the others have none.       *)
parse_metric_specs(specs) ==
    /\ Between(2, Cardinality(DOMAIN specs), 7)
    /\ DOMAIN specs \subseteq DOMAIN METRIC_DIRECTIONS
    /\ \A name \in DOMAIN specs :
          LET spec == specs[name]
              range == _gate_ranges(name)
          IN  /\ spec.direction = METRIC_DIRECTIONS[name]
              /\ Between(range[1], spec.absolute_threshold, range[2])
              /\ Between(0, spec.minimum_delta, range[3])
              /\ Between(0, spec.threshold, 100)
              /\ Between(2, spec.bins, 50)
              /\ spec.max_pairs >= 1

_metric_value(name, spec, labels, predictions) ==
    CASE name = "mae"               -> mae(labels, predictions)
      [] name = "spearman"          -> spearman(labels, predictions)
      [] name = "pairwise_accuracy" -> pairwise_accuracy(labels, predictions, spec.max_pairs)
      [] name \in DOMAIN CutOff     -> ndcg(labels, predictions, CutOff[name])
      [] name = "f1"                -> f1(labels, predictions, spec.threshold)
      [] OTHER                      -> calibration_error(labels, predictions, spec.bins)

(* Records are taken in the order of their identities.                     *)
evaluate_payload(payload, records, specs) ==
    LET ordered == Arranged(Range(records), LAMBDA a, b : a.id < b.id)
        labels == [i \in DOMAIN ordered |-> ordered[i].body.label]
        scores == [i \in DOMAIN ordered |->
                      score_linear_evaluator(payload, ordered[i].body.features)]
    IN  [name \in DOMAIN specs |-> _metric_value(name, specs[name], labels, scores)]

(* Mutant: a smaller error is no improvement.                              *)
Improvement_Higher(name, before, after) == after - before

Improvement(name, before, after) ==
    IF METRIC_DIRECTIONS[name] = "higher" THEN after - before ELSE before - after

Reaches(name, value, threshold) ==
    IF METRIC_DIRECTIONS[name] = "higher" THEN value >= threshold ELSE value <= threshold

Passed(name, spec, before, after) ==
    /\ Reaches(name, after, spec.absolute_threshold)
    /\ Improvement(name, before, after) >= spec.minimum_delta

recompute_canonical_result(before, after, specs) ==
    LET failed == {n \in DOMAIN specs : ~Passed(n, specs[n], before[n], after[n])} IN
    [decision |-> IF failed = {} THEN "KEEP" ELSE "DISCARD",
     failed   |-> failed]

evaluate_experiment(baseline, candidate, records, specs) ==
    recompute_canonical_result(evaluate_payload(baseline, records, specs),
                               evaluate_payload(candidate, records, specs), specs)
=============================================================================
