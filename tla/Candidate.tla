----------------------------- MODULE Candidate ------------------------------
(***************************************************************************)
(* Linear evaluators and the one change a candidate may propose, from      *)
(* candidate.py.  A payload is a function from its leaves, the bias and at *)
(* least one weight, to numbers; a number has a JSON type besides its      *)
(* value, and equal numbers of two types are different.                    *)
(***************************************************************************)
EXTENDS Integers, FiniteSets, Functions

CONSTANTS Weights,      \* names of weights and features
          WeightMax     \* largest magnitude of the bias or of a weight

Leaves == {"bias"} \cup Weights
Numbers == [type : {"int", "decimal"}, value : Int]

ASSUME CandidateAssumption == "bias" \notin Weights /\ WeightMax \in Nat

InRange(number) == -WeightMax <= number.value /\ number.value <= WeightMax

validate_linear_evaluator(payload) ==
    /\ "bias" \in DOMAIN payload /\ DOMAIN payload \ {"bias"} # {}
    /\ DOMAIN payload \subseteq Leaves
    /\ \A leaf \in DOMAIN payload : InRange(payload[leaf])

Clamped(score) == IF score < 0 THEN 0 ELSE IF score > 100 THEN 100 ELSE score

(* A feature the record does not have counts as zero; one the evaluator    *)
(* has no weight for is ignored.                                           *)
score_linear_evaluator(payload, features) ==
    Clamped(payload["bias"].value +
            FoldFunction(LAMBDA a, b : a + b, 0,
                [w \in DOMAIN payload \ {"bias"} |->
                    IF w \in DOMAIN features THEN payload[w].value * features[w] ELSE 0]))

(* Mutant: only the leaves both payloads have are compared.                *)
SameStructure_Common(parent, proposed) == "bias" \in DOMAIN parent \cap DOMAIN proposed

SameStructure(parent, proposed) == DOMAIN parent = DOMAIN proposed

Differences(parent, proposed) ==
    {leaf \in DOMAIN parent \cap DOMAIN proposed : parent[leaf].value # proposed[leaf].value}

(* The declared change: its level, its leaf, and both values.              *)
verify_candidate_change(declared, parent, proposed) ==
    /\ declared.level = "LEVEL_2"
    /\ validate_linear_evaluator(parent) /\ validate_linear_evaluator(proposed)
    /\ declared.old.type = declared.new.type
    /\ SameStructure(parent, proposed)
    /\ \A leaf \in DOMAIN parent \cap DOMAIN proposed : parent[leaf].type = proposed[leaf].type
    /\ Differences(parent, proposed) = {declared.path}
    /\ declared.old = parent[declared.path] /\ declared.new = proposed[declared.path]
    /\ InRange(declared.old) /\ InRange(declared.new)
    /\ declared.old.value # declared.new.value
=============================================================================
