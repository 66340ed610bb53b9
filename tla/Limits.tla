------------------------------- MODULE Limits -------------------------------
(***************************************************************************)
(* The resource ceilings of limits.py: a value for every limit name, at    *)
(* least its safe minimum, and their field-wise reduction under the        *)
(* operator's own ceilings.                                                *)
(***************************************************************************)
EXTENDS Naturals

CONSTANTS LimitNames,   \* _LIMIT_NAMES
          Minimum,      \* _MINIMUMS: the safe minimum of each
          Operator      \* OPERATOR_CEILINGS

(* EffectiveLimits: what from_mapping and __post_init__ let through.       *)
EffectiveLimits == {l \in [LimitNames -> Nat] : \A n \in LimitNames : l[n] >= Minimum[n]}

ASSUME LimitsAssumption == /\ Minimum \in [LimitNames -> Nat]
                           /\ Operator \in EffectiveLimits

AtMost(a, b) == \A n \in LimitNames : a[n] <= b[n]

Lesser(a, b) == [n \in LimitNames |-> IF a[n] <= b[n] THEN a[n] ELSE b[n]]

(* reduce_limits of one mapping, and effective_limits of a job's and a     *)
(* benchmark's: the operator's ceilings always take part.                  *)
reduce_limits(l) == Lesser(Operator, l)

effective_limits(job, benchmark) == Lesser(reduce_limits(job), benchmark)
=============================================================================
