------------------------------ MODULE Metrics -------------------------------
(***************************************************************************)
(* The offline metrics of metrics.py over two sequences of scores, as      *)
(* integers: a value is counted in units of 1/Scale, where the code keeps  *)
(* twelve decimal places, and rounded half to even as there.  Sums are     *)
(* taken before the one division, which fifty digits make no difference    *)
(* to.                                                                     *)
(***************************************************************************)
EXTENDS Integers, Sequences, FiniteSets, Functions, Ordering

CONSTANTS Scale,      \* DECIMAL_QUANTUM is 1 / Scale
          Discount,   \* Discount[r]: 1 / log2(r + 1), in some unit
          CutOff      \* CutOff[m]: the k of ndcg_at_10 and ndcg_at_50

(* A later rank counts no more than an earlier one.                        *)
ASSUME MetricsAssumption ==
    /\ Scale \in Nat \ {0}
    /\ \A r \in DOMAIN Discount : Discount[r] \in Nat
    /\ \A r, s \in DOMAIN Discount : r <= s => Discount[s] <= Discount[r]
    /\ DOMAIN CutOff \subseteq {"ndcg_at_10", "ndcg_at_50"}
    /\ \A m \in DOMAIN CutOff : CutOff[m] \in Nat /\ 1..CutOff[m] \subseteq DOMAIN Discount

TopScore == 100

Magnitude(n) == IF n < 0 THEN -n ELSE n
Total(f) == FoldFunction(LAMBDA a, b : a + b, 0, f)
MinOf(a, b) == IF a <= b THEN a ELSE b

(* num / den, at least 0, to the nearest unit: half to even.               *)
Nearest(num, den) ==
    LET low == (Scale * num) \div den
        twice == 2 * ((Scale * num) % den)
    IN  IF twice > den \/ (twice = den /\ low % 2 = 1) THEN low + 1 ELSE low

quantize(num, den) == IF num < 0 THEN -Nearest(-num, den) ELSE Nearest(num, den)

(* num / Sqrt(square) to the nearest unit, for 0 <= num * num <= square.   *)
NearestToRoot(num, square) ==
    CHOOSE r \in 0..Scale :
        LET aim == 4 * Scale * Scale * num * num IN
        /\ (2 * r - 1) * (2 * r - 1) * square <= aim \/ r = 0
        /\ aim < (2 * r + 1) * (2 * r + 1) * square
-----------------------------------------------------------------------------
mae(labels, predictions) ==
    quantize(Total([i \in DOMAIN labels |-> Magnitude(labels[i] - predictions[i])]), Len(labels))

(* Twice the rank, so that the rank of a tie is an integer.                *)
_average_ranks(values) ==
    [i \in DOMAIN values |->
        LET less == {j \in DOMAIN values : values[j] < values[i]}
            same == {j \in DOMAIN values : values[j] = values[i]}
        IN  2 * Cardinality(less) + Cardinality(same) + 1]

Deviations(values) ==
    LET ranks == _average_ranks(values) IN
    [i \in DOMAIN values |-> Len(values) * ranks[i] - Total(ranks)]

spearman(labels, predictions) ==
    LET left == Deviations(labels)
        right == Deviations(predictions)
        Product(f, g) == Total([i \in DOMAIN labels |-> f[i] * g[i]])
        covariance == Product(left, right)
        variances == Product(left, left) * Product(right, right)
    IN  IF variances = 0 THEN 0
        ELSE IF covariance < 0 THEN -NearestToRoot(-covariance, variances)
        ELSE NearestToRoot(covariance, variances)
-----------------------------------------------------------------------------
(* The pairs of n records in lexicographic order, numbered from 0; the     *)
(* records too.                                                            *)
_pairs_before(index, n) == (index * (2 * n - index - 1)) \div 2

Fits(middle, n, pair) == _pairs_before(middle, n) <= pair

_unrank_pair(pair, n) ==
    LET search[span \in (0..(n - 1)) \X (0..(n - 1))] ==
            LET low == span[1]
                high == span[2]
                middle == (low + high + 1) \div 2
            IN  IF low >= high THEN low
                ELSE search[IF Fits(middle, n, pair) THEN <<middle, high>> ELSE <<low, middle - 1>>]
        left == search[<<0, n - 1>>]
    IN  <<left, left + 1 + pair - _pairs_before(left, n)>>

_sampled_pair_indices(n, maxPairs) ==
    LET total == (n * (n - 1)) \div 2 IN
    IF total <= maxPairs THEN [i \in 1..total |-> i - 1]
    ELSE [slot \in 1..maxPairs |-> ((2 * slot - 1) * total) \div (2 * maxPairs)]

Sign(n) == IF n < 0 THEN -1 ELSE IF n = 0 THEN 0 ELSE 1

pairwise_accuracy(labels, predictions, maxPairs) ==
    LET sample == _sampled_pair_indices(Len(labels), maxPairs)
        Order(values, k) == LET pair == _unrank_pair(sample[k], Len(labels))
                            IN  Sign(values[pair[1] + 1] - values[pair[2] + 1])
        comparable == {k \in DOMAIN sample : Order(labels, k) # 0}
        right == {k \in comparable : Order(predictions, k) = Order(labels, k)}
        tied == {k \in comparable : Order(predictions, k) = 0}
    IN  IF comparable = {} THEN 0
        ELSE quantize(2 * Cardinality(right) + Cardinality(tied), 2 * Cardinality(comparable))
-----------------------------------------------------------------------------
(* Highest first; of equal ones the earlier record.                        *)
Ranked(values) ==
    Arranged(DOMAIN values,
        LAMBDA i, j : values[i] > values[j] \/ (values[i] = values[j] /\ i < j))

_dcg(labels, order, k) ==
    Total([r \in 1..MinOf(k, Len(labels)) |-> labels[order[r]] * Discount[r]])

ndcg(labels, predictions, k) ==
    LET ideal == _dcg(labels, Ranked(labels), k)
    IN  IF ideal = 0 THEN 0 ELSE quantize(_dcg(labels, Ranked(predictions), k), ideal)

f1(labels, predictions, threshold) ==
    LET actual == {i \in DOMAIN labels : labels[i] >= threshold}
        found == {i \in DOMAIN labels : predictions[i] >= threshold}
        hits == Cardinality(actual \cap found)
        misses == Cardinality(actual \cup found) - hits
    IN  IF hits + misses = 0 THEN 0 ELSE quantize(2 * hits, 2 * hits + misses)

(* Mutant: the top score falls past the last bin.                          *)
Bin_Open(prediction, bins) == (prediction * bins) \div TopScore

Bin(prediction, bins) == MinOf(bins - 1, (prediction * bins) \div TopScore)

calibration_error(labels, predictions, bins) ==
    LET Of(values, b) == Total([i \in DOMAIN values |->
                                   IF Bin(predictions[i], bins) = b THEN values[i] ELSE 0])
    IN  quantize(Total([b \in 0..(bins - 1) |-> Magnitude(Of(predictions, b) - Of(labels, b))]),
                 TopScore * Len(labels))
=============================================================================
