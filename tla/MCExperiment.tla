--------------------------- MODULE MCExperiment -----------------------------
(* Four records in three splits under one seed, in two under another; two  *)
(* features, payloads with one or two weights, three gates.                *)
EXTENDS Experiment

Record(id) ==
    [id |-> id, form |-> "canonical",
     body |-> [label |-> <<0, 80, 50, 100>>[id],
               features |-> IF id = 3 THEN [heft |-> 2] ELSE [size |-> id, heft |-> 1]]]
Loose(id) == [Record(id) EXCEPT !.form = "loose"]
Broken(id) == [Record(id) EXCEPT !.form = "broken"]

MCBodies == {Record(id).body : id \in 1..4}
MCSplitOf ==
    [even |-> <<"validation", "validation", "train", "test">>,
     flat |-> <<"train", "train", "train", "train">>,
     late |-> <<"train", "validation", "validation", "test">>]

Orders == {<<1, 2, 3, 4>>, <<4, 3, 2, 1>>, <<2, 4, 1, 3>>}
Full == {[i \in 1..4 |-> Record(o[i])] : o \in Orders}
Cut(s, k) == <<SubSeq(s, 1, k), SubSeq(s, k + 1, Len(s))>>
Faulty == {<<<<>>>>, <<<<Broken(1)>>>>, <<<<Record(1), Record(1)>>>>,
           <<<<Record(1), Loose(2)>>, <<Record(2)>>>>,
           <<<<Record(1)>>, <<>>>>,
           <<<<Record(2), Loose(1)>>, <<Loose(3)>>>>}
MCExports ==
    [sources : {<<f>> : f \in Full} \cup {Cut(f, 2) : f \in Full}, seed : {"even", "late"},
     max_records : {3, 4}]
    \cup [sources : Faulty, seed : {"even", "flat"}, max_records : {2, 3}]
    \cup [sources : {<<<<Record(1), Record(2)>>>>}, seed : {"even"}, max_records : {2}]

Int1(v) == [type |-> "int", value |-> v]
Dec(v) == [type |-> "decimal", value |-> v]
Baseline == [bias |-> Int1(10), size |-> Int1(20)]
Broad == [bias |-> Int1(10), size |-> Int1(20), heft |-> Int1(10)]
MCJobs ==
    [split : {"validation", "test"}, baseline : {Baseline},
     max_records : {2, 4}, max_input_bytes : {8, 12, 16}]
    \cup [split : {"validation"}, baseline : {[Baseline EXCEPT !["size"] = Int1(101)]},
          max_records : {4}, max_input_bytes : {16}]
    \cup [split : {"validation"}, baseline : {Broad},
          max_records : {4}, max_input_bytes : {16}]

Metric(name, absolute, delta) ==
    [direction |-> METRIC_DIRECTIONS[name], absolute_threshold |-> absolute,
     minimum_delta |-> delta, threshold |-> 50, bins |-> 2, max_pairs |-> 2]
Errors == [mae |-> Metric("mae", 60 * Scale, Scale),
           calibration_error |-> Metric("calibration_error", Scale, 0)]
Ranks == [spearman |-> Metric("spearman", 0, 0), f1 |-> Metric("f1", 0, 0),
          pairwise_accuracy |-> Metric("pairwise_accuracy", 0, 0),
          ndcg_at_10 |-> Metric("ndcg_at_10", 0, 1), ndcg_at_50 |-> Metric("ndcg_at_50", 0, 0)]
MCBenchmarks ==
    [split : {"validation", "test"}, later : {FALSE}, metrics : {Errors, Ranks},
     minimum : {[train |-> 1, validation |-> 1, test |-> 1],
                [train |-> 1, validation |-> 2, test |-> 1]}]
    \cup [split : {"validation"}, later : {TRUE, FALSE},
          metrics : {[mae |-> Metric("mae", 0, 0)],
                     [Errors EXCEPT !.mae.minimum_delta = 101 * Scale]},
          minimum : {[train |-> 1, validation |-> 1, test |-> 1]}]

MCPayloads ==
    [{"bias", "size"} -> {Int1(10), Int1(20), Int1(50), Dec(20)}]
    \cup [{"bias", "size", "heft"} -> {Int1(10), Int1(20)}] \cup {[bias |-> Int1(10)]}
    \cup {[Baseline EXCEPT !["bias"] = Int1(101)], [Baseline EXCEPT !["bias"] = Int1(-40)]}
Honest ==
    [level : {"LEVEL_2"}, path : {"bias", "size", "heft"}, later : {FALSE}, parent : {Baseline, Broad},
     old : {Int1(10), Int1(20), Dec(20)}, new : {Int1(-40), Int1(10), Int1(20), Int1(50), Dec(20)}]
MCDeclarations ==
    Honest \cup UNION {{[d EXCEPT !.level = "LEVEL_1"], [d EXCEPT !.later = TRUE]} :
                          d \in {h \in Honest : h.path = "size" /\ h.old = Int1(20)}}

MCDiscount == <<100, 63, 50, 43>>
MCCutOff == [ndcg_at_10 |-> 1, ndcg_at_50 |-> 3]
=============================================================================
