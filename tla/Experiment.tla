----------------------------- MODULE Experiment -----------------------------
(***************************************************************************)
(* From exported records to a decision: an operator freezes a dataset and  *)
(* publishes its manifest, what is published may be changed, and a job     *)
(* evaluates a candidate on it - _evaluate_loaded_job of worker.py, one    *)
(* action for each document it reads, in its order.  A document is read at *)
(* the action that chooses it.  The artifacts are pinned: a changed split  *)
(* comes with a changed reference.                                         *)
(*                                                                         *)
(* The job's deadline and the child process around all this are ChildRun's. *)
(***************************************************************************)
EXTENDS Evaluation, Dataset

CONSTANTS Exports,      \* sources that may be frozen
          MaxOutput,    \* max_output_bytes of the freeze
          Jobs,         \* split and reduced limits of a job
          Benchmarks,   \* what a benchmark manifest says
          Payloads,     \* evaluation payloads
          Declarations, \* changes a candidate may declare
          MaxArtifacts, \* MAX_ARTIFACTS
          Nothing       \* no such document yet

Manifests ==
    [seed : Seeds, sources : Seq(Seq(Lines)),
     splits : [Range(SplitNames) -> [data : Seq(Lines), count : Nat, sealed : BOOLEAN]]]
Admissions == [payload : Payloads, declared : Declarations]
Packets(metrics) ==
    [records : SUBSET Ids, baseline : [DOMAIN metrics -> Int], candidate : [DOMAIN metrics -> Int],
     outcome : [decision : {"KEEP", "DISCARD"}, failed : SUBSET DOMAIN metrics]]

(* parse_job: a job evaluates the validation split, or asks for the test   *)
(* split.  A label is a score, a feature a number; a payload is a finite   *)
(* map from its leaves to numbers; a benchmark has numbers for its gates   *)
(* and for every split; no document is no document.                        *)
ASSUME ExperimentAssumption ==
    /\ \A j \in Jobs : /\ j.split \in {"validation", "test"}
                        /\ {j.max_records, j.max_input_bytes} \subseteq Int
    /\ \A b \in Bodies : b.label \in 0..TopScore /\ b.features \in [DOMAIN b.features -> Int]
    /\ \A e \in Exports :
          e.sources \in Seq(Seq(Lines)) /\ e.seed \in Seeds /\ e.max_records \in Int
    /\ {MaxOutput, MaxArtifacts} \subseteq Int
    /\ \A p \in Payloads \cup {j.baseline : j \in Jobs} :
          p \in [DOMAIN p -> Numbers] /\ IsFiniteSet(DOMAIN p)
    /\ \A b \in Benchmarks :
          /\ Nothing \notin Packets(b.metrics)
          /\ b.minimum \in [Range(SplitNames) -> Int]
          /\ \A n \in DOMAIN b.metrics :
                {b.metrics[n].minimum_delta, b.metrics[n].bins, b.metrics[n].max_pairs}
                    \subseteq Int
    /\ Nothing \notin Jobs /\ Nothing \notin Benchmarks /\ Nothing \notin Manifests
    /\ Nothing \notin Admissions

VARIABLES stage,        \* the document to be read next
          verdict,      \* "ok", or why the evaluation ended early
          manifest,     \* the published dataset manifest
          tampered,     \* history: it was changed after the freeze
          job,          \* the job
          benchmark,    \* its benchmark manifest
          candidate,    \* its admitted candidate
          result        \* the evaluation packet

vars == <<stage, verdict, manifest, tampered, job, benchmark, candidate, result>>

Stages == {"freeze", "publish", "benchmark", "dataset", "candidate", "evaluate", "done"}

Init ==
    /\ stage = "freeze" /\ verdict = "ok" /\ tampered = FALSE
    /\ manifest = Nothing /\ job = Nothing /\ benchmark = Nothing
    /\ candidate = Nothing /\ result = Nothing

Reads(here) == stage = here /\ verdict = "ok"

(* Mutant: an error does not end the evaluation.                           *)
Then_Always(next, refusal) == verdict' = refusal /\ stage' = next

(* The next document, or the end with an error.                            *)
Then(next, refusal) ==
    /\ verdict' = refusal
    /\ stage' = IF refusal = "ok" THEN next ELSE stage
-----------------------------------------------------------------------------
Freeze(sources, seed, maxRecords) ==
    /\ Reads("freeze")
    /\ LET frozen == freeze_jsonl_sources(sources, seed, TotalSize(sources), maxRecords, MaxOutput)
       IN  /\ Then("publish", frozen.verdict)
           /\ manifest' = IF IsOk(frozen)
                          THEN build_dataset_manifest(frozen.value, seed, sources) ELSE Nothing
    /\ UNCHANGED <<tampered, job, benchmark, candidate, result>>

(* One change to what is published, by a faulty producer or by hand.       *)
WithSplit(name, split) == [manifest EXCEPT !.splits[name] = split]

Recounted(split, data) == [split EXCEPT !.data = data, !.count = Len(data)]

Altered(name) ==
    LET split == manifest.splits[name]
        data == split.data
    IN  {WithSplit(name, [split EXCEPT !.sealed = ~split.sealed]),
         WithSplit(name, [split EXCEPT !.count = split.count + 1]),
         WithSplit(name, Recounted(split, Reverse(data))),
         WithSplit(name, Recounted(split, data \o data))}
        \cup {WithSplit(name, Recounted(split, Tail(data))) : i \in DOMAIN data \cap {1}}
        \cup {WithSplit(name, [split EXCEPT !.data[1].form = "loose"]) : i \in DOMAIN data \cap {1}}
        \cup {[WithSplit(name, Recounted(split, Tail(data)))
                  EXCEPT !.splits[other] = Recounted(manifest.splits[other],
                                                     Append(manifest.splits[other].data, data[i]))] :
                 i \in DOMAIN data \cap {1}, other \in Range(SplitNames) \ {name}}

Tamper(name) ==
    /\ Reads("publish") /\ ~tampered
    /\ tampered' = TRUE
    /\ manifest' \in Altered(name) \cup {[manifest EXCEPT !.seed = s] : s \in Seeds}
    /\ UNCHANGED <<stage, verdict, job, benchmark, candidate, result>>
-----------------------------------------------------------------------------
(* Mutant: the sealed split can be asked for.                              *)
Permitted_Any(j) == TRUE

Permitted(j) == j.split # "test"

Submit(j) ==
    /\ Reads("publish")
    /\ Then("benchmark", IF Permitted(j) THEN "ok" ELSE "invalid")
    /\ job' = j
    /\ UNCHANGED <<manifest, tampered, benchmark, candidate, result>>

(* _validate_benchmark_bindings.                                           *)
Binds(b) ==
    /\ ~b.later
    /\ b.split = job.split
    /\ parse_metric_specs(b.metrics)
    /\ \A name \in DOMAIN b.minimum : b.minimum[name] >= 1

ReadBenchmark(b) ==
    /\ Reads("benchmark")
    /\ Then("dataset", IF Binds(b) THEN "ok" ELSE "invalid")
    /\ benchmark' = b
    /\ UNCHANGED <<manifest, tampered, job, candidate, result>>

MinimumMet ==
    \A name \in Range(SplitNames) : manifest.splits[name].count >= benchmark.minimum[name]

ReadDataset ==
    /\ Reads("dataset")
    /\ LET read == verify_dataset_manifest(manifest, job.max_records, job.max_input_bytes)
       IN  Then("candidate", IF read = "ok" /\ ~MinimumMet THEN "invalid" ELSE read)
    /\ UNCHANGED <<manifest, tampered, job, benchmark, candidate, result>>

(* Three manifests and two payloads of one unit each, the sources and the  *)
(* splits.  Sources of a frozen dataset share no record, so no reference   *)
(* occurs twice.                                                           *)
Splits(m) == [i \in DOMAIN SplitNames |-> m.splits[SplitNames[i]].data]

InputCount == 5 + Len(manifest.sources) + Len(SplitNames)
InputBytes == 5 + TotalSize(manifest.sources) + TotalSize(Splits(manifest))

(* _candidate_document, _validate_input_inventory and the two payloads:    *)
(* the declared change is proved on them.                                  *)
Admits(payload, declared) ==
    IF declared.later \/ declared.parent # job.baseline THEN "invalid"
    ELSE IF InputCount > MaxArtifacts \/ InputBytes > job.max_input_bytes THEN "limit"
    ELSE IF verify_candidate_change(declared, job.baseline, payload) THEN "ok" ELSE "invalid"

ReadCandidate(payload, declared) ==
    /\ Reads("candidate")
    /\ Then("evaluate", Admits(payload, declared))
    /\ candidate' = IF Admits(payload, declared) = "ok"
                    THEN [payload |-> payload, declared |-> declared] ELSE Nothing
    /\ UNCHANGED <<manifest, tampered, job, benchmark, result>>

Packet(records) ==
    [records   |-> {r.id : r \in Range(records)},
     baseline  |-> evaluate_payload(job.baseline, records, benchmark.metrics),
     candidate |-> evaluate_payload(candidate.payload, records, benchmark.metrics),
     outcome   |-> evaluate_experiment(job.baseline, candidate.payload, records,
                                       benchmark.metrics)]

(* The selected split is parsed once more, under the job's own limits.     *)
Evaluate ==
    /\ Reads("evaluate")
    /\ LET parsed == parse_scoring_jsonl(manifest.splits[job.split].data,
                                         job.max_input_bytes, job.max_records, FALSE)
       IN  /\ Then("done", parsed.verdict)
           /\ result' = IF IsOk(parsed) THEN Packet(parsed.value) ELSE Nothing
    /\ UNCHANGED <<manifest, tampered, job, benchmark, candidate>>

Next ==
    \/ \E e \in Exports : Freeze(e.sources, e.seed, e.max_records)
    \/ \E name \in Range(SplitNames) : Tamper(name)
    \/ \E j \in Jobs : Submit(j)
    \/ \E b \in Benchmarks : ReadBenchmark(b)
    \/ ReadDataset
    \/ \E p \in Payloads, d \in Declarations : ReadCandidate(p, d)
    \/ Evaluate

Spec == Init /\ [][Next]_vars
-----------------------------------------------------------------------------
(* Every value reported lies in the range the gates of its metric may use, *)
(* so that no gate is out of reach by its range alone (evaluation.py).     *)
InGateRange(values) ==
    \A n \in DOMAIN values : Between(_gate_ranges(n)[1], values[n], _gate_ranges(n)[2])

ExperimentTypeOK ==
    /\ stage \in Stages /\ verdict \in Refusals \cup {"ok"} /\ tampered \in BOOLEAN
    /\ job \in Jobs \cup {Nothing} /\ benchmark \in Benchmarks \cup {Nothing}
    /\ manifest \in IF stage = "freeze" THEN {Nothing} ELSE Manifests
    /\ candidate \in IF stage \in {"evaluate", "done"} THEN Admissions ELSE {Nothing}
    /\ result \in IF stage = "done" THEN Packets(benchmark.metrics) ELSE {Nothing}
    /\ result # Nothing =>
          /\ result.records # {}
          /\ InGateRange(result.baseline) /\ InGateRange(result.candidate)

DatasetRead == stage \in {"candidate", "evaluate", "done"}
Counts(m) == Len(FlattenSeq(Splits(m)))

(* The sources and the splits together keep to the limits of the job, and  *)
(* the splits to the minimums of the benchmark.                            *)
LimitsMet ==
    /\ Counts(manifest) <= job.max_records
    /\ TotalSize(manifest.sources) + TotalSize(Splits(manifest)) <= job.max_input_bytes
    /\ MinimumMet

(* The freeze and the check of a manifest agree: a dataset as it was       *)
(* frozen is refused only if it exceeds the job's limits or has too few    *)
(* records for the benchmark, a dataset that is accepted does neither, and *)
(* the parser's ValueError - an internal failure, reported without a       *)
(* receipt and as retryable - is met only when a split is empty            *)
(* (freeze_records, verify_dataset_manifest).                              *)
FrozenAccepted ==
    /\ stage = "dataset" /\ verdict # "ok" =>
        /\ verdict = "crash" => \E name \in Range(SplitNames) : manifest.splits[name].data = <<>>
        /\ ~tampered => ~LimitsMet
    /\ DatasetRead => LimitsMet

(* Whatever was done to the manifest, a dataset that is accepted is one    *)
(* the freeze makes of the same records under the same seed: no record is  *)
(* moved, repeated, reordered, unsealed or written differently             *)
(* (verify_dataset_manifest, verify_frozen_dataset).                       *)
OnlyFrozenAccepted ==
    DatasetRead =>
        LET records == FlattenSeq(Splits(manifest))
            again == freeze_records(records, manifest.seed, Len(records), Size(records))
        IN  IsOk(again) /\ again.value = manifest.splits

(* What is evaluated besides the baseline differs from it in one leaf, the *)
(* declared one, by the declared values, under the type it had: nothing is *)
(* added, dropped or changed elsewhere (verify_candidate_change).          *)
NoHiddenDrift ==
    candidate # Nothing =>
        LET before == job.baseline
            after == candidate.payload
            d == candidate.declared
        IN  /\ before # after
            /\ after = [before EXCEPT ![d.path] = d.new]
            /\ before = [after EXCEPT ![d.path] = d.old]
            /\ d.old.type = d.new.type

(* A decision is taken on records of the job's own split, which the seed   *)
(* and the identities fix, and never on a sealed one                       *)
(* (_evaluate_loaded_job).                                                 *)
SealedUnread ==
    result # Nothing =>
        /\ \A i \in result.records : SplitOf[manifest.seed][i] = job.split
        /\ \A i \in result.records : SplitOf[manifest.seed][i] # "test"

(* KEEP is earned: no reported metric of the candidate is worse than the   *)
(* baseline's, and if some gate asks for an improvement, the two could not *)
(* change places and be kept as well (recompute_canonical_result).         *)
KeepEarned ==
    result # Nothing /\ result.outcome.decision = "KEEP" =>
        /\ \A n \in DOMAIN result.baseline :
              IF METRIC_DIRECTIONS[n] = "higher" THEN result.candidate[n] >= result.baseline[n]
                                                 ELSE result.candidate[n] <= result.baseline[n]
        /\ (\E n \in DOMAIN benchmark.metrics : benchmark.metrics[n].minimum_delta > 0) =>
              LET back == recompute_canonical_result(result.candidate, result.baseline,
                                                     benchmark.metrics)
              IN  back.decision = "DISCARD"
-----------------------------------------------------------------------------
(* The records of an evaluation, for the laws of the metrics.              *)
Labels == [i \in DOMAIN manifest.splits[job.split].data |->
              manifest.splits[job.split].data[i].body.label]
Scores == [i \in DOMAIN manifest.splits[job.split].data |->
              score_linear_evaluator(candidate.payload,
                                     manifest.splits[job.split].data[i].body.features)]

(* Scores that agree with the labels get the best value of every metric    *)
(* that is defined for them.                                               *)
AgreementIsBest(labels, bins, threshold) ==
    /\ mae(labels, labels) = 0
    /\ calibration_error(labels, labels, bins) = 0
    /\ f1(labels, labels, threshold) =
          IF \E i \in DOMAIN labels : labels[i] >= threshold THEN Scale ELSE 0
    /\ spearman(labels, labels) = IF Cardinality(Range(labels)) > 1 THEN Scale ELSE 0

(* No ranking beats the one by the labels themselves.                      *)
LabelsRankBest(labels, scores, k) ==
    /\ ndcg(labels, labels, k) \in {0, Scale}
    /\ ndcg(labels, scores, k) <= ndcg(labels, labels, k)

(* The calibration error is at least the distance of the means and at most *)
(* the mean error, however the scores fall into bins.                      *)
BinnedFairly(labels, scores, bins) ==
    /\ calibration_error(labels, scores, bins) >=
           quantize(Magnitude(Total(scores) - Total(labels)), TopScore * Len(labels))
    /\ TopScore * calibration_error(labels, scores, bins) <= mae(labels, scores) + TopScore

(* These three of every evaluation (metrics.py).                           *)
ValueLaws ==
    result # Nothing =>
        /\ AgreementIsBest(Labels, 10, 50)
        /\ \A m \in DOMAIN CutOff : LabelsRankBest(Labels, Scores, CutOff[m])
        /\ \A bins \in 2..4 : BinnedFairly(Labels, Scores, bins)

(* The sampled pair numbers are distinct numbers of pairs of two different *)
(* records, in lexicographic order, and all pairs when they fit            *)
(* (_sampled_pair_indices, _unrank_pair).                                  *)
PairsOf(n) == {p \in (0..(n - 1)) \X (0..(n - 1)) : p[1] < p[2]}

Precedes(p, q) == p[1] < q[1] \/ (p[1] = q[1] /\ p[2] < q[2])

DrawsPairs(n, most) ==
    LET sample == _sampled_pair_indices(n, most)
        pair == [k \in DOMAIN sample |-> _unrank_pair(sample[k], n)]
    IN  /\ Range(pair) \subseteq PairsOf(n)
        /\ Len(sample) = MinOf(most, Cardinality(PairsOf(n)))
        /\ \A k \in DOMAIN sample : k > 1 => Precedes(pair[k - 1], pair[k])

PairsCovered ==
    stage = "freeze" => \A n \in 2..6, most \in 1..16 : DrawsPairs(n, most)

(* The laws of the metrics, of their values and of the sample of pairs.    *)
MetricLaws == ValueLaws /\ PairsCovered
=============================================================================
