# Atlas Research: TLA+ models and proofs

TLA+ models of the parts of Atlas Research whose correctness depends on the
order of file-system steps, processes, threads and requests, the TLC runs that
check them on small instances, and theorems checked by TLAPS. Line references
are to the Python package in `src/atlas_research/`; `PROJECT.json` maps every
definition to the lines it stands for.

## 1. Inventory

| Part | State it keeps | Operations | What is hard | Correct when | Model |
|---|---|---|---|---|---|
| Receipt log (`receipts.py`) | `entries/`, `HEAD`, `.lock` on disk | `commit`, `find`, `verify`, recovery | several processes, kills, failing calls and power loss between file-system steps | one chain; ids and keys unique; acknowledged receipts durable; HEAD recoverable | `ReceiptLog` |
| Files (`artifacts.py`) | temporary and final names of a file, descriptors | exclusive link, replace, pinned read, private read | half-done commits, a file that changes while it is read | all or nothing under the final name; a read answers with one whole content | `ReceiptLog`, `FileReads` |
| Isolated job runner (`worker.py`) | `.worker.lock`, the result of each URI, the receipt log | `run_isolated_job` | two durable files per job, a passing deadline, retries | completed iff receipted; results immutable; no contradiction; recovery | `IsolatedWorker` |
| Child processes (`worker.py`, `_worker_child.py`) | the run's clocks and child | preflight, evaluation | a shared time budget, hanging or broken children | receipts within the budget, errors told truthfully, no child left | `ChildRun` |
| Remote worker (`remote_worker.py`) | session, run trees, supervisor thread | claim, stage, replay, execute, complete, fail, prune | lost replies, lease expiry, cancellation, stop signal, two threads | one terminal decision; replay kept; no tree leaks; every claim ends | `RemoteWorker` |
| Request watchdog (`remote_worker.py`) | sockets, duplicated descriptor, resolver process, two events | resolve, dial, request, abort | a timer thread that shuts a socket in use, at any stage | no request outlives its deadline, none leaves anything behind, no cut answer is used | `RequestWatchdog` |
| Telemetry (`remote_worker.py`, `operations_telemetry.py`) | watermark, projection file | fetch, publish, stop | slow replies, ambiguous rename, two publishing threads, restarts | the projection never goes back in time | `TelemetryPublisher`, `TelemetryRegister` |
| Generation worker (`production_generation_worker.py`) | session, cache of results | claim, generate, heartbeat, complete, reconcile | ambiguous completions, cache limit, restarts | a generated result is delivered or dropped, never lost or repeated | `GenerationWorker` |
| Research jobs (`job.py`) | none | parse, stable read, deadline | deadline read several times, a file that changes | expired jobs end without a receipt | `ChildRun`, `FileReads`, `Experiment` |
| Limits (`limits.py`) | none | reduce three ceilings | - | the greatest limits below every ceiling | `Limits` |
| Datasets (`dataset.py`) | none | parse, freeze, verify a manifest | limits used up exactly, a manifest changed after the freeze | what is accepted is what a freeze makes | `Dataset` |
| Metrics, gates (`metrics.py`, `evaluation.py`) | none | seven metrics, gates, decision | zero denominators, ties, bins, rounding, pair sampling | bounds and laws of each metric; KEEP is earned | `Metrics`, `Evaluation` |
| Candidates (`candidate.py`) | none | score, verify the one declared change | types, missing leaves | the declared change and nothing else | `Candidate` |
| Qwen proposer (`qwen.py`) | one local HTTP exchange | propose | untrusted answer | bounded; refused unless it is one valid change | - |
| Contracts and encoders (`production_generation.py`, `canonical.py`) | none | parse, encode | - | - | - |
| Reports, doctor, command line (`report.py`, `doctor.py`, `cli.py`) | none | render, inspect, dispatch | - | - | - |

How they interact: the command line runs `run_isolated_job` (`worker run`),
`ReceiptLog.verify` (`receipt verify [--recover]`), `RemoteWorker` (`worker
once|serve`) and `ProductionGenerationWorker`. The remote worker starts an
executor process per claim, which ends in `run_isolated_job` on the run root of
the claim; that one runs two child processes and the receipt log under its
output root. Workers and operators share a log through the flock on `.lock`,
workers share an output root through `.worker.lock`, the threads of a remote
worker share the supervisor's fields, and everything mutable about a job (lease,
fence, cancellation, decision) belongs to Scout, behind HTTP.

The hazards that come of this are in `PROJECT.json`, each at its line with the
properties that cover it.

## 2. Modules

| Module | What it models |
|---|---|
| `ReceiptLog` | the log: every call of several processes as the file-system steps it makes under the flock, and the faults between them |
| `ReceiptLedger` | what the log promises: an append-only ledger with truthful answers |
| `ReceiptLog_proof` | the inductive invariants of `ReceiptLog`, its safety theorems and the refinement of `ReceiptLedger` |
| `IsolatedWorker` | `run_isolated_job` on top of `ReceiptLog` (it EXTENDS it), with operators beside the workers |
| `IsolatedWorker_proof` | its inductive invariant on top of that of the log (it EXTENDS `ReceiptLog_proof`), and eight theorems |
| `Limits` | the ceilings and their reduction |
| `ChildRun` | what `IsolatedWorker` takes for one step: both children, the deadline and the time budget, up to the receipt and the result; it EXTENDS `Limits` |
| `ChildRun_proof` | its inductive invariant, and theorems about it and about the reduction of limits |
| `Dataset`, `Metrics`, `Candidate`, `Evaluation` | what the children compute, as operators |
| `Ordering` | the elements of a finite set in a strict total order, for the sorts of `Dataset` and `Metrics` |
| `Experiment` | the path of the data: freeze, publication, submission, and the documents of an evaluation in the order in which they are read; it EXTENDS `Evaluation` and `Dataset` |
| `Experiment_proof` | theorems about the sealed split, the declared change, the decision, the datasets and the metrics |
| `FileReads` | a read of one file beside publications and an outsider |
| `FileReads_proof` | its inductive invariant and three theorems |
| `RemoteWorker` | the claim lifecycle: main thread, supervisor thread, Scout, faults |
| `RemoteWorker_proof` | its inductive invariant and theorems about decisions, run trees and results |
| `RequestWatchdog` | one HTTPS request, its peer and its watchdog thread |
| `TelemetryPublisher` | the publisher thread, the stopping main thread and the projection file, over `RequestWatchdog` (it EXTENDS it) |
| `TelemetryRegister` | what the projection promises its readers: a register that never goes back |
| `TelemetryPublisher_proof` | the inductive invariant of the requests and the publication, the theorem about the requests and the refinement |
| `GenerationWorker` | the generation service: rounds of `run_once`, the cache of results on disk, Scout, faults |
| `GenerationWorker_proof` | its inductive invariants and three theorems |
| `MC...` | instances for TLC |

No module declares a RECURSIVE operator: folds, recursive functions and function
sets take its place, so that theorems can be stated about any of them.

### ReceiptLog

`entries`, `head`, `stray` are what processes see in `entries/`, `HEAD` and as a
leftover temporary file; `synced`, `dirty`, `diskHead` are what a power loss
leaves. A commit goes through `op`: admitted (all checks passed under the lock),
staged, linked, unlinked, synced, headStaged, headReplaced, idle, one action per
step of `atomic_write_private`, `_fsync_directory` and `_write_head`. `Recover`
uses the same last steps. Calls that only read are one action, because only the
holder of the lock changes the directory. `StageFails`, `PublishFails`,
`ConfirmFails` and `HeadFails` are the failures of the calls at each step with
the error code that leaves `commit`; `Kill` drops the lock and leaves the files;
`PowerLoss` keeps the synced entries, any prefix of the others, and the old or
the new HEAD.

A digest is modelled as the sequence of documents it covers, so SHA-256 is
assumed free of collisions. Further assumptions: directory changes reach the
disk in order, a successful fsync holds, the log's two directories themselves
are durable (the code does not fsync their parent), and a receipt id belongs to
one idempotency key (`worker.py:921` derives it from the job's digest and
attempt; the assumption is `DocsAssumption`).

### IsolatedWorker

`at[w]` is where a worker is inside `run_isolated_job`: lookup or check of an
existing result, evaluate, tip (reading the head), commit, committing (inside
`ReceiptLog`'s steps), write, published (linked, temporary name not yet gone).
The two child processes are one step, `Evaluate`, that ends with a packet or
with an error that earns no receipt; `ChildRun` takes that step apart.
`Committed` is the exception handler around `commit`. Operators run `Verify` and
`Recover` of the same log. `gone` are the jobs whose benchmark artifact does not
resolve or check at the moment: the preflight reads it, and so does every
recovery of a result from its receipt (`_recovery_limits`). `_receipt_job_identity`
has no branch of its own, because `commit` and `find` have checked what it checks.
`Publish` is more permissive than `_write_result`, which links exclusively: a
result that should not be replaced would be a conflict in the code, where the
model has a replaced result that `ResultImmutable` reports.

### ChildRun

`pc` is the parent inside `run_isolated_job` and `_communicate_child`, `mode`
the child it deals with, `child` what each child has come to. `started`,
`admitted` and `until` are the three moments from which the code computes its
timeouts: the start of the invocation, the admission (`time.monotonic()`), and
the end of the wait. `told` and `heard` are history: what the evaluation child
reported, and when that was read. A child may report, fail with a code of its
own, stop without a report, report too much, report a packet that is right but
for its timestamp, or hang. There is one clock for the deadlines and the
timeouts; a clock set back is not modelled. `limits` are the operator's ceilings, then those of
the job, then those of the benchmark as the preflight child reports them.

### Experiment, and the algorithms

`stage` is the document that `_evaluate_loaded_job` reads next; an operator
freezes and publishes, and `Tamper` makes one change to what is published: a
seal, a count, a seed, an order, a record dropped, doubled, moved to another
split or written in other bytes. Artifacts are pinned by digest, so a changed
split comes with a changed reference and the checks below it are the only
guard.

The abstractions: a line is a record in its canonical bytes, in other bytes
(twice as long) or no record; the split of an identity under a seed
(`sha256-id-v1`) is a constant function; a payload is a function from its leaves
to numbers with a JSON type; metric values are integers in units of `1/Scale`,
rounded half to even as `quantize_decimal` does; the discounts of `ndcg` are
constants, and its two cut-offs are 1 and 3 instead of 10 and 50, so that both
lists longer and lists shorter than a cut-off occur. Left out are the check of
`verify_frozen_dataset` that what it would publish keeps to the output limit, and
the upper bound of `max_pairs`; no property speaks of them.

### FileReads

`path` is the file the name leads to, `files` the content, links and both times
of each, `writer` a publication by `atomic_write_private`, `reader` a read by
`ArtifactResolver._read`, `read_private_bytes` or `load_job`: open, look, read in
chunks, digest, look again. An outsider may rewrite, extend, cut or hard-link the
file, and neither renames nor removes it. Every change gives the file a new time,
which is an assumption about the file system: two changes within one tick of its clock could escape the second look.

### RemoteWorker

`pc` is the main thread inside `_process_claim`, `beat` and `reply` the
supervisor thread and its open heartbeat, `cancelled`, `failure`, `leased`,
`overdue` what `check()` reads, `trees` and `results` the run trees on disk.
`scout` is external: it leases a ready job with the next fence, gives a lost
claim again to the session that holds the lease, renews, cancels, lets leases
run out and takes the first terminal request of a current lease. A file of the
worker's own that it refuses (a `ValidationError` without an `OSError` behind it)
is reported to Scout as a failure, `Refuse`: in any local step (`LocalRefusal`),
and even after the acknowledgement of a completion, since `_status("completed")`
is inside the `try` (`AcknowledgedRefuses`). `Abandon` may remove the run tree of
a refusal that came before `_run_root` returned, which the code keeps.
`docs/scout-worker-client.md` is the source for these. Both clocks of a claim
(lease and deadline) may pass at any step. A new session of the same process
differs from `Kill` only in the stop flag, so it has no action of its own. A heartbeat
thread that outlives its claim (`WORKER_HEARTBEAT_STUCK`) touches nothing that
is read later and is dropped. After a kill the executor's process may go on for
a while in a run tree that no session of the next process is given; that is not
modelled.

### RequestWatchdog and TelemetryPublisher

`stage` is the thread inside `ScoutWorkerClient._request`; `held` is what it has
to give back (resolver process, candidate socket, socket, duplicate), `dog` the
watchdog. The peer acts or does not; reading from a transport that was shut
looks like the end of the body (`body = "cut"`). In `TelemetryPublisher`,
`holder` is the thread inside `_publish_telemetry_once`, `step` how far it is;
`last` is the watermark in memory, `file` the one on disk. A commit may be
ambiguous: the new file is visible, but the call failed. `FilePromise` is the
refinement: `TelemetryRegister` with `at` and `state` read from the file.

### GenerationWorker

`pc` is where a round of `run_once` is, `todo` the cache entries that
`_reconcile_cached_results` still has to ask about, `cache` and `stray` the
results on disk (with the hard link or temporary file that a kill leaves),
`release` the installed release. The fault "unsafe" is a cached result that is
refused when it is read or removed. `Ends` is the end of a round: "idle" for what
`serve` turns into a backoff, "exited" for the errors that leave `serve`, after
which the service manager starts the process again. The heartbeat thread writes
nothing but what `stop_and_check` reads, so it is the variable `doomed`: no
error, a lease that is over, or the error of a malformed reply, which
`stop_and_check` raises again in the handlers and which therefore ends the
process. Scout is external, from `docs/production-generation-worker.md` and the
tests: it gives a live lease again before a new one (also to a restarted
process), takes one terminal request per lease, keeps a receipt of completed,
failed and cancelled leases, and lets a lease run out at any step, with a new
lease or its own fallback and no receipt.

## 3. Runs

| Run | Instance | Shows |
|---|---|---|
| `log_faults` | 2 processes, 2 jobs (one with two executions), 2 faults of any kind | types, `LogIntact`, `AckedIsDurable`, `DurableAppendOnly` |
| `log_ledger` | 2 processes, 3 jobs with one shared key, 1 fault, no power loss | `HeadTrails`, `NoTornRead`, and that the log implements `ReceiptLedger` |
| `log_crash` | kills only | **violated** `CrashSafe` |
| `worker_faults` | 2 workers, 1 operator, 2 attempts of a key, 2 URIs, 1 fault of any kind but power loss | `WorkerInv` (with `CompletedIsReceipted`), `ResultImmutable`, `CommitNeverStale`, `NoContradiction`, `ExpiryIsFinal` |
| `worker_live` | 1 worker retried with 2 jobs, 1 operator who recovers, 1 fault, one job's benchmark artifact away at times | `RetryCompletes` |
| `children` | every window of a job and every wall-time limit within a clock of 5 ticks; job and benchmark limits of 1 to 3 ticks under an operator's 2 | `ChildRunInv` (with `NoDeadWork`), `WithinCeilings`, `ErrorIsEvaluations`, `ReplayAccepted`, `RunEnds` |
| `experiment` | 4 records in 3 orders, whole or in two sources, and faulty exports; 3 seeds (three splits, one split, two records in validation); one change after the freeze; 14 jobs, 12 benchmarks, 27 payloads with up to two weights, 110 declarations | `FrozenAccepted`, `OnlyFrozenAccepted`, `NoHiddenDrift`, `SealedUnread`, `KeepEarned`, `MetricLaws` (values and sampled pairs) |
| `reads` | one reader, 2 files, documents of one and two chunks, 2 changes by an outsider | `FileReadsInv` (with `ReadIsPublished`), `ReadIsWhole`, `ReadEnds` |
| `remote` | a good and a bad job, one lease and up to 2 executions each, 2 faults, fair | `RemoteInv` (with `OneTree`), `SilentDecision`, `NoSecondDecision`, `ReplayKept`, `ClaimEnds` |
| `telemetry` | 3 ticks, 2 processes, 2 addresses per request, one deletion of the file | `TelemetryInv` (with `NoTruncatedSuccess`, `NothingLeft`), `FilePromise`, `StopEnds` |
| `generation_safety` | 2 jobs, 2 leases each, 2 results, a cache of one entry; 2 faults among lost requests, kills, failing writes of a result, a new release | `CacheKept`, `OneDecision` |
| `generation_live` | 2 jobs, one lease each; 2 faults among lost and malformed replies and failing status writes; fair | `Reconciled` |

An invariant named for its module (`WorkerInv`, `RemoteInv`, ...) is the type
invariant and the parts named with it; elsewhere the type invariant is checked
under its own name.

Bounds. Two processes are enough for every race on the log, since a third one
can only wait for the same lock; two jobs and a rerun give every outcome of an
admission; two faults give a fault during the recovery from another (a kill, a
recovery, a power loss). One fault suffices for the ledger because the only state
that a fault leaves behind for good, a stray name or a HEAD one behind, is then
met by every call. Logs are short because a key is committed at most once: the
documents bound them, not a constraint. Two jobs give the remote worker a second
claim after every way the first can end. The cache of the generation worker
holds one entry instead of eight in `generation_safety`, so that the limit is met
there, and two, one per lease, in `generation_live`, where it is not.

For `children`, five ticks let a deadline, the operator's limit and the
benchmark's limit each be the first to run out, before, between and after the
two children. Four records let a split have none, one and two, which are the
edge cases of every metric, and limits of records and bytes are met, missed by
one and used up exactly. `MetricLaws` covers 2 to 6 records, samples of 1
to 16 of the up to 15 pairs, 2 to 4 bins and both cut-offs; the theorems of
section 5 cover the rest. Two changes are enough to change a file and put
its content back between the two looks of a read. Three ticks give a snapshot
that is older than the visible one, as new, and newer; two processes give one
that starts with the file of another.

The violated run is a disagreement between the code and its documents; it is
described with its lines under "findings" in `PROJECT.json`: a kill between the
creation and the unlink of a temporary file in `entries/` makes the log
unreadable for good.

Mutants, one per property, are the operators whose comment starts with
"Mutant:", beside the definition they alter.

## 4. Fairness

`RetriedSpec` of `IsolatedWorker`: a started invocation goes on (no wait in it
is unbounded: the children have a watchdog, and a step under the lock of the log
waits only for the disk), every invocation is retried as long as it can be
started, and an operator runs recovery again and again; the last two are what
`docs/worker-security.md` asks of the operator, not something the program does.
`RetryCompletes` starts when the last fault is past, so neither a failing call nor
a workspace over its budget keeps a result away, and `~stray` excludes what
`log_crash` shows. No fairness says that an unmounted benchmark artifact comes
back: the property ends in a completed result or in an artifact that is away
again and again.

`FairSpec` of `RemoteWorker`: the main thread takes its local steps, and the
deadline of the claim passes. Nothing is owed by Scout, by the supervisor thread,
which may hang in a heartbeat, or by the executor, which may run on. The first
heartbeat, a download and a terminal request have no watchdog, and a socket
timeout starts again with every byte, so a peer that trickles can hold the main
thread for ever: `ClaimEnds` says that a claim ends unless the main thread stays
in such an exchange (`Asking`). What it rests on is the join with a timeout, the
deadline that `_execute` checks, and that every error path ends the claim.
`FairSpec` of `GenerationWorker`: the process keeps running and is started again
after it ended, which is the service manager's part, and a request to Scout ends
in an answer or an error; the latter is an assumption about the peer, since
these requests have no watchdog either.

`RequestFairness` of `RequestWatchdog`: local steps of the request, the watchdog
thread and the passing of its deadline go on. The peer owes nothing: a socket
timeout starts again with every byte, so only the dialling of an address and the
resolver are bounded by a timeout of their own, and what ends every later stage
is the watchdog. `TelemetryPublisher` adds that a fetched answer is processed, a
started write ends and a stop signal is followed, and that a telemetry request
has a deadline, which `_fetch_telemetry` gives it.

`ChildRun`: the parent goes on and time passes. A child owes nothing; the wait
for it times out. `FileReads`: the reader goes on; writers and the outsider do
not have to stop, since their number of changes is bounded by what a read reads,
not by fairness: the read ends at the size it saw first.

## 5. Proofs

Each module of theorems states what holds for all values of the constants that
satisfy the named assumptions of the modules it extends, and nothing else is
assumed. The properties are the ones the runs check, and each inductive invariant
was checked by TLC on the run's instance before it was proved.

| Module | Theorem | Statement |
|---|---|---|
| `ReceiptLog_proof` | `TypeCorrect` | `Spec => []TypeOK` |
| | `LogStaysIntact` | `Spec => []LogIntact` |
| | `AckedStaysDurable` | `Spec => []AckedIsDurable` |
| | `DurableNeverRewritten` | `Spec => DurableAppendOnly` |
| | `HeadStaysClose` | `Spec => []HeadTrails`, if the faults exclude "power" |
| | `NobodyReadsTorn` | `Spec => []NoTornRead` |
| | `LogIsLedger` | `Spec => ImplementsLedger`, the refinement of `ReceiptLedger`, if the faults exclude "power" |
| `IsolatedWorker_proof` | `ResultsAreReceipted` | `WorkerSpec => []WorkerInv` |
| | `NeverStale` | `WorkerSpec => []CommitNeverStale` |
| | `ResultsStay` | `WorkerSpec => ResultImmutable` |
| | `DeadlineIsFinal` | `WorkerSpec => ExpiryIsFinal` |
| | `NeverContradicts` | `WorkerSpec => NoContradiction`, for all faults |
| | `OneReceiptPerJob` | all completed results of a job name one receipt |
| | `LogServesWorkers` | `WorkerSpec => [](LogIntact /\ AckedIsDurable /\ HeadTrails)` |
| | `WorkersKeepLedger` | `WorkerSpec => ImplementsLedger` |
| `RemoteWorker_proof` | `Inductive` | `Spec => []IInv` |
| | `OneRunTree` | `Spec => []RemoteInv` |
| | `DecidesInSilence` | `Spec => []SilentDecision` |
| | `OneDecision` | `Spec => NoSecondDecision` |
| | `ResultKept` | `Spec => ReplayKept` |
| `ChildRun_proof` | `ReducedLimits` | the reduced ceilings are the greatest lower bound of operator, job and benchmark |
| | `ReceiptsWithinCeilings` | `Spec => []WithinCeilings` |
| | `ErrorsAreEvaluations` | `Spec => []ErrorIsEvaluations` |
| | `ReplaysAccept` | `Spec => []ReplayAccepted` |
| | `NoWorkLeft` | `Spec => []ChildRunInv` |
| `FileReads_proof` | `PublishedIsRead` | `Spec => []FileReadsInv` |
| | `WholeIsRead` | `Spec => ReadIsWhole` |
| `TelemetryPublisher_proof` | `RequestsClean` | `Spec => []TelemetryInv` |
| | `FileKeepsPromise` | `Spec => FilePromise`, the refinement of `TelemetryRegister` |
| `GenerationWorker_proof` | `GenerationTypes` | `Spec => []GenerationTypeOK` |
| | `ResultsAreKept` | `Spec => CacheKept` |
| | `LeaseHasOneDecision` | `Spec => OneDecision`, if the faults exclude "status", "unsafe" and "malformed" |
| `Experiment_proof` | `TestSplitSealed` | `Spec => []SealedUnread` |
| | `OneChange` | `Spec => []NoHiddenDrift` |
| | `KeptIsNoWorse` | a KEEP is no worse in any gated metric, for all integer values and gates |
| | `ReportsInRange` | `Spec => []ExperimentTypeOK`: every metric yields an integer in its range |
| | `KeepIsEarned` | `Spec => []KeepEarned` |
| | `AcceptedIsFrozen` | `Spec => []OnlyFrozenAccepted` |
| | `FrozenIsAccepted` | `Spec => []FrozenAccepted` |
| | `PairsAreDrawn` | the sampled pairs are distinct pairs, in order, for any number of records and any sample |
| | `MetricsAreLawful` | `Spec => []MetricLaws` |

**ReceiptLog.** None of the properties is inductive. `IInv` adds three
facts: a call past its admission holds the lock (`LockOwned`), so two of them
never overlap; until it is linked, the draft under the lock still extends the tip
and has a key and an id that no entry has (`DraftFits`, established by
`Admission`); and from the link to the acknowledgement the draft is the last
entry (`DraftLinked`), so that it is synced when `SyncHead` acknowledges it. The
proof has one lemma per group of actions; `PrefixIntact` shows that a power loss
keeps a chain and `ExtendIntact` that a link does. `DocsAssumption` is used only
for the distinct receipt ids: `commit` compares keys, not ids.

`HeadTrails` needs to know that HEAD matches when an entry is linked: admission
compared the two, and the lock keeps it so (`HeadFollows`). A power loss breaks
it (section 6), so the theorem excludes that fault. `NoTornRead` rests on
`Quiet`: before the first fault a temporary name or a HEAD that does not match
belongs to a call that holds the lock, so whoever takes the lock finds neither.
For the ledger, `LinkEntry` is `Admit`, which `DraftFits` allows; every answer is
a `Tell` that is true of the entries at that step (`FindIsTrue`, `CommitIsTrue`,
and `DraftLinked` for the answers after the link); every other step stutters. A
power loss may drop an entry that was told of but not acknowledged, and is
excluded.

**IsolatedWorker.** `StepLogs` and `WorkLogs` show that every step is a step of
the log or leaves it alone, so `IInv` of the log carries over. `Place` says what a
worker knows at each place inside `run_isolated_job`: the key it looked up is
still unused, the head it read is still the tip, the name of its result is still
free, and the receipt in its draft is one of its job. Each of these was read
outside the log's lock; they stay true because the worker holds `.worker.lock`
(`Alone`) and operators never add entries (`OperatorsRecover`, `EntriesNext`), and
that is the argument the "ReceiptLog invariant" comments of `admit_receipt` rely
on. Completed results stay backed because entries only grow (`VouchedStays`).
`ExpiryIsFinal` follows because a draft is made only by an admission, which
compares the deadline (`DraftStep`), and an entry only from a draft.
`NoContradiction` needs one more invariant, `Honest`: what a worker is about to
publish without a receipt is true of the log, or its own commit has put the
receipt there as the last entry and then failed with another error than that of
HEAD, which is the one case in which the code breaks the rule (section 6). `JobsAssumption` says that
workers run jobs and that a job has one idempotency key, because its digest covers
the key. `NoPowerAssumption` is part of the module: results are not followed
through a power loss. `LogServesWorkers` and `WorkersKeepLedger` state the log's
own guarantees for the composed system.

**RemoteWorker.** Scout may give a lease again (`Open`); `OneOpen` says that a
session has at most one such lease, `LeaseOK` that while a claim is worked on no
other lease is open, and that a cancellation or an acknowledgement the worker
knows of closed this one: that is why removing the tree then loses nothing
(`ReplayKept`), and why pruning the others does not (`FilesOK`). `VerdictOK` says
that a verdict is what lies in the run tree; together with `Sole`, that a
completion once sent still lies there or its lease is over (`Over`), it follows
that a second request is the first again (`NoSecondDecision`), or the report of a
refused file: a lease that is over while its claim is still worked on has nothing
left to be said but that (`Told`). `Given` is needed so that
nothing is known of a fence that is still to be given. `SilentDecision` is
inductive once `SupervisorOK` and `WorkerOK` say where a heartbeat may be open.
`NoneIsNoReply` keeps the absence of a reply apart from the replies.

**ChildRun.** What is said of a receipt has to be carried from the moment the
packet is heard to the commit. `Moments` relates the admission to the clock and
the wait to the deadline and the budget; `Ceilings` says that the limits in force
are below the operator's and the job's; `Sealing` and `Stamped` say what is known
of a packet before and after it is stamped, `Sealed` of the receipt it becomes;
`Timely`, that the start of a packet is one that the replay accepts exactly when
the run was loaded in the window or the packet is a decision;
`OneChild` says that a child works only while it is waited for. The argument for
the budget is that `until` is computed from `limits` at the moment of the wait,
and that a later reduction only lowers them (`ReducedLimits`).

**FileReads.** `ReadIsPublished` and `ReadIsWhole` say nothing of a read under
way. `Complete` says which files are whole documents: all that no outsider has
touched, but the one being written under its staging name, which `Staged` keeps
away from the name and from readers. `Watched` is the heart: as long as the file
has the time of the first look its content is the content of then and what has
been read is the start of it, and as long as it has its change time the name
still leads to it; that needs `LinkCount`, by which an untouched file has exactly
the links of its name and of its publication.

**TelemetryPublisher.** `Held` says what a request holds at each stage, so that
what its end closes is all there is. `Aborts` is why no cut body is returned: a
transport is shut down only after `aborted` is set, so the check after the read
loop sees it. The refinement needs three facts about the publication.
`OnePublication` ties the lock, the step and the one request together. `Bound`
says that a publication that is about to write has an answer at least as new as
`last`, and that all this process made visible is at most `last` again once the
step after the replacement is over, also when the commit was ambiguous. `Last`
says that the main thread publishes only when the thread cannot, and as
"offline": nothing can follow a sealed file within one process. `Replaces` is
then a `Publish` of the register; `Restart` and `RemoveFile` are steps of it as
well; every other step leaves the file alone.

**GenerationWorker.** `Stored` says that a completion is reported only for a
result that is in the cache, and that the model is asked only for a lease that has
none there; `Acknowledged`, that an entry removed after a completion belongs to a
decided lease. That a lease gets one decision needs more, because a request may be
lost on either way and the lease given again: `Repeatable` says that a completion
that was sent is still in the cache, where `Lookup` finds it, or that its lease is
over, and a lease that is over is never claimed again because its fence is
spent; `Sole`, that where a failure may still be sent no completion was. The
theorem names the three faults it excludes; section 6 says what they do.

**Experiment.** Nothing read is replaced later. `Submitted`, `Checked` and
`Admitted` say of each document past its stage what its check established;
`Selected` follows when the evaluation reads the job's split out of a checked
manifest. `OneLeaf` is the lemma about `verify_candidate_change`: equal domains,
equal types and one differing value make the two payloads equal but for the
declared leaf. It needs that a payload is a function to numbers, which
`ExperimentAssumption` says. `KeptIsNoWorse` takes the metric values as any
integers. `KeepEarned` needs more of them: that they are integers at all
(`ReportsInRange`), that the benchmark passed `parse_metric_specs` (`Gated`) and
that the decision was recomputed from the values reported (`Decided`).

What the folds, the sorts and the binary search compute is proved by induction
all the same. The library's induction theorems take an operator and cannot be
used, but `WFMin` takes a set: a set of numbers has a least element (`Least`), so
a set that holds 0 and with each number the next holds them all
(`NumberInduction`), and likewise for the subsets of a finite set
(`SubsetInduction`, `SmallerInduction`) and for a measure (`MeasureInduction`).
The recursive function inside a fold is a
CHOOSE, so it first has to be shown to exist: `SumExists` for sums over finite
sets, `ChainSolution` for the folds along a sequence, `LoopSolution` for a loop
whose measure falls. After that every lemma is about sums, sequences and
permutations.

- The ranges. A sum of n values between two bounds is between n times these
  (`SumBetween`); the Cauchy-Schwarz inequality bounds
  `spearman`; no ranking has a larger sum of leading labels than the ideal one,
  and discounts that fall keep it so for `ndcg`; `quantize` keeps a fraction
  between 0 and m between 0 and m.
- Datasets. `freeze_records` sorts the records by identity, deals them to three
  splits and keeps the order in each. `verify_frozen_dataset` looks at the order,
  the membership, the counts, the seals and the bytes of each split by itself;
  that nothing else passes it than what a freeze of the same records would
  publish (`AcceptedIsFrozen`) is the fact that a sorted sequence is determined
  by its elements, applied to the whole and to each split. For `FrozenAccepted`
  the invariant is `AInv`: a refusal and an acceptance are the verdict of the
  documents as they still are (`Refused`, `Accepted`), a split counts no fewer
  records than it has (`Counted`), a manifest that nobody changed passes
  `verify_frozen_dataset` (`Untouched`), and the benchmark asks for a record in
  every split (`Bound`). What is left of the limits is handed from split to
  split; `ReadIfFits` and `ReadAdds` say that a split is read if it keeps to
  that, and only then, so their sum keeps to the limits of the job (`FitsIsRead`,
  `ReadFits`).
- The laws. A result exists only of a split with records (`Evaluated`), and a
  score is in range, so that the laws can be stated of any two sequences of
  scores. Labels rank best because the discounts fall; the calibration error lies
  between the distance of the means and the mean error by the triangle
  inequality over the bins, and half a unit of rounding on each side is why
  `BinnedFairly` allows the difference of one unit. For the pairs, twice
  `_pairs_before(i, n)` is i(2n - i - 1), without a division, so record i begins
  n - i - 1 pairs; the search keeps the number of the pair between those of its
  two ends, and distinct numbers are distinct pairs in order.

Only model-checked: liveness (`RunEnds`, `ReadEnds`, `StopEnds`, `ClaimEnds`,
`Reconciled`, `RetryCompletes`), which is out of the prover's reach under
fairness. Every other property of a passing run is stated by a theorem. Three of
them have a condition: `HeadTrails`, `ImplementsLedger` and `OneDecision` hold
without the faults that their theorems name, which are also the faults their
runs leave out.

## 6. Observed, not run

The models show more behaviours that their documents do not lead one to expect.
No run is spent on them; each needs one change of an instance.

- `ReceiptLog`, power loss after a recovery: recovery writes and syncs HEAD for
  the last visible entry without a sync of `entries/`, so a power loss can keep
  HEAD and drop the entry (`docs/architecture/atlas-intelligence-platform.md:292`).
- `IsolatedWorker`, faults between the link and HEAD: `commit` may fail with
  `RECEIPT_WRITE_FAILED` or `RECEIPT_FSYNC_FAILED` after the entry is visible,
  and the worker then publishes a rejected result beside a completed receipt,
  against the comment at `worker.py:1471`. `worker_faults` has these faults;
  `NoContradiction` allows exactly this case (`UnconfirmedCommit`) and no other.
- `IsolatedWorker`: every recovery of a result from its receipt resolves and
  checks the benchmark artifact again (`_recovery_limits`), so while that
  artifact is away a job that has its receipt cannot complete (`RetryCompletes`
  says so; `docs/worker-security.md:43` does not).
- `RemoteWorker`: `_status("completed")` is inside the `try` of `_process_claim`,
  so a status file that is refused just after Scout accepted the completion sends
  `fail` for the same lease; and a file refused in a later delivery, after the
  acknowledgement of a completion was lost, is reported the same way. Scout
  takes the first decision only. `NoSecondDecision` allows exactly this report
  (`Refuse`).
- `ChildRun`: a packet of the evaluation child that is right but for the text of
  its `started_at` raises `INVALID_TIMESTAMP` (`worker.py:775`, `job.py:90`),
  which `_NON_RECEIPT_EXECUTION_ERRORS` does not list, so it becomes a final
  ERROR receipt where every other malformed packet leaves the job to be run
  again. `ErrorIsEvaluations` allows exactly this case.
- `GenerationWorker`, lost and malformed replies together: after a completion
  whose acknowledgement was lost, a malformed first heartbeat of the redelivered
  lease sends a failure (`docs/production-generation-worker.md:73-74`).
- `ChildRun`: `started_at` is taken at `worker.py:1323`, before the lock and the
  admission check. A job whose window opens while the worker waits is admitted
  with a `started_at` before its `created_at`; an ERROR packet carries that into
  the receipt, although `docs/contracts/semantic-validation-v1.md` asks for
  `created_at <= started_at`, and the replay then refuses the result
  (`ReplayAccepted` says exactly when).
- `ChildRun`: `_remaining_timeout` is evaluated after `_spawn_child`, so if it
  raises, the child is neither awaited nor killed; it ends when its input closes
  (`README.md:129` says that one subprocess runs at a time). A clock set back
  between start and end would make `started_at > finished_at`.
- `Dataset`: when earlier splits have used up a limit exactly and a later one is
  empty, `verify_dataset_manifest` passes 0 to `parse_scoring_jsonl`, which
  raises ValueError; the job then ends as an internal error, retryable and
  without a receipt, where `semantic-validation-v1.md` speaks of an ERROR receipt
  (`FrozenAccepted` states exactly when). The freeze limits its output alone,
  the verification charges sources and splits together to `max_input_bytes`, so
  a frozen dataset can be too large for every job.
- `TelemetryPublisher`: a temporary file left by a kill is never removed, and a
  refused session (`AUTH_REJECTED`) is swallowed by the publisher thread.
  Requests without a deadline or a cancel event (claim, heartbeat, completion,
  downloads) have no watchdog and are not what `RequestWatchdog` models.
- `IsolatedWorker`: a receipt that survives a kill between `os.link` and the
  unlink of its temporary name never becomes a result, because of the name that
  `log_crash` shows (`RetryCompletes` excludes it with `~stray`;
  `docs/worker-security.md:43` does not).
- `RemoteWorker`: `run_root` is unset until `_run_root` returns, so a
  cancellation confirmed by the first heartbeat of a redelivered claim keeps the
  tree of the earlier delivery (`docs/scout-worker-client.md:126-128`). A later
  prune removes it, which `OneTree` relies on.
- `GenerationWorker`, fault "status" in `generation_safety`: the status write
  after an accepted completion is inside the `try`, so its failure sends `fail`
  for the completed lease (`OneDecision`). A cached result that is found unsafe
  when it is read for a second delivery, or removed after the acknowledgement,
  does the same (fault "unsafe").
- `GenerationWorker`, faults "kill", "store" or "upgrade" in `generation_live`:
  the remains of a commit in `generation-results`, or a result of another
  release, are refused by every later round before a receipt is read
  (`Reconciled`).
- `GenerationWorker`, `Limit`: a result whose lease ran out without a receipt is
  never removed and `_store_result` has no bound, so the ninth one ends the
  service at every start with "Too many generation result cache entries".

## 7. Not modelled, and plan

Not modelled within the modelled parts:

- the composition of `IsolatedWorker`, `ChildRun` and `Experiment`: each takes
  the next for one step, because the product of their states is too large and
  they share nothing but the packet;
- the session and its margin before expiry (`_session_or_exchange` of both
  workers), and the fields of the documents that Scout sends;
- the workspace budget of a run, provenance, and the resource limits of a child;
- the mapping of artifact URIs to paths, which is a check of a string.

Left out for good: text parsers and encoders (`canonical.py`,
`production_generation.py`, the document validators), whose content no property
here distinguishes; `qwen.py`, one bounded exchange in one thread whose answer is
an untrusted input to the checks of `Candidate`; HTML reports, the doctor and
argument parsing, which keep no state; the release workflow.

Next: the session of the two Scout workers, in `RemoteWorker` and
`GenerationWorker`.
