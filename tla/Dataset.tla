------------------------------ MODULE Dataset -------------------------------
(***************************************************************************)
(* Frozen scoring datasets, from dataset.py: the JSONL parser, the         *)
(* deterministic freeze into three splits, the manifest, and the check of  *)
(* a manifest whose artifacts the resolver has pinned.                     *)
(*                                                                         *)
(* A line is a record in its canonical bytes, the same record in other     *)
(* bytes (twice as long here), or bytes that are no record.  The digest of *)
(* some data is the data.  The fixed maxima of constants.py are the        *)
(* caller's limits here: the code takes the lesser of both.                *)
(***************************************************************************)
EXTENDS Integers, Sequences, FiniteSets, SequencesExt, FiniteSetsExt, Ordering

CONSTANTS Ids,        \* record identities; their order is the ASCII order
          Bodies,     \* what a record says besides its identity
          Seeds,      \* dataset seeds
          SplitOf     \* SplitOf[s][i]: the split sha256-id-v1 gives i under seed s

SplitNames == <<"train", "validation", "test">>

ASSUME DatasetAssumption ==
    /\ Ids \subseteq Nat
    /\ SplitOf \in [Seeds -> [Ids -> {"train", "validation", "test"}]]

Lines == [id : Ids, body : Bodies, form : {"canonical", "loose", "broken"}]

(* A ValidationError, a ResourceLimitError, or a ValueError, which is no   *)
(* error of the program's own.                                             *)
Refusals == {"invalid", "limit", "crash"}

Ok(v) == [verdict |-> "ok", value |-> v]
No(why) == [verdict |-> why, value |-> <<>>]
IsOk(r) == r.verdict = "ok"

Size(data) == Len(data) + Cardinality({i \in DOMAIN data : data[i].form = "loose"})

TotalSize(datas) ==
    FoldFunction(LAMBDA m, n : m + n, 0, [i \in DOMAIN datas |-> Size(datas[i])])

_record_bytes(l) == [l EXCEPT !.form = "canonical"]

Duplicated(lines, i) == \E j \in 1..(i - 1) : lines[j].id = lines[i].id

(* The first line at fault decides: each is counted, parsed, and its       *)
(* identity compared with the earlier ones.                                *)
Scan(lines, max) ==
    LET bad == {i \in DOMAIN lines : lines[i].form = "broken" \/ Duplicated(lines, i)}
        clean == bad \cap 1..max = {}
    IN  IF ~clean THEN No("invalid")
        ELSE IF Len(lines) > max THEN No("limit") ELSE Ok(lines)

parse_scoring_jsonl(data, maxBytes, maxRecords, allowEmpty) ==
    IF maxBytes < 1 \/ maxRecords < 1 THEN No("crash")
    ELSE IF Size(data) > maxBytes THEN No("limit")
    ELSE IF data = <<>> THEN IF allowEmpty THEN Ok(data) ELSE No("invalid")
    ELSE Scan(data, maxRecords)

(* The records of one split, in the order they have.                       *)
InSplit(records, seed, name) ==
    LET at == Arranged({i \in DOMAIN records : SplitOf[seed][records[i].id] = name},
                       LAMBDA i, j : i < j)
    IN  [k \in DOMAIN at |-> records[at[k]]]

(* Records of different identities, by identity.                           *)
Sorted(records) == Arranged(Range(records), LAMBDA a, b : a.id < b.id)

FrozenSplit(records, seed, name) ==
    [data   |-> InSplit(records, seed, name),
     count  |-> Len(InSplit(records, seed, name)),
     sealed |-> name = "test"]

(* Mutant: where a record belongs is not recomputed.                       *)
SplitHolds_AnyMember(data, seed, name) ==
    \A i \in DOMAIN data : i > 1 => data[i - 1].id < data[i].id

(* Order and membership of the records of one split; records that are in   *)
(* their own splits are in no two.                                         *)
SplitHolds(data, seed, name) ==
    /\ \A i \in DOMAIN data : i > 1 => data[i - 1].id < data[i].id
    /\ \A i \in DOMAIN data : SplitOf[seed][data[i].id] = name

Frozen(rows, seed) == [name \in Range(SplitNames) |-> FrozenSplit(rows, seed, name)]

verify_frozen_dataset(splits, seed) ==
    /\ \A name \in Range(SplitNames) :
          LET s == splits[name] IN
          /\ s.sealed = (name = "test")
          /\ IsOk(Scan(s.data, Len(s.data))) /\ Len(s.data) = s.count
          /\ \A i \in DOMAIN s.data : s.data[i].form = "canonical"
          /\ SplitHolds(s.data, seed, name)
    /\ \E name \in Range(SplitNames) : splits[name].count > 0

freeze_records(records, seed, maxRecords, maxOutput) ==
    LET scanned == Scan(records, maxRecords)
        rows == Sorted([i \in DOMAIN records |-> _record_bytes(records[i])])
    IN  IF records = <<>> THEN No("invalid")
        ELSE IF ~IsOk(scanned) THEN scanned
        ELSE IF Size(rows) > maxOutput THEN No("limit")
        ELSE IF verify_frozen_dataset(Frozen(rows, seed), seed) THEN Ok(Frozen(rows, seed))
        ELSE No("invalid")

(* One source after the other; what the earlier ones left of the record    *)
(* limit bounds the next.                                                  *)
AddSource(sofar, source, maxTotal, maxRecords) ==
    LET bytes == sofar.bytes + Size(source)
        left == maxRecords - Len(sofar.records)
        parsed == parse_scoring_jsonl(source, Size(source) + 1, left, FALSE)
        all == sofar.records \o parsed.value
        Stop(why) == [sofar EXCEPT !.verdict = why]
    IN  IF sofar.verdict # "ok" THEN sofar
        ELSE IF bytes > maxTotal \/ left < 1 THEN Stop("limit")
        ELSE IF ~IsOk(parsed) THEN Stop(parsed.verdict)
        ELSE IF ~IsOk(Scan(all, Len(all))) THEN Stop("invalid")
        ELSE [verdict |-> "ok", bytes |-> bytes, records |-> all]

freeze_jsonl_sources(sources, seed, maxTotal, maxRecords, maxOutput) ==
    LET Add(sofar, source) == AddSource(sofar, source, maxTotal, maxRecords)
        all == FoldLeft(Add, [verdict |-> "ok", bytes |-> 0, records |-> <<>>], sources)
    IN  IF all.verdict = "ok" THEN freeze_records(all.records, seed, maxRecords, maxOutput)
        ELSE No(all.verdict)

build_dataset_manifest(splits, seed, sources) ==
    [seed |-> seed, sources |-> sources, splits |-> splits]

(* Mutant: a count equal to what is left of the limit is too much.         *)
WithinLimits_Strict(split, records, bytes) == split.count < records /\ Size(split.data) <= bytes

WithinLimits(split, records, bytes) == split.count <= records /\ Size(split.data) <= bytes

(* One split: its count and size against what is left, then its lines,     *)
(* bounded by what is left too - which the parser wants to be positive.    *)
ReadSplit(sofar, split, maxRecords, maxBytes) ==
    LET records == maxRecords - sofar.records
        bytes == maxBytes - sofar.bytes
        parsed == parse_scoring_jsonl(split.data, bytes, records, TRUE)
        Stop(why) == [sofar EXCEPT !.verdict = why]
    IN  IF sofar.verdict # "ok" THEN sofar
        ELSE IF ~WithinLimits(split, records, bytes) THEN Stop("limit")
        ELSE IF ~IsOk(parsed) THEN Stop(parsed.verdict)
        ELSE IF Len(split.data) # split.count THEN Stop("invalid")
        ELSE [verdict |-> "ok", records |-> sofar.records + split.count,
              bytes |-> sofar.bytes + Size(split.data)]

SplitsRead(manifest, maxRecords, maxBytes) ==
    LET start == [verdict |-> IF TotalSize(manifest.sources) <= maxBytes THEN "ok" ELSE "limit",
                  records |-> 0, bytes |-> TotalSize(manifest.sources)]
        Read(sofar, name) == ReadSplit(sofar, manifest.splits[name], maxRecords, maxBytes)
    IN  FoldLeft(Read, start, SplitNames)

verify_dataset_manifest(manifest, maxRecords, maxBytes) ==
    LET end == SplitsRead(manifest, maxRecords, maxBytes)
    IN  IF end.verdict # "ok" THEN end.verdict
        ELSE IF verify_frozen_dataset(manifest.splits, manifest.seed) THEN "ok" ELSE "invalid"
=============================================================================
