----------------------------- MODULE ReceiptLog -----------------------------
(***************************************************************************)
(* The hash-chained experiment receipt log of receipts.py: processes that  *)
(* share one private directory commit receipts, look them up and rebuild   *)
(* HEAD, each call under the exclusive flock on .lock.  A mutation is a    *)
(* sequence of file-system steps, between any two of which the process may *)
(* be killed, a call may fail, or the machine may lose power.              *)
(*                                                                         *)
(* Abstractions.  A digest is the sequence of the documents it covers, so  *)
(* SHA-256 is collision free.  A receipt document is its identity fields   *)
(* and a body.  Only the holder of the lock changes the directory, so a    *)
(* call that only reads is one step.  Directory updates reach the disk in  *)
(* the order they were made, and fsync keeps its promise when it succeeds. *)
(***************************************************************************)
EXTENDS Naturals, Sequences, FiniteSets

CONSTANTS Procs,      \* processes and threads that open the log
          Docs,       \* receipt documents callers propose, without the chain field
          Faults,     \* the faults of a run, a subset of FaultKinds
          MaxFaults,  \* bound: faults per behaviour
          None        \* "no process", "no receipt"

(* Killing a process, cutting the power, and calls that fail: before the    *)
(* entry has its name ("write"), after that ("publish"), or on HEAD.       *)
FaultKinds == {"kill", "power", "write", "publish", "head"}

(* The lock holder None is not a process.                                  *)
ASSUME NoneAssumption == None \notin Procs

ASSUME FaultsAssumption == Faults \subseteq FaultKinds /\ MaxFaults \in Nat

(* worker.py derives receipt_id from job_spec_sha256 and the attempt, and  *)
(* the job specification contains the attempt and the idempotency key: one *)
(* id means one job, and one job means one key.                            *)
ASSUME DocsAssumption ==
    /\ \A d \in Docs : d = [receipt_id |-> d.receipt_id,
                            idempotency_key |-> d.idempotency_key,
                            job_spec_sha256 |-> d.job_spec_sha256,
                            body |-> d.body]
    /\ \A d, e \in Docs :
          d.receipt_id = e.receipt_id => d.idempotency_key = e.idempotency_key

VARIABLES entries,   \* the receipts visible in entries/, in sequence order
          synced,    \* how many of them an fsync of entries/ made durable
          dirty,     \* entries/ has changes that no fsync covers yet
          stray,     \* a temporary file of an entry is visible in entries/
          head,      \* HEAD as every process reads it
          diskHead,  \* HEAD as of the last fsync of the log's root
          lock,      \* the holder of the flock on .lock
          op,        \* where each process is inside its call
          draft,     \* the receipt each committing process writes
          known,     \* the head digest each process read last
          ret,       \* how each process's last call ended
          acked,     \* history: receipts whose own commit returned
          faults     \* how many faults have happened

disk == <<entries, synced, dirty, stray>>
heads == <<head, diskHead>>
calls == <<op, draft, known, ret, acked>>
vars == <<disk, heads, lock, calls, faults>>

Receipt == [doc : Docs, prev : Seq(Docs)]
HeadFile == [sequence : Nat, sha256 : Seq(Docs)]
NoHead == [sequence |-> 0, sha256 |-> <<>>]

ASSUME NoneIsNoReceipt == None \notin Receipt

(* The states of a call that holds the lock.  "recover" is verify(recover) *)
(* between taking the lock and staging the new HEAD.                       *)
Ops == {"idle", "admitted", "staged", "linked", "unlinked", "synced",
        "headStaged", "headReplaced",
        "recover", "recoverStaged", "recoverReplaced"}
-----------------------------------------------------------------------------
(* sha256 of a stored receipt covers its document and its chain field.     *)
Sha(r) == Append(r.prev, r.doc)

(* The digest of the last entry, previous_receipt_sha256 of the next.      *)
Tip(log) == IF log = <<>> THEN <<>> ELSE Sha(log[Len(log)])

(* Mutant: the sequence in HEAD counts from zero.                          *)
HeadOf_FromZero(log) == [sequence |-> Len(log) - 1, sha256 |-> Tip(log)]

HeadOf(log) == [sequence |-> Len(log), sha256 |-> Tip(log)]

Links(log) ==
    \A i \in 1..Len(log) : log[i].prev = IF i = 1 THEN <<>> ELSE Sha(log[i - 1])

Distinct(log) ==
    \A i, j \in 1..Len(log) : i # j =>
        /\ log[i].doc.receipt_id # log[j].doc.receipt_id
        /\ log[i].doc.idempotency_key # log[j].doc.idempotency_key

(* _scan_entries: a name that is not a receipt's breaks the sequence, then *)
(* the chain field and the identities of every entry are checked.          *)
Scan == IF stray THEN "RECEIPT_ENTRY_ORDER_INVALID"
        ELSE IF ~Links(entries) THEN "RECEIPT_CHAIN_BROKEN"
        ELSE IF ~Distinct(entries) THEN "RECEIPT_DUPLICATE_IDENTITY"
        ELSE "OK"

(* _require_matching_head: an empty log has no HEAD file, any other one a  *)
(* HEAD that names its last entry.                                         *)
HeadMatches == head = HeadOf(entries)

HeadCheck == IF HeadMatches THEN "OK"
             ELSE IF entries # <<>> /\ head = NoHead THEN "RECEIPT_HEAD_MISSING"
             ELSE "RECEIPT_HEAD_MISMATCH"

(* Mutant: HEAD is not compared with the entries.                          *)
Snapshot_IgnoresHead == Scan

Snapshot == IF Scan # "OK" THEN Scan ELSE HeadCheck

ChainErrors == {"RECEIPT_ENTRY_ORDER_INVALID", "RECEIPT_CHAIN_BROKEN",
                "RECEIPT_DUPLICATE_IDENTITY", "RECEIPT_HEAD_MISSING",
                "RECEIPT_HEAD_MISMATCH"}

Bound(d) == {i \in 1..Len(entries) :
                entries[i].doc.idempotency_key = d.idempotency_key}

Answer(code, asked, receipt) == [code |-> code, asked |-> asked, receipt |-> receipt]
-----------------------------------------------------------------------------
(* Mutant: the flock is never taken.                                       *)
Free_Unlocked == TRUE

Free == lock = None

(* A call that changes nothing on disk: it takes the lock, reads, answers  *)
(* and releases.                                                           *)
Answers(p, a) ==
    /\ ret' = [ret EXCEPT ![p] = a]
    /\ UNCHANGED <<disk, heads, lock, op, draft, acked, faults>>

(* Mutant: the job digest of the receipt found is not compared.            *)
FindAnswer_AnyJob(d) ==
    IF Snapshot # "OK" THEN Answer(Snapshot, d, None)
    ELSE IF Bound(d) = {} THEN Answer("ABSENT", d, None)
    ELSE Answer("FOUND", d, entries[CHOOSE i \in Bound(d) : TRUE])

(* find *)
FindAnswer(d) ==
    IF Snapshot # "OK" THEN Answer(Snapshot, d, None)
    ELSE IF Bound(d) = {} THEN Answer("ABSENT", d, None)
    ELSE LET i == CHOOSE i \in Bound(d) : TRUE
         IN  IF entries[i].doc.job_spec_sha256 # d.job_spec_sha256
             THEN Answer("RECEIPT_JOB_CONFLICT", d, None)
             ELSE Answer("FOUND", d, entries[i])

Find(p, d) ==
    /\ Free /\ op[p] = "idle"
    /\ Answers(p, FindAnswer(d))
    /\ UNCHANGED known

(* verify() and head_sha256: the caller keeps the digest.                  *)
Verify(p) ==
    /\ Free /\ op[p] = "idle"
    /\ Answers(p, Answer(IF Snapshot = "OK" THEN "VERIFIED" ELSE Snapshot, None, None))
    /\ known' = [known EXCEPT ![p] = IF Snapshot = "OK" THEN Tip(entries) ELSE @]

(* Mutant: the chain field is not compared with the tip.                   *)
Admission_StaleHead(r, late, fits) ==
    IF Snapshot # "OK" THEN Snapshot
    ELSE IF Bound(r.doc) # {} THEN "RECEIPT_REPLAY_CONFLICT" ELSE "ADMITTED"

(* commit, up to the first change of the directory: what the checks under  *)
(* the lock decide.  "late" is the outcome of the deadline check, "fits"   *)
(* of the caller's before_write budget.                                    *)
Admission(r, late, fits) ==
    IF Snapshot # "OK" THEN Snapshot
    ELSE IF Bound(r.doc) # {}
    THEN LET s == entries[CHOOSE i \in Bound(r.doc) : TRUE]
         IN  IF s.doc.job_spec_sha256 # r.doc.job_spec_sha256
             THEN "RECEIPT_JOB_CONFLICT"
             ELSE IF s # r THEN "RECEIPT_REPLAY_CONFLICT"
             ELSE IF fits THEN "REPLAYED" ELSE "WORKSPACE_BYTES_EXCEEDED"
    ELSE IF r.prev # Tip(entries) THEN "RECEIPT_STALE_HEAD"
    ELSE IF late THEN "RECEIPT_DEADLINE_EXPIRED"
    ELSE IF fits THEN "ADMITTED" ELSE "WORKSPACE_BYTES_EXCEEDED"

Proposal(p, d) == [doc |-> d, prev |-> known[p]]

CommitAnswered(p, d, late, fits) ==
    LET verdict == Admission(Proposal(p, d), late, fits) IN
    /\ Free /\ op[p] = "idle"
    /\ verdict # "ADMITTED"
    /\ Answers(p, Answer(verdict, d,
                         IF verdict = "REPLAYED" THEN Proposal(p, d) ELSE None))
    /\ UNCHANGED known

CommitAdmitted(p, d, late, fits) ==
    /\ Free /\ op[p] = "idle"
    /\ Admission(Proposal(p, d), late, fits) = "ADMITTED"
    /\ lock' = p
    /\ op' = [op EXCEPT ![p] = "admitted"]
    /\ draft' = [draft EXCEPT ![p] = Proposal(p, d)]
    /\ UNCHANGED <<disk, heads, known, ret, acked, faults>>

Commit(p, d, late, fits) ==
    CommitAnswered(p, d, late, fits) \/ CommitAdmitted(p, d, late, fits)
-----------------------------------------------------------------------------
(* The durable part of commit, one action per file-system step of          *)
(* atomic_write_private, _fsync_directory and _write_head.                 *)
Advance(p, from, to) == op[p] = from /\ op' = [op EXCEPT ![p] = to]

Stage(p) ==      \* create, write and fsync the temporary file in entries/
    /\ Advance(p, "admitted", "staged")
    /\ stray' = TRUE /\ dirty' = TRUE
    /\ UNCHANGED <<entries, synced, heads, lock, draft, known, ret, acked, faults>>

LinkEntry(p) ==  \* os.link gives the entry its name
    /\ Advance(p, "staged", "linked")
    /\ entries' = Append(entries, draft[p])
    /\ UNCHANGED <<synced, dirty, stray, heads, lock, draft, known, ret, acked, faults>>

UnlinkTemp(p) ==
    /\ Advance(p, "linked", "unlinked")
    /\ stray' = FALSE
    /\ UNCHANGED <<entries, synced, dirty, heads, lock, draft, known, ret, acked, faults>>

(* Mutant: entries/ is not synced after the link.                          *)
SyncEntries_NoFsync(p) ==
    /\ Advance(p, "unlinked", "synced")
    /\ UNCHANGED <<disk, heads, lock, draft, known, ret, acked, faults>>

SyncEntries(p) ==
    /\ Advance(p, "unlinked", "synced")
    /\ synced' = Len(entries) /\ dirty' = FALSE
    /\ UNCHANGED <<entries, stray, heads, lock, draft, known, ret, acked, faults>>

StageHead(p) ==  \* the temporary HEAD, whose atomic write syncs the root
    /\ \/ Advance(p, "synced", "headStaged")
       \/ Advance(p, "recover", "recoverStaged")
    /\ diskHead' = head
    /\ UNCHANGED <<disk, head, lock, draft, known, ret, acked, faults>>

(* Mutant: recovery trusts HEAD, and drops the entries past it.            *)
ReplaceHead_RollsBack(p) ==
    /\ op[p] \in {"headStaged", "recoverStaged"}
    /\ op' = [op EXCEPT ![p] = IF @ = "headStaged" THEN "headReplaced" ELSE "recoverReplaced"]
    /\ entries' = IF op[p] = "headStaged" \/ head.sequence > Len(entries) THEN entries
                  ELSE SubSeq(entries, 1, head.sequence)
    /\ synced' = Len(entries') /\ head' = HeadOf(entries')
    /\ UNCHANGED <<dirty, stray, diskHead, lock, draft, known, ret, acked, faults>>

(* The end of a call that held the lock.                                   *)
Returns(p, a) ==
    /\ op' = [op EXCEPT ![p] = "idle"]
    /\ ret' = [ret EXCEPT ![p] = a]
    /\ draft' = [draft EXCEPT ![p] = None]
    /\ lock' = None
    /\ UNCHANGED known

ReplaceHead(p) == \* os.replace, or unlink when the log is empty
    /\ \/ Advance(p, "headStaged", "headReplaced")
       \/ Advance(p, "recoverStaged", "recoverReplaced")
    /\ head' = HeadOf(entries)
    /\ UNCHANGED <<disk, diskHead, lock, draft, known, ret, acked, faults>>

SyncHead(p) ==
    /\ op[p] \in {"headReplaced", "recoverReplaced"}
    /\ diskHead' = head
    /\ IF op[p] = "headReplaced"
       THEN /\ Returns(p, Answer("COMMITTED", draft[p].doc, draft[p]))
            /\ acked' = acked \cup {draft[p]}
       ELSE /\ Returns(p, Answer("RECOVERED", None, None))
            /\ UNCHANGED acked
    /\ UNCHANGED <<disk, head, faults>>

(* verify(recover=True): only a HEAD that does not match is rebuilt; for an *)
(* empty log the stale HEAD is unlinked, with nothing to stage.            *)
Recover(p) ==
    /\ Free /\ op[p] = "idle"
    /\ \/ /\ Scan = "OK" /\ ~HeadMatches
          /\ lock' = p
          /\ op' = [op EXCEPT ![p] = IF entries = <<>> THEN "recoverStaged" ELSE "recover"]
          /\ UNCHANGED <<disk, heads, draft, known, ret, acked, faults>>
       \/ /\ Scan # "OK" \/ HeadMatches
          /\ Answers(p, Answer(IF Scan = "OK" THEN "VERIFIED" ELSE Scan, None, None))
          /\ known' = [known EXCEPT ![p] = IF Scan = "OK" THEN Tip(entries) ELSE @]
-----------------------------------------------------------------------------
(* Faults *)
Fault(kind) == kind \in Faults /\ faults < MaxFaults /\ faults' = faults + 1

(* Creating, writing, syncing or linking the temporary file fails; the      *)
(* finally clause removes it, and ignores that this may fail too.          *)
StageFails(p) ==
    /\ Fault("write")
    /\ op[p] \in {"admitted", "staged"}
    /\ stray' \in {FALSE, op[p] = "staged"}
    /\ Returns(p, Answer("RECEIPT_WRITE_FAILED", draft[p].doc, None))
    /\ UNCHANGED <<entries, synced, dirty, heads, acked>>

(* Removing the temporary file, or syncing entries/, fails after the link: *)
(* a raw OSError leaves the call.                                          *)
PublishFails(p) ==
    /\ Fault("publish")
    /\ op[p] \in {"linked", "unlinked"}
    /\ stray' \in {FALSE, op[p] = "linked"}
    /\ Returns(p, Answer("OSError", draft[p].doc, None))
    /\ UNCHANGED <<entries, synced, dirty, heads, acked>>

(* The checks of the committed file or the second sync of entries/ fail.   *)
ConfirmFails(p) ==
    /\ Fault("publish")
    /\ op[p] = "synced"
    /\ \E code \in {"RECEIPT_WRITE_FAILED", "RECEIPT_FSYNC_FAILED"} :
          Returns(p, Answer(code, draft[p].doc, None))
    /\ UNCHANGED <<disk, heads, acked>>

(* Any failure of _write_head, before or after the replacement: commit has *)
(* one error for all of them, a recovery lets the failing call's own error *)
(* leave, a raw OSError of os.replace included.  For an empty log only the *)
(* unlink and the sync can fail.                                           *)
RecoveryErrors ==
    IF entries = <<>> THEN {"RECEIPT_HEAD_RECOVERY_FAILED", "RECEIPT_FSYNC_FAILED"}
    ELSE {"RECEIPT_WRITE_FAILED", "RECEIPT_FSYNC_FAILED", "OSError"}

HeadFails(p) ==
    /\ Fault("head")
    /\ IF op[p] \in {"synced", "headStaged", "headReplaced"}
       THEN Returns(p, Answer("RECEIPT_HEAD_WRITE_FAILED", draft[p].doc, None))
       ELSE /\ op[p] \in {"recover", "recoverStaged", "recoverReplaced"}
            /\ \E code \in RecoveryErrors : Returns(p, Answer(code, None, None))
    /\ UNCHANGED <<disk, heads, acked>>

(* The kernel drops the flock of a killed process; its files stay.         *)
Kill(p) ==
    /\ Fault("kill")
    /\ op' = [op EXCEPT ![p] = "idle"]
    /\ draft' = [draft EXCEPT ![p] = None]
    /\ known' = [known EXCEPT ![p] = <<>>]
    /\ ret' = [ret EXCEPT ![p] = Answer("none", None, None)]
    /\ lock' = IF lock = p THEN None ELSE lock
    /\ UNCHANGED <<disk, heads, acked>>

(* Unsynced changes of a directory are lost or kept, the earlier ones      *)
(* first.                                                                  *)
PowerLoss ==
    /\ Fault("power")
    /\ \E kept \in synced..Len(entries) :
          entries' = SubSeq(entries, 1, kept) /\ synced' = kept
    /\ stray' \in IF dirty THEN BOOLEAN ELSE {stray}
    /\ dirty' = FALSE
    /\ head' \in {head, diskHead} /\ diskHead' = head'
    /\ lock' = None
    /\ op' = [p \in Procs |-> "idle"]
    /\ draft' = [p \in Procs |-> None]
    /\ known' = [p \in Procs |-> <<>>]
    /\ ret' = [p \in Procs |-> Answer("none", None, None)]
    /\ UNCHANGED acked
-----------------------------------------------------------------------------
Init ==
    /\ entries = <<>> /\ synced = 0 /\ dirty = FALSE /\ stray = FALSE
    /\ head = NoHead /\ diskHead = NoHead
    /\ lock = None
    /\ op = [p \in Procs |-> "idle"]
    /\ draft = [p \in Procs |-> None]
    /\ known = [p \in Procs |-> <<>>]
    /\ ret = [p \in Procs |-> Answer("none", None, None)]
    /\ acked = {} /\ faults = 0

(* A call that holds the lock goes on.                                     *)
Proceed(p) ==
    \/ Stage(p) \/ LinkEntry(p) \/ UnlinkTemp(p) \/ SyncEntries(p)
    \/ StageHead(p) \/ ReplaceHead(p) \/ SyncHead(p)

Fail(p) == StageFails(p) \/ PublishFails(p) \/ ConfirmFails(p) \/ HeadFails(p)

Call(p) ==
    \/ \E d \in Docs : Find(p, d)
    \/ \E d \in Docs, late, fits \in BOOLEAN : Commit(p, d, late, fits)
    \/ Verify(p) \/ Recover(p)

Next ==
    \/ \E p \in Procs : Call(p) \/ Proceed(p) \/ Fail(p) \/ Kill(p)
    \/ PowerLoss

Spec == Init /\ [][Next]_vars
-----------------------------------------------------------------------------
Codes == ChainErrors \cup
    {"none", "FOUND", "ABSENT", "VERIFIED", "RECOVERED", "COMMITTED", "REPLAYED",
     "RECEIPT_JOB_CONFLICT", "RECEIPT_REPLAY_CONFLICT", "RECEIPT_STALE_HEAD",
     "RECEIPT_DEADLINE_EXPIRED", "WORKSPACE_BYTES_EXCEEDED",
     "RECEIPT_WRITE_FAILED", "RECEIPT_FSYNC_FAILED", "OSError",
     "RECEIPT_HEAD_WRITE_FAILED", "RECEIPT_HEAD_RECOVERY_FAILED"}

(* Every variable has its type.                                            *)
TypeOK ==
    /\ entries \in Seq(Receipt)
    /\ synced \in 0..Len(entries)
    /\ dirty \in BOOLEAN /\ stray \in BOOLEAN
    /\ head \in HeadFile /\ diskHead \in HeadFile
    /\ lock \in Procs \cup {None}
    /\ op \in [Procs -> Ops]
    /\ draft \in [Procs -> Receipt \cup {None}]
    /\ known \in [Procs -> Seq(Docs)]
    /\ ret \in [Procs -> [code : Codes, asked : Docs \cup {None},
                          receipt : Receipt \cup {None}]]
    /\ acked \subseteq Receipt
    /\ faults \in Nat

(* Whatever callers propose with a stale head or a used key, and wherever a *)
(* process or the machine dies, the named entries stay one chain in which  *)
(* every id and key occurs once: _scan_entries can only object to a        *)
(* leftover temporary file.                                                *)
LogIntact == Links(entries) /\ Distinct(entries)

(* HEAD as processes read it names the last entry or the one before it:    *)
(* commit publishes the entry first, and verify(recover) rebuilds HEAD from *)
(* entries alone.  Power loss is excluded: it may keep HEAD and drop the    *)
(* entry, when recovery named an entry that no fsync covered.              *)
HeadTrails ==
    \/ HeadMatches
    \/ /\ entries # <<>>
       /\ head = HeadOf(SubSeq(entries, 1, Len(entries) - 1))

(* A receipt whose own commit returned is on disk for good: no later call, *)
(* kill or power loss removes or replaces it (fsync before HEAD, HEAD      *)
(* before return).                                                         *)
AckedIsDurable == \A r \in acked : \E i \in 1..synced : entries[i] = r

(* No step rewrites, removes or reorders an entry that an fsync covered    *)
(* (append-only storage, recovery that only rebuilds HEAD).                *)
DurableAppendOnly ==
    [][\A i \in 1..synced : i <= Len(entries') /\ entries'[i] = entries[i]]_vars

(* Readers and writers exclude each other: without a fault no caller is    *)
(* ever told that the chain or HEAD is inconsistent, although a commit     *)
(* passes through such states.                                             *)
NoTornRead == faults = 0 => \A p \in Procs : ret[p].code \notin ChainErrors

(* The log is a ledger: kills and failing calls included, a key is bound   *)
(* once, the receipt under it never changes, and every answer is true of   *)
(* the entries at one instant of its call.                                 *)
Ledger == INSTANCE ReceiptLedger WITH ledger <- entries, told <- ret
ImplementsLedger == Ledger!Spec

(* receipts.py:2 calls the log crash-safe and commit says that verification *)
(* with recovery can rebuild HEAD: whenever no call is running, a scan     *)
(* accepts the directory.                                                  *)
CrashSafe == Free => Scan = "OK"
=============================================================================
