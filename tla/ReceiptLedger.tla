---------------------------- MODULE ReceiptLedger ----------------------------
(***************************************************************************)
(* What a receipt log promises its callers, with no files, locks or HEAD:  *)
(* a ledger that only grows, by receipts that extend its tip and bind a    *)
(* key not bound before, and answers that are true of the ledger at one    *)
(* instant of the call.  ReceiptLog implements it.                         *)
(***************************************************************************)
EXTENDS Naturals, Sequences

CONSTANTS Procs, Docs, None

VARIABLES ledger,  \* the receipts admitted so far
          told     \* the last answer each process was given

Digest(log) == IF log = <<>> THEN <<>>
               ELSE Append(log[Len(log)].prev, log[Len(log)].doc)

Binding(d) == {i \in 1..Len(ledger) :
                  ledger[i].doc.idempotency_key = d.idempotency_key}

SameJob(d) == {i \in Binding(d) :
                  ledger[i].doc.job_spec_sha256 = d.job_spec_sha256}

Holds(r) == \E i \in 1..Len(ledger) : ledger[i] = r

(* Codes that promise nothing about the ledger: the call failed, or it     *)
(* answers a question about the whole chain.                               *)
Silent == {"none", "VERIFIED", "RECOVERED",
           "RECEIPT_ENTRY_ORDER_INVALID", "RECEIPT_HEAD_MISSING",
           "RECEIPT_HEAD_MISMATCH", "RECEIPT_HEAD_RECOVERY_FAILED",
           "RECEIPT_WRITE_FAILED", "RECEIPT_FSYNC_FAILED", "OSError",
           "WORKSPACE_BYTES_EXCEEDED"}

(* The log never speaks of a broken or forked chain.                       *)
True(a) ==
    \/ a.code \in Silent
    \/ a.code = "ABSENT" /\ Binding(a.asked) = {}
    \/ /\ a.code = "FOUND"
       /\ Holds(a.receipt)
       /\ a.receipt.doc.idempotency_key = a.asked.idempotency_key
       /\ a.receipt.doc.job_spec_sha256 = a.asked.job_spec_sha256
    \/ /\ a.code \in {"COMMITTED", "REPLAYED"}
       /\ Holds(a.receipt) /\ a.receipt.doc = a.asked
    \/ a.code = "RECEIPT_JOB_CONFLICT" /\ Binding(a.asked) # SameJob(a.asked)
    \/ a.code = "RECEIPT_REPLAY_CONFLICT" /\ SameJob(a.asked) # {}
    \/ /\ a.code \in {"RECEIPT_STALE_HEAD", "RECEIPT_DEADLINE_EXPIRED"}
       /\ Binding(a.asked) = {}
    \/ /\ a.code = "RECEIPT_HEAD_WRITE_FAILED"
       /\ \E i \in SameJob(a.asked) : ledger[i].doc = a.asked

Admit(d) ==
    /\ Binding(d) = {}
    /\ ledger' = Append(ledger, [doc |-> d, prev |-> Digest(ledger)])
    /\ UNCHANGED told

Tell(p, a) ==
    /\ True(a)
    /\ told' = [told EXCEPT ![p] = a]
    /\ UNCHANGED ledger

Init == ledger = <<>> /\ told \in [Procs -> {[code |-> "none", asked |-> None,
                                             receipt |-> None]}]

Next ==
    \/ \E d \in Docs : Admit(d)
    \/ \E p \in Procs : Tell(p, told'[p])

Spec == Init /\ [][Next]_<<ledger, told>>
=============================================================================
