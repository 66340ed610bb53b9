--------------------------- MODULE MCReceiptLog ---------------------------
(* Instances of ReceiptLog for TLC.                                        *)
EXTENDS ReceiptLog, TLC

CONSTANTS p1, p2

Doc(id, key, body) == [receipt_id |-> id, idempotency_key |-> key,
                       job_spec_sha256 |-> id, body |-> body]

(* Two executions of one job, another job under the same key (the next     *)
(* attempt), and a job of its own.                                         *)
MCDocs == {Doc("j1", "k1", "x"), Doc("j1", "k1", "y"), Doc("j2", "k1", "x"),
           Doc("j3", "k2", "x")}

(* The same without the second attempt.                                    *)
Reruns == {Doc("j1", "k1", "x"), Doc("j1", "k1", "y"), Doc("j3", "k2", "x")}

(* One execution of each of two jobs.                                      *)
TwoJobs == {Doc("j1", "k1", "x"), Doc("j3", "k2", "x")}

Kills == {"kill"}
Processes == FaultKinds \ {"power"}

Symmetry == Permutations(Procs)
===========================================================================
