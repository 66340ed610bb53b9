-------------------------- MODULE MCIsolatedWorker --------------------------
(* Instances of IsolatedWorker for TLC.                                    *)
EXTENDS IsolatedWorker, TLC

CONSTANTS w1, w2, op1

Doc(id, key, body) == [receipt_id |-> id, idempotency_key |-> key,
                       job_spec_sha256 |-> id, body |-> body]

(* One job, with two possible executions, and the next attempt of the same *)
(* idempotency key.                                                        *)
Attempts == {Doc("j1", "k1", "x"), Doc("j1", "k1", "y"), Doc("j2", "k1", "x")}

(* One execution of each of two jobs.                                      *)
TwoJobs == {Doc("j1", "k1", "x"), Doc("j3", "k2", "x")}

Invoke(j, u) == [job |-> j, uri |-> u]

(* The job under two result URIs, and the next attempt under the second.   *)
SharedUri == {Invoke("j1", "u1"), Invoke("j1", "u2"), Invoke("j2", "u2")}
TwoCalls == {Invoke("j1", "u1"), Invoke("j3", "u2")}

AllButPower == {"kill", "write", "publish", "head"}

FirstJob == {"j1"}

Symmetry == Permutations(Workers)
=============================================================================
