--------------------------- MODULE IsolatedWorker ---------------------------
(***************************************************************************)
(* run_isolated_job of worker.py on one private output root: workers take  *)
(* .worker.lock, replay an immutable result, rebuild it from a committed   *)
(* receipt, or evaluate the job in a child process, commit the receipt and *)
(* publish the result.  The receipt log underneath is ReceiptLog; operators *)
(* run `receipt verify [--recover]` on it at the same time.                *)
(*                                                                         *)
(* A receipt's body stands for one execution of the job (its times, usage  *)
(* and result).  Calls that raise leave nothing behind and are recorded as *)
(* the outcome "raised".                                                   *)
(***************************************************************************)
EXTENDS ReceiptLog

CONSTANTS Workers,     \* processes that run jobs; the others are operators
          Invocations, \* the job, result_uri pairs workers are invoked with
          Fragile      \* bound: the jobs whose benchmark artifact may go away

ASSUME WorkersAssumption == Workers \subseteq Procs

(* Results are not followed through a power loss.                          *)
ASSUME NoPowerAssumption == "power" \notin Faults

VARIABLES wlock,    \* the holder of .worker.lock
          at,       \* where each worker is inside run_isolated_job
          invoked,     \* the pair it was invoked with
          pending,  \* the result document it is going to write
          outcome,  \* what its last invocation returned, until the next one
          result,   \* the result documents, by result_uri
          aliased,  \* result files whose temporary name still exists
          late,     \* jobs whose deadline has passed
          gone      \* jobs whose benchmark artifact does not pass now

workerVars == <<wlock, at, invoked, pending, outcome, result, aliased, late, gone>>
local == <<wlock, invoked, pending, outcome>>
allVars == <<vars, workerVars>>

Jobs == {d.job_spec_sha256 : d \in Docs}
Uris == {c.uri : c \in Invocations}

(* Workers are invoked with jobs; the specification that a job's digest    *)
(* covers contains its idempotency key.                                    *)
ASSUME JobsAssumption ==
    /\ Fragile \subseteq Jobs
    /\ \A c \in Invocations : c.job \in Jobs
    /\ \A d, e \in Docs :
          d.job_spec_sha256 = e.job_spec_sha256 => d.idempotency_key = e.idempotency_key

Statuses == {"completed", "rejected", "cancelled", "expired"}
Result == [job : Jobs, status : Statuses, receipt : Receipt \cup {None}]
Outcome == Result \cup [job : Jobs, status : {"raised"}, receipt : {None}]
Places == {"idle", "lookup", "check", "evaluate", "tip", "commit", "committing",
           "write", "published"}

(* Any document of the job carries the key and digest that find needs.     *)
Identity(j) == CHOOSE d \in Docs : d.job_spec_sha256 = j
Executions(j) == {d \in Docs : d.job_spec_sha256 = j}

ReceiptsOf(j) == {i \in 1..Len(entries) : entries[i].doc.job_spec_sha256 = j}

Document(j, status, receipt) == [job |-> j, status |-> status, receipt |-> receipt]

Raised(j) == Document(j, "raised", None)

(* The status of a run that ends without a receipt.                        *)
Failed(j, status) == Document(j, IF j \in late THEN "expired" ELSE status, None)
-----------------------------------------------------------------------------
Goto(w, place) == at' = [at EXCEPT ![w] = place]

(* run_isolated_job returns or raises; leaving the with block frees the lock. *)
Leave(w, o) ==
    /\ at' = [at EXCEPT ![w] = "idle"]
    /\ outcome' = [outcome EXCEPT ![w] = o]
    /\ wlock' = None
    /\ invoked' = [invoked EXCEPT ![w] = None]
    /\ pending' = [pending EXCEPT ![w] = None]
    /\ UNCHANGED <<result, aliased, late, gone>>

Enter(w, c) ==
    /\ wlock' = w
    /\ invoked' = [invoked EXCEPT ![w] = c]
    /\ outcome' = [outcome EXCEPT ![w] = None]
    /\ UNCHANGED <<pending, result, aliased, late, gone>>

(* Mutant: the existing result is not read.                                *)
Start_Unread(w, c) ==
    /\ at[w] = "idle" /\ op[w] = "idle" /\ wlock = None
    /\ Enter(w, c) /\ Goto(w, "lookup")
    /\ UNCHANGED vars

(* _single_worker does not wait: an invocation that finds the lock taken   *)
(* raises WORKER_BUSY and changes nothing.  The existing result is read    *)
(* under the lock; one that is a hard link, another job's, or whose times  *)
(* validate_result_document refuses (ReplayAccepted of ChildRun says when) *)
(* is a conflict, and one without a receipt is replayed as it is.          *)
Start(w, c) ==
    LET prior == result[c.uri] IN
    /\ at[w] = "idle" /\ op[w] = "idle"
    /\ wlock = None
    /\ UNCHANGED vars
    /\ \/ /\ prior = None
          /\ ~aliased[c.uri]
          /\ Enter(w, c) /\ Goto(w, "lookup")
       \/ /\ prior # None /\ ~aliased[c.uri]
          /\ prior.job = c.job /\ prior.status = "completed"
          /\ Enter(w, c) /\ Goto(w, "check")
       \/ /\ prior # None
          /\ Leave(w, Raised(c.job))
       \/ /\ prior # None /\ ~aliased[c.uri]
          /\ prior.job = c.job /\ prior.status # "completed"
          /\ Leave(w, prior)

(* A completed result is replayed only with the receipt it names.          *)
Check(w) ==
    LET c == invoked[w] IN
    /\ at[w] = "check"
    /\ Find(w, Identity(c.job))
    /\ Leave(w, IF ret'[w].code = "FOUND" /\ result[c.uri].receipt = ret'[w].receipt
                THEN result[c.uri] ELSE Raised(c.job))

(* Mutant: a receipt that exists does not stop the execution.              *)
Lookup_Reruns(w) ==
    /\ at[w] = "lookup"
    /\ Find(w, Identity(invoked[w].job))
    /\ Goto(w, "evaluate")
    /\ UNCHANGED <<local, result, aliased, late, gone>>

(* Mutant: the deadline is checked before the receipt is looked up.        *)
Lookup_DeadlineFirst(w) ==
    LET j == invoked[w].job IN
    /\ at[w] = "lookup"
    /\ Find(w, Identity(j))
    /\ IF j \in late THEN Leave(w, Raised(j))
       ELSE IF ret'[w].code = "FOUND" /\ j \notin gone
       THEN /\ Goto(w, "write")
            /\ pending' = [pending EXCEPT ![w] = Document(j, "completed", ret'[w].receipt)]
            /\ UNCHANGED <<wlock, invoked, outcome, result, aliased, late, gone>>
       ELSE Goto(w, "evaluate") /\ UNCHANGED <<local, result, aliased, late, gone>>

(* A committed receipt without a result is recovered, past the deadline    *)
(* too, when _recovery_limits can resolve and check the benchmark artifact *)
(* again; otherwise, and for an expired job without a receipt, the call    *)
(* raises.  _receipt_job_identity refuses no receipt that find returns:    *)
(* commit validated the same document, and the digest that find compares   *)
(* covers the fields compared here.                                        *)
Lookup(w) ==
    LET j == invoked[w].job IN
    /\ at[w] = "lookup"
    /\ Find(w, Identity(j))
    /\ CASE ret'[w].code = "FOUND" /\ j \notin gone ->
              /\ Goto(w, "write")
              /\ pending' = [pending EXCEPT ![w] = Document(j, "completed", ret'[w].receipt)]
              /\ UNCHANGED <<wlock, invoked, outcome, result, aliased, late, gone>>
         [] ret'[w].code = "ABSENT" /\ j \notin late ->
              /\ Goto(w, "evaluate")
              /\ UNCHANGED <<local, result, aliased, late, gone>>
         [] OTHER -> Leave(w, Raised(j))

WillWrite(w, doc) ==
    /\ Goto(w, "write")
    /\ pending' = [pending EXCEPT ![w] = doc]
    /\ UNCHANGED <<wlock, invoked, outcome, result, aliased, late, gone>>

(* The preflight and the child end in a packet (a terminal ERROR packet    *)
(* included), or in an error that earns no receipt: a timeout or an output *)
(* overflow cancels, a protocol or preflight error rejects.  The preflight *)
(* reads the benchmark artifact.                                           *)
Evaluate(w) ==
    LET j == invoked[w].job IN
    /\ at[w] = "evaluate"
    /\ UNCHANGED vars
    /\ \/ /\ j \notin late /\ j \notin gone
          /\ Goto(w, "tip")
          /\ UNCHANGED <<local, result, aliased, late, gone>>
       \/ \E status \in {"cancelled", "rejected"} : WillWrite(w, Failed(j, status))

(* previous_sha256 = receipt_log.head_sha256, then the deadline once more. *)
ReadTip(w) ==
    LET j == invoked[w].job IN
    /\ at[w] = "tip"
    /\ Verify(w)
    /\ IF ret'[w].code = "VERIFIED" /\ j \notin late
       THEN /\ Goto(w, "commit")
            /\ UNCHANGED <<local, result, aliased, late, gone>>
       ELSE WillWrite(w, Failed(j, "rejected"))

(* Mutant: commit is called without not_after.                             *)
CommitReceipt_NoDeadline(w) ==
    /\ at[w] = "commit"
    /\ \E d \in Executions(invoked[w].job), fits \in BOOLEAN :
          \/ /\ CommitAdmitted(w, d, FALSE, fits)
             /\ Goto(w, "committing")
             /\ UNCHANGED <<local, result, aliased, late, gone>>
          \/ /\ CommitAnswered(w, d, FALSE, fits)
             /\ WillWrite(w, Failed(invoked[w].job, "rejected"))

(* receipt_log.commit(not_after=deadline, before_write=admit_receipt).     *)
CommitReceipt(w) ==
    LET j == invoked[w].job IN
    /\ at[w] = "commit"
    /\ \E d \in Executions(j), fits \in BOOLEAN :
          \/ /\ CommitAdmitted(w, d, j \in late, fits)
             /\ Goto(w, "committing")
             /\ UNCHANGED <<local, result, aliased, late, gone>>
          \/ /\ CommitAnswered(w, d, j \in late, fits)
             /\ WillWrite(w, Failed(j, "rejected"))

(* Mutant: the errors of commit are swallowed.                             *)
Committed_Swallows(w) ==
    IF op'[w] # "idle" THEN UNCHANGED workerVars
    ELSE WillWrite(w, Document(invoked[w].job, "completed", ret'[w].receipt))

(* Mutant: RECEIPT_HEAD_WRITE_FAILED is a rejection like the other errors. *)
Committed_HeadRejects(w) ==
    IF op'[w] # "idle" THEN UNCHANGED workerVars
    ELSE IF ret'[w].code = "COMMITTED"
    THEN WillWrite(w, Document(invoked[w].job, "completed", ret'[w].receipt))
    ELSE WillWrite(w, Failed(invoked[w].job, "rejected"))

(* What run_isolated_job makes of the end of its commit.  After            *)
(* RECEIPT_HEAD_WRITE_FAILED and a raw OSError it publishes nothing; every *)
(* other error of the log is a rejection.                                  *)
Committed(w) ==
    LET j == invoked[w].job
        code == ret'[w].code
    IN  IF op'[w] # "idle" THEN UNCHANGED workerVars
        ELSE IF code = "COMMITTED"
        THEN WillWrite(w, Document(j, "completed", ret'[w].receipt))
        ELSE IF code \in {"RECEIPT_HEAD_WRITE_FAILED", "OSError"}
        THEN Leave(w, Raised(j))
        ELSE WillWrite(w, Failed(j, "rejected"))

CommitProceeds(w) == at[w] = "committing" /\ Proceed(w) /\ Committed(w)
CommitFails(w) == at[w] = "committing" /\ Fail(w) /\ Committed(w)

(* _write_result: an exclusive link, never an overwrite.  The lock and the *)
(* earlier read exclude another result of the same URI.                    *)
Publish(w) ==
    LET c == invoked[w] IN
    /\ at[w] = "write"
    /\ Goto(w, "published")
    /\ result' = [result EXCEPT ![c.uri] = pending[w]]
    /\ aliased' = [aliased EXCEPT ![c.uri] = TRUE]
    /\ UNCHANGED <<vars, local, late, gone>>

Finish(w) ==
    LET c == invoked[w] IN
    /\ at[w] = "published"
    /\ aliased' = [aliased EXCEPT ![c.uri] = FALSE]
    /\ at' = [at EXCEPT ![w] = "idle"]
    /\ outcome' = [outcome EXCEPT ![w] = result[c.uri]]
    /\ wlock' = None
    /\ invoked' = [invoked EXCEPT ![w] = None]
    /\ pending' = [pending EXCEPT ![w] = None]
    /\ UNCHANGED <<vars, result, late, gone>>

(* The workspace budget or the write fails before the result has a name.   *)
PublishFailsEarly(w) ==
    /\ at[w] = "write"
    /\ Fault("write")
    /\ Leave(w, Raised(invoked[w].job))
    /\ UNCHANGED <<disk, heads, lock, calls>>

KillWorker(w) ==
    /\ Kill(w)
    /\ at' = [at EXCEPT ![w] = "idle"]
    /\ outcome' = [outcome EXCEPT ![w] = None]
    /\ wlock' = IF wlock = w THEN None ELSE wlock
    /\ invoked' = [invoked EXCEPT ![w] = None]
    /\ pending' = [pending EXCEPT ![w] = None]
    /\ UNCHANGED <<result, aliased, late, gone>>

(* atlas-research receipt verify [--recover]                               *)
Operate(o) ==
    /\ Verify(o) \/ Recover(o) \/ Proceed(o) \/ Fail(o) \/ Kill(o)
    /\ UNCHANGED workerVars

DeadlinePasses(j) ==
    /\ j \notin late /\ late' = late \cup {j}
    /\ UNCHANGED <<vars, local, at, result, aliased, gone>>

(* The artifact root is not the worker's: a benchmark artifact may be      *)
(* unmounted, removed or damaged, and put back.                            *)
ArtifactChanges(j) ==
    /\ gone' \in {gone \cup {j}, gone \ {j}}
    /\ UNCHANGED <<vars, local, at, result, aliased, late>>
-----------------------------------------------------------------------------
WorkerInit ==
    /\ Init
    /\ wlock = None
    /\ at = [w \in Workers |-> "idle"]
    /\ invoked = [w \in Workers |-> None]
    /\ pending = [w \in Workers |-> None]
    /\ outcome = [w \in Workers |-> None]
    /\ result = [u \in Uris |-> None]
    /\ aliased = [u \in Uris |-> FALSE]
    /\ late = {} /\ gone = {}

Continue(w) ==
    \/ Check(w) \/ Lookup(w) \/ Evaluate(w) \/ ReadTip(w) \/ CommitReceipt(w)
    \/ CommitProceeds(w) \/ Publish(w) \/ Finish(w)

WorkerNext ==
    \/ \E w \in Workers : \/ \E c \in Invocations : Start(w, c)
                          \/ Continue(w)
                          \/ CommitFails(w) \/ PublishFailsEarly(w) \/ KillWorker(w)
    \/ \E o \in Procs \ Workers : Operate(o)
    \/ \E j \in Jobs : DeadlinePasses(j)
    \/ \E j \in Fragile : ArtifactChanges(j)

WorkerSpec == WorkerInit /\ [][WorkerNext]_allVars

(* An invocation runs to its end unless it is killed; a supervisor retries *)
(* every invocation, and an operator runs `receipt verify --recover`.      *)
RetriedSpec ==
    /\ WorkerSpec
    /\ \A w \in Workers : WF_allVars(Continue(w))
    /\ \A c \in Invocations : SF_allVars(\E w \in Workers : Start(w, c))
    /\ \A o \in Procs \ Workers :
          /\ WF_allVars(Proceed(o) /\ UNCHANGED workerVars)
          /\ SF_allVars(Recover(o) /\ UNCHANGED workerVars)
-----------------------------------------------------------------------------
(* Types, and who is inside run_isolated_job holds .worker.lock.           *)
WorkerTypeOK ==
    /\ wlock \in Workers \cup {None}
    /\ at \in [Workers -> Places]
    /\ invoked \in [Workers -> Invocations \cup {None}]
    /\ pending \in [Workers -> Result \cup {None}]
    /\ outcome \in [Workers -> Outcome \cup {None}]
    /\ result \in [Uris -> Result \cup {None}]
    /\ aliased \in [Uris -> BOOLEAN]
    /\ late \subseteq Jobs /\ gone \subseteq Jobs
    /\ \A w \in Workers : wlock = w <=> at[w] # "idle"

Vouched(r) == r = None \/ r.status # "completed" \/ \E i \in ReceiptsOf(r.job) : entries[i] = r.receipt

(* A completed result, on disk or answered, names the one receipt its job  *)
(* has in the log, whichever execution it was and however often workers    *)
(* died in between.                                                        *)
CompletedIsReceipted ==
    /\ \A u \in Uris : Vouched(result[u])
    /\ \A w \in Workers : Vouched(outcome[w])

(* The invariant of run_isolated_job: types, with .worker.lock held exactly *)
(* by the worker inside it, and completed results backed by receipts.      *)
WorkerInv == WorkerTypeOK /\ CompletedIsReceipted

(* No worker ever replaces or removes a published result.                  *)
ResultImmutable ==
    [][\A u \in Uris : result[u] # None => result'[u] = result[u]]_allVars

(* .worker.lock makes the head read before the commit the head at the      *)
(* commit, and the earlier find makes the key unused: the log never tells  *)
(* a worker that it is stale or a replay (the "ReceiptLog invariant" lines *)
(* of admit_receipt).                                                      *)
CommitNeverStale ==
    \A w \in Workers : ret[w].code \notin
        {"RECEIPT_STALE_HEAD", "REPLAYED", "RECEIPT_REPLAY_CONFLICT"}

(* The worker's commit failed after its entry had its name, with an error  *)
(* other than RECEIPT_HEAD_WRITE_FAILED: ConfirmFails, the checks of the   *)
(* committed file or the second sync of entries/.                          *)
UnconfirmedCommit(w) ==
    /\ ret[w].code \in {"RECEIPT_WRITE_FAILED", "RECEIPT_FSYNC_FAILED"}
    /\ entries # <<>> /\ ret[w].asked = entries[Len(entries)].doc
    /\ ReceiptsOf(invoked[w].job) = {Len(entries)}

(* "A durable completed receipt exists. Do not publish a contradictory     *)
(* immutable result": run_isolated_job keeps this for a failing HEAD alone.*)
(* When a rejected, cancelled or expired result is published, the log      *)
(* holds no receipt of the job, or exactly the one of this invocation's    *)
(* own commit, as its last entry, and that commit failed after the link;   *)
(* never one of another execution, worker or attempt, and never one whose  *)
(* only failure was HEAD's.                                                *)
NoContradiction ==
    [][\A u \in Uris :
          (result[u] = None /\ result'[u] # None /\ result'[u].status # "completed")
              => \/ ReceiptsOf(result'[u].job) = {}
                 \/ \E w \in Workers : wlock = w /\ UnconfirmedCommit(w)]_allVars

(* An expired job without a receipt whose commit was not yet admitted.     *)
Barred(j) ==
    /\ j \in late /\ ReceiptsOf(j) = {}
    /\ \A p \in Procs : draft[p] # None => draft[p].doc.job_spec_sha256 # j

(* The deadline is final: whatever is retried or recovered later, an       *)
(* expired job never gets a receipt.                                       *)
ExpiryIsFinal == [][\A j \in Jobs : Barred(j) => Barred(j)']_allVars

(* A committed receipt whose result nobody has written, or is writing, on  *)
(* a log whose last fault is behind it (calls that fail and a workspace    *)
(* over its budget are faults too), under a URI that is its job's own.  A  *)
(* leftover temporary file in entries/ is excluded: see CrashSafe of       *)
(* ReceiptLog.                                                             *)
Recoverable(c) ==
    /\ faults = MaxFaults /\ ~stray /\ wlock = None
    /\ ReceiptsOf(c.job) # {} /\ result[c.uri] = None
    /\ \A d \in Invocations : d.uri = c.uri => d.job = c.job

(* worker.py: "explicit HEAD recovery can make the same result URI         *)
(* reconstruct the completed outcome", past the deadline too: retries end  *)
(* with the completed result, unless the benchmark artifact, which every   *)
(* retry resolves again, is away again and again.                          *)
RetryCompletes ==
    \A c \in Invocations :
        Recoverable(c)
            ~> (\/ result[c.uri] # None /\ result[c.uri].status = "completed"
                \/ []<>(c.job \in gone))
=============================================================================
