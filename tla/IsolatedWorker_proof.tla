------------------------ MODULE IsolatedWorker_proof ------------------------
(***************************************************************************)
(* Theorems about IsolatedWorker, on top of the invariant of ReceiptLog:   *)
(* what a result says is what the log holds, the log never tells a worker  *)
(* that it is stale, results are immutable and deadlines final, for any    *)
(* workers, operators, jobs and result URIs.                               *)
(***************************************************************************)
EXTENDS IsolatedWorker, ReceiptLog_proof

Recovering == {"recover", "recoverStaged", "recoverReplaced"}

(* Operators run only verify and recover.                                  *)
OperatorsRecover == \A o \in Procs \ Workers : op[o] \in Recovering \cup {"idle"}

(* Where run_isolated_job found no receipt of its job and no result of its *)
(* URI, and nobody but it can have made one since.                         *)
Unreceipted == {"evaluate", "tip", "commit"}
Unpublished == Unreceipted \cup {"lookup", "committing", "write"}

Place(w) ==
    /\ at[w] # "idle" => invoked[w] \in Invocations
    /\ op[w] # "idle" <=> at[w] = "committing"
    /\ op[w] \notin Recovering
    /\ at[w] = "committing" => draft[w].doc \in Executions(invoked[w].job)
    /\ at[w] \in Unreceipted => Bound(Identity(invoked[w].job)) = {}
    /\ at[w] = "commit" => known[w] = Tip(entries)
    /\ at[w] \in Unpublished => result[invoked[w].uri] = None
    /\ Vouched(pending[w])

WInv == /\ IInv /\ OperatorsRecover /\ WorkerTypeOK /\ CompletedIsReceipted
        /\ \A w \in Workers : Place(w)
        /\ CommitNeverStale
-----------------------------------------------------------------------------
(* What each step is to the receipt log.                                   *)
LEMMA Identities ==
  ASSUME NEW j \in Jobs
  PROVE  Identity(j) \in Docs /\ Identity(j).job_spec_sha256 = j
<1>1. \E d \in Docs : d.job_spec_sha256 = j
  BY DEF Jobs
<1> QED
  BY <1>1 DEF Identity

LEMMA Inside ==
  ASSUME NEW w \in Workers, Place(w), at[w] # "idle"
  PROVE  /\ w \in Procs /\ invoked[w] \in Invocations
         /\ invoked[w].job \in Jobs /\ invoked[w].uri \in Uris
         /\ Identity(invoked[w].job) \in Docs
         /\ Identity(invoked[w].job).job_spec_sha256 = invoked[w].job
<1>1. w \in Procs /\ invoked[w] \in Invocations /\ invoked[w].job \in Jobs
  BY WorkersAssumption, JobsAssumption DEF Place
<1>2. invoked[w].uri \in Uris
  BY <1>1 DEF Uris
<1> QED
  BY <1>1, <1>2, Identities

(* A step of process p of the log.                                         *)
Logs(p) == Call(p) \/ Proceed(p) \/ Fail(p) \/ Kill(p)

(* Only the budget of faults moves.                                        *)
Spends == UNCHANGED <<disk, heads, lock, calls>> /\ faults' = faults + 1

(* A step of worker w, inside run_isolated_job or about to enter it.       *)
Works(w) ==
    \/ \E c \in Invocations : Start(w, c)
    \/ Continue(w) \/ CommitFails(w) \/ PublishFailsEarly(w) \/ KillWorker(w)

LEMMA WorkLogs ==
  ASSUME NEW w \in Workers, Place(w), Works(w)
  PROVE  w \in Procs /\ (Logs(w) \/ UNCHANGED vars \/ Spends)
<1>1. w \in Procs
  BY WorkersAssumption
<1>2. CASE Check(w) \/ Lookup(w)
  <2>1. Find(w, Identity(invoked[w].job)) /\ at[w] # "idle"
    BY <1>2 DEF Check, Lookup
  <2> QED
    BY <1>1, <2>1, Inside DEF Logs, Call
<1>3. CASE ReadTip(w)
  BY <1>1, <1>3 DEF ReadTip, Logs, Call
<1>4. CASE CommitReceipt(w)
  <2>1. PICK d \in Executions(invoked[w].job), fits \in BOOLEAN :
             Commit(w, d, invoked[w].job \in late, fits)
    BY <1>4 DEF CommitReceipt, Commit
  <2>2. d \in Docs /\ (invoked[w].job \in late) \in BOOLEAN
    BY DEF Executions
  <2> QED
    BY <1>1, <2>1, <2>2 DEF Logs, Call
<1>5. CASE CommitProceeds(w) \/ CommitFails(w) \/ KillWorker(w)
  BY <1>1, <1>5 DEF CommitProceeds, CommitFails, KillWorker, Logs
<1>6. CASE Evaluate(w) \/ Publish(w) \/ Finish(w) \/ \E c \in Invocations : Start(w, c)
  BY <1>1, <1>6 DEF Evaluate, Publish, Finish, Start
<1>7. CASE PublishFailsEarly(w)
  BY <1>1, <1>7 DEF PublishFailsEarly, Fault, Spends
<1> QED
  BY <1>2, <1>3, <1>4, <1>5, <1>6, <1>7 DEF Works, Continue

(* A step of neither: a deadline passes, or an artifact changes.           *)
Around == \E j \in Jobs : DeadlinePasses(j) \/ ArtifactChanges(j)

LEMMA StepLogs ==
  ASSUME WInv, [WorkerNext]_allVars
  PROVE  \/ \E w \in Workers : Works(w)
         \/ \E o \in Procs \ Workers : Operate(o) /\ Logs(o)
         \/ UNCHANGED vars /\ Around
         \/ UNCHANGED allVars
  BY JobsAssumption
  DEF WorkerNext, Works, Operate, Logs, Call, DeadlinePasses, ArtifactChanges, Around

LEMMA LogNext ==
  ASSUME WInv, [WorkerNext]_allVars
  PROVE  IInv'
<1>1. ASSUME NEW p \in Procs, Logs(p) PROVE IInv'
  BY <1>1, CallInv, ProceedInv, FailInv, KillInv DEF Logs, WInv
<1>2. CASE UNCHANGED vars
  BY <1>2, StepInv DEF WInv
<1>3. CASE Spends
  BY <1>3 DEF Spends, disk, heads, calls, WInv, IInv, TypeOK, LockOwned, LogIntact, DraftFits,
              DraftLinked, AckedIsDurable, Bound
<1>4. CASE UNCHANGED allVars
  BY <1>2, <1>4 DEF allVars
<1> QED
  BY <1>1, <1>2, <1>3, <1>4, StepLogs, WorkLogs DEF WInv

(* A step of a process leaves the calls of the others alone.               *)
LEMMA OnlyOwn ==
  ASSUME TypeOK, NEW p \in Procs, Logs(p), NEW q \in Procs, q # p
  PROVE  op'[q] = op[q] /\ draft'[q] = draft[q] /\ known'[q] = known[q] /\ ret'[q] = ret[q]
<1> USE DEF TypeOK, Answers, Returns, Advance
<1>1. CASE Call(p)
  BY <1>1 DEF Call, Find, Verify, Recover, Commit, CommitAnswered, CommitAdmitted
<1>2. CASE Proceed(p)
  BY <1>2 DEF Proceed, Stage, LinkEntry, UnlinkTemp, SyncEntries, StageHead, ReplaceHead,
              SyncHead
<1>3. CASE Fail(p) \/ Kill(p)
  BY <1>3 DEF Fail, StageFails, PublishFails, ConfirmFails, HeadFails, Kill
<1> QED
  BY <1>1, <1>2, <1>3 DEF Logs

(* Operators only read and rebuild HEAD.                                   *)
LEMMA OperatorStep ==
  ASSUME IInv, OperatorsRecover, NEW o \in Procs \ Workers, Operate(o), Logs(o)
  PROVE  op'[o] \in Recovering \cup {"idle"} /\ UNCHANGED entries /\ UNCHANGED workerVars
<1> USE DEF Recovering, disk
<1>1. op \in [Procs -> Ops] /\ op[o] \in Recovering \cup {"idle"}
  BY DEF IInv, TypeOK, OperatorsRecover
<1>2. UNCHANGED workerVars
  BY DEF Operate
<1>3. CASE Verify(o) \/ Recover(o)
  BY <1>1, <1>2, <1>3 DEF Verify, Recover, Answers
<1>4. CASE Proceed(o)
  BY <1>1, <1>2, <1>4
  DEF Proceed, Stage, LinkEntry, UnlinkTemp, SyncEntries, StageHead, ReplaceHead, SyncHead,
      Advance, Returns
<1>5. CASE Fail(o) \/ Kill(o)
  BY <1>1, <1>2, <1>5
  DEF Fail, StageFails, PublishFails, ConfirmFails, HeadFails, Kill, Returns
<1> QED
  BY <1>3, <1>4, <1>5 DEF Operate

(* Entries are made only by the worker that holds .worker.lock, inside its *)
(* commit.                                                                 *)
LEMMA EntriesNext ==
  ASSUME WInv, [WorkerNext]_allVars
  PROVE  \/ UNCHANGED entries
         \/ \E w \in Workers : at[w] = "committing" /\ Works(w) /\ LinkEntry(w)
<1>1. CASE UNCHANGED vars \/ UNCHANGED allVars
  BY <1>1 DEF allVars, vars, disk
<1>2. ASSUME NEW w \in Workers, Works(w)
      PROVE  UNCHANGED entries \/ (at[w] = "committing" /\ LinkEntry(w))
  <2>1. CASE LinkEntry(w)
    <3>1. op[w] = "staged"
      BY <2>1 DEF LinkEntry, Advance
    <3> QED
      BY <2>1, <3>1 DEF WInv, Place
  <2>2. CASE Spends
    BY <2>2 DEF Spends, disk
  <2>3. Place(w)
    BY DEF WInv
  <2> QED
    BY <1>1, <1>2, <2>1, <2>2, <2>3, WorkLogs, EntriesSteps DEF Logs, vars, disk
<1> QED
  BY <1>1, <1>2, StepLogs, OperatorStep DEF WInv

LEMMA EntriesGrow ==
  ASSUME WInv, [WorkerNext]_allVars
  PROVE  /\ Len(entries) <= Len(entries') /\ Len(entries) \in Nat
         /\ \A i \in 1..Len(entries) : i \in 1..Len(entries') /\ entries'[i] = entries[i]
<1>1. entries \in Seq(Receipt) /\ entries' \in Seq(Receipt)
  BY LogNext DEF WInv, IInv, TypeOK
<1>2. CASE UNCHANGED entries
  BY <1>1, <1>2
<1>3. ASSUME NEW w \in Workers, LinkEntry(w)
      PROVE  \E r : entries' = Append(entries, r)
  BY <1>3 DEF LinkEntry
<1>4. ASSUME NEW r, entries' = Append(entries, r)
      PROVE  /\ Len(entries) <= Len(entries')
             /\ \A i \in 1..Len(entries) : i \in 1..Len(entries') /\ entries'[i] = entries[i]
  BY <1>1, <1>4
<1> QED
  BY <1>1, <1>2, <1>3, <1>4, EntriesNext

(* A completed result stays backed by its receipt.                         *)
LEMMA VouchedStays ==
  ASSUME WInv, [WorkerNext]_allVars, NEW r, Vouched(r)
  PROVE  Vouched(r)'
  BY EntriesGrow DEF Vouched, ReceiptsOf

-----------------------------------------------------------------------------
(* .worker.lock: while a worker is inside, the others are not.             *)
LEMMA Alone ==
  ASSUME WInv, NEW w \in Workers, at[w] # "idle" \/ wlock = None,
         NEW v \in Workers, v # w
  PROVE  at[v] = "idle" /\ op[v] = "idle"
<1>1. wlock = w \/ wlock = None
  BY DEF WInv, WorkerTypeOK
<1>2. at[v] = "idle"
  BY <1>1, WorkersAssumption, NoneAssumption DEF WInv, WorkerTypeOK
<1> QED
  BY <1>2 DEF WInv, Place

LEMMA OthersOps ==
  ASSUME WInv, NEW w \in Workers, Works(w), NEW q \in Procs, q # w
  PROVE  op'[q] = op[q] /\ draft'[q] = draft[q] /\ known'[q] = known[q] /\ ret'[q] = ret[q]
<1>1. Place(w) /\ TypeOK
  BY DEF WInv, IInv
<1>2. CASE UNCHANGED vars \/ Spends
  BY <1>2 DEF vars, calls, Spends
<1> QED
  BY <1>1, <1>2, WorkLogs, OnlyOwn

(* What is left to show of a step of the worker inside.                    *)
LEMMA OnePlace ==
  ASSUME WInv, [WorkerNext]_allVars, NEW w \in Workers, Works(w),
         at[w] # "idle" \/ wlock = None,
         \A v \in Workers : v # w => at'[v] = at[v] /\ pending'[v] = pending[v],
         Place(w)'
  PROVE  \A v \in Workers : Place(v)'
<1> SUFFICES ASSUME NEW v \in Workers, v # w PROVE Place(v)'
  OBVIOUS
<1>1. at'[v] = "idle" /\ op'[v] = "idle"
  BY Alone, OthersOps, WorkersAssumption
<1>2. Vouched(pending[v])'
  BY VouchedStays DEF WInv, Place
<1> QED
  BY <1>1, <1>2 DEF Place, Recovering, Unreceipted, Unpublished

LEMMA OperatorsNext ==
  ASSUME WInv, [WorkerNext]_allVars
  PROVE  OperatorsRecover'
<1> SUFFICES ASSUME NEW q \in Procs \ Workers PROVE op'[q] \in Recovering \cup {"idle"}
  BY DEF OperatorsRecover
<1>1. op[q] \in Recovering \cup {"idle"}
  BY DEF WInv, OperatorsRecover
<1>2. ASSUME NEW w \in Workers, Works(w) PROVE op'[q] = op[q]
  BY <1>2, OthersOps
<1>3. ASSUME NEW o \in Procs \ Workers, Operate(o), Logs(o)
      PROVE  op'[q] \in Recovering \cup {"idle"}
  BY <1>1, <1>3, OperatorStep, OnlyOwn DEF WInv, IInv
<1>4. CASE UNCHANGED vars \/ UNCHANGED allVars
  BY <1>1, <1>4 DEF vars, allVars, calls
<1> QED
  BY <1>1, <1>2, <1>3, <1>4, StepLogs

Settled == WorkerTypeOK' /\ CompletedIsReceipted' /\ \A v \in Workers : Place(v)'

(* run_isolated_job goes on to the next place, ...                         *)
LEMMA GotoKeeps ==
  ASSUME WInv, [WorkerNext]_allVars, NEW w \in Workers, Works(w), at[w] # "idle",
         NEW place \in Places \ {"idle"}, Goto(w, place),
         UNCHANGED <<local, result, aliased, late, gone>>, Place(w)'
  PROVE  Settled
<1> USE DEF Goto, local
<1>1. WorkerTypeOK'
  BY DEF WInv, WorkerTypeOK
<1>2. CompletedIsReceipted'
  BY VouchedStays DEF WInv, CompletedIsReceipted
<1>3. \A v \in Workers : Place(v)'
  BY OnePlace DEF WInv, WorkerTypeOK
<1> QED
  BY <1>1, <1>2, <1>3 DEF Settled

(* ... holds a document to publish, ...                                    *)
Backed(doc) ==
    doc.status = "completed" =>
        \E i \in 1..Len(entries') : /\ entries'[i] = doc.receipt
                                   /\ entries'[i].doc.job_spec_sha256 = doc.job

LEMMA WillWriteKeeps ==
  ASSUME WInv, [WorkerNext]_allVars, NEW w \in Workers, Works(w), at[w] \in Unpublished,
         NEW doc \in Result, WillWrite(w, doc), Backed(doc), op'[w] = "idle"
  PROVE  Settled
<1> USE DEF WillWrite, Goto
<1>1. WorkerTypeOK'
  BY DEF WInv, WorkerTypeOK, Places, Unpublished, Unreceipted
<1>2. CompletedIsReceipted'
  BY VouchedStays DEF WInv, CompletedIsReceipted
<1>3. at'[w] = "write" /\ pending'[w] = doc /\ at[w] # "idle"
  BY DEF WInv, WorkerTypeOK, Unpublished, Unreceipted
<1>4. invoked[w] \in Invocations /\ result[invoked[w].uri] = None
  BY <1>3 DEF WInv, Place
<1>5. Place(w)'
  <2>1. Vouched(pending[w])'
    BY <1>3 DEF Vouched, ReceiptsOf, Backed
  <2> QED
    BY <1>3, <1>4, <2>1 DEF Place, Unreceipted, Recovering
<1>6. \A v \in Workers : Place(v)'
  BY <1>3, <1>5, OnePlace DEF WInv, WorkerTypeOK
<1> QED
  BY <1>1, <1>2, <1>6 DEF Settled

(* ... or leaves with an outcome.                                          *)
LEMMA LeaveKeeps ==
  ASSUME WInv, [WorkerNext]_allVars, NEW w \in Workers, Works(w),
         at[w] # "idle" \/ wlock = None,
         NEW o \in Outcome \cup {None}, Leave(w, o), Vouched(o), op'[w] = "idle"
  PROVE  Settled
<1> USE DEF Leave
<1>1. WorkerTypeOK'
  <2>1. \A v \in Workers : v # w => at[v] = "idle"
    BY Alone
  <2>2. \A v \in Workers : wlock' = v <=> at'[v] # "idle"
    BY <2>1, WorkersAssumption, NoneAssumption DEF WInv, WorkerTypeOK
  <2> QED
    BY <2>2 DEF WInv, WorkerTypeOK, Places
<1>2. CompletedIsReceipted'
  <2>1. \A v \in Workers : outcome'[v] = outcome[v] \/ outcome'[v] = o
    BY DEF WInv, WorkerTypeOK
  <2> QED
    BY <2>1, VouchedStays DEF WInv, CompletedIsReceipted
<1>3. at'[w] = "idle" /\ pending'[w] = None
  BY DEF WInv, WorkerTypeOK
<1>4. Place(w)'
  BY <1>3 DEF Place, Unreceipted, Unpublished, Recovering, Vouched
<1>5. \A v \in Workers : Place(v)'
  BY <1>3, <1>4, OnePlace DEF WInv, WorkerTypeOK
<1> QED
  BY <1>1, <1>2, <1>5 DEF Settled

-----------------------------------------------------------------------------
LEMMA Documents ==
  ASSUME NEW j \in Jobs
  PROVE  /\ Raised(j) \in Outcome /\ Vouched(Raised(j)) /\ Vouched(None)
         /\ \A status \in {"cancelled", "rejected"} :
               /\ Failed(j, status) \in Result /\ Failed(j, status).job = j
               /\ Failed(j, status).status \in {"cancelled", "rejected", "expired"}
         /\ \A receipt \in Receipt : /\ Document(j, "completed", receipt) \in Result
                                     /\ Document(j, "completed", receipt).job = j
  BY DEF Raised, Failed, Document, Outcome, Result, Statuses, Vouched

(* What find answers to a worker about its job.                            *)
LEMMA FindTells ==
  ASSUME IInv, NEW w \in Procs, NEW j \in Jobs, Find(w, Identity(j))
  PROVE  /\ ret'[w].code \notin {"RECEIPT_STALE_HEAD", "REPLAYED", "RECEIPT_REPLAY_CONFLICT"}
         /\ ret'[w].code = "ABSENT" => Bound(Identity(j)) = {}
         /\ ret'[w].code = "FOUND" => /\ ret'[w].receipt \in Receipt
                                      /\ \E i \in ReceiptsOf(j) : entries[i] = ret'[w].receipt
<1> DEFINE d == Identity(j)
<1>1. d \in Docs /\ d.job_spec_sha256 = j
  BY Identities
<1> HIDE DEF d
<1>2. ret'[w] = FindAnswer(d)
  BY <1>1 DEF Find, Answers, IInv, TypeOK, d
<1>3. CASE Snapshot # "OK"
  <2>1. FindAnswer(d).code = Snapshot
    BY <1>3 DEF FindAnswer, Answer
  <2> QED
    BY <1>2, <1>3, <2>1 DEF Snapshot, Scan, HeadCheck
<1>4. CASE Snapshot = "OK" /\ Bound(d) = {}
  <2>1. FindAnswer(d).code = "ABSENT"
    BY <1>4 DEF FindAnswer, Answer
  <2> QED
    BY <1>2, <1>4, <2>1 DEF d
<1>5. CASE Snapshot = "OK" /\ Bound(d) # {}
  <2> DEFINE i == CHOOSE i \in Bound(d) : TRUE
  <2>1. i \in Bound(d)
    BY <1>5
  <2> HIDE DEF i
  <2>2. CASE entries[i].doc.job_spec_sha256 # d.job_spec_sha256
    <3>1. FindAnswer(d).code = "RECEIPT_JOB_CONFLICT"
      BY <1>5, <2>2 DEF FindAnswer, Answer, i
    <3> QED
      BY <1>2, <3>1
  <2>3. CASE entries[i].doc.job_spec_sha256 = d.job_spec_sha256
    <3>1. FindAnswer(d).code = "FOUND" /\ FindAnswer(d).receipt = entries[i]
      BY <1>5, <2>3 DEF FindAnswer, Answer, i
    <3>2. i \in ReceiptsOf(j) /\ entries[i] \in Receipt
      BY <1>1, <2>1, <2>3 DEF Bound, ReceiptsOf, IInv, TypeOK
    <3> QED
      BY <1>2, <3>1, <3>2
  <2> QED
    BY <2>2, <2>3
<1> QED
  BY <1>3, <1>4, <1>5

LEMMA StartInv ==
  ASSUME WInv, [WorkerNext]_allVars, NEW w \in Workers, NEW c \in Invocations, Start(w, c)
  PROVE  Settled
<1> DEFINE prior == result[c.uri]
<1>1. /\ c.job \in Jobs /\ c.uri \in Uris /\ at[w] = "idle" /\ op[w] = "idle" /\ wlock = None
      /\ UNCHANGED vars /\ Works(w) /\ op'[w] = "idle" /\ w \in Procs
  BY JobsAssumption, WorkersAssumption DEF Start, Uris, Works, vars, calls
<1>2. prior \in Result \cup {None} /\ Vouched(prior)
  BY <1>1 DEF WInv, WorkerTypeOK, CompletedIsReceipted
<1>3. ASSUME NEW o \in {Raised(c.job), prior}, Leave(w, o) PROVE Settled
  <2>1. o \in Outcome \cup {None} /\ Vouched(o)
    BY <1>1, <1>2, Documents DEF Outcome
  <2> QED
    BY <1>1, <1>3, <2>1, LeaveKeeps
<1>4. ASSUME NEW place \in {"lookup", "check"}, place = "lookup" => prior = None,
             Enter(w, c), Goto(w, place)
      PROVE  Settled
  <2> USE <1>4 DEF Goto, Enter
  <2>1. WorkerTypeOK'
    <3>1. \A v \in Workers : at[v] = "idle"
      BY <1>1, Alone
    <3>2. \A v \in Workers : wlock' = v <=> at'[v] # "idle"
      BY <3>1 DEF WInv, WorkerTypeOK
    <3> QED
      BY <1>1, <3>2 DEF WInv, WorkerTypeOK, Places
  <2>2. CompletedIsReceipted'
    <3>1. \A v \in Workers : outcome'[v] \in {outcome[v], None}
      BY DEF WInv, WorkerTypeOK
    <3>2. \A v \in Workers : Vouched(outcome[v])' 
      BY <3>1, VouchedStays DEF WInv, CompletedIsReceipted, Vouched
    <3> QED
      BY <3>2, VouchedStays DEF WInv, CompletedIsReceipted
  <2>3. /\ at'[w] = place /\ invoked'[w] = c /\ pending'[w] = pending[w]
        /\ result' = result
    BY DEF WInv, WorkerTypeOK
  <2>4. Vouched(pending[w])'
    BY <2>3, VouchedStays DEF WInv, Place
  <2>5. Place(w)'
    BY <1>1, <2>3, <2>4 DEF Place, Unreceipted, Unpublished, Recovering
  <2>6. \A v \in Workers : Place(v)'
    BY <1>1, <2>5, OnePlace DEF WInv, WorkerTypeOK
  <2> QED
    BY <2>1, <2>2, <2>6 DEF Settled
<1>5. CASE prior = None /\ Enter(w, c) /\ Goto(w, "lookup")
  BY <1>4, <1>5
<1>6. CASE Enter(w, c) /\ Goto(w, "check")
  BY <1>4, <1>6
<1>7. CASE prior # None /\ (Leave(w, Raised(c.job)) \/ Leave(w, prior))
  BY <1>3, <1>7
<1> QED
  BY <1>5, <1>6, <1>7 DEF Start

(* A call that only reads the log.                                         *)
LEMMA ReadOnly ==
  ASSUME WInv, NEW w \in Workers, NEW d \in Docs, Find(w, d) \/ Verify(w)
  PROVE  /\ op'[w] = "idle" /\ UNCHANGED <<entries, op>>
         /\ Find(w, d) => known' = known
         /\ Verify(w) /\ ret'[w].code = "VERIFIED" => known'[w] = Tip(entries)
         /\ Verify(w) => ret'[w].code \in ChainErrors \cup {"VERIFIED"}
<1> USE DEF Answers, disk
<1>1. w \in Procs /\ ret \in [Procs -> Reply] /\ known \in [Procs -> Seq(Docs)]
  BY WorkersAssumption DEF WInv, IInv, TypeOK, Reply
<1>2. CASE Find(w, d) /\ ~Verify(w)
  BY <1>2 DEF Find
<1>3. CASE Verify(w)
  <2>1. Snapshot \in ChainErrors \cup {"OK"}
    BY DEF Snapshot, Scan, HeadCheck, ChainErrors
  <2>2. ret'[w].code = IF Snapshot = "OK" THEN "VERIFIED" ELSE Snapshot
    BY <1>1, <1>3 DEF Verify, Answer
  <2>3. Snapshot = "OK" => known'[w] = Tip(entries)
    BY <1>1, <1>3 DEF Verify
  <2>4. op[w] = "idle" /\ UNCHANGED <<entries, op>>
    BY <1>3 DEF Verify
  <2> QED
    BY <2>1, <2>2, <2>3, <2>4 DEF ChainErrors, Find
<1> QED
  BY <1>2, <1>3

LEMMA CheckInv ==
  ASSUME WInv, [WorkerNext]_allVars, NEW w \in Workers, Check(w)
  PROVE  Settled
<1>1. Works(w) /\ at[w] = "check" /\ Place(w)
  BY DEF Works, Continue, Check, WInv
<1>2. invoked[w].uri \in Uris /\ invoked[w].job \in Jobs /\ Identity(invoked[w].job) \in Docs
  BY <1>1, Inside
<1>3. op'[w] = "idle"
  BY <1>2, ReadOnly DEF Check
<1>4. \A o \in {result[invoked[w].uri], Raised(invoked[w].job)} :
         o \in Outcome \cup {None} /\ Vouched(o)
  BY <1>2, Documents DEF WInv, WorkerTypeOK, CompletedIsReceipted, Outcome
<1> QED
  BY <1>1, <1>3, <1>4, LeaveKeeps DEF Check

LEMMA LookupInv ==
  ASSUME WInv, [WorkerNext]_allVars, NEW w \in Workers, Lookup(w)
  PROVE  Settled
<1> DEFINE j == invoked[w].job
<1>1. Works(w) /\ at[w] = "lookup" /\ Place(w) /\ w \in Procs
  BY WorkersAssumption DEF Works, Continue, Lookup, WInv
<1>2. invoked[w] \in Invocations /\ j \in Jobs /\ Identity(j) \in Docs
  BY <1>1, Inside
<1>3. Find(w, Identity(j)) /\ op'[w] = "idle" /\ UNCHANGED entries
  BY <1>2, ReadOnly DEF Lookup
<1>4. CASE ret'[w].code = "FOUND" /\ j \notin gone
  <2> DEFINE doc == Document(j, "completed", ret'[w].receipt)
  <2>1. WillWrite(w, doc)
    BY <1>4 DEF Lookup, WillWrite
  <2>2. doc \in Result /\ \E i \in ReceiptsOf(j) : entries[i] = ret'[w].receipt
    BY <1>1, <1>2, <1>3, <1>4, FindTells, Documents DEF WInv
  <2>3. Backed(doc)
    BY <1>3, <2>2 DEF ReceiptsOf, Backed, Document
  <2> QED
    BY <1>1, <1>3, <2>1, <2>2, <2>3, WillWriteKeeps DEF Unpublished
<1>5. CASE ret'[w].code = "ABSENT" /\ j \notin late
  <2>1. Goto(w, "evaluate") /\ UNCHANGED <<local, result, aliased, late, gone>>
    BY <1>5 DEF Lookup
  <2>2. Bound(Identity(j)) = {}
    BY <1>1, <1>2, <1>3, <1>5, FindTells DEF WInv
  <2>3. at'[w] = "evaluate" /\ UNCHANGED <<invoked, pending, result>>
    BY <2>1 DEF Goto, local, WInv, WorkerTypeOK
  <2>4. Vouched(pending[w])'
    BY <2>3, VouchedStays DEF WInv, Place
  <2>5. Place(w)'
    BY <1>1, <1>2, <1>3, <2>2, <2>3, <2>4 DEF Place, Unreceipted, Unpublished, Recovering, Bound
  <2> QED
    BY <1>1, <2>1, <2>5, GotoKeeps DEF Places
<1>6. CASE /\ ~(ret'[w].code = "FOUND" /\ j \notin gone)
           /\ ~(ret'[w].code = "ABSENT" /\ j \notin late)
  <2>1. Leave(w, Raised(j))
    BY <1>6 DEF Lookup
  <2> QED
    BY <1>1, <1>2, <1>3, <2>1, Documents, LeaveKeeps
<1> QED
  BY <1>4, <1>5, <1>6

(* A run that ends without a receipt.                                      *)
LEMMA FailedInv ==
  ASSUME WInv, [WorkerNext]_allVars, NEW w \in Workers, Works(w), at[w] \in Unpublished,
         op'[w] = "idle", NEW status \in {"cancelled", "rejected"},
         WillWrite(w, Failed(invoked[w].job, status))
  PROVE  Settled
<1> DEFINE doc == Failed(invoked[w].job, status)
<1>1. invoked[w].job \in Jobs
  BY Inside DEF Unpublished, Unreceipted, WInv
<1>2. doc \in Result /\ doc.status # "completed"
  BY <1>1, Documents
<1> HIDE DEF doc
<1>3. Backed(doc)
  BY <1>2 DEF Backed
<1> QED
  BY <1>2, <1>3, WillWriteKeeps DEF doc

LEMMA EvaluateInv ==
  ASSUME WInv, [WorkerNext]_allVars, NEW w \in Workers, Evaluate(w)
  PROVE  Settled
<1>1. Works(w) /\ at[w] = "evaluate" /\ Place(w) /\ UNCHANGED vars
  BY DEF Works, Continue, Evaluate, WInv
<1>2. op'[w] = "idle" /\ UNCHANGED <<op, entries>>
  BY <1>1 DEF Place, vars, disk, calls
<1>3. CASE Goto(w, "tip") /\ UNCHANGED <<local, result, aliased, late, gone>>
  <2>1. at'[w] = "tip" /\ UNCHANGED <<invoked, pending, result>>
    BY <1>3 DEF Goto, local, WInv, WorkerTypeOK
  <2>2. Vouched(pending[w])'
    BY <2>1, VouchedStays DEF WInv, Place
  <2>3. Place(w)'
    BY <1>1, <1>2, <2>1, <2>2 DEF Place, Unreceipted, Unpublished, Recovering, Bound
  <2> QED
    BY <1>1, <1>3, <2>3, GotoKeeps DEF Places
<1>4. ASSUME NEW status \in {"cancelled", "rejected"},
             WillWrite(w, Failed(invoked[w].job, status))
      PROVE  Settled
  BY <1>1, <1>2, <1>4, FailedInv DEF Unpublished, Unreceipted
<1> QED
  BY <1>3, <1>4 DEF Evaluate

LEMMA ReadTipInv ==
  ASSUME WInv, [WorkerNext]_allVars, NEW w \in Workers, ReadTip(w)
  PROVE  Settled
<1>1. Works(w) /\ at[w] = "tip" /\ Place(w) /\ Verify(w)
  BY DEF Works, Continue, ReadTip, WInv
<1>2. Identity(invoked[w].job) \in Docs
  BY <1>1, Inside
<1>3. /\ op'[w] = "idle" /\ UNCHANGED entries
      /\ ret'[w].code = "VERIFIED" => known'[w] = Tip(entries)
  BY <1>1, <1>2, ReadOnly
<1>4. CASE ret'[w].code = "VERIFIED" /\ invoked[w].job \notin late
  <2>1. Goto(w, "commit") /\ UNCHANGED <<local, result, aliased, late, gone>>
    BY <1>4 DEF ReadTip
  <2>2. at'[w] = "commit" /\ UNCHANGED <<invoked, pending, result>>
    BY <2>1 DEF Goto, local, WInv, WorkerTypeOK
  <2>3. Vouched(pending[w])'
    BY <2>2, VouchedStays DEF WInv, Place
  <2>4. Place(w)'
    BY <1>1, <1>3, <1>4, <2>2, <2>3 DEF Place, Unreceipted, Unpublished, Recovering, Bound
  <2> QED
    BY <1>1, <2>1, <2>4, GotoKeeps DEF Places
<1>5. CASE ~(ret'[w].code = "VERIFIED" /\ invoked[w].job \notin late)
  <2>1. WillWrite(w, Failed(invoked[w].job, "rejected"))
    BY <1>5 DEF ReadTip
  <2> QED
    BY <1>1, <1>3, <2>1, FailedInv DEF Unpublished, Unreceipted
<1> QED
  BY <1>4, <1>5

-----------------------------------------------------------------------------
(* The commit.                                                             *)
LEMMA CommitReceiptInv ==
  ASSUME WInv, [WorkerNext]_allVars, NEW w \in Workers, CommitReceipt(w)
  PROVE  Settled
<1> USE DEF disk, heads
<1>1. Works(w) /\ at[w] = "commit" /\ Place(w)
  BY DEF Works, Continue, CommitReceipt, WInv
<1>2. w \in Procs /\ op \in [Procs -> Ops] /\ draft \in [Procs -> Receipt \cup {None}]
  BY WorkersAssumption DEF WInv, IInv, TypeOK
<1>3. ASSUME NEW d \in Executions(invoked[w].job), NEW over, NEW fits \in BOOLEAN,
             CommitAdmitted(w, d, over, fits), Goto(w, "committing"),
             UNCHANGED <<local, result, aliased, late, gone>>
      PROVE  Settled
  <2>1. /\ op'[w] = "admitted" /\ draft'[w] = Proposal(w, d) /\ UNCHANGED entries
    BY <1>2, <1>3 DEF CommitAdmitted
  <2>2. draft'[w].doc = d
    BY <2>1 DEF Proposal
  <2>3. at'[w] = "committing" /\ UNCHANGED <<invoked, pending, result>>
    BY <1>3 DEF Goto, local, WInv, WorkerTypeOK
  <2>4. Vouched(pending[w])'
    BY <2>3, VouchedStays DEF WInv, Place
  <2>5. Place(w)'
    BY <1>1, <1>3, <2>1, <2>2, <2>3, <2>4
    DEF Place, Unreceipted, Unpublished, Recovering, Executions
  <2> QED
    BY <1>1, <1>3, <2>5, GotoKeeps DEF Places
<1>4. ASSUME NEW d \in Executions(invoked[w].job), NEW over, NEW fits \in BOOLEAN,
             CommitAnswered(w, d, over, fits),
             WillWrite(w, Failed(invoked[w].job, "rejected"))
      PROVE  Settled
  <2>1. op'[w] = "idle"
    BY <1>4 DEF CommitAnswered, Answers
  <2> QED
    BY <1>1, <1>4, <2>1, FailedInv DEF Unpublished, Unreceipted
<1> QED
  BY <1>3, <1>4 DEF CommitReceipt

LEMMA CommitProceedsInv ==
  ASSUME WInv, [WorkerNext]_allVars, NEW w \in Workers, CommitProceeds(w)
  PROVE  Settled
<1> DEFINE j == invoked[w].job
<1>1. Works(w) /\ at[w] = "committing" /\ Place(w) /\ Proceed(w) /\ Committed(w)
  BY DEF Works, Continue, CommitProceeds, WInv
<1>2. w \in Procs /\ op \in [Procs -> Ops] /\ ret \in [Procs -> Reply]
  BY WorkersAssumption DEF WInv, IInv, TypeOK, Reply
<1>3. op[w] # "idle" /\ op[w] \notin Recovering
  BY <1>1 DEF Place
<1>4. CASE op'[w] # "idle"
  <2>1. UNCHANGED workerVars
    BY <1>1, <1>4 DEF Committed
  <2>2. ~SyncHead(w)
    BY <1>2, <1>4 DEF SyncHead, Returns
  <2>3. draft'[w] = draft[w] /\ op'[w] \notin Recovering
    BY <1>1, <1>2, <1>3, <2>2
    DEF Proceed, Stage, LinkEntry, UnlinkTemp, SyncEntries, StageHead, ReplaceHead, Advance,
        Recovering
  <2>4. Vouched(pending[w])'
    BY <2>1, VouchedStays DEF WInv, Place, workerVars
  <2>5. Place(w)'
    BY <1>1, <1>4, <2>1, <2>3, <2>4 DEF Place, Unreceipted, Unpublished, workerVars, Executions
  <2>6. \A v \in Workers : Place(v)'
    BY <1>1, <2>1, <2>5, OnePlace DEF workerVars
  <2>7. WorkerTypeOK' /\ CompletedIsReceipted'
    BY <2>1, VouchedStays DEF WInv, WorkerTypeOK, CompletedIsReceipted, workerVars
  <2> QED
    BY <2>6, <2>7 DEF Settled
<1>5. CASE op'[w] = "idle"
  <2>1. SyncHead(w) /\ op[w] = "headReplaced"
    BY <1>1, <1>2, <1>3, <1>5
    DEF Proceed, Stage, LinkEntry, UnlinkTemp, SyncEntries, StageHead, ReplaceHead, SyncHead,
        Advance, Recovering
  <2>2. ret'[w] = Answer("COMMITTED", draft[w].doc, draft[w]) /\ UNCHANGED entries
    BY <1>2, <2>1 DEF SyncHead, Returns, disk
  <2>3. ret'[w].code = "COMMITTED" /\ ret'[w].receipt = draft[w]
    BY <2>2 DEF Answer
  <2> DEFINE doc == Document(j, "completed", draft[w])
  <2>4. WillWrite(w, doc)
    BY <1>1, <1>5, <2>3 DEF Committed
  <2>5. /\ draft[w] \in Receipt /\ entries # <<>> /\ entries[Len(entries)] = draft[w]
        /\ entries \in Seq(Receipt)
    BY <1>2, <2>1, DraftLogged DEF WInv, IInv, TypeOK
  <2>6. doc \in Result
    BY <1>1, <2>5, Inside, Documents
  <2>7. draft[w].doc.job_spec_sha256 = j
    BY <1>1 DEF Place, Executions
  <2>8. Backed(doc)
    BY <2>2, <2>5, <2>7 DEF Backed, Document
  <2> QED
    BY <1>1, <1>5, <2>4, <2>6, <2>8, WillWriteKeeps DEF Unpublished
<1> QED
  BY <1>4, <1>5

(* How a commit that fails ends.                                           *)
LEMMA FailTells ==
  ASSUME TypeOK, NEW p \in Procs, Fail(p)
  PROVE  /\ op'[p] = "idle" /\ UNCHANGED entries
         /\ ret'[p].code \in {"RECEIPT_WRITE_FAILED", "RECEIPT_FSYNC_FAILED", "OSError",
                              "RECEIPT_HEAD_WRITE_FAILED", "RECEIPT_HEAD_RECOVERY_FAILED"}
<1> USE DEF TypeOK, Returns, disk
<1>1. op'[p] = "idle" /\ UNCHANGED entries
  BY DEF Fail, StageFails, PublishFails, ConfirmFails, HeadFails
<1>2. ASSUME NEW code, NEW d, ret' = [ret EXCEPT ![p] = Answer(code, d, None)]
      PROVE  ret'[p].code = code
  BY <1>2 DEF Answer
<1>3. CASE StageFails(p) \/ PublishFails(p) \/ ConfirmFails(p)
  BY <1>1, <1>2, <1>3 DEF StageFails, PublishFails, ConfirmFails
<1>4. CASE HeadFails(p)
  BY <1>1, <1>2, <1>4 DEF HeadFails, RecoveryErrors
<1> QED
  BY <1>3, <1>4 DEF Fail

LEMMA CommitFailsInv ==
  ASSUME WInv, [WorkerNext]_allVars, NEW w \in Workers, CommitFails(w)
  PROVE  Settled
<1>1. Works(w) /\ at[w] = "committing" /\ Place(w) /\ Fail(w) /\ Committed(w)
  BY DEF Works, CommitFails, WInv
<1>2. op'[w] = "idle" /\ ret'[w].code # "COMMITTED"
  BY <1>1, FailTells, WorkersAssumption DEF WInv, IInv
<1>3. \/ Leave(w, Raised(invoked[w].job))
      \/ WillWrite(w, Failed(invoked[w].job, "rejected"))
  BY <1>1, <1>2 DEF Committed
<1>4. Raised(invoked[w].job) \in Outcome \cup {None} /\ Vouched(Raised(invoked[w].job))
  BY <1>1, Inside, Documents
<1> QED
  BY <1>1, <1>2, <1>3, <1>4, LeaveKeeps, FailedInv DEF Unpublished

-----------------------------------------------------------------------------
(* The result file.                                                        *)
LEMMA PublishInv ==
  ASSUME WInv, [WorkerNext]_allVars, NEW w \in Workers, Publish(w)
  PROVE  Settled
<1> USE DEF Publish, Goto, local
<1>1. Works(w) /\ at[w] = "write" /\ Place(w) /\ UNCHANGED vars
  BY DEF Works, Continue, WInv
<1>2. invoked[w] \in Invocations /\ invoked[w].uri \in Uris
  BY <1>1, Inside
<1>3. pending[w] \in Result \cup {None} /\ Vouched(pending[w])
  BY <1>1 DEF WInv, WorkerTypeOK, Place
<1>4. op' = op /\ op[w] = "idle"
  BY <1>1 DEF Place, vars, calls
<1>5. WorkerTypeOK'
  BY <1>2, <1>3 DEF WInv, WorkerTypeOK, Places
<1>6. CompletedIsReceipted'
  <2>1. \A u \in Uris : result'[u] = result[u] \/ result'[u] = pending[w]
    BY <1>2 DEF WInv, WorkerTypeOK
  <2>2. outcome' = outcome
    OBVIOUS
  <2> QED
    BY <1>3, <2>1, <2>2, VouchedStays DEF WInv, CompletedIsReceipted
<1>7. at'[w] = "published" /\ UNCHANGED <<invoked, pending>>
  BY DEF WInv, WorkerTypeOK
<1>8. Vouched(pending[w])'
  BY <1>3, <1>7, VouchedStays
<1>9. Place(w)'
  BY <1>2, <1>4, <1>7, <1>8 DEF Place, Unreceipted, Unpublished, Recovering
<1>10. \A v \in Workers : Place(v)'
  BY <1>1, <1>9, OnePlace DEF WInv, WorkerTypeOK
<1> QED
  BY <1>5, <1>6, <1>10 DEF Settled

LEMMA FinishInv ==
  ASSUME WInv, [WorkerNext]_allVars, NEW w \in Workers, Finish(w)
  PROVE  Settled
<1> USE DEF Finish
<1>1. Works(w) /\ at[w] = "published" /\ Place(w) /\ UNCHANGED vars
  BY DEF Works, Continue, WInv
<1>2. invoked[w].uri \in Uris
  BY <1>1, Inside
<1>3. op'[w] = "idle"
  BY <1>1 DEF Place, vars, calls
<1>4. WorkerTypeOK'
  <2>1. \A v \in Workers : v # w => at[v] = "idle"
    BY <1>1, Alone
  <2>2. \A v \in Workers : wlock' = v <=> at'[v] # "idle"
    BY <2>1, WorkersAssumption, NoneAssumption DEF WInv, WorkerTypeOK
  <2>3. outcome' \in [Workers -> Outcome \cup {None}]
    BY <1>2 DEF WInv, WorkerTypeOK, Outcome
  <2> QED
    BY <1>2, <2>2, <2>3 DEF WInv, WorkerTypeOK, Places
<1>5. CompletedIsReceipted'
  <2>1. \A v \in Workers : outcome'[v] = outcome[v] \/ outcome'[v] = result[invoked[w].uri]
    BY DEF WInv, WorkerTypeOK
  <2>2. result' = result
    OBVIOUS
  <2> QED
    BY <1>2, <2>1, <2>2, VouchedStays DEF WInv, CompletedIsReceipted
<1>6. at'[w] = "idle" /\ pending'[w] = None
  BY DEF WInv, WorkerTypeOK
<1>7. Place(w)'
  BY <1>3, <1>6 DEF Place, Unreceipted, Unpublished, Recovering, Vouched
<1>8. \A v \in Workers : Place(v)'
  BY <1>1, <1>6, <1>7, OnePlace DEF WInv, WorkerTypeOK
<1> QED
  BY <1>4, <1>5, <1>8 DEF Settled

LEMMA PublishFailsInv ==
  ASSUME WInv, [WorkerNext]_allVars, NEW w \in Workers, PublishFailsEarly(w)
  PROVE  Settled
<1>1. Works(w) /\ at[w] = "write" /\ Place(w) /\ Leave(w, Raised(invoked[w].job))
  BY DEF Works, PublishFailsEarly, WInv
<1>2. op'[w] = "idle"
  BY <1>1 DEF Place, PublishFailsEarly, calls
<1>3. Raised(invoked[w].job) \in Outcome \cup {None} /\ Vouched(Raised(invoked[w].job))
  BY <1>1, Inside, Documents
<1> QED
  BY <1>1, <1>2, <1>3, LeaveKeeps
-----------------------------------------------------------------------------
(* Whoever a step is not about.                                            *)
LEMMA Bystander ==
  ASSUME WInv, [WorkerNext]_allVars, NEW v \in Workers, UNCHANGED <<entries, result>>,
         at'[v] = at[v], invoked'[v] = invoked[v], pending'[v] = pending[v],
         op'[v] = op[v], draft'[v] = draft[v], known'[v] = known[v]
  PROVE  Place(v)'
<1>1. Vouched(pending[v])'
  BY VouchedStays DEF WInv, Place
<1>2. Place(v)
  BY DEF WInv
<1> QED
  BY <1>1, <1>2 DEF Place, Bound

LEMMA KillWorkerInv ==
  ASSUME WInv, [WorkerNext]_allVars, NEW w \in Workers, KillWorker(w)
  PROVE  Settled
<1> USE DEF KillWorker
<1>1. Works(w) /\ w \in Procs /\ Kill(w)
  BY WorkersAssumption DEF Works
<1>2. op'[w] = "idle" /\ UNCHANGED <<entries, result>>
  BY <1>1 DEF Kill, disk, WInv, IInv, TypeOK
<1>3. WorkerTypeOK'
  <2>1. \A v \in Workers : wlock' = v <=> at'[v] # "idle"
    BY WorkersAssumption, NoneAssumption DEF WInv, WorkerTypeOK
  <2> QED
    BY <2>1 DEF WInv, WorkerTypeOK, Places
<1>4. CompletedIsReceipted'
  <2>1. \A v \in Workers : outcome'[v] = outcome[v] \/ outcome'[v] = None
    BY DEF WInv, WorkerTypeOK
  <2>2. Vouched(None)
    BY DEF Vouched
  <2> QED
    BY <1>2, <2>1, <2>2, VouchedStays DEF WInv, CompletedIsReceipted
<1>5. at'[w] = "idle" /\ pending'[w] = None
  BY DEF WInv, WorkerTypeOK
<1>6. Place(w)'
  BY <1>2, <1>5 DEF Place, Unreceipted, Unpublished, Recovering, Vouched
<1>7. ASSUME NEW v \in Workers, v # w PROVE Place(v)'
  <2>1. at'[v] = at[v] /\ invoked'[v] = invoked[v] /\ pending'[v] = pending[v]
    BY <1>7 DEF WInv, WorkerTypeOK
  <2> QED
    BY <1>1, <1>2, <1>7, <2>1, OthersOps, Bystander, WorkersAssumption
<1> QED
  BY <1>3, <1>4, <1>6, <1>7 DEF Settled

(* Operators and deadlines.                                                *)
LEMMA OutsideInv ==
  ASSUME WInv, [WorkerNext]_allVars, UNCHANGED <<entries, wlock, at, invoked, pending, outcome,
                                                 result, aliased>>,
         late' \subseteq Jobs, gone' \subseteq Jobs,
         \A v \in Workers : op'[v] = op[v] /\ draft'[v] = draft[v] /\ known'[v] = known[v]
  PROVE  Settled
<1>1. WorkerTypeOK'
  BY DEF WInv, WorkerTypeOK
<1>2. CompletedIsReceipted'
  BY VouchedStays DEF WInv, CompletedIsReceipted
<1>3. \A v \in Workers : Place(v)'
  BY Bystander
<1> QED
  BY <1>1, <1>2, <1>3 DEF Settled

LEMMA SettledNext ==
  ASSUME WInv, [WorkerNext]_allVars
  PROVE  Settled
<1>1. ASSUME NEW w \in Workers, Works(w) PROVE Settled
  BY <1>1, StartInv, CheckInv, LookupInv, EvaluateInv, ReadTipInv, CommitReceiptInv,
     CommitProceedsInv, CommitFailsInv, PublishInv, FinishInv, PublishFailsInv, KillWorkerInv
  DEF Works, Continue
<1>2. ASSUME NEW o \in Procs \ Workers, Operate(o), Logs(o) PROVE Settled
  <2>1. UNCHANGED entries /\ UNCHANGED workerVars
    BY <1>2, OperatorStep DEF WInv
  <2>2. \A v \in Workers : op'[v] = op[v] /\ draft'[v] = draft[v] /\ known'[v] = known[v]
    BY <1>2, OnlyOwn, WorkersAssumption DEF WInv, IInv
  <2> QED
    BY <2>1, <2>2, OutsideInv DEF workerVars, WInv, WorkerTypeOK
<1>3. ASSUME UNCHANGED vars, Around PROVE Settled
  <2>1. /\ UNCHANGED <<entries, wlock, at, invoked, pending, outcome, result, aliased>>
        /\ UNCHANGED <<op, draft, known>> /\ late' \subseteq Jobs /\ gone' \subseteq Jobs
    BY <1>3
    DEF Around, DeadlinePasses, ArtifactChanges, vars, disk, calls, local, WInv, WorkerTypeOK
  <2> QED
    BY <2>1, OutsideInv
<1>4. CASE UNCHANGED allVars
  BY <1>4, OutsideInv DEF allVars, vars, disk, calls, workerVars, WInv, WorkerTypeOK
<1> QED
  BY <1>1, <1>2, <1>3, <1>4, StepLogs

(* Where no receipt has the key of the job, none is the job's.             *)
LEMMA Unbound ==
  ASSUME IInv, NEW j \in Jobs, NEW d \in Executions(j), Bound(Identity(j)) = {}
  PROVE  Bound(d) = {} /\ ReceiptsOf(j) = {}
<1>1. Identity(j) \in Docs /\ Identity(j).job_spec_sha256 = j
  BY Identities
<1>2. d.idempotency_key = Identity(j).idempotency_key
  BY <1>1, JobsAssumption DEF Executions
<1>3. \A i \in 1..Len(entries) : entries[i].doc \in Docs
  <2>1. \A i \in 1..Len(entries) : entries[i] \in Receipt
    BY DEF IInv, TypeOK
  <2> QED
    BY <2>1 DEF Receipt
<1>4. \A i \in ReceiptsOf(j) : i \in Bound(Identity(j))
  BY <1>1, <1>3, JobsAssumption DEF ReceiptsOf, Bound
<1> QED
  BY <1>2, <1>4 DEF Bound

LEMMA NeverStaleNext ==
  ASSUME WInv, [WorkerNext]_allVars
  PROVE  CommitNeverStale'
<1> DEFINE Stale == {"RECEIPT_STALE_HEAD", "REPLAYED", "RECEIPT_REPLAY_CONFLICT"}
<1> SUFFICES ASSUME NEW v \in Workers PROVE ret'[v].code \notin Stale
  BY DEF CommitNeverStale
<1>1. v \in Procs /\ ret \in [Procs -> Reply] /\ op \in [Procs -> Ops] /\ Place(v)
  BY WorkersAssumption DEF WInv, IInv, TypeOK, Reply
<1>2. CASE ret'[v] = ret[v]
  BY <1>2 DEF WInv, CommitNeverStale
<1>3. CASE Check(v) \/ Lookup(v)
  <2>1. Find(v, Identity(invoked[v].job)) /\ invoked[v].job \in Jobs
    BY <1>1, <1>3, Inside DEF Check, Lookup
  <2> QED
    BY <1>1, <2>1, FindTells DEF WInv
<1>4. CASE ReadTip(v)
  <2>1. Verify(v) /\ Identity(invoked[v].job) \in Docs
    BY <1>1, <1>4, Inside DEF ReadTip
  <2> QED
    BY <2>1, ReadOnly DEF ChainErrors
<1>5. CASE CommitReceipt(v)
  <2>1. /\ at[v] = "commit" /\ invoked[v].job \in Jobs
        /\ Bound(Identity(invoked[v].job)) = {} /\ known[v] = Tip(entries)
    BY <1>1, <1>5, Inside DEF CommitReceipt, Place, Unreceipted
  <2>2. ASSUME NEW d \in Executions(invoked[v].job), NEW over, NEW fits \in BOOLEAN,
               CommitAnswered(v, d, over, fits)
        PROVE  ret'[v].code \notin Stale
    <3> DEFINE r == Proposal(v, d)
               verdict == Admission(r, over, fits)
    <3>1. r.doc = d /\ r.prev = Tip(entries) /\ Bound(d) = {}
      BY <2>1, Unbound DEF Proposal, WInv
    <3>2. verdict \notin Stale
      BY <3>1 DEF Admission, Snapshot, Scan, HeadCheck
    <3>3. ret'[v].code = verdict
      BY <1>1, <2>2 DEF CommitAnswered, Answers, Answer
    <3> QED
      BY <3>2, <3>3
  <2>3. ASSUME NEW d, NEW over, NEW fits, CommitAdmitted(v, d, over, fits)
        PROVE  ret' = ret
    BY <2>3 DEF CommitAdmitted
  <2> QED
    BY <1>2, <1>5, <2>2, <2>3 DEF CommitReceipt
<1>6. CASE CommitProceeds(v)
  <2>1. CASE SyncHead(v)
    <3>1. ret'[v].code \in {"COMMITTED", "RECOVERED"}
      BY <1>1, <2>1 DEF SyncHead, Returns, Answer
    <3> QED
      BY <3>1
  <2>2. CASE ~SyncHead(v)
    BY <1>2, <1>6, <2>2
    DEF CommitProceeds, Proceed, Stage, LinkEntry, UnlinkTemp, SyncEntries, StageHead,
        ReplaceHead
  <2> QED
    BY <2>1, <2>2
<1>7. CASE CommitFails(v)
  BY <1>1, <1>7, FailTells DEF CommitFails, WInv, IInv
<1>8. CASE KillWorker(v)
  BY <1>1, <1>8 DEF KillWorker, Kill, Answer
<1>9. ASSUME NEW w \in Workers, Works(w) PROVE ret'[v].code \notin Stale
  <2>1. CASE w # v
    BY <1>1, <1>2, <1>9, <2>1, OthersOps
  <2>2. CASE Works(v)
    BY <1>2, <1>3, <1>4, <1>5, <1>6, <1>7, <1>8, <2>2
    DEF Works, Continue, Start, Evaluate, Publish, Finish, PublishFailsEarly, vars, calls
  <2> QED
    BY <1>9, <2>1, <2>2
<1>10. ASSUME NEW o \in Procs \ Workers, Logs(o) PROVE ret'[v] = ret[v]
  BY <1>1, <1>10, OnlyOwn DEF WInv, IInv
<1>11. CASE UNCHANGED vars \/ UNCHANGED allVars
  BY <1>2, <1>11 DEF vars, allVars, calls
<1> QED
  BY <1>2, <1>9, <1>10, <1>11, StepLogs
-----------------------------------------------------------------------------
LEMMA WInvInit == WorkerInit => WInv
<1> SUFFICES ASSUME WorkerInit PROVE WInv
  OBVIOUS
<1> USE DEF WorkerInit
<1>1. IInv /\ op = [p \in Procs |-> "idle"]
  BY InitInv DEF Init
<1>2. OperatorsRecover
  BY <1>1 DEF OperatorsRecover
<1>3. WorkerTypeOK
  BY WorkersAssumption, NoneAssumption DEF WorkerTypeOK, Places
<1>4. CompletedIsReceipted
  BY DEF CompletedIsReceipted, Vouched
<1>5. \A w \in Workers : Place(w)
  BY <1>1, WorkersAssumption
  DEF Place, Recovering, Unreceipted, Unpublished, Vouched
<1>6. CommitNeverStale
  BY WorkersAssumption DEF Init, CommitNeverStale, Answer
<1> QED
  BY <1>1, <1>2, <1>3, <1>4, <1>5, <1>6 DEF WInv

LEMMA WInvNext == WInv /\ [WorkerNext]_allVars => WInv'
  BY LogNext, OperatorsNext, SettledNext, NeverStaleNext DEF WInv, Settled

LEMMA WorkerInvariance == WorkerSpec => []WInv
  BY WInvInit, WInvNext, PTL DEF WorkerSpec

(* A completed result, on disk or answered, names the receipt of its job,  *)
(* and .worker.lock is held exactly by the worker inside run_isolated_job, *)
(* for any number of workers, operators, retries and faults.               *)
THEOREM ResultsAreReceipted == WorkerSpec => []WorkerInv
<1>1. WInv => WorkerInv
  BY DEF WInv, WorkerInv
<1> QED
  BY <1>1, WorkerInvariance, PTL

(* The head that a worker reads before its commit is the head at its       *)
(* commit, and the key it looked up is still unused.                       *)
THEOREM NeverStale == WorkerSpec => []CommitNeverStale
<1>1. WInv => CommitNeverStale
  BY DEF WInv
<1> QED
  BY <1>1, WorkerInvariance, PTL

(* Whoever links a result finds the name free, and nothing removes it.     *)
THEOREM ResultsStay == WorkerSpec => ResultImmutable
<1>1. ASSUME WInv, [WorkerNext]_allVars, NEW u \in Uris, result[u] # None
      PROVE  result'[u] = result[u]
  <2>1. ASSUME NEW w \in Workers, Publish(w) PROVE result'[u] = result[u]
    <3>1. result[invoked[w].uri] = None
      BY <1>1, <2>1 DEF WInv, Place, Publish, Unpublished
    <3> QED
      BY <1>1, <2>1, <3>1 DEF Publish, WInv, WorkerTypeOK
  <2>2. ASSUME NEW w \in Workers, Works(w), ~Publish(w) PROVE result' = result
    BY <2>2 DEF Works, Continue, Start, Enter, Check, Lookup, Evaluate, ReadTip, CommitReceipt,
                CommitProceeds, CommitFails, Committed, Finish, PublishFailsEarly, KillWorker,
                Leave, WillWrite, workerVars
  <2>3. ASSUME NEW o \in Procs, Operate(o) PROVE result' = result
    BY <2>3 DEF Operate, workerVars
  <2> QED
    BY <1>1, <2>1, <2>2, <2>3, StepLogs
    DEF Around, DeadlinePasses, ArtifactChanges, allVars, workerVars
<1>2. WInv /\ [WorkerNext]_allVars =>
        [\A u \in Uris : result[u] # None => result'[u] = result[u]]_allVars
  BY <1>1
<1> QED
  BY <1>2, WorkerInvariance, PTL DEF WorkerSpec, ResultImmutable
-----------------------------------------------------------------------------
(* A draft is made only by a commit that was admitted.                     *)
LEMMA DraftStep ==
  ASSUME WInv, [WorkerNext]_allVars, NEW q \in Procs
  PROVE  \/ draft'[q] \in {draft[q], None}
         \/ \E d \in Docs, fits \in BOOLEAN : CommitAdmitted(q, d, d.job_spec_sha256 \in late, fits)
<1> USE DEF Answers, Returns
<1>1. draft \in [Procs -> Receipt \cup {None}]
  BY DEF WInv, IInv, TypeOK
<1>2. ASSUME NEW p \in Procs, Proceed(p) \/ Fail(p) \/ Kill(p) \/ Verify(p) \/ Recover(p)
                             \/ \E d : Find(p, d)
      PROVE  draft'[q] \in {draft[q], None}
  BY <1>1, <1>2
  DEF Proceed, Stage, LinkEntry, UnlinkTemp, SyncEntries, StageHead, ReplaceHead, SyncHead,
      Fail, StageFails, PublishFails, ConfirmFails, HeadFails, Kill, Verify, Recover, Find
<1>3. ASSUME NEW w \in Workers, CommitReceipt(w)
      PROVE  \/ draft'[q] \in {draft[q], None}
             \/ \E d \in Docs, fits \in BOOLEAN :
                   CommitAdmitted(q, d, d.job_spec_sha256 \in late, fits)
  <2>1. CASE q # w
    <3>1. Works(w)
      BY <1>3 DEF Works, Continue
    <3> QED
      BY <2>1, <3>1, OthersOps
  <2>2. ASSUME q = w, NEW d \in Executions(invoked[w].job), NEW fits \in BOOLEAN,
               CommitAdmitted(w, d, invoked[w].job \in late, fits)
        PROVE  CommitAdmitted(q, d, d.job_spec_sha256 \in late, fits) /\ d \in Docs
    BY <2>2 DEF Executions
  <2>3. ASSUME NEW d, NEW over, NEW fits, CommitAnswered(w, d, over, fits)
        PROVE  draft' = draft
    BY <2>3 DEF CommitAnswered
  <2> QED
    BY <1>3, <2>1, <2>2, <2>3 DEF CommitReceipt
<1>4. ASSUME NEW w \in Workers, Works(w), ~CommitReceipt(w)
      PROVE  draft'[q] \in {draft[q], None}
  BY <1>2, <1>4, WorkersAssumption
  DEF Works, Continue, Start, Enter, Check, Lookup, Evaluate, ReadTip, CommitProceeds, CommitFails,
      Publish, Finish, PublishFailsEarly, KillWorker, vars, calls
<1>5. ASSUME NEW o \in Procs \ Workers, Operate(o)
      PROVE  draft'[q] \in {draft[q], None}
  BY <1>2, <1>5 DEF Operate
<1>6. CASE UNCHANGED vars \/ UNCHANGED allVars
  BY <1>6 DEF allVars, vars, calls
<1> QED
  BY <1>3, <1>4, <1>5, <1>6, StepLogs

(* No retry, recovery or fault gives an expired job a receipt whose commit *)
(* was not admitted before.                                                *)
THEOREM DeadlineIsFinal == WorkerSpec => ExpiryIsFinal
<1>1. ASSUME WInv, [WorkerNext]_allVars, NEW j \in Jobs, Barred(j)
      PROVE  Barred(j)'
  <2>1. j \in late'
    <3>1. ASSUME NEW w \in Workers, Works(w) PROVE late' = late
      BY <3>1 DEF Works, Continue, Start, Enter, Check, Lookup, Evaluate, ReadTip, CommitReceipt,
                  CommitProceeds, CommitFails, Committed, Publish, Finish, PublishFailsEarly,
                  KillWorker, Leave, WillWrite, workerVars
    <3>2. ASSUME NEW o \in Procs, Operate(o) PROVE late' = late
      BY <3>2 DEF Operate, workerVars
    <3> QED
      BY <1>1, <3>1, <3>2, StepLogs
      DEF Barred, Around, DeadlinePasses, ArtifactChanges, allVars, workerVars
  <2>2. \A i \in 1..Len(entries') : entries'[i].doc.job_spec_sha256 # j
    <3>1. entries \in Seq(Receipt) /\ draft \in [Procs -> Receipt \cup {None}]
      BY <1>1 DEF WInv, IInv, TypeOK
    <3>2. \A i \in 1..Len(entries) : entries[i].doc.job_spec_sha256 # j
      BY <1>1 DEF Barred, ReceiptsOf
    <3>3. ASSUME NEW w \in Workers, LinkEntry(w)
          PROVE  /\ entries' = Append(entries, draft[w])
                 /\ draft[w].doc.job_spec_sha256 # j
      <4>1. op[w] = "staged" /\ w \in Procs
        BY <3>3, WorkersAssumption DEF LinkEntry, Advance
      <4>2. draft[w] # None
        BY <1>1, <4>1, NoneIsNoReceipt DEF WInv, IInv, DraftFits
      <4> QED
        BY <1>1, <3>3, <4>1, <4>2 DEF LinkEntry, Barred
    <3>4. ASSUME NEW r, r.doc.job_spec_sha256 # j, entries' = Append(entries, r)
          PROVE  \A i \in 1..Len(entries') : entries'[i].doc.job_spec_sha256 # j
      BY <3>1, <3>2, <3>4
    <3> QED
      BY <1>1, <3>2, <3>3, <3>4, EntriesNext
  <2>3. ASSUME NEW p \in Procs, draft'[p] # None
        PROVE  draft'[p].doc.job_spec_sha256 # j
    <3>1. CASE draft'[p] = draft[p]
      BY <1>1, <2>3, <3>1 DEF Barred
    <3>2. ASSUME NEW d \in Docs, NEW fits \in BOOLEAN,
                 CommitAdmitted(p, d, d.job_spec_sha256 \in late, fits)
          PROVE  draft'[p].doc.job_spec_sha256 # j
      <4>1. draft'[p] = Proposal(p, d)
        BY <1>1, <3>2 DEF CommitAdmitted, WInv, IInv, TypeOK
      <4>2. draft'[p].doc = d
        BY <4>1 DEF Proposal
      <4>3. d.job_spec_sha256 \notin late
        BY <3>2 DEF CommitAdmitted, Admission, Snapshot, Scan, HeadCheck
      <4> QED
        BY <1>1, <4>2, <4>3 DEF Barred
    <3> QED
      BY <1>1, <2>3, <3>1, <3>2, DraftStep
  <2> QED
    BY <2>1, <2>2, <2>3 DEF Barred, ReceiptsOf
<1>2. WInv /\ [WorkerNext]_allVars => [\A j \in Jobs : Barred(j) => Barred(j)']_allVars
  BY <1>1
<1> QED
  BY <1>2, WorkerInvariance, PTL DEF WorkerSpec, ExpiryIsFinal

-----------------------------------------------------------------------------
(* What run_isolated_job decides to publish without a receipt is true when *)
(* it decides, or contradicts only its own unconfirmed commit, and         *)
(* .worker.lock keeps it so.                                               *)
HonestAt(w) ==
    at[w] = "write" /\ pending[w].status # "completed" =>
        ReceiptsOf(pending[w].job) = {} \/ UnconfirmedCommit(w)

Honest == \A w \in Workers : HonestAt(w)

LEMMA WaitingIsHonest ==
  ASSUME WInv, [WorkerNext]_allVars, NEW w \in Workers, HonestAt(w),
         at'[w] = at[w], pending'[w] = pending[w], invoked'[w] = invoked[w], ret'[w] = ret[w]
  PROVE  HonestAt(w)'
<1>1. CASE at[w] = "write"
  <2>1. UNCHANGED entries
    BY <1>1, EntriesNext, Alone
  <2> QED
    BY <1>1, <2>1 DEF HonestAt, ReceiptsOf, UnconfirmedCommit
<1> QED
  BY <1>1 DEF HonestAt

LEMMA FailedIsHonest ==
  ASSUME WInv, NEW w \in Workers, at[w] # "idle", UNCHANGED entries,
         Bound(Identity(invoked[w].job)) = {},
         NEW status \in {"cancelled", "rejected"},
         WillWrite(w, Failed(invoked[w].job, status))
  PROVE  HonestAt(w)'
<1> DEFINE j == invoked[w].job
<1>1. j \in Jobs /\ Identity(j) \in Executions(j)
  BY Inside DEF WInv, Executions
<1>2. ReceiptsOf(j) = {}
  BY <1>1, Unbound DEF WInv
<1>3. pending'[w] = Failed(j, status) /\ pending'[w].job = j
  BY <1>1, Documents DEF WillWrite, WInv, WorkerTypeOK
<1> QED
  BY <1>2, <1>3 DEF HonestAt, ReceiptsOf

(* A linked draft is the one receipt of its job.                           *)
LEMMA LinkedIsOnly ==
  ASSUME WInv, NEW w \in Workers, at[w] = "committing",
         op[w] \in {"linked", "unlinked", "synced", "headStaged", "headReplaced"}
  PROVE  /\ entries # <<>> /\ draft[w].doc = entries[Len(entries)].doc
         /\ ReceiptsOf(invoked[w].job) = {Len(entries)}
<1> DEFINE j == invoked[w].job
           n == Len(entries)
<1>1. entries \in Seq(Receipt) /\ w \in Procs
  BY WorkersAssumption DEF WInv, IInv, TypeOK
<1>2. entries # <<>> /\ draft[w] = entries[n]
  BY <1>1 DEF WInv, IInv, DraftLinked
<1>3. n \in 1..Len(entries)
  BY <1>1, <1>2
<1>4. draft[w].doc.job_spec_sha256 = j
  BY DEF WInv, Place, Executions
<1>5. n \in ReceiptsOf(j)
  BY <1>2, <1>3, <1>4 DEF ReceiptsOf
<1>6. ASSUME NEW i \in ReceiptsOf(j) PROVE i = n
  <2>1. i \in 1..Len(entries) /\ entries[i].doc.job_spec_sha256 = j
    BY <1>6 DEF ReceiptsOf
  <2>2. entries[i] \in Receipt /\ entries[n] \in Receipt
    BY <1>1, <1>3, <2>1
  <2>3. entries[i].doc \in Docs /\ entries[n].doc \in Docs
    BY <2>2 DEF Receipt
  <2>4. entries[i].doc.idempotency_key = entries[n].doc.idempotency_key
    BY <1>2, <1>4, <2>1, <2>3, JobsAssumption
  <2> QED
    BY <1>3, <2>1, <2>4 DEF WInv, IInv, LogIntact, Distinct
<1> QED
  BY <1>2, <1>5, <1>6

(* A commit that fails publishes a rejection before the link, or when the  *)
(* committed entry could not be confirmed.                                 *)
LEMMA FailedCommitIsHonest ==
  ASSUME WInv, [WorkerNext]_allVars, NEW w \in Workers, CommitFails(w)
  PROVE  HonestAt(w)'
<1> DEFINE j == invoked[w].job
<1>1. at[w] = "committing" /\ Place(w) /\ Fail(w) /\ Committed(w) /\ w \in Procs
  BY WorkersAssumption DEF CommitFails, WInv
<1>2. op'[w] = "idle" /\ UNCHANGED entries /\ ret \in [Procs -> Reply]
  BY <1>1, FailTells DEF WInv, IInv, TypeOK, Reply
<1>3. j \in Jobs /\ Identity(j) \in Docs /\ Identity(j).job_spec_sha256 = j
  BY <1>1, Inside
<1>4. CASE StageFails(w)
  <2>1. Bound(draft[w].doc) = {}
    BY <1>1, <1>4 DEF StageFails, WInv, IInv, DraftFits
  <2>2. draft[w].doc.idempotency_key = Identity(j).idempotency_key
    BY <1>1, <1>3, JobsAssumption DEF Place, Executions
  <2>3. Bound(Identity(j)) = {}
    BY <2>1, <2>2 DEF Bound
  <2>4. ret'[w].code = "RECEIPT_WRITE_FAILED"
    BY <1>1, <1>2, <1>4 DEF StageFails, Returns, Answer
  <2>5. WillWrite(w, Failed(j, "rejected"))
    BY <1>1, <1>2, <2>4 DEF Committed
  <2> QED
    BY <1>1, <1>2, <2>3, <2>5, FailedIsHonest
<1>5. ASSUME ret'[w].code \in {"RECEIPT_HEAD_WRITE_FAILED", "OSError"} PROVE HonestAt(w)'
  <2>1. Leave(w, Raised(j))
    BY <1>1, <1>2, <1>5 DEF Committed
  <2>2. at'[w] = "idle"
    BY <2>1 DEF Leave, WInv, WorkerTypeOK
  <2> QED
    BY <2>2 DEF HonestAt
<1>6. CASE HeadFails(w)
  <2>1. op[w] \notin Recovering
    BY <1>1 DEF Place
  <2>2. ret'[w].code = "RECEIPT_HEAD_WRITE_FAILED"
    BY <1>1, <1>2, <1>6, <2>1 DEF HeadFails, Returns, Answer, Recovering
  <2> QED
    BY <1>5, <2>2
<1>7. CASE PublishFails(w)
  <2>1. ret'[w].code = "OSError"
    BY <1>1, <1>2, <1>7 DEF PublishFails, Returns, Answer
  <2> QED
    BY <1>5, <2>1
<1>8. CASE ConfirmFails(w)
  <2>1. PICK code \in {"RECEIPT_WRITE_FAILED", "RECEIPT_FSYNC_FAILED"} :
            op[w] = "synced" /\ Returns(w, Answer(code, draft[w].doc, None))
    BY <1>8 DEF ConfirmFails
  <2>2. ret'[w].code = code /\ ret'[w].asked = draft[w].doc
    BY <1>1, <1>2, <2>1 DEF Returns, Answer
  <2>3. WillWrite(w, Failed(j, "rejected"))
    BY <1>1, <1>2, <2>2 DEF Committed
  <2>4. invoked'[w] = invoked[w]
    BY <2>3 DEF WillWrite
  <2>5. /\ entries # <<>> /\ draft[w].doc = entries[Len(entries)].doc
        /\ ReceiptsOf(j) = {Len(entries)}
    BY <1>1, <2>1, LinkedIsOnly
  <2>6. UnconfirmedCommit(w)'
    BY <1>2, <2>2, <2>4, <2>5 DEF UnconfirmedCommit, ReceiptsOf
  <2> QED
    BY <2>6 DEF HonestAt
<1> QED
  BY <1>1, <1>4, <1>6, <1>7, <1>8 DEF Fail

LEMMA CompletedIsHonest ==
  ASSUME WInv, NEW w \in Workers, NEW j, NEW r, WillWrite(w, Document(j, "completed", r))
  PROVE  HonestAt(w)'
<1>1. pending'[w] = Document(j, "completed", r)
  BY DEF WillWrite, WInv, WorkerTypeOK
<1> QED
  BY <1>1 DEF HonestAt, Document

LEMMA WorkIsHonest ==
  ASSUME WInv, [WorkerNext]_allVars, NEW w \in Workers, HonestAt(w), Works(w)
  PROVE  HonestAt(w)'
<1> DEFINE j == invoked[w].job
<1>1. Place(w) /\ w \in Procs
  BY WorkersAssumption DEF WInv
<1>2. CASE at'[w] # "write"
  BY <1>2 DEF HonestAt
<1>3. CASE Lookup(w) /\ at'[w] = "write"
  <2>1. ret'[w].code = "FOUND" /\ j \notin gone
    BY <1>3 DEF Lookup, Leave, Goto, WInv, WorkerTypeOK
  <2>2. WillWrite(w, Document(j, "completed", ret'[w].receipt))
    BY <1>3, <2>1 DEF Lookup, WillWrite
  <2> QED
    BY <2>2, CompletedIsHonest
<1>4. CASE (Evaluate(w) \/ ReadTip(w) \/ CommitReceipt(w)) /\ at'[w] = "write"
  <2>1. at[w] \in Unreceipted
    BY <1>4 DEF Evaluate, ReadTip, CommitReceipt, Unreceipted
  <2>2. Bound(Identity(j)) = {} /\ at[w] # "idle" /\ Identity(j) \in Docs
    BY <1>1, <2>1, Inside DEF Place, Unreceipted
  <2>3. \E status \in {"cancelled", "rejected"} : WillWrite(w, Failed(j, status))
    BY <1>4 DEF Evaluate, ReadTip, CommitReceipt, Goto, WInv, WorkerTypeOK
  <2>4. UNCHANGED entries
    <3>1. at[w] # "committing" /\ at[w] # "idle"
      BY <2>1 DEF Unreceipted
    <3> QED
      BY <3>1, EntriesNext, Alone
  <2> QED
    BY <2>2, <2>3, <2>4, FailedIsHonest
<1>5. CASE CommitProceeds(w) /\ at'[w] = "write"
  <2>1. at[w] = "committing" /\ Proceed(w) /\ Committed(w)
    BY <1>5 DEF CommitProceeds
  <2>2. op'[w] = "idle"
    BY <1>5, <2>1 DEF Committed, workerVars
  <2>3. op[w] # "idle" /\ op[w] \notin Recovering
    BY <1>1, <2>1 DEF Place
  <2>4. SyncHead(w) /\ op[w] = "headReplaced"
    BY <1>1, <2>1, <2>2, <2>3
    DEF Proceed, Stage, LinkEntry, UnlinkTemp, SyncEntries, StageHead, ReplaceHead, SyncHead,
        Advance, Recovering, WInv, IInv, TypeOK
  <2>5. ret'[w] = Answer("COMMITTED", draft[w].doc, draft[w])
    BY <1>1, <2>4 DEF SyncHead, Returns, WInv, IInv, TypeOK
  <2>6. ret'[w].code = "COMMITTED"
    BY <2>5 DEF Answer
  <2>7. WillWrite(w, Document(j, "completed", ret'[w].receipt))
    BY <2>1, <2>2, <2>6 DEF Committed
  <2> QED
    BY <2>7, CompletedIsHonest
<1>6. CASE ~CommitFails(w) /\ at'[w] = "write"
  BY <1>3, <1>4, <1>5, <1>6
  DEF Works, Continue, Start, Enter, Check, Publish, Finish, PublishFailsEarly, KillWorker, Leave,
      Goto, WInv, WorkerTypeOK
<1> QED
  BY <1>2, <1>6, FailedCommitIsHonest

LEMMA HonestNext ==
  ASSUME WInv, Honest, [WorkerNext]_allVars
  PROVE  Honest'
<1> SUFFICES ASSUME NEW v \in Workers PROVE HonestAt(v)'
  BY DEF Honest
<1>1. HonestAt(v)
  BY DEF Honest
<1>2. ASSUME NEW w \in Workers, Works(w) PROVE HonestAt(v)'
  <2>1. CASE w = v
    BY <1>1, <1>2, <2>1, WorkIsHonest
  <2>2. CASE w # v
    <3>1. at'[v] = at[v] /\ pending'[v] = pending[v] /\ invoked'[v] = invoked[v]
      BY <1>2, <2>2
      DEF Works, Continue, Start, Enter, Check, Lookup, Evaluate, ReadTip, CommitReceipt,
          CommitProceeds, CommitFails, Committed, Publish, Finish, PublishFailsEarly,
          KillWorker, Leave, WillWrite, Goto, workerVars, local, WInv, WorkerTypeOK
    <3>2. ret'[v] = ret[v]
      BY <1>2, <2>2, OthersOps, WorkersAssumption
    <3> QED
      BY <1>1, <3>1, <3>2, WaitingIsHonest
  <2> QED
    BY <2>1, <2>2
<1>3. ASSUME NEW o \in Procs \ Workers, Operate(o), Logs(o) PROVE HonestAt(v)'
  <2>1. ret'[v] = ret[v]
    BY <1>3, OnlyOwn, WorkersAssumption DEF WInv, IInv
  <2> QED
    BY <1>1, <1>3, <2>1, WaitingIsHonest DEF Operate, workerVars
<1>4. CASE UNCHANGED allVars \/ Around
  BY <1>1, <1>4, WaitingIsHonest
  DEF allVars, vars, calls, workerVars, Around, DeadlinePasses, ArtifactChanges, local
<1> QED
  BY <1>2, <1>3, <1>4, StepLogs

(* A rejected, cancelled or expired result is published only while the log *)
(* holds no receipt of the job, or after this invocation's own commit      *)
(* failed between the link of its entry and the writing of HEAD, whatever  *)
(* calls fail.                                                             *)
THEOREM NeverContradicts == WorkerSpec => NoContradiction
<1> DEFINE Truthful(u) ==
             (result[u] = None /\ result'[u] # None /\ result'[u].status # "completed")
                 => \/ ReceiptsOf(result'[u].job) = {}
                    \/ \E w \in Workers : wlock = w /\ UnconfirmedCommit(w)
<1>1. WorkerInit => Honest
  BY DEF WorkerInit, Honest, HonestAt
<1>2. ASSUME WInv, Honest, [WorkerNext]_allVars PROVE Honest'
  BY <1>2, HonestNext
<1>3. ASSUME WInv, Honest, [WorkerNext]_allVars, NEW u \in Uris PROVE Truthful(u)
  <2>1. ASSUME NEW w \in Workers, Publish(w) PROVE Truthful(u)
    <3>1. result'[u] \in {result[u], pending[w]} /\ at[w] = "write" /\ wlock = w
      BY <1>3, <2>1 DEF Publish, WInv, WorkerTypeOK
    <3> QED
      BY <1>3, <3>1 DEF Honest, HonestAt
  <2>2. ASSUME NEW w \in Workers, Works(w), ~Publish(w) PROVE result' = result
    BY <2>2 DEF Works, Continue, Start, Enter, Check, Lookup, Evaluate, ReadTip, CommitReceipt,
                CommitProceeds, CommitFails, Committed, Finish, PublishFailsEarly, KillWorker,
                Leave, WillWrite, workerVars
  <2>3. ASSUME NEW o \in Procs, Operate(o) PROVE result' = result
    BY <2>3 DEF Operate, workerVars
  <2> QED
    BY <1>3, <2>1, <2>2, <2>3, StepLogs
    DEF Around, DeadlinePasses, ArtifactChanges, allVars, workerVars
<1>4. WInv /\ Honest /\ [WorkerNext]_allVars => [\A u \in Uris : Truthful(u)]_allVars
  BY <1>3
<1> QED
  BY <1>1, <1>2, <1>4, WorkerInvariance, PTL DEF WorkerSpec, NoContradiction

-----------------------------------------------------------------------------
(* The log under run_isolated_job: whatever workers and operators do is a  *)
(* step of ReceiptLog, or only spends a fault outside it.                  *)
LEMMA StepOfLog ==
  ASSUME WInv, [WorkerNext]_allVars
  PROVE  [Next]_vars \/ Spends
<1>1. ASSUME NEW p \in Procs, Logs(p) PROVE Next
  BY <1>1 DEF Logs, Next
<1>2. CASE UNCHANGED allVars
  BY <1>2 DEF allVars
<1> QED
  BY <1>1, <1>2, StepLogs, WorkLogs DEF WInv

(* Under any number of workers and operators the entries stay one chain,   *)
(* acknowledged receipts stay durable, and HEAD names the last entry or    *)
(* the one before it.                                                      *)
THEOREM LogServesWorkers == WorkerSpec => [](LogIntact /\ AckedIsDurable /\ HeadTrails)
<1>1. WorkerInit => HeadFollows
  BY DEF WorkerInit, Init, HeadFollows, HeadTrails, HeadMatches, HeadOf, NoHead, Tip
<1>2. ASSUME WInv, HeadFollows, [WorkerNext]_allVars PROVE HeadFollows'
  <2>1. CASE [Next]_vars
    BY <1>2, <2>1, HeadFollowsStep, NoPowerAssumption DEF WInv
  <2>2. CASE Spends
    BY <1>2, <2>2 DEF Spends, disk, heads, calls, HeadFollows, HeadTrails, HeadMatches
  <2> QED
    BY <1>2, <2>1, <2>2, StepOfLog
<1>3. WInv /\ HeadFollows => LogIntact /\ AckedIsDurable /\ HeadTrails
  BY DEF WInv, IInv, HeadFollows
<1> QED
  BY <1>1, <1>2, <1>3, WorkerInvariance, PTL DEF WorkerSpec

(* Workers and operators together use the log as a ledger: a key is bound  *)
(* once, and every answer is true of the entries.                          *)
THEOREM WorkersKeepLedger == WorkerSpec => ImplementsLedger
<1>1. WorkerInit => Ledger!Init
  BY DEF WorkerInit, Init, Ledger!Init, Answer
<1>2. ASSUME WInv, [WorkerNext]_allVars PROVE [Ledger!Next]_<<entries, ret>>
  <2>1. CASE Next
    <3>1. ~PowerLoss
      BY NoPowerAssumption DEF PowerLoss, Fault
    <3> QED
      BY <1>2, <2>1, <3>1, CallImplements, ProceedImplements, FailImplements DEF Next, WInv
  <2>2. CASE UNCHANGED vars \/ Spends
    BY <2>2 DEF vars, Spends, disk, calls
  <2> QED
    BY <1>2, <2>1, <2>2, StepOfLog
<1> QED
  BY <1>1, <1>2, WorkerInvariance, PTL DEF WorkerSpec, ImplementsLedger, Ledger!Spec

(* Two completed results of one job, under any URIs, name one receipt.     *)
OneReceipt ==
    \A u, v \in Uris :
        (/\ result[u] # None /\ result[v] # None
         /\ result[u].status = "completed" /\ result[v].status = "completed"
         /\ result[u].job = result[v].job)
            => result[u].receipt = result[v].receipt

(* However often a job is run, and under however many result URIs, all its *)
(* completed results name one receipt.                                     *)
THEOREM OneReceiptPerJob == WorkerSpec => []OneReceipt
<1>1. ASSUME WInv, NEW u \in Uris, NEW v \in Uris,
             result[u] # None, result[v] # None,
             result[u].status = "completed", result[v].status = "completed",
             result[u].job = result[v].job
      PROVE  result[u].receipt = result[v].receipt
  <2> DEFINE j == result[u].job
  <2>1. PICK i \in ReceiptsOf(j) : entries[i] = result[u].receipt
    BY <1>1 DEF WInv, CompletedIsReceipted, Vouched
  <2>2. PICK k \in ReceiptsOf(j) : entries[k] = result[v].receipt
    BY <1>1 DEF WInv, CompletedIsReceipted, Vouched
  <2>3. \A n \in ReceiptsOf(j) : n \in 1..Len(entries) /\ entries[n].doc \in Docs
    <3>1. \A n \in 1..Len(entries) : entries[n] \in Receipt
      BY <1>1 DEF WInv, IInv, TypeOK
    <3> QED
      BY <3>1 DEF ReceiptsOf, Receipt
  <2>4. entries[i].doc.idempotency_key = entries[k].doc.idempotency_key
    BY <2>3, JobsAssumption DEF ReceiptsOf
  <2>5. i = k
    BY <1>1, <2>3, <2>4 DEF WInv, IInv, LogIntact, Distinct
  <2> QED
    BY <2>1, <2>2, <2>5
<1>2. WInv => OneReceipt
  BY <1>1 DEF OneReceipt
<1> QED
  BY <1>2, WorkerInvariance, PTL
=============================================================================
