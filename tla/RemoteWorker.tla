---------------------------- MODULE RemoteWorker ----------------------------
(***************************************************************************)
(* The claim lifecycle of remote_worker.py: the worker's main thread       *)
(* claims, stages, executes and reports one job at a time, while a         *)
(* _ClaimSupervisor thread renews the lease and learns of cancellation.    *)
(* Scout, which owns jobs, fences and leases, is external and modelled     *)
(* from the requests the client sends and docs/scout-worker-client.md.     *)
(* Requests and replies can be lost; the process can be killed or told to  *)
(* stop; leases and the claim deadline can pass at any moment, without any *)
(* relation between Scout's clock and the worker's.                        *)
(***************************************************************************)
EXTENDS Naturals, FiniteSets

CONSTANTS Jobs,       \* research jobs that Scout hands out
          Bad,        \* those whose staged input fails validation
          MaxFence,   \* bound: leases per job
          MaxRuns,    \* bound: executor runs, which number the results
          MaxFaults,  \* bound: losses, local failures and kills
          None        \* no claim, no reply

ASSUME BadAssumption == Bad \subseteq Jobs

ASSUME RemoteBounds == MaxFence \in Nat /\ MaxRuns \in Nat /\ MaxFaults \in Nat

(* A claim is its job and fence; attempt and cancellation generation do    *)
(* not change while a fence is current.                                    *)
Claims == [job : Jobs, fence : 1..MaxFence]

ASSUME NoneIsNoClaim == None \notin Claims

VARIABLES scout,     \* Scout's record of each job
          session,   \* the worker's session number, new after a kill
          pc,        \* where the main thread is
          claim,     \* the claim it works on
          verdict,   \* what it is going to report, or the reply awaited
          trees,     \* claims whose run tree exists under runs/
          results,   \* the result.json of each claim: executor run, 0 if none
          beat,      \* the supervisor thread: off, waiting, or a request open
          reply,     \* the heartbeat reply on its way
          cancelled, failure, leased, overdue,  \* what the supervisor knows
          stopping,  \* SIGTERM or SIGINT arrived
          runs,      \* executor runs so far
          asked,     \* history: terminal requests sent for each claim
          faults     \* how many faults have happened

supervisor == <<cancelled, failure, leased, overdue>>
thread == <<beat, reply>>
local == <<trees, results, runs>>
env == <<session, stopping>>
vars == <<scout, env, pc, claim, verdict, local, thread, supervisor, asked, faults>>

(* Terminal requests: a result, a failure of the job, or a failure because *)
(* the worker refused a file of its own; and the answers to them.          *)
Complete(n) == [kind |-> "complete", run |-> n, code |-> "ok"]
FailIt == [kind |-> "fail", run |-> 0, code |-> "job"]
Refuse == [kind |-> "fail", run |-> 0, code |-> "files"]
Accepted(n) == [kind |-> "accepted", run |-> n, code |-> "ok"]
Ambiguous == [kind |-> "ambiguous", run |-> 0, code |-> "ok"]

Acknowledgements == {Accepted(n) : n \in 0..MaxRuns}

ASSUME NoneIsNoReply ==
    None \notin {"rejected", "cancelled", "renewed"} /\ None \notin Acknowledgements

Checked == {"gate", "stage", "replay", "execute"}
Busy == {"start", "prune", "stop", "send", "await"} \cup Checked
-----------------------------------------------------------------------------
Fault == faults < MaxFaults /\ faults' = faults + 1

(* Scout's decisions.  A lease belongs to one session and is renewed or    *)
(* decided only while it is current.                                       *)
Holds(c) ==
    LET s == scout[c.job] IN
    s.state = "leased" /\ s.fence = c.fence /\ s.live

Redeliverable == {j \in Jobs : /\ scout[j].state = "leased" /\ scout[j].live
                               /\ scout[j].session = session /\ ~scout[j].cancel}

HeartbeatReply(c) == IF ~Holds(c) THEN "rejected"
                     ELSE IF scout[c.job].cancel THEN "cancelled" ELSE "renewed"

(* The terminal compare-and-set.                                           *)
Decides(c) == Holds(c) /\ ~scout[c.job].cancel

LeaseRunsOut(j) ==
    /\ scout[j].state = "leased"
    /\ \/ /\ scout[j].live
          /\ scout' = [scout EXCEPT ![j].live = FALSE]
       \/ /\ ~scout[j].live /\ scout[j].fence < MaxFence
          /\ scout' = [scout EXCEPT ![j].state =
                           IF scout[j].cancel THEN "cancelled" ELSE "ready"]
    /\ UNCHANGED <<env, pc, claim, verdict, local, thread, supervisor, asked, faults>>

CancelJob(j) ==
    /\ scout[j].state = "leased" /\ ~scout[j].cancel
    /\ scout' = [scout EXCEPT ![j].cancel = TRUE]
    /\ UNCHANGED <<env, pc, claim, verdict, local, thread, supervisor, asked, faults>>
-----------------------------------------------------------------------------
(* _process_claim ends: finally supervisor.stop() joins the thread.        *)
EndClaim ==
    /\ pc' = "idle" /\ claim' = None /\ verdict' = None
    /\ beat' = "off" /\ reply' = None
    /\ cancelled' = FALSE /\ failure' = FALSE /\ leased' = TRUE /\ overdue' = FALSE

(* An operational error: back off, keep the run tree, decide nothing.      *)
BackOff == EndClaim /\ UNCHANGED <<scout, env, local, asked>>

(* Removing the tree of a claim removes its result with it.                *)
Remove(gone) ==
    /\ trees' = trees \ gone
    /\ results' = [c \in Claims |-> IF c \in gone THEN 0 ELSE results[c]]
    /\ UNCHANGED runs

(* run_once: one claim request.  A lost reply leaves the lease with Scout. *)
ClaimJob(j, lost) ==
    LET s == scout[j]
        again == j \in Redeliverable
        c == [job |-> j, fence |-> IF again THEN s.fence ELSE s.fence + 1]
    IN
    /\ pc = "idle" /\ ~stopping
    /\ again \/ (Redeliverable = {} /\ s.state = "ready" /\ s.fence < MaxFence)
    /\ scout' = IF again THEN scout
                ELSE [scout EXCEPT ![j] = [state |-> "leased", fence |-> c.fence,
                          live |-> TRUE, cancel |-> FALSE, session |-> session, run |-> 0]]
    /\ IF lost THEN Fault /\ UNCHANGED <<pc, claim>>
       ELSE pc' = "start" /\ claim' = c /\ UNCHANGED faults
    /\ UNCHANGED <<env, verdict, local, thread, supervisor, asked>>

(* 204: _prune_runs(None) removes every run tree.                          *)
ClaimNothing ==
    /\ pc = "idle" /\ ~stopping
    /\ Redeliverable = {}
    /\ Remove(trees)
    /\ UNCHANGED <<scout, env, pc, claim, verdict, thread, supervisor, asked, faults>>

(* supervisor.start(): the first heartbeat on the main thread, then the    *)
(* thread, which a cancelled reply ends at once.                           *)
Start ==
    LET r == HeartbeatReply(claim) IN
    /\ pc = "start" /\ r # "rejected"
    /\ pc' = "prune"
    /\ cancelled' = (r = "cancelled")
    /\ beat' = IF r = "cancelled" THEN "off" ELSE "waiting"
    /\ UNCHANGED <<scout, env, claim, verdict, local, reply, failure, leased, overdue,
                   asked, faults>>

StartFails ==
    /\ pc = "start"
    /\ \/ HeartbeatReply(claim) = "rejected" /\ UNCHANGED faults
       \/ Fault
    /\ BackOff

(* supervisor.check(), in the order of its tests.  "proceed" and the       *)
(* exceptions it raises.                                                   *)
Check == CASE stopping  -> "shutdown"
           [] ~stopping /\ cancelled -> "cancelled"
           [] ~stopping /\ ~cancelled /\ (failure \/ overdue \/ ~leased) -> "operational"
           [] OTHER     -> "proceed"

(* Mutant: other run trees are left alone.                                 *)
Prune_KeepsOthers ==
    /\ pc = "prune" /\ pc' = "gate"
    /\ UNCHANGED <<scout, env, claim, verdict, local, thread, supervisor, asked, faults>>

(* _prune_runs(claim) removes every other run tree, before the next check; *)
(* it can fail half way.                                                   *)
Prune ==
    /\ pc = "prune"
    /\ Remove(trees \ {claim})
    /\ pc' = "gate"
    /\ UNCHANGED <<scout, env, claim, verdict, thread, supervisor, asked, faults>>

PruneFails ==
    /\ pc = "prune"
    /\ Fault
    /\ \E gone \in SUBSET (trees \ {claim}) : Remove(gone)
    /\ EndClaim
    /\ UNCHANGED <<scout, env, asked>>

(* Enough free space: _run_root opens the run tree of the claim.           *)
OpenRun ==
    /\ pc = "gate" /\ Check = "proceed"
    /\ trees' = trees \cup {claim}
    /\ pc' = "stage"
    /\ UNCHANGED <<scout, env, claim, verdict, results, runs, thread, supervisor, asked,
                   faults>>

(* _stage and _load_claim_job.                                             *)
Stage ==
    /\ pc = "stage" /\ Check = "proceed"
    /\ IF claim.job \in Bad THEN pc' = "stop" /\ verdict' = FailIt
       ELSE pc' = "replay" /\ UNCHANGED verdict
    /\ UNCHANGED <<scout, env, claim, local, thread, supervisor, asked, faults>>

(* A result of this run tree is replayed, otherwise the executor starts.   *)
Replay ==
    /\ pc = "replay" /\ Check = "proceed"
    /\ IF results[claim] # 0
       THEN pc' = "stop" /\ verdict' = Complete(results[claim])
       ELSE pc' = "execute" /\ UNCHANGED verdict
    /\ UNCHANGED <<scout, env, claim, local, thread, supervisor, asked, faults>>

(* The executor writes its one result; the worker may learn of it only     *)
(* after a check has already ended the claim.                              *)
WriteResult ==
    /\ pc = "execute" /\ results[claim] = 0 /\ runs < MaxRuns
    /\ runs' = runs + 1
    /\ results' = [results EXCEPT ![claim] = runs + 1]
    /\ UNCHANGED <<scout, env, pc, claim, verdict, trees, thread, supervisor, asked, faults>>

(* The executor has ended, and the checks of its polling loop passed: only *)
(* the result counts, not the return code.                                 *)
Execute ==
    /\ pc = "execute" /\ Check = "proceed"
    /\ verdict' = IF results[claim] = 0 THEN FailIt ELSE Complete(results[claim])
    /\ pc' = "stop"
    /\ UNCHANGED <<scout, env, claim, local, thread, supervisor, asked, faults>>
-----------------------------------------------------------------------------
(* Mutant: the tree of every abandoned claim is removed.                   *)
Abandon_RemovesTree ==
    /\ \/ pc \in Checked
       \/ pc = "stop" /\ beat = "off"
    /\ Check # "proceed"
    /\ Remove({claim}) /\ EndClaim
    /\ UNCHANGED <<scout, env, asked, faults>>

(* A check between the steps above, or in the executor's polling loop,     *)
(* raises.  A cancellation that Scout confirmed removes the tree, if this  *)
(* delivery of the claim has opened it; that can fail.                     *)
Abandon ==
    /\ \/ pc \in Checked
       \/ pc = "stop" /\ beat = "off"
    /\ Check # "proceed"
    /\ \/ UNCHANGED local
       \/ Check = "cancelled" /\ pc # "gate" /\ Remove({claim})
    /\ EndClaim
    /\ UNCHANGED <<scout, env, asked, faults>>

(* The free space, staging, download, status or the executor's start       *)
(* fail operationally.                                                     *)
LocalFailure ==
    /\ pc \in Checked
    /\ Fault /\ BackOff

(* The run tree, a staged artifact, result.json or status.json is not what *)
(* this user left there: a ValidationError with no OSError behind it,      *)
(* which is reported to Scout as a failure of the job.                     *)
LocalRefusal ==
    /\ pc \in Checked
    /\ Fault
    /\ pc' = "stop" /\ verdict' = Refuse
    /\ UNCHANGED <<scout, env, claim, local, thread, supervisor, asked>>

(* Mutant: the join has no timeout.                                        *)
JoinThread_NoTimeout ==
    /\ pc = "stop" /\ beat = "waiting"
    /\ beat' = "off" /\ reply' = None
    /\ UNCHANGED <<scout, env, pc, claim, verdict, local, supervisor, asked, faults>>

(* stop(): the waiting thread sees _done and ends; an open request is      *)
(* waited for, and given up as WORKER_HEARTBEAT_STUCK after a timeout.     *)
JoinThread ==
    /\ pc = "stop" /\ beat # "off"
    /\ failure' = (failure \/ beat = "open")
    /\ beat' = "off" /\ reply' = None
    /\ UNCHANGED <<scout, env, pc, claim, verdict, local, cancelled, leased, overdue, asked,
                   faults>>

(* Mutant: check() in place of stop_and_check().                           *)
Decide_WithoutStop ==
    /\ pc = "stop" /\ Check = "proceed"
    /\ pc' = "send"
    /\ UNCHANGED <<scout, env, claim, verdict, local, thread, supervisor, asked, faults>>

(* stop_and_check passed.                                                  *)
Decide ==
    /\ pc = "stop" /\ beat = "off" /\ Check = "proceed"
    /\ pc' = "send"
    /\ UNCHANGED <<scout, env, claim, verdict, local, thread, supervisor, asked, faults>>

(* client.complete or client.fail: the request reaches Scout or not.       *)
Send ==
    /\ pc = "send" /\ pc' = "await"
    /\ asked' = [asked EXCEPT ![claim] = @ \cup {verdict}]
    /\ \/ /\ Decides(claim) /\ UNCHANGED faults
          /\ scout' = [scout EXCEPT ![claim.job].state = verdict.kind,
                                    ![claim.job].run = verdict.run]
          /\ verdict' = Accepted(verdict.run)
       \/ /\ ~Decides(claim) /\ UNCHANGED <<scout, faults>>
          /\ verdict' = Ambiguous
       \/ Fault /\ verdict' = Ambiguous /\ UNCHANGED scout
    /\ UNCHANGED <<env, claim, local, thread, supervisor>>

(* Only an exact acknowledgement ends the claim, and only then its tree    *)
(* goes; a cleanup failure leaves the tree.                                *)
Acknowledged ==
    /\ pc = "await" /\ verdict \in Acknowledgements
    /\ Remove({claim}) \/ UNCHANGED local
    /\ EndClaim
    /\ UNCHANGED <<scout, env, asked, faults>>

(* _status("completed") refuses status.json after Scout accepted the       *)
(* completion: it is inside the try, and its handler goes on to            *)
(* client.fail.  An operational failure there ends the claim like          *)
(* Acknowledged does, and the status "failed" is outside the try.          *)
AcknowledgedRefuses ==
    /\ pc = "await" /\ verdict \in Acknowledgements /\ verdict.run # 0
    /\ Fault
    /\ Remove({claim}) \/ UNCHANGED local
    /\ pc' = "stop" /\ verdict' = Refuse
    /\ UNCHANGED <<scout, env, claim, thread, supervisor, asked>>

(* Mutant: an ambiguous completion goes on to the failure endpoint.        *)
Unacknowledged_Fails ==
    /\ pc = "await" /\ verdict = Ambiguous
    /\ pc' = "stop" /\ verdict' = FailIt
    /\ UNCHANGED <<scout, env, claim, local, thread, supervisor, asked, faults>>

Unacknowledged ==
    /\ pc = "await"
    /\ \/ verdict = Ambiguous /\ UNCHANGED faults
       \/ verdict \in Acknowledgements /\ Fault
    /\ BackOff
-----------------------------------------------------------------------------
(* The supervisor thread.  It sends no heartbeat once stop() has set _done.*)
SendHeartbeat ==
    /\ beat = "waiting" /\ pc # "stop" /\ ~stopping /\ ~overdue
    /\ beat' = "open"
    /\ UNCHANGED <<scout, env, pc, claim, verdict, local, reply, supervisor, asked, faults>>

AnswerHeartbeat ==
    /\ beat = "open" /\ reply = None
    /\ \/ reply' = HeartbeatReply(claim) /\ UNCHANGED faults
       \/ reply' = "rejected" /\ Fault
    /\ UNCHANGED <<scout, env, pc, claim, verdict, local, beat, supervisor, asked>>

ReceiveReply ==
    /\ beat = "open" /\ reply # None
    /\ reply' = None
    /\ cancelled' = (cancelled \/ reply = "cancelled")
    /\ leased' = (leased \/ reply = "renewed")
    /\ failure' = (failure \/ reply = "rejected")
    /\ beat' = IF reply = "renewed" THEN "waiting" ELSE "off"
    /\ UNCHANGED <<scout, env, pc, claim, verdict, local, overdue, asked, faults>>

(* It ends by itself on a stop signal, and reports a passed deadline.      *)
ThreadEnds ==
    /\ beat = "waiting" /\ (stopping \/ overdue)
    /\ beat' = "off"
    /\ failure' = (failure \/ ~stopping)
    /\ UNCHANGED <<scout, env, pc, claim, verdict, local, reply, cancelled, leased,
                   overdue, asked, faults>>

(* The worker's own clocks, which only the checks read.                    *)
Watched == {"prune", "stop"} \cup Checked

LeasePasses ==
    /\ pc \in Watched /\ leased /\ leased' = FALSE
    /\ UNCHANGED <<scout, env, pc, claim, verdict, local, thread, cancelled, failure,
                   overdue, asked, faults>>

DeadlinePasses ==
    /\ pc \in Watched /\ ~overdue /\ overdue' = TRUE
    /\ UNCHANGED <<scout, env, pc, claim, verdict, local, thread, cancelled, failure,
                   leased, asked, faults>>

Signal ==
    /\ ~stopping /\ stopping' = TRUE
    /\ UNCHANGED <<scout, session, pc, claim, verdict, local, thread, supervisor, asked,
                   faults>>

(* The process dies at any point; only the run trees survive, and the next *)
(* process exchanges a session of its own.                                 *)
Kill ==
    /\ Fault
    /\ EndClaim
    /\ session' = session + 1 /\ stopping' = FALSE
    /\ UNCHANGED <<scout, local, asked>>
-----------------------------------------------------------------------------
Init ==
    /\ scout = [j \in Jobs |-> [state |-> "ready", fence |-> 0, live |-> FALSE,
                                cancel |-> FALSE, session |-> 0, run |-> 0]]
    /\ session = 1 /\ stopping = FALSE
    /\ pc = "idle" /\ claim = None /\ verdict = None
    /\ trees = {} /\ results = [c \in Claims |-> 0] /\ runs = 0
    /\ beat = "off" /\ reply = None
    /\ cancelled = FALSE /\ failure = FALSE /\ leased = TRUE /\ overdue = FALSE
    /\ asked = [c \in Claims |-> {}]
    /\ faults = 0

Work ==
    \/ Start \/ StartFails \/ Prune \/ OpenRun \/ Stage \/ Replay \/ Execute
    \/ Abandon \/ JoinThread \/ Decide \/ Send \/ Acknowledged \/ AcknowledgedRefuses
    \/ Unacknowledged

Thread == SendHeartbeat \/ AnswerHeartbeat \/ ReceiveReply \/ ThreadEnds

External ==
    \/ \E j \in Jobs : LeaseRunsOut(j) \/ CancelJob(j)
    \/ LeasePasses \/ DeadlinePasses \/ Signal \/ Kill \/ PruneFails \/ LocalFailure
    \/ LocalRefusal

Next ==
    \/ \E j \in Jobs, lost \in BOOLEAN : ClaimJob(j, lost)
    \/ ClaimNothing \/ WriteResult
    \/ Work \/ Thread \/ External

Spec == Init /\ [][Next]_vars

(* The main thread waits for Scout: the first heartbeat, the downloads of  *)
(* staging, a terminal request.  These requests have no watchdog, and a    *)
(* socket timeout starts again with every byte.                            *)
Asking == pc \in {"start", "stage", "send", "await"}

(* What the main thread does of its own accord.                            *)
LocalWork ==
    \/ Prune \/ OpenRun \/ Replay \/ JoinThread \/ Decide
    \/ ~Asking /\ Abandon

(* The main thread and its monotonic clock go on.  Nothing is owed by      *)
(* Scout, by the supervisor thread, which may hang in a request of its     *)
(* own, or by the executor.                                                *)
FairSpec == Spec /\ WF_vars(LocalWork) /\ WF_vars(DeadlinePasses)
-----------------------------------------------------------------------------
Verdicts == {Complete(n) : n \in 1..MaxRuns} \cup {FailIt, Refuse}

(* Types, and what the worker's places say of each other: it has a claim   *)
(* exactly while it is busy, the supervisor's thread runs only between the *)
(* first heartbeat and the decision, and a result lies in a run tree.      *)
RemoteTypeOK ==
    /\ \A j \in Jobs : scout[j].fence \in 0..MaxFence
    /\ pc \in Busy \cup {"idle"}
    /\ claim \in Claims \cup {None} /\ (claim = None <=> pc = "idle")
    /\ verdict \in Verdicts \cup Acknowledgements \cup {Ambiguous, None}
    /\ (pc \in {"stop", "send"} => verdict \in Verdicts)
    /\ beat \in {"off", "waiting", "open"}
    /\ (beat # "off" => pc \in {"prune", "stop"} \cup Checked)
    /\ (reply # None => beat = "open")
    /\ trees \subseteq Claims
    /\ \A c \in Claims : results[c] # 0 => c \in trees
    /\ \A c \in Claims : asked[c] \subseteq Verdicts

(* An ambiguous completion is never turned into a second terminal          *)
(* decision: whatever is lost, killed or redelivered after a result was    *)
(* sent for a claim, the worker sends for it that result or nothing, with  *)
(* one exception of the code: when it refuses a file of its own, in a      *)
(* later delivery or just after Scout accepted that result, it reports     *)
(* that, and only that, as a failure.                                      *)
NoSecondDecision ==
    [][\A c \in Claims :
           (\E n \in 1..MaxRuns : Complete(n) \in asked[c])
               => asked'[c] \subseteq asked[c] \cup {Refuse}]_vars

(* A terminal request is never concurrent with a heartbeat of the claim,   *)
(* nor sent after the supervisor recorded a cancellation or a failure:     *)
(* stop_and_check joins the thread before it looks.                        *)
SilentDecision ==
    pc \in {"send", "await"} => beat = "off" /\ ~cancelled /\ ~failure

(* A result that Scout may still ask this session for is not removed: the  *)
(* tree goes only with an acknowledged decision, a cancellation, or a      *)
(* lease that is over.                                                     *)
ReplayKept ==
    [][\A c \in Claims : results[c] # 0 /\ results'[c] = 0
           => c.job \notin Redeliverable \/ scout[c.job].fence # c.fence]_vars

(* Run trees never pile up on the disk: even when pruning fails half way   *)
(* or the process dies, there is at most one.                              *)
OneTree == Cardinality(trees) <= 1

(* The invariant of the claim lifecycle: types, with the supervisor thread *)
(* and a verdict only where _process_claim has them, and at most one run   *)
(* tree.                                                                   *)
RemoteInv == RemoteTypeOK /\ OneTree

(* Every claim ends, decided or given up, unless an exchange of the main   *)
(* thread with Scout never does: an executor that runs on, a supervisor    *)
(* thread that hangs in its heartbeat, a lost lease, a cancellation or a   *)
(* stop signal never keep the worker, whose deadline and join timeout end  *)
(* the claim.                                                              *)
ClaimEnds == <>[]Asking \/ ((pc # "idle") ~> (pc = "idle"))
=============================================================================
