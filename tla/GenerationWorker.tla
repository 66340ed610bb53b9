--------------------------- MODULE GenerationWorker ---------------------------
(***************************************************************************)
(* production_generation_worker.py: one process leases a generation job,   *)
(* asks the local model, stores the result in a private cache, reports it, *)
(* and removes it from the cache once Scout acknowledged it or, after an   *)
(* ambiguous answer or a restart, once Scout has a receipt for it.         *)
(*                                                                         *)
(* Scout is external: it leases a job with the next fence, gives a live     *)
(* lease again before a new one, and takes one terminal request per lease. *)
(* The heartbeat thread changes nothing but what stop_and_check finds, so  *)
(* it is the variable doomed.  A process that an error ends is started     *)
(* again by the service manager.  The deadlines of a lease are not         *)
(* modelled: it may run out at any step.                                   *)
(***************************************************************************)
EXTENDS Naturals, FiniteSets

CONSTANTS Jobs,      \* generation jobs of Scout
          Limit,     \* entries the cache may hold, 8 in the code
          MaxFence,  \* bound: leases per job
          MaxRuns,   \* bound: model calls, which number the results
          Faults,    \* the faults of a run, a subset of FaultKinds
          MaxFaults, \* bound: faults per behaviour
          None       \* no claim, no report

(* A request or its reply is lost; a reply is malformed; a kill; the write *)
(* of a result or of the status file fails; a cached result is found       *)
(* unsafe, when it is read or removed; a new release is installed.         *)
FaultKinds == {"lost", "malformed", "kill", "store", "status", "unsafe", "upgrade"}

ASSUME GenerationFaults == Faults \subseteq FaultKinds /\ MaxFaults \in Nat

ASSUME GenerationBounds == MaxFence \in Nat /\ MaxRuns \in Nat

Claims == [job : Jobs, fence : 1..MaxFence]

ASSUME NoneIsNoClaim == None \notin Claims

VARIABLES scout,    \* Scout's record of each job
          release,  \* the installed release
          pc,       \* where run_once is
          todo,     \* cache entries still to be reconciled
          claim,    \* the claim being worked on
          doomed,   \* what stop_and_check will raise, one of Dooms
          report,   \* the terminal request to send, or its outcome
          cache,    \* entries of generation-results, by their claim
          stray,    \* the temporary file of an entry is in generation-results
          runs,     \* model calls so far
          sent,     \* history: terminal requests of each claim
          faults

process == <<pc, todo, claim, doomed, report>>
files == <<cache, stray>>
history == <<runs, sent>>
vars == <<scout, release, process, files, history, faults>>

Entry == [claim : Claims, run : 1..MaxRuns, release : Nat]
Complete(n) == [kind |-> "completed", run |-> n]
FailIt == [kind |-> "failed", run |-> 0]

(* Nothing; that the lease is over, or the request failed; the error of a  *)
(* malformed heartbeat.                                                    *)
Dooms == {"no", "over", "malformed"}

Working == {"start", "lookup", "generate", "store", "staged", "linked", "stop", "send",
            "accepted", "report"}
-----------------------------------------------------------------------------
Fault(kind) == kind \in Faults /\ faults < MaxFaults /\ faults' = faults + 1

(* Scout.                                                                  *)
Current(c) ==
    /\ scout[c.job].state = "leased" /\ scout[c.job].fence = c.fence
    /\ scout[c.job].live

(* The receipt of a claim's lease: its decision, if it was decided.        *)
Decisions == {"completed", "failed", "cancelled"}

ASSUME NoneIsNoReceipt == None \notin [kind : Decisions, run : 0..MaxRuns]

Receipt(c) == IF scout[c.job].state \in Decisions /\ scout[c.job].fence = c.fence
              THEN [kind |-> scout[c.job].state, run |-> scout[c.job].run]
              ELSE None

Redeliverable == {j \in Jobs : scout[j].state = "leased" /\ scout[j].live}

(* A lease that ran out is leased again, or the server falls back without  *)
(* a receipt for the worker; a cancelled one has a receipt.                *)
LeaseRunsOut(j) ==
    /\ scout[j].state = "leased" /\ scout[j].live
    /\ \E state \in {"ready", "fallback", "cancelled"} :
          scout' = [scout EXCEPT ![j].state = state, ![j].live = FALSE]
    /\ UNCHANGED <<release, process, files, history, faults>>
-----------------------------------------------------------------------------
Goto(place) == pc' = place /\ UNCHANGED <<todo, claim, doomed, report>>

(* Mutant: an error leaves the claim behind for the next round.            *)
Ends_KeepsClaim(place) == pc' = place /\ todo' = {} /\ UNCHANGED <<claim, doomed, report>>

(* run_once raises a RemoteWorkerError that serve turns into a backoff, or *)
(* returns; both end in "idle".  Any other error ends the process.         *)
Ends(place) ==
    /\ pc' = place
    /\ todo' = {} /\ claim' = None /\ doomed' = "no" /\ report' = None

(* _reconcile_cached_results lists the cache and refuses a full one.       *)
ListCache ==
    /\ pc = "idle"
    /\ UNCHANGED <<scout, release, files, history, faults>>
    /\ IF Cardinality(cache) + (IF stray THEN 1 ELSE 0) > Limit
       THEN Ends("exited")
       ELSE pc' = "reconcile" /\ todo' = cache /\ UNCHANGED <<claim, doomed, report>>

(* What makes reconciliation raise: the temporary file, which sorts first  *)
(* and is a hard link or has no entry's name; an entry of another release; *)
(* a receipt of another result.                                            *)
Refused(e) ==
    \/ stray
    \/ e.release # release
    \/ /\ Receipt(e.claim) # None
       /\ Receipt(e.claim).kind = "completed" /\ Receipt(e.claim).run # e.run

(* Mutant: an entry is removed also when Scout has no receipt for it.      *)
ReconcileEntry_NoReceipt(e) ==
    /\ pc = "reconcile" /\ e \in todo /\ ~Refused(e)
    /\ cache' = cache \ {e}
    /\ todo' = todo \ {e}
    /\ UNCHANGED <<scout, release, pc, claim, doomed, report, stray, history, faults>>

(* Mutant: only the receipt of a completion removes an entry.              *)
ReconcileEntry_OnlyCompleted(e) ==
    /\ pc = "reconcile" /\ e \in todo /\ ~Refused(e)
    /\ cache' = IF Receipt(e.claim) = Complete(e.run) THEN cache \ {e} ELSE cache
    /\ todo' = todo \ {e}
    /\ UNCHANGED <<scout, release, pc, claim, doomed, report, stray, history, faults>>

(* One entry: a receipt of its lease removes it.                           *)
ReconcileEntry(e) ==
    /\ pc = "reconcile" /\ e \in todo /\ ~Refused(e)
    /\ cache' = IF Receipt(e.claim) = None THEN cache ELSE cache \ {e}
    /\ todo' = todo \ {e}
    /\ UNCHANGED <<scout, release, pc, claim, doomed, report, stray, history, faults>>

ReconcileRefuses ==
    /\ pc = "reconcile"
    /\ stray \/ \E e \in todo : Refused(e)
    /\ Ends("exited")
    /\ UNCHANGED <<scout, release, files, history, faults>>

(* A request that no handler of run_once covers: serve goes on after a     *)
(* RemoteWorkerError, the ValidationError of a malformed reply leaves it.  *)
Unanswered ==
    \/ Fault("lost") /\ Ends("idle")
    \/ Fault("malformed") /\ Ends("exited")

RequestLost ==
    /\ pc = "reconcile" /\ Unanswered
    /\ UNCHANGED <<scout, release, files, history>>

Claim(j, lost) ==
    LET s == scout[j]
        again == j \in Redeliverable
        c == [job |-> j, fence |-> IF again THEN s.fence ELSE s.fence + 1]
    IN
    /\ pc = "reconcile" /\ todo = {} /\ ~stray
    /\ again \/ (Redeliverable = {} /\ s.state = "ready" /\ s.fence < MaxFence)
    /\ scout' = IF again THEN scout
                ELSE [scout EXCEPT ![j] = [state |-> "leased", fence |-> c.fence,
                                           live |-> TRUE, run |-> 0]]
    /\ IF lost THEN Unanswered
       ELSE /\ pc' = "start" /\ claim' = c
            /\ UNCHANGED <<todo, doomed, report, faults>>
    /\ UNCHANGED <<release, files, history>>

ClaimNothing ==
    /\ pc = "reconcile" /\ todo = {} /\ ~stray /\ Redeliverable = {}
    /\ Ends("idle")
    /\ UNCHANGED <<scout, release, files, history, faults>>
-----------------------------------------------------------------------------
(* supervisor.start().  It does not check: a cancellation that the first   *)
(* heartbeat reports is found by stop_and_check.  A malformed heartbeat is *)
(* an AtlasResearchError like any other, and goes to the failure endpoint. *)
Start ==
    /\ pc = "start"
    /\ \/ Current(claim) /\ Goto("lookup") /\ UNCHANGED faults
       \/ /\ ~Current(claim) /\ UNCHANGED faults
          /\ \/ Ends("idle")
             \/ pc' = "lookup" /\ doomed' = "over" /\ UNCHANGED <<todo, claim, report>>
       \/ Fault("lost") /\ Ends("idle")
       \/ /\ Fault("malformed")
          /\ pc' = "stop" /\ report' = FailIt
          /\ UNCHANGED <<todo, claim, doomed>>
    /\ UNCHANGED <<scout, release, files, history>>

(* The heartbeat thread learns that the lease is over, fails, or gets a    *)
(* malformed reply; or the stop signal is seen.                            *)
Doom ==
    /\ pc \in {"lookup", "generate", "store", "staged", "linked", "stop"}
    /\ doomed = "no"
    /\ \/ doomed' = "over" /\ UNCHANGED faults
       \/ doomed' = "malformed" /\ Fault("malformed")
    /\ UNCHANGED <<scout, release, pc, todo, claim, report, files, history>>

Cached(c) == {e \in cache : e.claim = c}

(* Mutant: the model is asked again for a lease that was given again.      *)
Lookup_Regenerates ==
    /\ pc = "lookup"
    /\ Goto("generate")
    /\ UNCHANGED <<scout, release, files, history, faults>>

Lookup ==
    /\ pc = "lookup"
    /\ IF Cached(claim) = {} THEN Goto("generate")
       ELSE /\ pc' = "stop"
            /\ report' = Complete((CHOOSE e \in Cached(claim) : TRUE).run)
            /\ UNCHANGED <<todo, claim, doomed>>
    /\ UNCHANGED <<scout, release, files, history, faults>>

(* An error inside the try goes on to client.fail.                         *)
Fails == pc' = "stop" /\ report' = FailIt /\ UNCHANGED <<todo, claim, doomed>>

LookupRefuses ==
    /\ pc = "lookup" /\ Cached(claim) # {}
    /\ Fault("unsafe") /\ Fails
    /\ UNCHANGED <<scout, release, files, history>>

(* The status file, the guards, the model and the checks of its output:    *)
(* an error of any of them fails the job.                                  *)
Generate ==
    /\ pc = "generate"
    /\ \/ runs < MaxRuns /\ runs' = runs + 1 /\ pc' = "store" /\ UNCHANGED report
       \/ pc' = "stop" /\ report' = FailIt /\ UNCHANGED runs
    /\ UNCHANGED <<scout, release, todo, claim, doomed, files, sent, faults>>

(* _store_result: an exclusive link of a temporary file beside it.         *)
StageResult ==
    /\ pc = "store"
    /\ stray' = TRUE
    /\ Goto("staged")
    /\ UNCHANGED <<scout, release, cache, history, faults>>

LinkResult ==
    /\ pc = "staged"
    /\ cache' = cache \cup {[claim |-> claim, run |-> runs, release |-> release]}
    /\ Goto("linked")
    /\ UNCHANGED <<scout, release, stray, history, faults>>

UnlinkTemp ==
    /\ pc = "linked"
    /\ stray' = FALSE
    /\ pc' = "stop" /\ report' = Complete(runs)
    /\ UNCHANGED <<scout, release, todo, claim, doomed, cache, history, faults>>

(* A failure before the link, or of the last check, is the job's; that of  *)
(* the unlink or of the directory's fsync is a raw OSError and leaves      *)
(* run_once.  The clean-up's own failure is suppressed.                    *)
StoreFails ==
    /\ pc \in {"store", "staged", "linked"} /\ Fault("store")
    /\ stray' \in {FALSE, stray}
    /\ \/ pc = "linked" /\ Ends("exited")
       \/ Fails
    /\ UNCHANGED <<scout, release, cache, history>>

(* stop_and_check, once in the try and again in the handlers: it raises    *)
(* the supervisor's own error, so that of a malformed heartbeat leaves     *)
(* serve.                                                                  *)
StopAndCheck ==
    /\ pc = "stop"
    /\ CASE doomed = "no" -> Goto("send")
         [] doomed = "over" -> Ends("idle")
         [] doomed = "malformed" -> Ends("exited")
    /\ UNCHANGED <<scout, release, files, history, faults>>

(* client.complete and client.fail: anything but an exact acknowledgement  *)
(* is a RemoteWorkerError.                                                 *)
Send ==
    /\ pc = "send"
    /\ sent' = [sent EXCEPT ![claim] = @ \cup {report}]
    /\ \/ /\ Current(claim)
          /\ scout' = [scout EXCEPT ![claim.job].state = report.kind,
                                    ![claim.job].run = report.run]
          /\ \/ Goto("accepted") /\ UNCHANGED faults
             \/ Fault("lost") /\ Ends("idle")
       \/ /\ ~Current(claim) /\ UNCHANGED <<scout, faults>>
          /\ Ends("idle")
       \/ Fault("lost") /\ Ends("idle") /\ UNCHANGED scout
    /\ UNCHANGED <<release, files, runs>>

RemoveResult ==
    /\ pc = "accepted"
    /\ cache' = cache \ Cached(claim)
    /\ Goto("report")
    /\ UNCHANGED <<scout, release, stray, history, faults>>

(* The removal and _status("completed") after an accepted completion are   *)
(* inside the try: when they fail, the handler reports a failure.  Those   *)
(* after an accepted failure are not.                                      *)
FailsLate == IF report = FailIt THEN Ends("exited") ELSE Fails

RemoveRefuses ==
    /\ pc = "accepted" /\ Cached(claim) # {}
    /\ Fault("unsafe") /\ FailsLate
    /\ UNCHANGED <<scout, release, files, history>>

Status ==
    /\ pc = "report"
    /\ \/ Ends("idle") /\ UNCHANGED faults
       \/ Fault("status") /\ FailsLate
    /\ UNCHANGED <<scout, release, files, history>>

(* The process dies, or a local failure outside the try ends it; the       *)
(* temporary file it was linking stays.                                    *)
Kill ==
    /\ pc # "exited" /\ Fault("kill")
    /\ Ends("exited")
    /\ UNCHANGED <<scout, release, files, history>>

Restart ==
    /\ pc = "exited"
    /\ pc' = "idle"
    /\ UNCHANGED <<scout, release, todo, claim, doomed, report, files, history, faults>>

(* A new release is installed while the service is stopped.                *)
Upgrade ==
    /\ pc \in {"idle", "exited"} /\ Fault("upgrade")
    /\ release' = release + 1
    /\ pc' = "idle"
    /\ UNCHANGED <<scout, todo, claim, doomed, report, files, history>>
-----------------------------------------------------------------------------
Init ==
    /\ scout = [j \in Jobs |-> [state |-> "ready", fence |-> 0, live |-> FALSE, run |-> 0]]
    /\ release = 1
    /\ pc = "idle" /\ todo = {} /\ claim = None /\ doomed = "no" /\ report = None
    /\ cache = {} /\ stray = FALSE
    /\ runs = 0 /\ sent = [c \in Claims |-> {}]
    /\ faults = 0

Worker ==
    \/ ListCache \/ (\E e \in todo : ReconcileEntry(e)) \/ ReconcileRefuses
    \/ (\E j \in Jobs : Claim(j, FALSE)) \/ ClaimNothing
    \/ Start \/ Lookup \/ Generate \/ StageResult \/ LinkResult \/ UnlinkTemp \/ StopAndCheck
    \/ Send \/ RemoveResult \/ Status \/ Restart

Next ==
    \/ Worker
    \/ \E j \in Jobs : Claim(j, TRUE) \/ LeaseRunsOut(j)
    \/ RequestLost \/ Doom \/ LookupRefuses \/ StoreFails \/ RemoveRefuses \/ Kill \/ Upgrade

Spec == Init /\ [][Next]_vars
(* The process goes on and is started again when it ended.  A request ends *)
(* in an answer or an error, which the peer has to grant: these requests   *)
(* have no watchdog, and a socket timeout starts again with every byte.    *)
FairSpec == Spec /\ WF_vars(Worker)
-----------------------------------------------------------------------------
(* Types; a claim is held exactly while run_once works on it, and every    *)
(* lease has at most one entry in the cache.                               *)
GenerationTypeOK ==
    /\ pc \in Working \cup {"idle", "reconcile", "exited"}
    /\ todo \subseteq Entry
    /\ claim \in Claims \cup {None} /\ (claim # None <=> pc \in Working)
    /\ doomed \in Dooms /\ stray \in BOOLEAN
    /\ report \in {Complete(n) : n \in 1..MaxRuns} \cup {FailIt, None}
    /\ (pc \in {"stop", "send", "accepted", "report"} => report # None)
    /\ cache \subseteq Entry
    /\ \A d, e \in cache : d.claim = e.claim => d = e

(* "A cancelled, expired, stale, or ambiguous lease is never converted     *)
(* into a new terminal decision": once a completion was sent for a lease,  *)
(* whatever was lost or killed, which store failed and which release was   *)
(* installed since, no other terminal request is sent for it.  A malformed *)
(* reply, a status file that cannot be written and an unsafe cached result *)
(* are excluded: after each of them the code does send a failure.          *)
OneDecision ==
    [][\A c \in Claims : (\E n \in 1..MaxRuns : Complete(n) \in sent[c])
                             => sent'[c] = sent[c]]_vars

(* "Only a matching receipt or accepted terminal response removes that     *)
(* exact private cache file."                                              *)
CacheKept == [][\A e \in cache \ cache' : Receipt(e.claim) # None]_vars

(* A result whose lease Scout has decided leaves the cache, also when the  *)
(* acknowledgement was lost and the process restarted.                     *)
Reconciled ==
    \A c \in Claims :
        (faults = MaxFaults /\ Cached(c) # {} /\ Receipt(c) # None) ~> (Cached(c) = {})
=============================================================================
