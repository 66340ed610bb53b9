----------------------- MODULE GenerationWorker_proof -----------------------
(***************************************************************************)
(* Theorems about GenerationWorker: its types, that the cache loses no      *)
(* result Scout has not decided, and that a lease gets one decision, for    *)
(* any jobs, leases, results and faults.                                    *)
(***************************************************************************)
EXTENDS GenerationWorker, TLAPS

(* Scout's record of each job.                                             *)
ScoutTypeOK ==
    /\ scout \in [Jobs -> [state : {"ready", "leased", "fallback"} \cup Decisions,
                           fence : 0..MaxFence, live : BOOLEAN, run : 0..MaxRuns]]
    /\ \A j \in Jobs : scout[j].state = "leased" => scout[j].fence # 0

Reports == {Complete(n) : n \in 1..MaxRuns} \cup {FailIt}

Places == Working \cup {"idle", "reconcile", "exited"}

(* The worker, its types split from those of its one Boolean.              *)
WorkerTypeOK ==
    /\ pc \in Places /\ claim \in Claims \cup {None} /\ doomed \in Dooms
    /\ report \in Reports \cup {None}
    /\ release \in Nat /\ runs \in 0..MaxRuns /\ sent \in [Claims -> SUBSET Reports]

Held ==
    /\ claim # None <=> pc \in Working
    /\ pc \in {"stop", "send", "accepted", "report"} => report # None
    /\ pc \in {"store", "staged", "linked"} => runs # 0
    /\ pc # "reconcile" => todo = {}

CacheOK ==
    /\ cache \subseteq Entry /\ todo \subseteq cache
    /\ \A d, e \in cache : d.claim = e.claim => d = e

(* A result is generated only for a lease without one, and reported only   *)
(* once it is in the cache.                                                *)
Stored ==
    /\ pc \in {"generate", "store", "staged"} => \A e \in cache : e.claim # claim
    /\ pc = "linked" => \E e \in cache : e.claim = claim /\ e.run = runs
    /\ pc \in {"stop", "send"} /\ report # FailIt
          => \E e \in cache : e.claim = claim /\ report = Complete(e.run)

Decided(c) == scout[c.job].state \in Decisions /\ scout[c.job].fence = c.fence

Acknowledged == pc \in {"accepted", "report"} => Decided(claim)

WorkerInv == WorkerTypeOK /\ Held /\ CacheOK /\ Stored /\ Acknowledged

CacheInv == ScoutTypeOK /\ stray \in BOOLEAN /\ WorkerInv
-----------------------------------------------------------------------------
USE GenerationBounds, NoneIsNoClaim

LEMMA ReportsDiffer == \A n : Complete(n) # FailIt
  BY DEF Complete, FailIt

LEMMA ReportsAreEqual == \A m, n : Complete(m) = Complete(n) => m = n
  BY DEF Complete

LEMMA ReportsAreReports == None # FailIt /\ \A n \in 1..MaxRuns : None # Complete(n)
  BY NoneIsNoReceipt DEF Decisions, Complete, FailIt

USE ReportsAreReports

LEMMA InitCache == Init => CacheInv
<1> SUFFICES ASSUME Init PROVE CacheInv
  OBVIOUS
<1> USE DEF Init
<1>1. ScoutTypeOK
  BY DEF ScoutTypeOK
<1>2. WorkerTypeOK
  BY DEF WorkerTypeOK, Places, Dooms
<1>3. Held /\ CacheOK /\ Stored /\ Acknowledged
  BY DEF Held, CacheOK, Stored, Acknowledged, Working
<1>4. stray \in BOOLEAN
  OBVIOUS
<1> QED
  BY <1>1, <1>2, <1>3, <1>4 DEF CacheInv, WorkerInv

(* Scout never takes a decision back.                                      *)
LEMMA ScoutNext ==
  ASSUME ScoutTypeOK, WorkerInv, [Next]_vars
  PROVE  ScoutTypeOK' /\ \A c \in Claims : Decided(c) => Decided(c)'
<1> DEFINE Goal == ScoutTypeOK' /\ \A c \in Claims : Decided(c) => Decided(c)'
<1> USE DEF ScoutTypeOK, Decided, Decisions, Claims
<1>1. CASE scout' = scout
  BY <1>1
<1>2. ASSUME NEW j \in Jobs, LeaseRunsOut(j) PROVE Goal
  BY <1>2 DEF LeaseRunsOut
<1>3. ASSUME NEW j \in Jobs, NEW lost \in BOOLEAN, Claim(j, lost) PROVE Goal
  <2>1. CASE j \in Redeliverable
    BY <1>1, <1>3, <2>1 DEF Claim
  <2>2. CASE j \notin Redeliverable
    <3>1. scout[j].state = "ready" /\ scout[j].fence + 1 \in 1..MaxFence
      BY <1>3, <2>2 DEF Claim
    <3>2. scout' = [scout EXCEPT ![j] = [state |-> "leased", fence |-> scout[j].fence + 1,
                                         live |-> TRUE, run |-> 0]]
      BY <1>3, <2>2 DEF Claim
    <3> QED
      BY <3>1, <3>2
  <2> QED
    BY <2>1, <2>2
<1>4. CASE Send
  <2>1. CASE UNCHANGED scout
    BY <1>1, <2>1
  <2>2. CASE Current(claim) /\ scout' = [scout EXCEPT ![claim.job].state = report.kind,
                                                      ![claim.job].run = report.run]
    <3>1. claim \in Claims /\ report \in Reports
      BY <1>4 DEF Send, WorkerInv, WorkerTypeOK, Held, Working
    <3>2. report.kind \in {"completed", "failed"} /\ report.run \in 0..MaxRuns
      BY <3>1 DEF Reports, Complete, FailIt
    <3> QED
      BY <2>2, <3>1, <3>2 DEF Current
  <2> QED
    BY <1>4, <2>1, <2>2 DEF Send
<1>5. CASE ~(\E j \in Jobs : LeaseRunsOut(j) \/ Claim(j, TRUE) \/ Claim(j, FALSE)) /\ ~Send
  BY <1>1, <1>5
  DEF Next, Worker, vars, ListCache, ReconcileEntry, ReconcileRefuses, ClaimNothing, Start,
      Lookup, Generate, StageResult, LinkResult, UnlinkTemp, StopAndCheck, RemoveResult, Status,
      Restart, RequestLost, Doom, LookupRefuses, StoreFails, RemoveRefuses, Kill, Upgrade
<1> QED
  BY <1>2, <1>3, <1>4, <1>5

LEMMA StrayNext ==
  ASSUME stray \in BOOLEAN, [Next]_vars
  PROVE  stray' \in BOOLEAN
<1>1. CASE StageResult \/ UnlinkTemp \/ StoreFails
  BY <1>1 DEF StageResult, UnlinkTemp, StoreFails
<1>2. CASE ~StageResult /\ ~UnlinkTemp /\ ~StoreFails
  BY <1>2
  DEF Next, Worker, vars, files, ListCache, ReconcileEntry, ReconcileRefuses, ClaimNothing, Claim,
      LeaseRunsOut, Start, Lookup, Generate, LinkResult, StopAndCheck, Send, RemoveResult, Status,
      Restart, RequestLost, Doom, LookupRefuses, RemoveRefuses, Kill, Upgrade
<1> QED
  BY <1>1, <1>2

(* The round is over, however it ended.                                    *)
LEMMA Ended ==
  ASSUME WorkerInv, NEW place \in {"idle", "exited"}, Ends(place),
         UNCHANGED <<cache, release, runs>>, sent' \in [Claims -> SUBSET Reports]
  PROVE  WorkerInv'
  BY DEF WorkerInv, WorkerTypeOK, Held, CacheOK, Stored, Acknowledged, Ends, Places, Working,
         Dooms

LEMMA WorkerNext ==
  ASSUME ScoutTypeOK, WorkerInv, [Next]_vars
  PROVE  WorkerInv'
<1>0. ASSUME UNCHANGED <<process, cache, release, runs, sent>> PROVE WorkerInv'
  <2>1. \A c \in Claims : Decided(c) => Decided(c)'
    BY ScoutNext
  <2>2. pc \in {"accepted", "report"} => claim \in Claims /\ claim' = claim /\ Decided(claim)
    BY <1>0 DEF process, WorkerInv, WorkerTypeOK, Held, Acknowledged, Working
  <2>3. Acknowledged'
    BY <1>0, <2>1, <2>2 DEF process, Acknowledged, Decided
  <2> QED
    BY <1>0, <2>3
    DEF process, WorkerInv, WorkerTypeOK, Held, CacheOK, Stored, Acknowledged, Decided
<1> USE DEF files, history
<1>1. CASE ListCache
  <2>1. CASE Ends("exited")
    BY <1>1, <2>1, Ended DEF ListCache, WorkerInv, WorkerTypeOK
  <2>2. CASE pc' = "reconcile" /\ todo' = cache /\ UNCHANGED <<claim, doomed, report>>
    BY <1>1, <2>2
    DEF ListCache, WorkerInv, WorkerTypeOK, Held, CacheOK, Stored, Acknowledged, Places, Working
  <2> QED
    BY <1>1, <2>1, <2>2 DEF ListCache
<1>2. ASSUME NEW e \in todo, ReconcileEntry(e) PROVE WorkerInv'
  BY <1>2
  DEF ReconcileEntry, WorkerInv, WorkerTypeOK, Held, CacheOK, Stored, Acknowledged
<1>3. CASE ReconcileRefuses \/ RequestLost \/ ClaimNothing \/ Kill
  BY <1>3, Ended
  DEF ReconcileRefuses, RequestLost, Unanswered, ClaimNothing, Kill, WorkerInv, WorkerTypeOK
<1>4. ASSUME NEW j \in Jobs, NEW lost \in BOOLEAN, Claim(j, lost) PROVE WorkerInv'
  <2>1. CASE lost
    BY <1>4, <2>1, Ended DEF Claim, Unanswered, WorkerInv, WorkerTypeOK
  <2>2. CASE ~lost
    <3>1. pc' = "start" /\ claim' \in Claims /\ UNCHANGED <<todo, doomed, report>>
      BY <1>4, <2>2 DEF Claim, Redeliverable, Claims, ScoutTypeOK
    <3> QED
      BY <1>4, <3>1
      DEF Claim, WorkerInv, WorkerTypeOK, Held, CacheOK, Stored, Acknowledged, Places, Working
  <2> QED
    BY <2>1, <2>2
<1>5. CASE Start
  <2>1. CASE Ends("idle")
    BY <1>5, <2>1, Ended DEF Start, WorkerInv, WorkerTypeOK
  <2>2. CASE ~Ends("idle")
    <3>1. /\ UNCHANGED <<todo, claim, files, release, history>> /\ pc = "start"
          /\ \/ pc' = "lookup" /\ doomed' \in {doomed, "over"} /\ report' = report
             \/ pc' = "stop" /\ doomed' = doomed /\ report' = FailIt
      BY <1>5, <2>2 DEF Start, Goto
    <3> QED
      BY <3>1
      DEF WorkerInv, WorkerTypeOK, Held, CacheOK, Stored, Acknowledged, Places, Working, Dooms,
          Reports
  <2> QED
    BY <2>1, <2>2
<1>6. CASE Doom
  BY <1>6
  DEF Doom, WorkerInv, WorkerTypeOK, Held, CacheOK, Stored, Acknowledged, Dooms
<1>7. CASE Lookup
  <2>1. CASE Cached(claim) = {}
    BY <1>7, <2>1
    DEF Lookup, Goto, Cached, WorkerInv, WorkerTypeOK, Held, CacheOK, Stored, Acknowledged,
        Places, Working
  <2>2. CASE Cached(claim) # {}
    <3>1. PICK e \in Cached(claim) : report' = Complete(e.run)
      BY <1>7, <2>2 DEF Lookup
    <3>2. e \in cache /\ e.claim = claim /\ e.run \in 1..MaxRuns
      BY <3>1 DEF Cached, WorkerInv, CacheOK, Entry
    <3>3. report' \in Reports /\ report' # None
      BY <3>1, <3>2 DEF Reports
    <3> QED
      BY <1>7, <2>2, <3>1, <3>2, <3>3
      DEF Lookup, WorkerInv, WorkerTypeOK, Held, CacheOK, Stored, Acknowledged, Places, Working
  <2> QED
    BY <2>1, <2>2
<1>8. CASE Generate
  BY <1>8
  DEF Generate, WorkerInv, WorkerTypeOK, Held, CacheOK, Stored, Acknowledged, Places, Working,
      Reports
<1>9. CASE StageResult
  BY <1>9
  DEF StageResult, Goto, WorkerInv, WorkerTypeOK, Held, CacheOK, Stored, Acknowledged, Places,
      Working
<1>10. CASE LinkResult
  <2> DEFINE e == [claim |-> claim, run |-> runs, release |-> release]
  <2>1. e \in Entry /\ e.claim = claim /\ e.run = runs /\ cache' = cache \cup {e}
    BY <1>10 DEF LinkResult, Entry, WorkerInv, WorkerTypeOK, Held, Working
  <2> HIDE DEF e
  <2> QED
    BY <1>10, <2>1
    DEF LinkResult, Goto, WorkerInv, WorkerTypeOK, Held, CacheOK, Stored, Acknowledged, Places,
        Working
<1>11. CASE UnlinkTemp
  <2>1. report' = Complete(runs) /\ report' \in Reports /\ report' # None
    BY <1>11 DEF UnlinkTemp, Reports, WorkerInv, WorkerTypeOK, Held
  <2> QED
    BY <1>11, <2>1
    DEF UnlinkTemp, WorkerInv, WorkerTypeOK, Held, CacheOK, Stored, Acknowledged, Places, Working
<1>12. CASE StoreFails
  <2>1. CASE Ends("exited")
    BY <1>12, <2>1, Ended DEF StoreFails, WorkerInv, WorkerTypeOK
  <2>2. CASE Fails
    BY <1>12, <2>2
    DEF Fails, StoreFails, WorkerInv, WorkerTypeOK, Held, CacheOK, Stored, Acknowledged, Places,
        Working, Reports
  <2> QED
    BY <1>12, <2>1, <2>2 DEF StoreFails
<1>13. CASE StopAndCheck
  <2>1. CASE doomed = "no"
    BY <1>13, <2>1
    DEF StopAndCheck, Goto, WorkerInv, WorkerTypeOK, Held, CacheOK, Stored, Acknowledged, Places,
        Working
  <2>2. CASE doomed # "no"
    <3>1. Ends("idle") \/ Ends("exited")
      BY <1>13, <2>2 DEF StopAndCheck, WorkerInv, WorkerTypeOK, Dooms
    <3> QED
      BY <1>13, <3>1, Ended DEF StopAndCheck, WorkerInv, WorkerTypeOK
  <2> QED
    BY <2>1, <2>2
<1>14. CASE Send
  <2>1. claim \in Claims /\ report \in Reports
    BY <1>14 DEF Send, WorkerInv, WorkerTypeOK, Held, Working
  <2>2. sent' = [sent EXCEPT ![claim] = @ \cup {report}]
    BY <1>14 DEF Send
  <2>3. sent' \in [Claims -> SUBSET Reports]
    BY <2>1, <2>2 DEF WorkerInv, WorkerTypeOK
  <2>4. CASE Ends("idle")
    BY <1>14, <2>3, <2>4, Ended DEF Send
  <2>5. CASE ~Ends("idle")
    <3>1. /\ Goto("accepted") /\ Current(claim)
          /\ scout' = [scout EXCEPT ![claim.job].state = report.kind,
                                    ![claim.job].run = report.run]
      BY <1>14, <2>5 DEF Send
    <3>2. report.kind \in Decisions
      BY <2>1 DEF Reports, Complete, FailIt, Decisions
    <3>3. Decided(claim)'
      BY <2>1, <3>1, <3>2 DEF Decided, Current, Claims, ScoutTypeOK, Goto
    <3> QED
      BY <1>14, <2>3, <3>1, <3>3
      DEF Send, Goto, WorkerInv, WorkerTypeOK, Held, CacheOK, Stored, Acknowledged, Places,
          Working
  <2> QED
    BY <2>4, <2>5
<1>15. CASE RemoveResult
  <2>1. Decided(claim)'
    BY <1>15 DEF RemoveResult, Goto, WorkerInv, Acknowledged, Decided
  <2>2. todo' = {} /\ pc' = "report" /\ cache' \subseteq cache
    BY <1>15 DEF RemoveResult, Goto, Cached, WorkerInv, Held
  <2> QED
    BY <1>15, <2>1, <2>2
    DEF RemoveResult, Goto, Cached, WorkerInv, WorkerTypeOK, Held, CacheOK, Stored, Acknowledged,
        Places, Working
<1>16. CASE Status
  <2>1. CASE Ends("idle") \/ Ends("exited")
    BY <1>16, <2>1, Ended DEF Status, WorkerInv, WorkerTypeOK
  <2>2. CASE Fails
    BY <1>16, <2>2
    DEF Fails, Status, WorkerInv, WorkerTypeOK, Held, CacheOK, Stored, Acknowledged, Places, Working,
        Reports
  <2> QED
    BY <1>16, <2>1, <2>2 DEF Status, FailsLate
<1>17. CASE Restart \/ Upgrade
  BY <1>17
  DEF Restart, Upgrade, WorkerInv, WorkerTypeOK, Held, CacheOK, Stored, Acknowledged, Places,
      Working
<1>18. CASE UNCHANGED vars \/ \E j \in Jobs : LeaseRunsOut(j)
  BY <1>0, <1>18 DEF vars, LeaseRunsOut
<1>19. CASE LookupRefuses \/ RemoveRefuses
  <2>1. /\ pc \in {"lookup", "accepted"} /\ UNCHANGED <<cache, release, runs, sent>>
        /\ Ends("exited") \/ Fails
    BY <1>19 DEF LookupRefuses, RemoveRefuses, FailsLate
  <2>2. CASE Ends("exited")
    BY <2>1, <2>2, Ended DEF WorkerInv, WorkerTypeOK
  <2>3. CASE Fails
    BY <2>1, <2>3
    DEF Fails, WorkerInv, WorkerTypeOK, Held, CacheOK, Stored, Acknowledged, Places, Working,
        Reports
  <2> QED
    BY <2>1, <2>2, <2>3
<1> QED
  BY <1>1, <1>2, <1>3, <1>4, <1>5, <1>6, <1>7, <1>8, <1>9, <1>10, <1>11, <1>12, <1>13, <1>14,
     <1>15, <1>16, <1>17, <1>18, <1>19
  DEF Next, Worker

LEMMA CacheNext == CacheInv /\ [Next]_vars => CacheInv'
  BY ScoutNext, StrayNext, WorkerNext DEF CacheInv

LEMMA CacheInductive == Spec => []CacheInv
  BY InitCache, CacheNext, PTL DEF Spec
-----------------------------------------------------------------------------
(* The worker holds a claim exactly while run_once works on it, reports    *)
(* nothing it does not have, and keeps one result for a lease in           *)
(* generation-results, whatever fails.                                     *)
THEOREM GenerationTypes == Spec => []GenerationTypeOK
<1>1. CacheInv => GenerationTypeOK
  BY DEF CacheInv, WorkerInv, WorkerTypeOK, Held, CacheOK, Places, Reports, GenerationTypeOK
<1> QED
  BY <1>1, CacheInductive, PTL

(* No result leaves the cache before Scout has decided its lease: neither  *)
(* reconciliation nor an accepted completion removes another one.          *)
THEOREM ResultsAreKept == Spec => CacheKept
<1>1. ASSUME CacheInv, [Next]_vars, NEW e \in cache \ cache' PROVE Receipt(e.claim) # None
  <2>1. e.claim \in Claims
    BY <1>1 DEF CacheInv, WorkerInv, CacheOK, Entry
  <2>2. CASE \E d \in todo : ReconcileEntry(d)
    BY <1>1, <2>2 DEF ReconcileEntry
  <2>3. CASE RemoveResult
    <3>1. e.claim = claim /\ Decided(claim)
      BY <1>1, <2>3 DEF RemoveResult, Cached, CacheInv, WorkerInv, Acknowledged
    <3>2. Receipt(e.claim) \in [kind : Decisions, run : 0..MaxRuns]
      BY <1>1, <2>1, <3>1 DEF Receipt, Decided, Claims, CacheInv, ScoutTypeOK
    <3> QED
      BY <3>2, NoneIsNoReceipt
  <2>4. CASE ~RemoveResult /\ ~\E d \in todo : ReconcileEntry(d)
    <3>1. cache \subseteq cache'
      BY <1>1, <2>4
      DEF Next, Worker, vars, files, ListCache, ReconcileRefuses, ClaimNothing, Claim,
          LeaseRunsOut, Start, Lookup, Generate, StageResult, LinkResult, UnlinkTemp,
          StopAndCheck, Send, Status, Restart, RequestLost, Doom, LookupRefuses, StoreFails, RemoveRefuses, Kill, Upgrade
    <3> QED
      BY <1>1, <3>1
  <2> QED
    BY <2>2, <2>3, <2>4
<1>2. CacheInv /\ [Next]_vars => [\A e \in cache \ cache' : Receipt(e.claim) # None]_vars
  BY <1>1
<1> QED
  BY <1>2, CacheInductive, PTL DEF CacheKept, Spec
-----------------------------------------------------------------------------
(* One decision for a lease.  It needs that the status file can be         *)
(* written, that a cached result is not found unsafe and that no reply is  *)
(* malformed: each of these faults makes run_once send a failure after a   *)
(* completion.                                                             *)
Completions(c) == {n \in 1..MaxRuns : Complete(n) \in sent[c]}

(* A lease is decided and nothing will be sent for it any more.            *)
Over(c) == Decided(c) /\ (claim = c => pc = "report")

(* A completion that was sent can be sent again, or its lease is over.     *)
Repeatable ==
    \A c \in Claims : \A n \in Completions(c) :
        Over(c) \/ \E e \in cache : e.claim = c /\ e.run = n

(* run_once may still send a failure; not after a completion.              *)
Failing ==
    \/ pc \in {"generate", "store", "staged", "linked"}
    \/ pc \in {"stop", "send"} /\ report = FailIt

Sole == Failing => Completions(claim) = {}

DecisionInv == CacheInv /\ Repeatable /\ Sole

Exact == Faults \cap {"status", "unsafe", "malformed"} = {}

LEMMA InitDecision == Init => DecisionInv
  BY InitCache DEF Init, DecisionInv, Repeatable, Sole, Failing, Completions

(* A claim is taken only for a lease that is not decided, and the one that *)
(* is acknowledged is only reported.                                       *)
LEMMA ClaimsNext ==
  ASSUME CacheInv, [Next]_vars, Exact
  PROVE  /\ claim' = claim \/ claim' = None \/ ~Decided(claim)'
         /\ pc = "report" => claim' = None \/ (claim' = claim /\ pc' = pc)
<1>1. ASSUME NEW j \in Jobs, Claim(j, FALSE) PROVE pc # "report" /\ ~Decided(claim)'
  <2>1. /\ scout \in [Jobs -> [state : {"ready", "leased", "fallback"} \cup Decisions,
                                fence : 0..MaxFence, live : BOOLEAN, run : 0..MaxRuns]]
        /\ pc = "reconcile" /\ claim'.job = j
    BY <1>1 DEF Claim, CacheInv, ScoutTypeOK
  <2>2. scout'[j].state = "leased"
    BY <1>1, <2>1 DEF Claim, Redeliverable
  <2> QED
    BY <2>1, <2>2 DEF Decided, Decisions
<1>2. CASE Status
  <2>1. ~Fault("status")
    BY DEF Fault, Exact
  <2> QED
    BY <1>2, <2>1 DEF Status, Ends
<1>3. CASE ListCache \/ (\E e \in todo : ReconcileEntry(e)) \/ ReconcileRefuses \/ ClaimNothing
           \/ RequestLost \/ (\E j \in Jobs : Claim(j, TRUE))
  BY <1>3
  DEF ListCache, ReconcileEntry, ReconcileRefuses, ClaimNothing, RequestLost, Unanswered, Claim,
      Ends
<1>4. CASE Start \/ Lookup \/ Generate \/ StageResult \/ LinkResult \/ UnlinkTemp \/ StoreFails
  BY <1>4
  DEF Start, Lookup, Generate, StageResult, LinkResult, UnlinkTemp, StoreFails, Goto, Ends, Fails
<1>7. ~LookupRefuses /\ ~RemoveRefuses
  BY DEF LookupRefuses, RemoveRefuses, Fault, Exact
<1>5. CASE StopAndCheck
  <2>1. Goto("send") \/ Ends("idle") \/ Ends("exited")
    BY <1>5 DEF StopAndCheck, CacheInv, WorkerInv, WorkerTypeOK, Dooms
  <2> QED
    BY <1>5, <2>1 DEF StopAndCheck, Goto, Ends
<1>6. CASE Send \/ RemoveResult \/ Restart \/ Doom \/ Kill \/ Upgrade
           \/ (\E j \in Jobs : LeaseRunsOut(j)) \/ UNCHANGED vars
  BY <1>6
  DEF Send, RemoveResult, Restart, Doom, Kill, Upgrade, LeaseRunsOut, vars, process, Goto, Ends
<1> QED
  BY <1>1, <1>2, <1>3, <1>4, <1>5, <1>6, <1>7 DEF Next, Worker

(* run_once decides on a failure only when it finds no cached result.      *)
LEMMA FailingNext ==
  ASSUME CacheInv, [Next]_vars, Exact, Failing'
  PROVE  claim' = claim /\ (Failing \/ (pc = "lookup" /\ Cached(claim) = {}))
<1> USE DEF Failing
<1>1. CASE Lookup
  BY <1>1, ReportsDiffer DEF Lookup, Goto
<1>2. CASE Generate \/ StageResult \/ LinkResult \/ StoreFails
  BY <1>2 DEF Generate, StageResult, LinkResult, StoreFails, Goto, Ends, Fails
<1>3. CASE UnlinkTemp
  BY <1>3, ReportsDiffer DEF UnlinkTemp
<1>4. CASE StopAndCheck
  <2>1. Goto("send") \/ Ends("idle") \/ Ends("exited")
    BY <1>4 DEF StopAndCheck, CacheInv, WorkerInv, WorkerTypeOK, Dooms
  <2> QED
    BY <1>4, <2>1 DEF StopAndCheck, Goto, Ends
<1>5. CASE Start \/ Status
  <2>1. ~Fault("status") /\ ~Fault("malformed")
    BY DEF Fault, Exact
  <2> QED
    BY <1>5, <2>1 DEF Start, Status, Goto, Ends
<1>6. CASE Doom \/ (\E j \in Jobs : LeaseRunsOut(j)) \/ UNCHANGED vars
  BY <1>6 DEF Doom, LeaseRunsOut, vars, process
<1>7. CASE ListCache \/ (\E e \in todo : ReconcileEntry(e)) \/ ReconcileRefuses \/ ClaimNothing
           \/ RequestLost \/ (\E j \in Jobs : Claim(j, TRUE) \/ Claim(j, FALSE))
  BY <1>7
  DEF ListCache, ReconcileEntry, ReconcileRefuses, ClaimNothing, RequestLost, Unanswered, Claim,
      Ends
<1>8. CASE Send \/ RemoveResult \/ Restart \/ Kill \/ Upgrade
  BY <1>8 DEF Send, RemoveResult, Restart, Kill, Upgrade, Goto, Ends
<1>9. ~LookupRefuses /\ ~RemoveRefuses
  BY DEF LookupRefuses, RemoveRefuses, Fault, Exact
<1> QED
  BY <1>1, <1>2, <1>3, <1>4, <1>5, <1>6, <1>7, <1>8, <1>9 DEF Next, Worker

(* The entry that leaves the cache belongs to a lease that is over.        *)
LEMMA EntryRemoved ==
  ASSUME CacheInv, [Next]_vars, NEW e \in cache \ cache'
  PROVE  Decided(e.claim) /\ (claim' = e.claim => pc' = "report")
<1>1. e.claim \in Claims
  BY DEF CacheInv, WorkerInv, CacheOK, Entry
<1>2. CASE \E d \in todo : ReconcileEntry(d)
  <2>1. claim' = None
    BY <1>2 DEF ReconcileEntry, CacheInv, WorkerInv, Held, Working
  <2> QED
    BY <1>1, <1>2, <2>1 DEF ReconcileEntry, Receipt, Decided
<1>3. CASE RemoveResult
  BY <1>3 DEF RemoveResult, Goto, Cached, CacheInv, WorkerInv, Acknowledged
<1>4. CASE ~RemoveResult /\ ~\E d \in todo : ReconcileEntry(d)
  BY <1>4
  DEF Next, Worker, vars, files, ListCache, ReconcileRefuses, ClaimNothing, Claim, LeaseRunsOut,
      Start, Lookup, Generate, StageResult, LinkResult, UnlinkTemp, StopAndCheck, Send, Status,
      Restart, RequestLost, Doom, LookupRefuses, StoreFails, RemoveRefuses, Kill, Upgrade
<1> QED
  BY <1>2, <1>3, <1>4

(* No step but Send sends a request.                                       *)
LEMMA OnlySendSends ==
  ASSUME [Next]_vars, ~Send
  PROVE  sent' = sent
  BY DEF Next, Worker, vars, history, ListCache, ReconcileEntry, ReconcileRefuses, ClaimNothing,
      Claim, LeaseRunsOut, Start, Lookup, Generate, StageResult, LinkResult, UnlinkTemp,
      StopAndCheck, RemoveResult, Status, Restart, RequestLost, Doom, LookupRefuses, StoreFails, RemoveRefuses, Kill, Upgrade

LEMMA Quiet ==
  ASSUME DecisionInv, CacheInv', [Next]_vars, Exact, sent' = sent
  PROVE  Repeatable' /\ Sole'
<1>1. \A c : Completions(c)' = Completions(c)
  BY DEF Completions
<1>2. ASSUME NEW c \in Claims, Over(c) PROVE Over(c)'
  <2>1. Decided(c)'
    BY <1>2, ScoutNext DEF DecisionInv, CacheInv, Over
  <2>2. claim' = c => claim = c
    BY <2>1, ClaimsNext DEF DecisionInv, Decided
  <2>3. claim' = c => pc' = "report"
    BY <1>2, <2>2, ClaimsNext DEF DecisionInv, Over
  <2> QED
    BY <2>1, <2>3 DEF Over, Decided
<1>3. ASSUME NEW c \in Claims, NEW n \in Completions(c),
             NEW e \in cache, e.claim = c, e.run = n
      PROVE  Over(c)' \/ e \in cache'
  <2>1. SUFFICES ASSUME e \notin cache' PROVE Over(c)'
    OBVIOUS
  <2>2. Decided(c) /\ (claim' = c => pc' = "report")
    BY <1>3, <2>1, EntryRemoved DEF DecisionInv
  <2>3. Decided(c)'
    BY <2>2, ScoutNext DEF DecisionInv, CacheInv
  <2> QED
    BY <2>2, <2>3 DEF Over, Decided
<1>4. Repeatable'
  BY <1>1, <1>2, <1>3 DEF DecisionInv, Repeatable
<1>5. Sole'
  <2>1. SUFFICES ASSUME Failing' PROVE Completions(claim') = {}
    BY <1>1 DEF Sole, Completions
  <2>2. claim' = claim /\ (Failing \/ (pc = "lookup" /\ Cached(claim) = {}))
    BY <2>1, FailingNext DEF DecisionInv
  <2>3. CASE Failing
    BY <2>2, <2>3 DEF DecisionInv, Sole
  <2>4. CASE pc = "lookup" /\ Cached(claim) = {}
    <3>1. claim \in Claims
      BY <2>4 DEF DecisionInv, CacheInv, WorkerInv, WorkerTypeOK, Held, Working
    <3>2. ~Over(claim) /\ ~\E e \in cache : e.claim = claim
      BY <2>4 DEF Over, Cached
    <3> QED
      BY <2>2, <3>1, <3>2 DEF DecisionInv, Repeatable
  <2> QED
    BY <2>2, <2>3, <2>4
<1> QED
  BY <1>4, <1>5

(* A request is sent again, or for a lease that had no completion.         *)
LEMMA SendsAgain ==
  ASSUME DecisionInv, Send
  PROVE  /\ claim \in Claims /\ sent' = [sent EXCEPT ![claim] = @ \cup {report}]
         /\ sent \in [Claims -> SUBSET Reports]
         /\ \A n \in Completions(claim) : report = Complete(n)
         /\ \A n : report = Complete(n) => \E e \in cache : e.claim = claim /\ e.run = n
<1>1. pc = "send" /\ sent' = [sent EXCEPT ![claim] = @ \cup {report}]
  BY DEF Send
<1>2. claim \in Claims /\ sent \in [Claims -> SUBSET Reports] /\ report \in Reports
  BY <1>1 DEF DecisionInv, CacheInv, WorkerInv, WorkerTypeOK, Held, Working
<1>3. \A n : report = Complete(n) => \E e \in cache : e.claim = claim /\ e.run = n
  BY <1>1, ReportsDiffer, ReportsAreEqual DEF DecisionInv, CacheInv, WorkerInv, Stored
<1>4. ASSUME NEW n \in Completions(claim) PROVE report = Complete(n)
  <2>1. PICK d \in cache : d.claim = claim /\ d.run = n
    BY <1>1, <1>2 DEF DecisionInv, Repeatable, Over
  <2>2. report # FailIt
    BY <1>1 DEF DecisionInv, Sole, Failing
  <2>3. PICK e \in cache : e.claim = claim /\ report = Complete(e.run)
    BY <1>1, <2>2 DEF DecisionInv, CacheInv, WorkerInv, Stored
  <2>4. d = e
    BY <2>1, <2>3 DEF DecisionInv, CacheInv, WorkerInv, CacheOK
  <2> QED
    BY <2>1, <2>3, <2>4
<1> QED
  BY <1>1, <1>2, <1>3, <1>4

LEMMA DecisionNext ==
  ASSUME DecisionInv, [Next]_vars, Exact
  PROVE  DecisionInv'
<1>1. CacheInv'
  BY CacheNext DEF DecisionInv
<1>2. CASE ~Send
  BY <1>1, <1>2, OnlySendSends, Quiet DEF DecisionInv
<1>3. CASE Send
  <2>1. /\ cache' = cache /\ pc = "send"
        /\ (pc' = "idle" /\ claim' = None) \/ (pc' = "accepted" /\ claim' = claim)
    BY <1>3 DEF Send, files, Ends, Goto
  <2>2. \A c \in Claims : Decided(c) => Decided(c)'
    BY ScoutNext DEF DecisionInv, CacheInv
  <2>3. Sole'
    BY <2>1 DEF Sole, Failing
  <2>4. ASSUME NEW c \in Claims, NEW n \in Completions(c)'
        PROVE  Over(c)' \/ \E e \in cache : e.claim = c /\ e.run = n
    <3>1. CASE n \in Completions(c)
      <4>1. CASE Over(c)
        <5>1. claim # c
          BY <2>1, <4>1 DEF Over
        <5>2. claim' # c
          BY <2>1, <5>1
        <5> QED
          BY <2>2, <4>1, <5>2 DEF Over, Decided
      <4>2. CASE ~Over(c)
        BY <3>1, <4>2 DEF DecisionInv, Repeatable
      <4> QED
        BY <4>1, <4>2
    <3>2. CASE n \notin Completions(c)
      <4>1. n \in 1..MaxRuns /\ Complete(n) \in sent'[c] /\ Complete(n) \notin sent[c]
        BY <3>2 DEF Completions
      <4>2. c = claim /\ report = Complete(n)
        BY <1>3, <4>1, SendsAgain
      <4> QED
        BY <1>3, <4>2, SendsAgain
    <3> QED
      BY <3>1, <3>2
  <2>5. Repeatable'
    BY <2>1, <2>4 DEF Repeatable
  <2> QED
    BY <1>1, <2>3, <2>5 DEF DecisionInv
<1> QED
  BY <1>2, <1>3

(* Once a completion was sent for a lease, every later request for it is   *)
(* that completion again, whatever is lost or killed: the result a lease   *)
(* reports is in the cache before the first request and leaves it only     *)
(* when the lease is over.                                                 *)
THEOREM LeaseHasOneDecision ==
  ASSUME Exact
  PROVE  Spec => OneDecision
<1>1. ASSUME DecisionInv, [Next]_vars
      PROVE  \A c \in Claims : (\E n \in 1..MaxRuns : Complete(n) \in sent[c])
                                    => sent'[c] = sent[c]
  <2>1. SUFFICES ASSUME Send, NEW c \in Claims, NEW n \in 1..MaxRuns, Complete(n) \in sent[c]
                 PROVE  sent'[c] = sent[c]
    BY <1>1, OnlySendSends
  <2>2. CASE c = claim
    <3>1. report = Complete(n)
      BY <1>1, <2>1, <2>2, SendsAgain DEF Completions
    <3>2. sent[c] \cup {report} = sent[c]
      BY <2>1, <3>1
    <3>3. sent' = [sent EXCEPT ![claim] = @ \cup {report}] /\ sent \in [Claims -> SUBSET Reports]
      BY <1>1, <2>1, SendsAgain
    <3> QED
      BY <2>1, <2>2, <3>2, <3>3
  <2>3. CASE c # claim
    BY <1>1, <2>1, <2>3, SendsAgain
  <2> QED
    BY <2>2, <2>3
<1>2. DecisionInv /\ [Next]_vars => DecisionInv'
  BY DecisionNext
<1>3. DecisionInv /\ [Next]_vars
        => [\A c \in Claims : (\E n \in 1..MaxRuns : Complete(n) \in sent[c])
                                  => sent'[c] = sent[c]]_vars
  BY <1>1
<1> QED
  BY <1>2, <1>3, InitDecision, PTL DEF Spec, OneDecision
=============================================================================
