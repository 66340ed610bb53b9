------------------------- MODULE RemoteWorker_proof -------------------------
(***************************************************************************)
(* Theorems about RemoteWorker: the types and the run trees, that a        *)
(* decision is sent in silence and only once, and that a result Scout may  *)
(* still ask for is kept, for any jobs, leases, executor runs and faults.  *)
(***************************************************************************)
EXTENDS RemoteWorker, FiniteSetTheorems, TLAPS

(* Scout may give the lease of a claim to this session again.              *)
Open(c) == c.job \in Redeliverable /\ scout[c.job].fence = c.fence

(* Scout's record of each job.                                             *)
ScoutOK ==
    /\ scout \in [Jobs -> [state : {"ready", "leased", "cancelled", "complete", "fail"},
                           fence : 0..MaxFence, live : BOOLEAN, cancel : BOOLEAN,
                           session : Nat, run : 0..MaxRuns]]
    /\ session \in Nat
    /\ \A j \in Jobs : /\ scout[j].session <= session
                       /\ scout[j].state = "leased" => scout[j].fence # 0

(* A session has at most one lease it can be given again.                  *)
OneOpen == \A c, d \in Claims : Open(c) /\ Open(d) => c = d

WorkerOK ==
    /\ pc \in Busy \cup {"idle"}
    /\ claim \in Claims \cup {None} /\ (claim = None <=> pc = "idle")
    /\ verdict \in Verdicts \cup Acknowledgements \cup {Ambiguous, None}
    /\ verdict \in Acknowledgements => pc = "await"
    /\ pc \in {"stop", "send"} => verdict \in Verdicts
    /\ beat \in {"off", "waiting", "open"}
    /\ beat # "off" => pc \in {"prune", "stop"} \cup Checked
    /\ reply # None => beat = "open"

(* What the supervisor has recorded; nothing before its first heartbeat.   *)
SupervisorOK ==
    /\ cancelled \in BOOLEAN /\ failure \in BOOLEAN
    /\ pc \in {"idle", "start"} => ~cancelled /\ ~failure

(* A run tree is the one of the claim once the others are pruned, and a    *)
(* result lies in a tree of a job whose input is good.                     *)
FilesOK ==
    /\ trees \subseteq Claims /\ runs \in 0..MaxRuns
    /\ results \in [Claims -> 0..MaxRuns] /\ asked \in [Claims -> SUBSET Verdicts]
    /\ \A c \in Claims : results[c] # 0 => c \in trees /\ c.job \notin Bad
    /\ \A c, d \in trees : c = d
    /\ pc \in Checked \cup {"stop", "send", "await"} => trees \subseteq {claim}
    /\ pc \in {"stage", "replay", "execute"} => claim \in trees
    /\ pc \in {"replay", "execute"} => claim.job \notin Bad

(* Nothing is known of a lease that was not given.                         *)
Given ==
    \A c \in Claims : (c \in trees \/ asked[c] # {} \/ c = claim)
                          => c.fence <= scout[c.job].fence

(* While it works on a claim the session has no other open lease, and a    *)
(* cancellation or an acknowledgement it knows of closed this one.         *)
LeaseOK ==
    claim # None =>
        /\ \A c \in Claims : Open(c) => c = claim
        /\ cancelled \/ reply = "cancelled" \/ verdict \in Acknowledgements => ~Open(claim)

(* The verdict is what lies in the run tree, or a file that was refused.   *)
VerdictOK ==
    pc \in {"stop", "send"} =>
        \/ verdict = Refuse
        \/ verdict = FailIt /\ results[claim] = 0
        \/ verdict = Complete(results[claim]) /\ results[claim] # 0

(* All that is left to say of the claim is that a file was refused.        *)
Told == pc \in {"stop", "send", "await"} /\ (pc # "await" => verdict = Refuse)

Over(c) == ~Open(c) /\ (claim # c \/ Told)

(* A completion that was sent can only be sent again.                      *)
Sole ==
    \A c \in Claims, n \in 1..MaxRuns : Complete(n) \in asked[c] =>
        results[c] = n \/ Over(c)

IInv == /\ ScoutOK /\ OneOpen /\ WorkerOK /\ SupervisorOK /\ FilesOK /\ Given /\ LeaseOK
        /\ VerdictOK /\ Sole /\ SilentDecision
-----------------------------------------------------------------------------
USE RemoteBounds, NoneIsNoClaim, NoneIsNoReply

LEMMA CheckMeans ==
  /\ Check = "proceed" => ~cancelled /\ ~failure
  /\ Check = "cancelled" => cancelled
  BY DEF Check

LEMMA VerdictsDiffer ==
  /\ \A n \in 1..MaxRuns : Complete(n) # FailIt /\ Complete(n) # Refuse
  /\ \A n \in 1..MaxRuns : Complete(n) \in Verdicts
  /\ \A m, n : Complete(m) = Complete(n) => m = n
  /\ \A a \in Acknowledgements : a \notin Verdicts
  /\ Ambiguous \notin Verdicts /\ Ambiguous \notin Acknowledgements
  /\ FailIt \in Verdicts /\ Refuse \in Verdicts
  /\ None \notin Acknowledgements
<1>1. \A a \in Acknowledgements : a.kind = "accepted"
  BY DEF Accepted, Acknowledgements
<1>2. \A v \in Verdicts : v.kind \in {"complete", "fail"}
  BY DEF Complete, FailIt, Refuse, Verdicts
<1>3. \A a \in Acknowledgements : a \notin Verdicts
  BY <1>1, <1>2
<1>4. Ambiguous \notin Verdicts /\ Ambiguous \notin Acknowledgements
  BY <1>1, <1>2 DEF Ambiguous
<1>5. /\ \A n \in 1..MaxRuns : Complete(n) # FailIt /\ Complete(n) # Refuse
      /\ \A m, n : Complete(m) = Complete(n) => m = n
  BY DEF Complete, FailIt, Refuse
<1>6. /\ \A n \in 1..MaxRuns : Complete(n) \in Verdicts
      /\ FailIt \in Verdicts /\ Refuse \in Verdicts
  BY DEF Verdicts
<1> QED
  BY <1>3, <1>4, <1>5, <1>6, NoneIsNoReply

LEMMA VerdictRuns ==
  \A v \in Verdicts : v.run \in 0..MaxRuns /\ v.kind \in {"complete", "fail"}
                     /\ Accepted(v.run) \in Acknowledgements
<1>1. \A v \in Verdicts : v.run \in 0..MaxRuns /\ v.kind \in {"complete", "fail"}
  BY DEF Complete, FailIt, Refuse, Verdicts
<1> QED
  BY <1>1 DEF Acknowledgements

(* The steps that are not about leases.                                    *)
Leases == <<scout, session>>

LEMMA OpenSame == ASSUME UNCHANGED Leases PROVE \A c : Open(c)' = Open(c)
  BY DEF Leases, Open, Redeliverable

LEMMA ScoutSame ==
  ASSUME ScoutOK, OneOpen, UNCHANGED Leases
  PROVE  ScoutOK' /\ OneOpen'
<1>1. ScoutOK'
  BY DEF ScoutOK, Leases
<1>2. OneOpen'
  BY OpenSame DEF OneOpen
<1> QED
  BY <1>1, <1>2

(* A lease that is open is open already, or is just given.                 *)
NewLease(c) ==
    /\ Redeliverable = {} /\ pc = "idle"
    /\ c.fence = scout[c.job].fence + 1 /\ claim' \in {claim, c}

LeaseStep ==
    /\ \A j \in Jobs : scout[j].fence <= scout'[j].fence
    /\ \A c \in Claims : Open(c)' => Open(c) \/ NewLease(c)

LEMMA LeaseRunsOutStep ==
  ASSUME ScoutOK, NEW j \in Jobs, LeaseRunsOut(j) \/ CancelJob(j)
  PROVE  /\ ScoutOK' /\ \A i \in Jobs : scout'[i].fence = scout[i].fence
         /\ \A c \in Claims : Open(c)' => Open(c)
<1> USE DEF LeaseRunsOut, CancelJob, env
<1>1. ScoutOK'
  <2>1. CASE scout' = [scout EXCEPT ![j].live = FALSE]
    BY <2>1 DEF ScoutOK
  <2>2. CASE scout' = [scout EXCEPT ![j].cancel = TRUE]
    BY <2>2 DEF ScoutOK
  <2>3. ASSUME NEW state \in {"cancelled", "ready"},
               scout' = [scout EXCEPT ![j].state = state]
        PROVE  ScoutOK'
    BY <2>3 DEF ScoutOK
  <2> QED
    BY <2>1, <2>2, <2>3
<1>2. \A i \in Jobs : scout'[i].fence = scout[i].fence
  BY DEF ScoutOK
<1>3. ASSUME NEW c \in Claims, Open(c)' PROVE Open(c)
  BY <1>3 DEF ScoutOK, Open, Redeliverable, Claims
<1> QED
  BY <1>1, <1>2, <1>3

LEMMA SendStep ==
  ASSUME ScoutOK, WorkerOK, Send
  PROVE  /\ ScoutOK' /\ \A i \in Jobs : scout'[i].fence = scout[i].fence
         /\ \A c \in Claims : Open(c)' => Open(c)
         /\ verdict' \in Acknowledgements => ~Open(claim)'
<1> USE DEF Send, env
<1>1. claim \in Claims /\ claim.job \in Jobs /\ verdict \in Verdicts
  BY DEF WorkerOK, Claims
<1>2. CASE UNCHANGED scout /\ verdict' = Ambiguous
  BY <1>2, ScoutSame, VerdictsDiffer DEF Leases, Open, Redeliverable, ScoutOK
<1>3. CASE scout' = [scout EXCEPT ![claim.job].state = verdict.kind,
                                  ![claim.job].run = verdict.run]
  <2>1. verdict.kind \in {"complete", "fail"} /\ verdict.run \in 0..MaxRuns
    BY <1>1, VerdictRuns
  <2>2. ScoutOK'
    BY <1>1, <1>3, <2>1 DEF ScoutOK
  <2>3. \A i \in Jobs : scout'[i].fence = scout[i].fence
    BY <1>1, <1>3 DEF ScoutOK
  <2>4. scout'[claim.job].state # "leased"
    BY <1>1, <1>3, <2>1 DEF ScoutOK
  <2>5. ASSUME NEW c \in Claims, Open(c)' PROVE Open(c) /\ c # claim
    BY <1>1, <1>3, <2>4, <2>5 DEF ScoutOK, Open, Redeliverable, Claims
  <2> QED
    BY <1>1, <2>2, <2>3, <2>5
<1> QED
  BY <1>2, <1>3

LEMMA ClaimStep ==
  ASSUME ScoutOK, WorkerOK, NEW j \in Jobs, NEW lost \in BOOLEAN, ClaimJob(j, lost)
  PROVE  ScoutOK' /\ LeaseStep /\ (OneOpen => OneOpen')
<1> USE DEF ClaimJob, env
<1>1. CASE j \in Redeliverable
  <2>1. scout' = scout /\ session' = session
    BY <1>1
  <2> QED
    BY <2>1, ScoutSame, OpenSame DEF LeaseStep, Leases, ScoutOK
<1>2. CASE j \notin Redeliverable
  <2> DEFINE c == [job |-> j, fence |-> scout[j].fence + 1]
  <2>1. /\ Redeliverable = {} /\ scout[j].fence + 1 \in 1..MaxFence
        /\ scout' = [scout EXCEPT ![j] = [state |-> "leased", fence |-> scout[j].fence + 1,
                          live |-> TRUE, cancel |-> FALSE, session |-> session, run |-> 0]]
    BY <1>2 DEF ScoutOK
  <2>2. c \in Claims /\ pc = "idle" /\ claim' \in {claim, c}
    BY <1>2, <2>1 DEF Claims
  <2>3. ScoutOK'
    BY <2>1 DEF ScoutOK
  <2>4. \A i \in Jobs : scout[i].fence <= scout'[i].fence
    BY <2>1 DEF ScoutOK
  <2>5. ASSUME NEW d \in Claims, Open(d)' PROVE d = c
    <3>1. ASSUME d.job # j PROVE FALSE
      BY <2>1, <2>5, <3>1 DEF Open, Redeliverable, ScoutOK, Claims
    <3>2. d.fence = scout[j].fence + 1
      BY <2>1, <2>5, <3>1 DEF Open, ScoutOK
    <3> QED
      BY <3>1, <3>2 DEF Claims
  <2>6. ASSUME NEW d \in Claims, Open(d)' PROVE NewLease(d)
    BY <2>1, <2>2, <2>5, <2>6 DEF NewLease
  <2>7. OneOpen'
    BY <2>5 DEF OneOpen
  <2> QED
    BY <2>3, <2>4, <2>6, <2>7 DEF LeaseStep
<1> QED
  BY <1>1, <1>2

(* The claim that a delivered reply gives is open.                         *)
LEMMA ClaimGiven ==
  ASSUME ScoutOK, NEW j \in Jobs, NEW lost \in BOOLEAN, ClaimJob(j, lost)
  PROVE  \/ UNCHANGED <<pc, claim>>
         \/ /\ pc' = "start" /\ claim' \in Claims
            /\ claim'.fence = scout'[claim'.job].fence
            /\ Open(claim') \/ NewLease(claim')
<1> USE DEF ClaimJob, env
<1>1. CASE j \in Redeliverable
  <2>1. scout[j].fence \in 1..MaxFence
    BY <1>1 DEF ScoutOK, Redeliverable
  <2>2. CASE lost
    BY <2>2
  <2>3. CASE ~lost
    <3>1. pc' = "start" /\ claim' = [job |-> j, fence |-> scout[j].fence] /\ scout' = scout
      BY <1>1, <2>3
    <3> QED
      BY <1>1, <2>1, <3>1 DEF Claims, Open
  <2> QED
    BY <2>2, <2>3
<1>2. CASE j \notin Redeliverable
  <2>1. /\ Redeliverable = {} /\ scout[j].fence + 1 \in 1..MaxFence
        /\ scout' = [scout EXCEPT ![j] = [state |-> "leased", fence |-> scout[j].fence + 1,
                          live |-> TRUE, cancel |-> FALSE, session |-> session, run |-> 0]]
    BY <1>2 DEF ScoutOK
  <2>2. CASE lost
    BY <2>2
  <2>3. CASE ~lost
    <3>1. pc = "idle" /\ pc' = "start" /\ claim' = [job |-> j, fence |-> scout[j].fence + 1]
      BY <1>2, <2>3
    <3>2. scout'[j].fence = scout[j].fence + 1
      BY <2>1 DEF ScoutOK
    <3> QED
      BY <2>1, <3>1, <3>2 DEF Claims, NewLease
  <2> QED
    BY <2>2, <2>3
<1> QED
  BY <1>1, <1>2

LEMMA ScoutNext ==
  ASSUME ScoutOK, OneOpen, WorkerOK, [Next]_vars
  PROVE  ScoutOK' /\ OneOpen' /\ LeaseStep
<1>1. ASSUME ScoutOK', \A i \in Jobs : scout[i].fence <= scout'[i].fence,
             \A c \in Claims : Open(c)' => Open(c)
      PROVE  ScoutOK' /\ OneOpen' /\ LeaseStep
  BY <1>1 DEF OneOpen, LeaseStep
<1>2. CASE UNCHANGED Leases
  BY <1>1, <1>2, ScoutSame, OpenSame DEF Leases, ScoutOK
<1>3. ASSUME NEW j \in Jobs, LeaseRunsOut(j) \/ CancelJob(j)
      PROVE  ScoutOK' /\ OneOpen' /\ LeaseStep
  BY <1>1, <1>3, LeaseRunsOutStep DEF ScoutOK
<1>4. CASE Send
  <2>1. ScoutOK' /\ (\A i \in Jobs : scout'[i].fence = scout[i].fence)
        /\ \A c \in Claims : Open(c)' => Open(c)
    BY <1>4, SendStep
  <2>2. \A i \in Jobs : scout[i].fence <= scout'[i].fence
    BY <2>1 DEF ScoutOK
  <2> QED
    BY <1>1, <2>1, <2>2
<1>5. ASSUME NEW j \in Jobs, NEW lost \in BOOLEAN, ClaimJob(j, lost)
      PROVE  ScoutOK' /\ OneOpen' /\ LeaseStep
  BY <1>5, ClaimStep
<1>6. CASE Kill
  <2>1. ScoutOK' /\ \A i \in Jobs : scout[i].fence <= scout'[i].fence
    BY <1>6 DEF Kill, ScoutOK
  <2>2. \A c \in Claims : ~Open(c)'
    BY <1>6 DEF Kill, ScoutOK, Open, Redeliverable
  <2> QED
    BY <1>1, <2>1, <2>2
<1>7. CASE ClaimNothing \/ WriteResult \/ Thread \/ LeasePasses \/ DeadlinePasses \/ Signal
           \/ PruneFails \/ LocalFailure \/ Start \/ StartFails \/ Prune \/ OpenRun
           \/ Stage \/ Replay \/ Execute \/ Abandon \/ JoinThread \/ Decide \/ Acknowledged
           \/ AcknowledgedRefuses \/ Unacknowledged \/ LocalRefusal \/ UNCHANGED vars
  BY <1>2, <1>7
  DEF Leases, ClaimNothing, WriteResult, Thread, SendHeartbeat, AnswerHeartbeat, ReceiveReply,
      ThreadEnds, LeasePasses, DeadlinePasses, Signal, PruneFails, LocalFailure, Start,
      StartFails, BackOff, Prune, OpenRun, Stage, Replay, Execute, Abandon, JoinThread, Decide,
      Acknowledged, AcknowledgedRefuses, Unacknowledged, LocalRefusal, vars, env
<1> QED
  BY <1>3, <1>4, <1>5, <1>6, <1>7 DEF Next, Work, External

(* Where the worker is.  The steps in which the verdict is made first.     *)
LEMMA WorkerNext ==
  ASSUME ScoutOK, WorkerOK, FilesOK, [Next]_vars
  PROVE  WorkerOK'
<1> USE VerdictsDiffer DEF WorkerOK, Busy, Checked, env, local, thread, supervisor
<1>1. CASE EndClaim
  BY <1>1 DEF EndClaim
<1>2. CASE Stage
  BY <1>2 DEF Stage
<1>3. CASE Replay \/ Execute
  <2>1. claim \in Claims
    BY <1>3 DEF Replay, Execute
  <2>2. results[claim] # 0 => results[claim] \in 1..MaxRuns
    BY <2>1 DEF FilesOK
  <2>3. \/ verdict' = verdict /\ pc' = "execute"
        \/ verdict' \in Verdicts /\ pc' = "stop"
    BY <1>3, <2>2 DEF Replay, Execute
  <2>4. pc \in Checked /\ UNCHANGED <<claim, beat, reply>>
    BY <1>3 DEF Replay, Execute
  <2> QED
    BY <2>1, <2>3, <2>4
<1>4. CASE Send
  <2>1. claim \in Claims /\ verdict \in Verdicts
    BY <1>4 DEF Send
  <2>2. verdict' \in Acknowledgements \cup {Ambiguous}
    BY <1>4, <2>1, VerdictRuns DEF Send
  <2>3. pc' = "await" /\ UNCHANGED <<claim, beat, reply>>
    BY <1>4 DEF Send
  <2>4. beat = "off" /\ reply = None
    BY <1>4 DEF Send
  <2> QED
    BY <2>1, <2>2, <2>3, <2>4
<1>5. ASSUME NEW j \in Jobs, NEW lost \in BOOLEAN, ClaimJob(j, lost)
      PROVE  WorkerOK'
  <2>1. CASE UNCHANGED <<pc, claim>>
    BY <1>5, <2>1 DEF ClaimJob
  <2>2. CASE pc' = "start" /\ claim' \in Claims
    BY <1>5, <2>2 DEF ClaimJob
  <2> QED
    BY <1>5, <2>1, <2>2, ClaimGiven
<1>6. ASSUME NEW j \in Jobs, LeaseRunsOut(j) \/ CancelJob(j)
      PROVE  WorkerOK'
  BY <1>6 DEF LeaseRunsOut, CancelJob
<1>7. CASE SendHeartbeat \/ AnswerHeartbeat \/ ReceiveReply \/ ThreadEnds
  BY <1>7 DEF SendHeartbeat, AnswerHeartbeat, ReceiveReply, ThreadEnds
<1>8. CASE Start \/ Prune \/ OpenRun \/ JoinThread \/ Decide
  BY <1>8 DEF Start, Prune, OpenRun, JoinThread, Decide
<1>9. CASE ClaimNothing \/ WriteResult \/ LeasePasses \/ DeadlinePasses \/ Signal
           \/ UNCHANGED vars
  BY <1>9 DEF ClaimNothing, WriteResult, LeasePasses, DeadlinePasses, Signal, vars
<1>10. CASE PruneFails \/ LocalFailure \/ StartFails \/ Abandon \/ Acknowledged
            \/ Unacknowledged \/ Kill
  BY <1>1, <1>10
  DEF PruneFails, LocalFailure, StartFails, Abandon, Acknowledged, Unacknowledged, Kill, BackOff
<1>11. CASE LocalRefusal \/ AcknowledgedRefuses
  <2>1. pc' = "stop" /\ verdict' = Refuse /\ UNCHANGED <<claim, beat, reply>>
    BY <1>11 DEF LocalRefusal, AcknowledgedRefuses
  <2>2. claim \in Claims
    BY <1>11 DEF LocalRefusal, AcknowledgedRefuses
  <2> QED
    BY <2>1, <2>2
<1> QED
  BY <1>2, <1>3, <1>4, <1>5, <1>6, <1>7, <1>8, <1>9, <1>10, <1>11
  DEF Next, Work, Thread, External

(* What the supervisor knows, and that a decision is sent in silence.      *)
LEMMA FlagsNext ==
  ASSUME ScoutOK, WorkerOK, SupervisorOK, SilentDecision, [Next]_vars
  PROVE  SupervisorOK' /\ SilentDecision'
<1> USE DEF SupervisorOK, SilentDecision, env, local, thread, supervisor
<1>1. CASE EndClaim
  BY <1>1 DEF EndClaim
<1>2. CASE UNCHANGED <<beat, cancelled, failure>> /\ pc' \notin {"send", "await"}
           /\ pc' \notin {"idle", "start"}
  BY <1>2
<1>3. CASE UNCHANGED <<pc, beat, cancelled, failure>>
  BY <1>3
<1>4. ASSUME NEW j \in Jobs, NEW lost \in BOOLEAN, ClaimJob(j, lost)
      PROVE  SupervisorOK' /\ SilentDecision'
  <2>1. UNCHANGED pc \/ pc' = "start"
    BY <1>4, ClaimGiven
  <2>2. pc = "idle" /\ UNCHANGED <<beat, cancelled, failure>>
    BY <1>4 DEF ClaimJob
  <2> QED
    BY <2>1, <2>2
<1>5. CASE Start
  <2>1. pc' = "prune" /\ pc = "start" /\ failure' = failure /\ cancelled' \in BOOLEAN
    BY <1>5 DEF Start
  <2> QED
    BY <2>1
<1>6. CASE Decide
  <2>1. pc = "stop" /\ beat = "off" /\ pc' = "send" /\ UNCHANGED <<beat, cancelled, failure>>
    BY <1>6 DEF Decide
  <2>2. ~cancelled /\ ~failure
    BY <1>6, CheckMeans DEF Decide
  <2> QED
    BY <2>1, <2>2
<1>7. CASE Send
  <2>1. pc = "send" /\ pc' = "await" /\ UNCHANGED <<beat, cancelled, failure>>
    BY <1>7 DEF Send
  <2> QED
    BY <2>1
<1>8. CASE JoinThread \/ ReceiveReply \/ ThreadEnds \/ SendHeartbeat
  <2>1. pc \in {"prune", "stop"} \cup Checked /\ pc' = pc
    BY <1>8 DEF JoinThread, ReceiveReply, ThreadEnds, SendHeartbeat, WorkerOK
  <2>2. cancelled' \in BOOLEAN /\ failure' \in BOOLEAN
    BY <1>8 DEF JoinThread, ReceiveReply, ThreadEnds, SendHeartbeat
  <2> QED
    BY <2>1, <2>2 DEF Checked
<1>9. CASE Prune \/ OpenRun \/ Stage \/ Replay \/ Execute \/ LocalRefusal
           \/ AcknowledgedRefuses
  BY <1>2, <1>9
  DEF Prune, OpenRun, Stage, Replay, Execute, LocalRefusal, AcknowledgedRefuses
<1>10. ASSUME NEW j \in Jobs, LeaseRunsOut(j) \/ CancelJob(j)
       PROVE  SupervisorOK' /\ SilentDecision'
  BY <1>3, <1>10 DEF LeaseRunsOut, CancelJob
<1>11. CASE AnswerHeartbeat \/ ClaimNothing \/ WriteResult \/ LeasePasses \/ DeadlinePasses
            \/ Signal \/ UNCHANGED vars
  BY <1>3, <1>11
  DEF AnswerHeartbeat, ClaimNothing, WriteResult, LeasePasses, DeadlinePasses, Signal, vars
<1>12. CASE PruneFails \/ LocalFailure \/ StartFails \/ Abandon \/ Acknowledged
            \/ Unacknowledged \/ Kill
  BY <1>1, <1>12
  DEF PruneFails, LocalFailure, StartFails, Abandon, Acknowledged, Unacknowledged, Kill, BackOff
<1> QED
  BY <1>4, <1>5, <1>6, <1>7, <1>8, <1>9, <1>10, <1>11, <1>12
  DEF Next, Work, Thread, External

(* Removing run trees, and keeping them, when the claim ends.              *)
LEMMA RemoveMeans ==
  ASSUME FilesOK, NEW gone, Remove(gone)
  PROVE  /\ trees' = trees \ gone /\ runs' = runs
         /\ results' \in [Claims -> 0..MaxRuns]
         /\ \A c \in Claims : results'[c] = IF c \in gone THEN 0 ELSE results[c]
         /\ \A c \in Claims : results'[c] # 0 => c \in trees' /\ c.job \notin Bad
  BY DEF Remove, FilesOK


LEMMA FilesNext ==
  ASSUME ScoutOK, WorkerOK, FilesOK, VerdictOK, [Next]_vars
  PROVE  FilesOK'
<1> USE VerdictsDiffer DEF env, local, thread, supervisor
<1>1. ASSUME EndClaim, UNCHANGED asked,
             UNCHANGED local \/ \E gone : Remove(gone)
      PROVE  FilesOK'
  <2>1. pc' = "idle"
    BY <1>1 DEF EndClaim
  <2>2. CASE UNCHANGED local
    BY <1>1, <2>1, <2>2 DEF FilesOK, Checked
  <2>3. ASSUME NEW gone, Remove(gone) PROVE FilesOK'
    BY <1>1, <2>1, <2>3, RemoveMeans DEF FilesOK, Checked
  <2> QED
    BY <1>1, <2>2, <2>3
<1>2. CASE UNCHANGED <<pc, claim, trees, results, runs, asked>>
  BY <1>2 DEF FilesOK
<1>3. ASSUME NEW j \in Jobs, NEW lost \in BOOLEAN, ClaimJob(j, lost)
      PROVE  FilesOK'
  <2>1. UNCHANGED <<trees, results, runs, asked>>
    BY <1>3 DEF ClaimJob
  <2>2. CASE UNCHANGED <<pc, claim>>
    BY <1>2, <2>1, <2>2
  <2>3. CASE pc' = "start"
    BY <2>1, <2>3 DEF FilesOK, Checked
  <2> QED
    BY <1>3, <2>2, <2>3, ClaimGiven
<1>4. CASE ClaimNothing \/ Prune
  <2>1. \/ Remove(trees) /\ pc' = "idle" /\ UNCHANGED <<claim, asked>>
        \/ Remove(trees \ {claim}) /\ pc' = "gate" /\ UNCHANGED <<claim, asked>>
    BY <1>4 DEF ClaimNothing, Prune
  <2>2. CASE Remove(trees) /\ pc' = "idle" /\ UNCHANGED <<claim, asked>>
    BY <2>2, RemoveMeans DEF FilesOK, Checked
  <2>3. CASE Remove(trees \ {claim}) /\ pc' = "gate" /\ UNCHANGED <<claim, asked>>
    BY <2>3, RemoveMeans DEF FilesOK, Checked
  <2> QED
    BY <2>1, <2>2, <2>3
<1>5. CASE Start
  BY <1>5 DEF Start, FilesOK, Checked
<1>6. CASE OpenRun
  BY <1>6 DEF OpenRun, FilesOK, Checked, WorkerOK
<1>7. CASE Stage \/ Execute \/ Decide
  BY <1>7 DEF Stage, Execute, Decide, FilesOK, Checked
<1>8. CASE Replay
  <2>1. claim \in trees /\ claim.job \notin Bad /\ pc \in Checked
    BY <1>8 DEF Replay, FilesOK, Checked
  <2>2. pc' \in {"stop", "execute"} /\ UNCHANGED <<claim, trees, results, runs, asked>>
    BY <1>8 DEF Replay
  <2> QED
    BY <2>1, <2>2 DEF FilesOK, Checked
<1>9. CASE WriteResult
  <2>1. /\ claim \in trees /\ claim.job \notin Bad /\ claim \in Claims
        /\ runs + 1 \in 1..MaxRuns
    BY <1>9 DEF WriteResult, FilesOK, WorkerOK
  <2> QED
    BY <1>9, <2>1 DEF WriteResult, FilesOK
<1>10. CASE Send
  <2>1. claim \in Claims /\ verdict \in Verdicts
    BY <1>10 DEF Send, WorkerOK
  <2>2. asked' \in [Claims -> SUBSET Verdicts]
    BY <1>10, <2>1 DEF Send, FilesOK
  <2> QED
    BY <1>10, <2>2 DEF Send, FilesOK, Checked
<1>11. ASSUME NEW j \in Jobs, LeaseRunsOut(j) \/ CancelJob(j)
       PROVE  FilesOK'
  BY <1>2, <1>11 DEF LeaseRunsOut, CancelJob
<1>12. CASE Thread \/ JoinThread \/ LeasePasses \/ DeadlinePasses \/ Signal \/ UNCHANGED vars
  BY <1>2, <1>12
  DEF Thread, SendHeartbeat, AnswerHeartbeat, ReceiveReply, ThreadEnds, JoinThread, LeasePasses,
      DeadlinePasses, Signal, vars
<1>13. CASE PruneFails \/ LocalFailure \/ StartFails \/ Abandon \/ Acknowledged
            \/ Unacknowledged \/ Kill
  BY <1>1, <1>13
  DEF PruneFails, LocalFailure, StartFails, Abandon, Acknowledged, Unacknowledged, Kill, BackOff
<1>14. CASE LocalRefusal
  <2>1. pc' = "stop" /\ pc \in Checked /\ UNCHANGED <<claim, trees, results, runs, asked>>
    BY <1>14 DEF LocalRefusal
  <2> QED
    BY <2>1 DEF FilesOK, Checked
<1>15. CASE AcknowledgedRefuses
  <2>1. pc = "await" /\ pc' = "stop" /\ UNCHANGED <<claim, asked>>
    BY <1>15 DEF AcknowledgedRefuses
  <2>2. CASE UNCHANGED local
    BY <2>1, <2>2 DEF FilesOK, Checked
  <2>3. CASE Remove({claim})
    BY <2>1, <2>3, RemoveMeans DEF FilesOK, Checked
  <2> QED
    BY <1>15, <2>2, <2>3 DEF AcknowledgedRefuses
<1> QED
  BY <1>3, <1>4, <1>5, <1>6, <1>7, <1>8, <1>9, <1>10, <1>11, <1>12, <1>13, <1>14, <1>15
  DEF Next, Work, External

(* What a step can do to the claim, to the requests sent and to the run    *)
(* trees: only trees of leases that are not open are removed.              *)
LEMMA Effects ==
  ASSUME WorkerOK, FilesOK, LeaseOK, [Next]_vars
  PROVE  /\ claim' \in {claim, None} \/ \E j \in Jobs, lost \in BOOLEAN : ClaimJob(j, lost)
         /\ UNCHANGED asked \/ Send
         /\ \/ UNCHANGED local \/ OpenRun \/ WriteResult
            \/ \E gone \in SUBSET Claims : /\ Remove(gone)
                                          /\ \A c \in gone : ~Open(c) /\ (c # claim' \/ Told')
<1> DEFINE Closed == \E gone \in SUBSET Claims :
                        /\ Remove(gone)
                        /\ \A c \in gone : ~Open(c) /\ (c # claim' \/ Told')
           Files == UNCHANGED local \/ OpenRun \/ WriteResult \/ Closed
<1> SUFFICES /\ claim' \in {claim, None} \/ \E j \in Jobs, lost \in BOOLEAN : ClaimJob(j, lost)
             /\ UNCHANGED asked \/ Send
             /\ Files
  OBVIOUS
<1> USE DEF env, local, thread, supervisor, EndClaim
<1>1. ASSUME NEW gone, gone \subseteq trees \ {claim},
             Remove(gone), claim # None,
             claim' \in {claim, None}
      PROVE  Closed
  BY <1>1 DEF LeaseOK, FilesOK
<1>2. ASSUME Remove({claim}), claim # None, claim' = None \/ Told',
             cancelled \/ verdict \in Acknowledgements
      PROVE  Closed
  <2>1. {claim} \in SUBSET Claims /\ ~Open(claim)
    BY <1>2 DEF LeaseOK, WorkerOK
  <2> QED
    BY <1>2, <2>1
<1>0. ASSUME trees \in SUBSET Claims, Remove(trees), \A c \in trees : ~Open(c),
             claim' = None
      PROVE  Closed
  BY <1>0
<1> HIDE DEF Closed
<1>3. CASE ClaimNothing
  <2>1. trees \in SUBSET Claims /\ Remove(trees) /\ (\A c \in trees : ~Open(c))
       /\ claim' = None
    BY <1>3 DEF ClaimNothing, Open, FilesOK, WorkerOK
  <2> QED
    BY <1>3, <1>0, <2>1 DEF ClaimNothing
<1>4. CASE Prune \/ PruneFails
  <2>1. claim # None
    BY <1>4 DEF Prune, PruneFails, WorkerOK
  <2>2. claim' \in {claim, None} /\ UNCHANGED asked
    BY <1>4 DEF Prune, PruneFails
  <2>3. \E gone : gone \subseteq trees \ {claim} /\ Remove(gone)
    BY <1>4 DEF Prune, PruneFails
  <2> QED
    BY <1>1, <2>1, <2>2, <2>3
<1>5. CASE Abandon
  <2>1. claim # None
    BY <1>5 DEF Abandon, WorkerOK, Checked
  <2>2. claim' = None /\ UNCHANGED asked
    BY <1>5 DEF Abandon
  <2>3. UNCHANGED local \/ (Remove({claim}) /\ Check = "cancelled")
    BY <1>5 DEF Abandon
  <2> QED
    BY <1>2, <2>1, <2>2, <2>3, CheckMeans
<1>6. CASE Acknowledged
  <2>1. claim # None
    BY <1>6 DEF Acknowledged, WorkerOK
  <2>2. claim' = None /\ UNCHANGED asked
    BY <1>6 DEF Acknowledged
  <2>3. UNCHANGED local \/ (Remove({claim}) /\ verdict \in Acknowledgements)
    BY <1>6 DEF Acknowledged
  <2> QED
    BY <1>2, <2>1, <2>2, <2>3
<1>7. ASSUME NEW j \in Jobs, LeaseRunsOut(j) \/ CancelJob(j)
      PROVE  claim' = claim /\ UNCHANGED asked /\ Files
  BY <1>7 DEF LeaseRunsOut, CancelJob
<1>8. ASSUME NEW j \in Jobs, NEW lost \in BOOLEAN, ClaimJob(j, lost)
      PROVE  UNCHANGED asked /\ Files
  BY <1>8 DEF ClaimJob
<1>9. CASE Send \/ OpenRun \/ WriteResult
  BY <1>9 DEF Send, OpenRun, WriteResult
<1>10. CASE Thread \/ JoinThread \/ LeasePasses \/ DeadlinePasses \/ Signal \/ Start \/ Stage
            \/ Replay \/ Execute \/ Decide \/ UNCHANGED vars
  BY <1>10
  DEF Thread, SendHeartbeat, AnswerHeartbeat, ReceiveReply, ThreadEnds, JoinThread, LeasePasses,
      DeadlinePasses, Signal, Start, Stage, Replay, Execute, Decide, vars
<1>11. CASE LocalFailure \/ StartFails \/ Unacknowledged \/ Kill
  BY <1>11 DEF LocalFailure, StartFails, Unacknowledged, Kill, BackOff
<1>12. CASE AcknowledgedRefuses
  <2>1. claim # None
    BY <1>12 DEF AcknowledgedRefuses, WorkerOK
  <2>2. claim' = claim /\ UNCHANGED asked /\ Told'
    BY <1>12 DEF AcknowledgedRefuses, Told
  <2>3. UNCHANGED local \/ (Remove({claim}) /\ verdict \in Acknowledgements)
    BY <1>12 DEF AcknowledgedRefuses
  <2> QED
    BY <1>2, <2>1, <2>2, <2>3
<1>13. CASE LocalRefusal
  BY <1>13 DEF LocalRefusal
<1> QED
  BY <1>3, <1>4, <1>5, <1>6, <1>7, <1>8, <1>9, <1>10, <1>11, <1>12, <1>13
  DEF Next, Work, External

LEMMA GivenNext ==
  ASSUME ScoutOK, WorkerOK, FilesOK, LeaseOK, Given, ScoutOK', LeaseStep, [Next]_vars
  PROVE  Given'
<1> SUFFICES ASSUME NEW c \in Claims, c \in trees' \/ asked'[c] # {} \/ c = claim'
             PROVE  c.fence <= scout'[c.job].fence
  BY DEF Given
<1>1. c.job \in Jobs /\ c.fence \in Nat /\ scout[c.job].fence \in Nat
      /\ scout'[c.job].fence \in Nat
  BY DEF Claims, ScoutOK
<1>2. scout[c.job].fence <= scout'[c.job].fence
  BY <1>1 DEF LeaseStep
<1>3. CASE c \in trees \/ asked[c] # {} \/ c = claim
  BY <1>1, <1>2, <1>3 DEF Given
<1>4. CASE c \in trees'
  BY <1>3, <1>4, Effects DEF Remove, local, OpenRun, WriteResult
<1>5. CASE asked'[c] # {}
  BY <1>3, <1>5, Effects DEF Send, FilesOK
<1>6. CASE c = claim'
  <2>1. claim' # None
    BY <1>6
  <2>2. ASSUME NEW j \in Jobs, NEW lost \in BOOLEAN, ClaimJob(j, lost)
        PROVE  c = claim \/ c.fence = scout'[c.job].fence
    BY <1>6, <2>2, ClaimGiven
  <2> QED
    BY <1>1, <1>3, <1>6, <2>1, <2>2, Effects
<1> QED
  BY <1>3, <1>4, <1>5, <1>6

(* The first conjunct of LeaseOK: no open lease but the one worked on.     *)
LEMMA LeaseNext ==
  ASSUME ScoutOK, WorkerOK, SupervisorOK, FilesOK, OneOpen, LeaseOK, ScoutOK', OneOpen',
         LeaseStep, WorkerOK', [Next]_vars
  PROVE  LeaseOK'
<1> SUFFICES ASSUME claim' # None
             PROVE  /\ \A c \in Claims : Open(c)' => c = claim'
                    /\ cancelled' \/ reply' = "cancelled" \/ verdict' \in Acknowledgements => ~Open(claim)'
  BY DEF LeaseOK
<1> USE DEF env, local, thread, supervisor
<1>1. ASSUME NEW j \in Jobs, NEW lost \in BOOLEAN, ClaimJob(j, lost), ~UNCHANGED claim
      PROVE  /\ \A c \in Claims : Open(c)' => c = claim'
             /\ ~cancelled' /\ reply' # "cancelled" /\ verdict' \notin Acknowledgements
  <2>1. pc = "idle" /\ UNCHANGED <<cancelled, reply, verdict>>
    BY <1>1 DEF ClaimJob
  <2>2. ~cancelled' /\ reply' # "cancelled" /\ verdict' \notin Acknowledgements
    BY <2>1 DEF WorkerOK, SupervisorOK, Checked
  <2>3. Open(claim') \/ NewLease(claim')
    BY <1>1, ClaimGiven
  <2>4. ASSUME NEW c \in Claims, Open(c)' PROVE c = claim'
    <3>1. claim' \in Claims
      BY <1>1, ClaimGiven
    <3>2. CASE Open(c)
      BY <2>3, <3>1, <3>2 DEF OneOpen, NewLease, Open
    <3>3. CASE NewLease(c)
      BY <1>1, <3>3 DEF NewLease
    <3> QED
      BY <2>4, <3>2, <3>3 DEF LeaseStep
  <2> QED
    BY <2>2, <2>4
<1>2. CASE UNCHANGED claim
  <2>1. claim \in Claims /\ pc # "idle"
    BY <1>2 DEF WorkerOK
  <2>2. \A c \in Claims : Open(c)' => Open(c)
    BY <2>1 DEF LeaseStep, NewLease
  <2>3. \A c \in Claims : Open(c)' => c = claim'
    BY <1>2, <2>2 DEF LeaseOK
  <2>4. cancelled' \/ reply' = "cancelled" \/ verdict' \in Acknowledgements => ~Open(claim)'
    <3>1. ASSUME cancelled' => cancelled \/ reply = "cancelled",
                 reply' = "cancelled" => reply = "cancelled",
                 verdict' \in Acknowledgements => verdict \in Acknowledgements
          PROVE  cancelled' \/ reply' = "cancelled" \/ verdict' \in Acknowledgements => ~Open(claim)'
      BY <1>2, <2>1, <2>2, <3>1 DEF LeaseOK
    <3>2. HeartbeatReply(claim) = "cancelled" => ~Open(claim)
      BY DEF HeartbeatReply, Open, Redeliverable
    <3>3. ASSUME ~Open(claim)
          PROVE  ~Open(claim)'
      BY <1>2, <2>1, <2>2, <3>3
    <3>4. CASE Start
      <4>1. cancelled' => HeartbeatReply(claim) = "cancelled"
        BY <3>4 DEF Start
      <4>2. reply' = reply /\ verdict' = verdict
        BY <3>4 DEF Start
      <4>3. reply = "cancelled" \/ verdict \in Acknowledgements => ~Open(claim)
        BY <2>1 DEF LeaseOK
      <4>4. cancelled' \/ reply' = "cancelled" \/ verdict' \in Acknowledgements => ~Open(claim)
        BY <3>2, <4>1, <4>2, <4>3
      <4> QED
        BY <3>3, <4>4
    <3>5. CASE AnswerHeartbeat
      <4>1. reply' = "cancelled" => HeartbeatReply(claim) = "cancelled"
        BY <3>5 DEF AnswerHeartbeat
      <4>2. cancelled' = cancelled /\ verdict' = verdict
        BY <3>5 DEF AnswerHeartbeat
      <4> QED
        BY <3>2, <3>3, <4>1, <4>2, <2>1, NoneIsNoClaim DEF LeaseOK
    <3>6. CASE ReceiveReply
      <4>1. cancelled' => cancelled \/ reply = "cancelled"
        BY <3>6 DEF ReceiveReply
      <4>2. reply' = None /\ verdict' = verdict
        BY <3>6 DEF ReceiveReply
      <4> QED
        BY <3>1, <4>1, <4>2
    <3>7. CASE Send
      BY <1>2, <3>1, <3>7, SendStep DEF Send
    <3>8. CASE JoinThread
      BY <3>1, <3>8 DEF JoinThread
    <3>9. CASE Stage \/ Replay \/ Execute \/ LocalRefusal \/ AcknowledgedRefuses
      <4>1. pc' \in {"stop", "replay", "execute"} /\ UNCHANGED <<cancelled, reply>>
        BY <3>9 DEF Stage, Replay, Execute, LocalRefusal, AcknowledgedRefuses
      <4>2. verdict' \notin Acknowledgements
        BY <4>1 DEF WorkerOK
      <4> QED
        BY <3>1, <4>1, <4>2
    <3>10. CASE EndClaim
      BY <1>2, <2>1, <3>10 DEF EndClaim
    <3>11. CASE PruneFails \/ LocalFailure \/ StartFails \/ Abandon \/ Acknowledged
                \/ Unacknowledged \/ Kill
      BY <3>10, <3>11
      DEF PruneFails, LocalFailure, StartFails, Abandon, Acknowledged, Unacknowledged, Kill,
          BackOff
    <3>12. ASSUME NEW j \in Jobs,
                  LeaseRunsOut(j) \/ CancelJob(j) \/ \E lost \in BOOLEAN : ClaimJob(j, lost)
           PROVE  UNCHANGED <<cancelled, reply, verdict>>
      BY <3>12 DEF LeaseRunsOut, CancelJob, ClaimJob
    <3>13. CASE ClaimNothing \/ WriteResult \/ SendHeartbeat \/ ThreadEnds \/ LeasePasses
                \/ DeadlinePasses \/ Signal \/ Prune \/ OpenRun \/ Decide \/ UNCHANGED vars
      BY <3>1, <3>13
      DEF ClaimNothing, WriteResult, SendHeartbeat, ThreadEnds, LeasePasses, DeadlinePasses,
          Signal, Prune, OpenRun, Decide, vars
    <3> QED
      BY <3>1, <3>4, <3>5, <3>6, <3>7, <3>8, <3>9, <3>11, <3>12, <3>13
      DEF Next, Work, Thread, External
  <2> QED
    BY <2>3, <2>4
<1> QED
  BY <1>1, <1>2, Effects

LEMMA VerdictNext ==
  ASSUME WorkerOK, FilesOK, VerdictOK, ScoutOK, [Next]_vars
  PROVE  VerdictOK'
<1> USE DEF env, local, thread, supervisor
<1>1. CASE UNCHANGED <<pc, claim, verdict, results>>
  BY <1>1 DEF VerdictOK
<1>2. CASE pc' \notin {"stop", "send"}
  BY <1>2 DEF VerdictOK
<1>3. CASE Stage
  <2>1. claim \in Claims
    BY <1>3 DEF Stage, WorkerOK
  <2>2. CASE claim.job \in Bad
    <3>1. results[claim] = 0 /\ verdict' = FailIt /\ UNCHANGED <<claim, results>>
      BY <1>3, <2>1, <2>2 DEF Stage, FilesOK
    <3> QED
      BY <3>1 DEF VerdictOK
  <2> QED
    BY <1>2, <1>3, <2>2 DEF Stage
<1>4. CASE Replay
  <2>1. CASE results[claim] # 0
    BY <1>4, <2>1 DEF Replay, VerdictOK
  <2> QED
    BY <1>2, <1>4, <2>1 DEF Replay
<1>5. CASE Execute
  <2>1. UNCHANGED <<claim, results>>
    BY <1>5 DEF Execute
  <2>2. \/ verdict' = FailIt /\ results[claim] = 0
        \/ verdict' = Complete(results[claim]) /\ results[claim] # 0
    BY <1>5 DEF Execute
  <2> QED
    BY <2>1, <2>2 DEF VerdictOK
<1>6. CASE Decide
  BY <1>6 DEF Decide, VerdictOK
<1>7. CASE WriteResult \/ ClaimNothing \/ Start \/ Prune \/ OpenRun \/ Send
  BY <1>2, <1>7 DEF WriteResult, ClaimNothing, Start, Prune, OpenRun, Send
<1>8. ASSUME NEW j \in Jobs, NEW lost \in BOOLEAN, ClaimJob(j, lost)
      PROVE  VerdictOK'
  <2>1. UNCHANGED pc \/ pc' = "start"
    BY <1>8, ClaimGiven
  <2> QED
    BY <1>2, <1>8, <2>1 DEF ClaimJob
<1>9. CASE EndClaim
  BY <1>2, <1>9 DEF EndClaim
<1>10. CASE PruneFails \/ LocalFailure \/ StartFails \/ Abandon \/ Acknowledged
            \/ Unacknowledged \/ Kill
  BY <1>9, <1>10
  DEF PruneFails, LocalFailure, StartFails, Abandon, Acknowledged, Unacknowledged, Kill, BackOff
<1>11. ASSUME NEW j \in Jobs, LeaseRunsOut(j) \/ CancelJob(j)
       PROVE  UNCHANGED <<pc, claim, verdict, results>>
  BY <1>11 DEF LeaseRunsOut, CancelJob
<1>12. CASE Thread \/ JoinThread \/ LeasePasses \/ DeadlinePasses \/ Signal \/ UNCHANGED vars
  BY <1>1, <1>12
  DEF Thread, SendHeartbeat, AnswerHeartbeat, ReceiveReply, ThreadEnds, JoinThread, LeasePasses,
      DeadlinePasses, Signal, vars
<1>13. CASE LocalRefusal \/ AcknowledgedRefuses
  BY <1>13 DEF LocalRefusal, AcknowledgedRefuses, VerdictOK
<1> QED
  BY <1>1, <1>3, <1>4, <1>5, <1>6, <1>7, <1>8, <1>10, <1>11, <1>12, <1>13
  DEF Next, Work, External

(* A completion stays the only thing to say of its claim: the lease of a   *)
(* claim whose result is gone is over, and no step gives it back.          *)
(* What is only left to be told stays so until the claim ends.             *)
LEMMA ToldNext ==
  ASSUME WorkerOK, Told, claim' = claim, claim # None, [Next]_vars
  PROVE  Told'
<1> USE DEF env, local, thread, supervisor
<1>1. claim' # None
  OBVIOUS
<1>2. pc \in {"stop", "send", "await"}
  BY DEF Told
<1>3. CASE UNCHANGED <<pc, verdict>>
  BY <1>3 DEF Told
<1>4. CASE JoinThread \/ Decide \/ Send \/ AcknowledgedRefuses
  BY <1>4 DEF JoinThread, Decide, Send, AcknowledgedRefuses, Told
<1>5. CASE EndClaim
  BY <1>1, <1>5 DEF EndClaim
<1>6. CASE Abandon \/ Acknowledged \/ Unacknowledged \/ Kill \/ LocalFailure \/ StartFails
           \/ PruneFails
  BY <1>5, <1>6
  DEF Abandon, Acknowledged, Unacknowledged, Kill, LocalFailure, StartFails, PruneFails, BackOff
<1>7. CASE Start \/ Prune \/ OpenRun \/ Stage \/ Replay \/ Execute \/ LocalRefusal
           \/ ClaimNothing \/ \E j \in Jobs, lost \in BOOLEAN : ClaimJob(j, lost)
  BY <1>2, <1>7
  DEF Start, Prune, OpenRun, Stage, Replay, Execute, LocalRefusal, ClaimNothing, ClaimJob, Checked
<1>8. CASE Thread \/ WriteResult \/ LeasePasses \/ DeadlinePasses \/ Signal \/ UNCHANGED vars
  BY <1>3, <1>8
  DEF Thread, SendHeartbeat, AnswerHeartbeat, ReceiveReply, ThreadEnds, WriteResult, LeasePasses,
      DeadlinePasses, Signal, vars
<1>9. ASSUME NEW j \in Jobs, LeaseRunsOut(j) \/ CancelJob(j)
      PROVE  UNCHANGED <<pc, verdict>>
  BY <1>9 DEF LeaseRunsOut, CancelJob
<1> QED
  BY <1>3, <1>4, <1>6, <1>7, <1>8, <1>9 DEF Next, Work, External

(* A completion stays the only thing to say of its claim, but that a file  *)
(* was refused: the lease of a claim whose result is gone is over, and no  *)
(* step gives it back.                                                     *)
LEMMA SoleNext ==
  ASSUME ScoutOK, WorkerOK, FilesOK, Given, LeaseOK, VerdictOK, Sole, LeaseStep, [Next]_vars
  PROVE  Sole'
<1> SUFFICES ASSUME NEW c \in Claims, NEW n \in 1..MaxRuns, Complete(n) \in asked'[c]
             PROVE  results'[c] = n \/ Over(c)'
  BY DEF Sole
<1>1. CASE Complete(n) \in asked[c]
  <2>1. ~NewLease(c)
    BY <1>1 DEF NewLease, Given, ScoutOK, Claims
  <2>2. Open(c)' => Open(c)
    BY <2>1 DEF LeaseStep
  <2>3. CASE results[c] = n
    <3>1. CASE UNCHANGED local \/ OpenRun
      BY <2>3, <3>1 DEF local, OpenRun
    <3>2. CASE WriteResult
      BY <2>3, <3>2 DEF WriteResult, FilesOK
    <3>3. ASSUME NEW gone \in SUBSET Claims, Remove(gone),
                 \A d \in gone : ~Open(d) /\ (d # claim' \/ Told')
          PROVE  results'[c] = n \/ Over(c)'
      BY <2>2, <2>3, <3>3, RemoveMeans DEF Over
    <3> QED
      BY <3>1, <3>2, <3>3, Effects
  <2>4. CASE Over(c)
    <3>1. ~Open(c)'
      BY <2>2, <2>4 DEF Over
    <3>2. ASSUME NEW j \in Jobs, NEW lost \in BOOLEAN, ClaimJob(j, lost)
          PROVE  claim' # c
      <4>1. claim = None
        BY <3>2 DEF ClaimJob, WorkerOK
      <4> QED
        BY <2>1, <2>4, <3>2, <4>1, ClaimGiven DEF Over
    <3>3. CASE claim' \in {claim, None}
      <4>1. CASE claim' # c
        BY <3>1, <4>1 DEF Over
      <4>2. CASE claim' = c
        BY <2>4, <3>1, <3>3, <4>2, ToldNext DEF Over
      <4> QED
        BY <4>1, <4>2
    <3> QED
      BY <3>1, <3>2, <3>3, Effects DEF Over
  <2> QED
    BY <1>1, <2>3, <2>4 DEF Sole
<1>2. CASE Complete(n) \notin asked[c]
  <2>1. Send /\ c = claim /\ verdict = Complete(n)
    BY <1>2, Effects DEF Send, FilesOK
  <2>2. results[claim] = n
    BY <2>1, VerdictsDiffer DEF VerdictOK, Send
  <2> QED
    BY <2>1, <2>2 DEF Send, local
<1> QED
  BY <1>1, <1>2

-----------------------------------------------------------------------------
LEMMA InitIInv == Init => IInv
<1> SUFFICES ASSUME Init PROVE IInv
  OBVIOUS
<1> USE DEF Init
<1>1. ScoutOK /\ Redeliverable = {}
  BY DEF ScoutOK, Redeliverable
<1>2. OneOpen
  BY <1>1 DEF OneOpen, Open
<1>3. WorkerOK
  BY DEF WorkerOK, Busy, Checked
<1>4. SupervisorOK /\ SilentDecision
  BY DEF SupervisorOK, SilentDecision
<1>5. FilesOK
  BY DEF FilesOK, Checked
<1>6. Given
  BY DEF Given
<1>7. LeaseOK
  BY DEF LeaseOK
<1>8. VerdictOK /\ Sole
  BY DEF VerdictOK, Sole
<1> QED
  BY <1>1, <1>2, <1>3, <1>4, <1>5, <1>6, <1>7, <1>8 DEF IInv

LEMMA StepIInv == IInv /\ [Next]_vars => IInv'
<1> SUFFICES ASSUME IInv, [Next]_vars PROVE IInv'
  OBVIOUS
<1> USE DEF IInv
<1>1. ScoutOK' /\ OneOpen' /\ LeaseStep
  BY ScoutNext
<1>2. WorkerOK'
  BY WorkerNext
<1>3. SupervisorOK' /\ SilentDecision'
  BY FlagsNext
<1>4. FilesOK'
  BY FilesNext
<1>5. Given'
  BY <1>1, GivenNext
<1>6. LeaseOK'
  BY <1>1, <1>2, LeaseNext
<1>7. VerdictOK' /\ Sole'
  BY <1>1, VerdictNext, SoleNext
<1> QED
  BY <1>1, <1>2, <1>3, <1>4, <1>5, <1>6, <1>7

(* The invariant the theorems below follow from.                           *)
THEOREM Inductive == Spec => []IInv
  BY InitIInv, StepIInv, PTL DEF Spec

LEMMA Types == IInv => RemoteTypeOK
<1> SUFFICES ASSUME IInv PROVE RemoteTypeOK
  OBVIOUS
<1>1. \A j \in Jobs : scout[j].fence \in 0..MaxFence
  BY DEF IInv, ScoutOK
<1>2. /\ trees \subseteq Claims
      /\ \A c \in Claims : results[c] # 0 => c \in trees
      /\ \A c \in Claims : asked[c] \subseteq Verdicts
  BY DEF IInv, FilesOK
<1> QED
  BY <1>1, <1>2 DEF IInv, WorkerOK, RemoteTypeOK

LEMMA AtMostOneTree == IInv => OneTree
<1> SUFFICES ASSUME IInv PROVE Cardinality(trees) <= 1
  BY DEF OneTree
<1>1. CASE trees = {}
  BY <1>1, FS_EmptySet
<1>2. ASSUME NEW c \in trees
      PROVE  Cardinality(trees) <= 1
  <2>1. trees = {c}
    BY <1>2 DEF IInv, FilesOK
  <2> QED
    BY <2>1, FS_Singleton
<1> QED
  BY <1>1, <1>2

(* Types, the supervisor's thread and a verdict only where _process_claim  *)
(* has them, and never more than one run tree on the disk, in whatever     *)
(* order leases, failures and kills arrive.                                *)
THEOREM OneRunTree == Spec => []RemoteInv
  BY Inductive, Types, AtMostOneTree, PTL DEF RemoteInv

(* stop_and_check: no terminal request while a heartbeat may be open, nor  *)
(* after the supervisor recorded a cancellation or a failure.              *)
THEOREM DecidesInSilence == Spec => []SilentDecision
<1>1. IInv => SilentDecision
  BY DEF IInv
<1> QED
  BY <1>1, Inductive, PTL

(* Once a completion was sent for a claim, no later delivery, restart or   *)
(* lost acknowledgement makes the worker ask for anything else, but a      *)
(* failure for a file of its own that it refuses: a claim given again      *)
(* finds the same result.json in its run tree.                             *)
THEOREM OneDecision == Spec => NoSecondDecision
<1>1. ASSUME IInv, [Next]_vars, NEW c \in Claims,
             NEW n \in 1..MaxRuns, Complete(n) \in asked[c]
      PROVE  asked'[c] \subseteq asked[c] \cup {Refuse}
  <2>1. CASE Send /\ c = claim
    <3>1. pc = "send" /\ asked' = [asked EXCEPT ![claim] = @ \cup {verdict}]
      BY <2>1 DEF Send
    <3>2. verdict \in {Refuse, Complete(n)}
      <4>1. CASE results[c] = n
        <5>1. results[claim] = n /\ n # 0
          BY <2>1, <4>1
        <5>2. VerdictOK
          BY <1>1 DEF IInv
        <5> QED
          BY <3>1, <5>1, <5>2 DEF VerdictOK
      <4>2. CASE Over(c)
        BY <2>1, <3>1, <4>2 DEF Over, Told
      <4> QED
        BY <1>1, <4>1, <4>2 DEF IInv, Sole
    <3> QED
      BY <1>1, <2>1, <3>1, <3>2 DEF IInv, FilesOK
  <2>2. CASE Send /\ c # claim
    BY <2>2 DEF Send, IInv, FilesOK
  <2> QED
    BY <1>1, <2>1, <2>2, Effects DEF IInv
<1>2. IInv /\ [Next]_vars =>
        [\A c \in Claims :
            (\E n \in 1..MaxRuns : Complete(n) \in asked[c])
                => asked'[c] \subseteq asked[c] \cup {Refuse}]_vars
  BY <1>1
<1> QED
  BY <1>2, Inductive, PTL DEF Spec, NoSecondDecision

(* Nothing this worker removes, by pruning, on a cancellation or after an  *)
(* acknowledgement, is a result that Scout may still ask this session for. *)
THEOREM ResultKept == Spec => ReplayKept
<1>1. ASSUME IInv, [Next]_vars, NEW c \in Claims, results[c] # 0, results'[c] = 0
      PROVE  ~Open(c)
  <2>1. ~(UNCHANGED local \/ OpenRun)
    BY <1>1 DEF local, OpenRun
  <2>2. ~WriteResult
    BY <1>1 DEF WriteResult, IInv, FilesOK
  <2> QED
    BY <1>1, <2>1, <2>2, Effects, RemoveMeans DEF IInv
<1>2. IInv /\ [Next]_vars =>
        [\A c \in Claims : results[c] # 0 /\ results'[c] = 0
            => c.job \notin Redeliverable \/ scout[c.job].fence # c.fence]_vars
  BY <1>1 DEF Open
<1> QED
  BY <1>2, Inductive, PTL DEF Spec, ReplayKept
=============================================================================
