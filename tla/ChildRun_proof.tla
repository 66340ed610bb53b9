--------------------------- MODULE ChildRun_proof ---------------------------
(***************************************************************************)
(* Theorems about ChildRun and Limits, for any names and values of limits, *)
(* any windows of jobs and any clock.                                      *)
(***************************************************************************)
EXTENDS ChildRun, TLAPS

(* The lesser of two limits is their greatest lower bound, field by field. *)
LEMMA LesserLimits ==
  ASSUME NEW a \in EffectiveLimits, NEW b \in EffectiveLimits
  PROVE  /\ Lesser(a, b) \in EffectiveLimits
         /\ AtMost(Lesser(a, b), a) /\ AtMost(Lesser(a, b), b)
         /\ \A l \in EffectiveLimits : AtMost(l, a) /\ AtMost(l, b) => AtMost(l, Lesser(a, b))
<1> DEFINE m == Lesser(a, b)
<1>1. \A n \in LimitNames : a[n] \in Nat /\ b[n] \in Nat /\ a[n] >= Minimum[n] /\ b[n] >= Minimum[n]
  BY DEF EffectiveLimits
<1>2. \A n \in LimitNames : m[n] = IF a[n] <= b[n] THEN a[n] ELSE b[n]
  BY DEF Lesser
<1>3. m \in [LimitNames -> Nat]
  BY <1>1 DEF Lesser
<1>4. m \in EffectiveLimits
  BY <1>1, <1>2, <1>3 DEF EffectiveLimits
<1>5. AtMost(m, a) /\ AtMost(m, b)
  BY <1>1, <1>2 DEF AtMost
<1>6. ASSUME NEW l \in EffectiveLimits, AtMost(l, a), AtMost(l, b) PROVE AtMost(l, m)
  BY <1>2, <1>6 DEF AtMost
<1> QED
  BY <1>4, <1>5, <1>6

LEMMA AtMostTransitive ==
  ASSUME NEW a \in EffectiveLimits, NEW b \in EffectiveLimits, NEW c \in EffectiveLimits,
         AtMost(a, b), AtMost(b, c)
  PROVE  AtMost(a, c)
<1> SUFFICES ASSUME NEW n \in LimitNames PROVE a[n] <= c[n]
  BY DEF AtMost
<1>1. a[n] \in Nat /\ b[n] \in Nat /\ c[n] \in Nat
  BY DEF EffectiveLimits
<1>2. a[n] <= b[n] /\ b[n] <= c[n]
  BY DEF AtMost
<1> QED
  BY <1>1, <1>2

LEMMA ReducedJobLimits ==
  ASSUME NEW l \in EffectiveLimits
  PROVE  /\ reduce_limits(l) \in EffectiveLimits
         /\ AtMost(reduce_limits(l), Operator) /\ AtMost(reduce_limits(l), l)
  BY LimitsAssumption, LesserLimits DEF reduce_limits

(* The reduced ceilings are the greatest that stay below the operator's,   *)
(* a job's and a benchmark's, in every field (limits.py).                  *)
THEOREM ReducedLimits ==
  ASSUME NEW j \in EffectiveLimits, NEW b \in EffectiveLimits
  PROVE  /\ effective_limits(j, b) \in EffectiveLimits
         /\ AtMost(effective_limits(j, b), Operator)
         /\ AtMost(effective_limits(j, b), j) /\ AtMost(effective_limits(j, b), b)
         /\ \A l \in EffectiveLimits :
               AtMost(l, Operator) /\ AtMost(l, j) /\ AtMost(l, b)
                  => AtMost(l, effective_limits(j, b))
<1> DEFINE r == reduce_limits(j) e == effective_limits(j, b)
<1>1. /\ r \in EffectiveLimits /\ AtMost(r, Operator) /\ AtMost(r, j)
  BY ReducedJobLimits
<1>2. \A l \in EffectiveLimits : AtMost(l, Operator) /\ AtMost(l, j) => AtMost(l, r)
  BY LimitsAssumption, LesserLimits DEF reduce_limits
<1>3. /\ e \in EffectiveLimits /\ AtMost(e, r) /\ AtMost(e, b)
      /\ \A l \in EffectiveLimits : AtMost(l, r) /\ AtMost(l, b) => AtMost(l, e)
  BY <1>1, LesserLimits DEF effective_limits
<1>4. AtMost(e, Operator) /\ AtMost(e, j)
  BY <1>1, <1>3, LimitsAssumption, AtMostTransitive
<1> QED
  BY <1>2, <1>3, <1>4

(* The wall time of reduced limits, which is all a run uses of them.       *)
LEMMA WallTyped ==
  ASSUME NEW l \in EffectiveLimits
  PROVE  l["wall_seconds"] \in Nat
  BY ChildRunAssumption DEF EffectiveLimits

LEMMA WallAtMost ==
  ASSUME NEW a, NEW b, AtMost(a, b)
  PROVE  a["wall_seconds"] <= b["wall_seconds"]
  BY ChildRunAssumption DEF AtMost
-----------------------------------------------------------------------------
(* The moments of a run come in order, and no wait is longer than what the *)
(* deadline and the budget since admission leave.                          *)
Moments ==
    /\ started <= now
    /\ pc \notin {"load", "admit", "over"} => admitted \in job.created..now
    /\ pc = "waiting" => /\ until <= job.deadline
                         /\ until - admitted <= limits["wall_seconds"]

Ceilings == AtMost(limits, Operator) /\ AtMost(limits, job.limits)

(* What a packet on its way to its receipt is known to be.                 *)
InTime ==
    /\ heard \in Times /\ heard <= job.deadline
    /\ heard - admitted <= Operator["wall_seconds"]
    /\ heard - admitted <= job.limits["wall_seconds"]

Truthful(p) == told \in IF p.verdict = "error" THEN {"data", "undated"} ELSE {"ok"}

(* Whether its start is one that the replay accepts.                       *)
Timely(p) == p.started >= job.created <=> started >= job.created \/ p.verdict = "decided"

Sealing ==
    pc \in {"seal", "commit"} =>
        /\ packet \in Packets /\ InTime /\ Truthful(packet)
        /\ packet.started <= now /\ Timely(packet)

Stamped ==
    pc = "commit" => /\ packet.started <= packet.finished
                     /\ packet.finished <= job.deadline

Sealed == receipt # None => InTime /\ Truthful(receipt)

(* Only one child exists, and it works only while it is waited for.        *)
OneChild ==
    /\ \A m \in Modes \ {mode} : child[m] = "none"
    /\ pc \in {"load", "admit", "seal", "commit"} => child[mode] = "none"
    /\ pc \in {"spawned", "over"} => child[mode] \in {"none", "new"}

Unfinished == pc # "over" => result = None /\ receipt = None

IInv == /\ ChildRunTypeOK /\ Moments /\ Ceilings /\ Sealing /\ Stamped /\ Sealed
        /\ OneChild /\ Unfinished /\ ReplayAccepted
-----------------------------------------------------------------------------
USE ChildRunAssumption DEF Times, Modes

LEMMA JobTyped ==
  ASSUME job \in Jobs
  PROVE  /\ job.created \in Times /\ job.deadline \in Times
         /\ job.limits \in EffectiveLimits
  BY DEF Jobs

LEMMA InitIInv == Init => IInv
<1> SUFFICES ASSUME Init PROVE IInv
  OBVIOUS
<1>1. job.limits \in EffectiveLimits
  BY JobTyped DEF Init
<1>2. Ceilings /\ limits \in EffectiveLimits
  BY <1>1, ReducedJobLimits DEF Init, Ceilings
<1>3. ChildRunTypeOK
  BY <1>2 DEF Init, ChildRunTypeOK
<1> QED
  BY <1>2, <1>3 DEF Init, IInv, Moments, Sealing, Stamped, Sealed, OneChild, Unfinished,
                    ReplayAccepted

(* Each action preserves the invariant: first the types, then the rest.    *)
LEMMA TickStep == IInv /\ Tick => IInv'
<1> SUFFICES ASSUME IInv, Tick PROVE IInv'
  OBVIOUS
<1> USE DEF Tick, parent, documents, history
<1>1. now \in Nat /\ now' = now + 1 /\ now' \in Times
  BY DEF IInv, ChildRunTypeOK
<1>2. ChildRunTypeOK'
  BY <1>1 DEF IInv, ChildRunTypeOK
<1>3. Moments'
  BY <1>1, JobTyped DEF IInv, ChildRunTypeOK, Moments
<1>4. Sealing'
  BY <1>1 DEF IInv, ChildRunTypeOK, Sealing, InTime, Truthful, Timely, Packets
<1> QED
  BY <1>2, <1>3, <1>4
  DEF IInv, Ceilings, Stamped, Sealed, InTime, Truthful, Timely, OneChild, Unfinished, ReplayAccepted,
      validate_result_document

LEMMA LoadStep == IInv /\ Load => IInv'
  BY DEF IInv, Load, documents, history, ChildRunTypeOK, Moments, Ceilings, Sealing, Stamped,
         Sealed, InTime, Truthful, Timely, OneChild, Unfinished, ReplayAccepted

(* A result without a receipt is one that the replay accepts.              *)
LEMMA RejectedAccepted ==
  ASSUME IInv, NEW code \in Codes
  PROVE  /\ Rejected(code) \in [status : Statuses, started : Times, finished : Times,
                               retryable : BOOLEAN]
         /\ validate_result_document(Rejected(code)) <=> started >= job.created
  BY JobTyped DEF IInv, ChildRunTypeOK, Moments, Rejected, Status, Statuses, Retryable,
     NON_RECEIPT_EXECUTION_ERRORS, Codes, validate_result_document

(* Every way a run fails ends it with such a result.                       *)
LEMMA FailsStep ==
  ASSUME IInv, NEW code \in Codes, Fails(code), pc \in {"spawned", "waiting", "seal", "commit"},
         UNCHANGED <<now, job>>,
         child' \in {child, [child EXCEPT ![mode] = "none"]},
         pc = "waiting" => child' = [child EXCEPT ![mode] = "none"],
         told' \in Codes \cup {"ok", "undated", None}, heard' \in Times \cup {None}
  PROVE  IInv'
<1> USE DEF Fails, Over
<1>1. /\ Rejected(code) \in [status : Statuses, started : Times, finished : Times,
                               retryable : BOOLEAN]
      /\ validate_result_document(Rejected(code)) <=> started >= job.created
  BY RejectedAccepted
<1>2. receipt = None /\ receipt' = None
  BY DEF IInv, Unfinished
<1>3. ChildRunTypeOK'
  BY <1>1, <1>2 DEF IInv, ChildRunTypeOK
<1>4. OneChild'
  BY DEF IInv, ChildRunTypeOK, OneChild
<1>5. ReplayAccepted'
  BY <1>1, <1>2 DEF ReplayAccepted, validate_result_document
<1> QED
  BY <1>2, <1>3, <1>4, <1>5
  DEF IInv, Moments, Ceilings, Sealing, Stamped, Sealed, Unfinished

LEMMA AdmitStep == IInv /\ Admit => IInv'
<1> SUFFICES ASSUME IInv, Admit PROVE IInv'
  OBVIOUS
<1>1. CASE InWindow
  BY <1>1, JobTyped
  DEF IInv, Admit, Spawn, InWindow, Expired, documents, history, ChildRunTypeOK, Moments, Ceilings,
      Sealing, Stamped, Sealed, OneChild, Unfinished, ReplayAccepted
<1>2. CASE ~InWindow
  BY <1>2
  DEF IInv, Admit, Over, documents, history, ChildRunTypeOK, Moments, Ceilings, Sealing, Stamped,
      Sealed, InTime, Truthful, Timely, OneChild, Unfinished, ReplayAccepted
<1> QED
  BY <1>1, <1>2

LEMMA SetTimeoutStep == IInv /\ SetTimeout => IInv'
<1> SUFFICES ASSUME IInv, SetTimeout PROVE IInv'
  OBVIOUS
<1>1. pc = "spawned" /\ UNCHANGED <<now, job, child, told, heard>>
  BY DEF SetTimeout, history
<1>2. ASSUME NEW code \in {"expired", "timeout"}, Fails(code) PROVE IInv'
  BY <1>1, <1>2, FailsStep DEF IInv, ChildRunTypeOK, Codes, NON_RECEIPT_EXECUTION_ERRORS
<1>3. CASE /\ now < job.deadline /\ WallLeft > 0
           /\ pc' = "waiting"
           /\ until' = now + IF job.deadline - now <= WallLeft
                             THEN job.deadline - now ELSE WallLeft
           /\ UNCHANGED <<mode, limits, started, admitted, packet, documents>>
  <2>1. limits["wall_seconds"] \in Nat /\ now \in Nat /\ admitted \in Nat /\ job.deadline \in Nat
    BY WallTyped, JobTyped DEF IInv, ChildRunTypeOK
  <2>2. /\ until' \in Nat /\ until' <= job.deadline
        /\ until' - admitted <= limits["wall_seconds"]
    BY <1>3, <2>1 DEF WallLeft
  <2> QED
    BY <1>1, <1>3, <2>2
    DEF IInv, documents, ChildRunTypeOK, Moments, Ceilings, Sealing, Stamped, Sealed, InTime,
        Truthful, Timely, OneChild, Unfinished, ReplayAccepted, validate_result_document
<1> QED
  BY <1>2, <1>3 DEF SetTimeout

(* A child acts only while it is waited for, or after the run is over.     *)
LEMMA ChildStep ==
  ASSUME IInv, UNCHANGED <<now, job, parent, documents, history>>,
         \/ /\ pc = "waiting" \/ child[mode] = "working"
            /\ \E what \in {"expired", "working", "ok"} \cup Broken \cup Codes :
                  child' = [child EXCEPT ![mode] = what]
         \/ AbandonedExits
  PROVE  IInv'
<1>1. ChildRunTypeOK'
  BY DEF IInv, parent, documents, history, ChildRunTypeOK, AbandonedExits, Codes,
         NON_RECEIPT_EXECUTION_ERRORS
<1>2. OneChild'
  BY DEF IInv, parent, ChildRunTypeOK, OneChild, AbandonedExits
<1> QED
  BY <1>1, <1>2
  DEF IInv, parent, documents, history, Moments, Ceilings, Sealing, Stamped, Sealed, InTime,
      Truthful, Timely, Unfinished, ReplayAccepted, validate_result_document

LEMMA PreflightPassesStep == IInv /\ PreflightPasses => IInv'
<1> SUFFICES ASSUME IInv, PreflightPasses PROVE IInv'
  OBVIOUS
<1> USE DEF PreflightPasses, Spawn, documents, history
<1>1. PICK reported \in JobLimits : limits' = effective_limits(job.limits, reported)
  OBVIOUS
<1>2. limits' \in EffectiveLimits /\ Ceilings'
  BY <1>1, JobTyped, ReducedLimits DEF IInv, ChildRunTypeOK, Ceilings
<1>3. ChildRunTypeOK'
  BY <1>2 DEF IInv, ChildRunTypeOK
<1>4. OneChild'
  BY DEF IInv, ChildRunTypeOK, OneChild
<1> QED
  BY <1>2, <1>3, <1>4
  DEF IInv, Moments, Sealing, Stamped, Sealed, InTime, Truthful, Timely, Unfinished, ReplayAccepted,
      validate_result_document

LEMMA PreflightFailsStep == IInv /\ PreflightFails => IInv'
<1> SUFFICES ASSUME IInv, PreflightFails PROVE IInv'
  OBVIOUS
<1>1. Code(child[mode]) \in Codes
  BY DEF PreflightFails, Code, Codes, NON_RECEIPT_EXECUTION_ERRORS
<1> QED
  BY <1>1, FailsStep DEF PreflightFails, Gone, history, IInv, ChildRunTypeOK

LEMMA TimesOutStep == IInv /\ TimesOut => IInv'
  BY FailsStep DEF TimesOut, Killed, Gone, history, IInv, ChildRunTypeOK, Codes,
     NON_RECEIPT_EXECUTION_ERRORS

(* The packet of an evaluation: heard in time, and what it says.           *)
LEMMA SealsStep ==
  ASSUME IInv, EvaluationEnds, NEW p \in Packets, Seals(p), UNCHANGED receipt,
         told' \in IF p.verdict = "error" THEN {"data", "undated"} ELSE {"ok"},
         p.started <= now, Timely(p)
  PROVE  IInv'
<1> USE DEF EvaluationEnds, Seals, documents
<1>1. /\ now \in Nat /\ until \in Nat /\ admitted \in Nat /\ job.deadline \in Nat
      /\ limits["wall_seconds"] \in Nat /\ Operator["wall_seconds"] \in Nat
      /\ job.limits["wall_seconds"] \in Nat
  BY WallTyped, JobTyped, LimitsAssumption DEF IInv, ChildRunTypeOK
<1>2. /\ limits["wall_seconds"] <= Operator["wall_seconds"]
      /\ limits["wall_seconds"] <= job.limits["wall_seconds"]
  BY WallAtMost DEF IInv, Ceilings
<1>3. until <= job.deadline /\ until - admitted <= limits["wall_seconds"] /\ now <= until
  BY DEF IInv, Moments
<1>4. /\ heard' = now /\ now \in Times
      /\ now <= job.deadline /\ now - admitted <= Operator["wall_seconds"]
      /\ now - admitted <= job.limits["wall_seconds"]
  BY <1>1, <1>2, <1>3 DEF IInv, ChildRunTypeOK
<1>5. InTime'
  BY <1>4 DEF InTime
<1>6. ChildRunTypeOK'
  BY <1>4 DEF IInv, ChildRunTypeOK, Packets, Gone, Codes, NON_RECEIPT_EXECUTION_ERRORS
<1>7. OneChild'
  BY DEF IInv, ChildRunTypeOK, OneChild, Gone
<1> QED
  BY <1>5, <1>6, <1>7
  DEF IInv, Moments, Ceilings, Sealing, Truthful, Timely, Stamped, Sealed, Unfinished, ReplayAccepted,
      validate_result_document

LEMMA EvaluationEndsStep == IInv /\ EvaluationEnds => IInv'
<1> SUFFICES ASSUME IInv, EvaluationEnds PROVE IInv'
  OBVIOUS
<1> DEFINE what == child["evaluate"] code == Code(what)
<1>1. /\ pc = "waiting" /\ mode = "evaluate" /\ UNCHANGED <<now, job>>
      /\ what \in {"ok"} \cup Broken \cup Codes
      /\ child' = [child EXCEPT ![mode] = "none"]
      /\ told' = (IF what \in {"garbage", "overlong"} THEN None ELSE what)
      /\ told' \in Codes \cup {"ok", "undated", None} /\ heard' \in Times
  BY DEF EvaluationEnds, Gone, IInv, ChildRunTypeOK, Broken
<1>2. ASSUME what = "ok", NEW t \in admitted..now,
             Seals([started |-> t, verdict |-> "decided", finished |-> 0])
      PROVE  IInv'
  <2> DEFINE p == [started |-> t, verdict |-> "decided", finished |-> 0]
  <2>1. /\ admitted \in job.created..now /\ job.created \in Nat /\ now \in Times
        /\ admitted \in Times
    BY <1>1, JobTyped DEF IInv, Moments, ChildRunTypeOK
  <2>2. p \in Packets /\ p.started <= now /\ Timely(p)
    BY <2>1 DEF Packets, Timely
  <2>3. UNCHANGED receipt
    BY <1>2 DEF Seals, documents
  <2> QED
    BY <1>1, <1>2, <2>2, <2>3, SealsStep
<1>3. ASSUME what # "ok", Terminal(code),
             Seals([started |-> started, verdict |-> "error", finished |-> 0])
      PROVE  IInv'
  <2> DEFINE p == [started |-> started, verdict |-> "error", finished |-> 0]
  <2>1. what \in {"data", "undated"}
    BY <1>1, <1>3 DEF Terminal, Code, Codes, Broken, NON_RECEIPT_EXECUTION_ERRORS
  <2>2. p \in Packets /\ p.started <= now /\ Timely(p)
    BY DEF IInv, ChildRunTypeOK, Moments, Packets, Timely
  <2>3. UNCHANGED receipt
    BY <1>3 DEF Seals, documents
  <2> QED
    BY <1>1, <1>3, <2>1, <2>2, <2>3, SealsStep
<1>4. ASSUME what # "ok", ~Terminal(code), Fails(code) PROVE IInv'
  <2>1. code \in Codes
    BY <1>4 DEF Terminal, Codes
  <2> QED
    BY <1>1, <1>4, <2>1, FailsStep
<1> QED
  BY <1>2, <1>3, <1>4 DEF EvaluationEnds

LEMMA SealStep == IInv /\ Seal => IInv'
<1> SUFFICES ASSUME IInv, Seal PROVE IInv'
  OBVIOUS
<1>1. CASE InWindow
  <2>1. /\ pc' = "commit" /\ packet' = [packet EXCEPT !.finished = now]
        /\ UNCHANGED <<now, job, mode, child, limits, started, admitted, until, result, receipt,
                       told, heard>>
    BY <1>1 DEF Seal, documents, history
  <2>2. packet \in Packets /\ now \in Times /\ now <= job.deadline
    BY <1>1, JobTyped DEF Seal, IInv, Sealing, ChildRunTypeOK, InWindow, Expired
  <2>3. /\ packet' \in Packets /\ packet'.started = packet.started
        /\ packet'.verdict = packet.verdict /\ packet'.finished = now
    BY <2>1, <2>2 DEF Packets
  <2>4. ChildRunTypeOK' /\ Sealing' /\ Stamped'
    BY <2>1, <2>2, <2>3
    DEF Seal, IInv, ChildRunTypeOK, Sealing, InTime, Truthful, Timely, Stamped
  <2> QED
    BY <2>1, <2>4
    DEF Seal, IInv, Moments, Ceilings, Sealed, InTime, Truthful, Timely, OneChild, Unfinished,
        ReplayAccepted, validate_result_document
<1>2. CASE ~InWindow
  BY <1>2, FailsStep DEF Seal, history, IInv, ChildRunTypeOK, Codes, NON_RECEIPT_EXECUTION_ERRORS
<1> QED
  BY <1>1, <1>2

LEMMA CommitStep == IInv /\ Commit => IInv'
<1> SUFFICES ASSUME IInv, Commit PROVE IInv'
  OBVIOUS
<1> USE DEF Commit, Over, history
<1>1. /\ packet \in Packets /\ receipt' = packet
      /\ Timely(packet)
      /\ packet.started <= packet.finished /\ packet.finished <= job.deadline
  BY DEF IInv, Sealing, Stamped
<1>2. /\ result' \in [status : Statuses, started : Times, finished : Times, retryable : BOOLEAN]
      /\ result'.started = packet.started /\ result'.finished = packet.finished
  BY <1>1 DEF Packets, Statuses
<1>3. ChildRunTypeOK'
  BY <1>1, <1>2 DEF IInv, ChildRunTypeOK
<1>4. Sealed'
  BY <1>1 DEF IInv, Sealing, Sealed, InTime, Truthful, Timely
<1>5. ReplayAccepted'
  BY <1>1, <1>2, NoneIsNoPacket DEF ReplayAccepted, validate_result_document, Timely
<1> QED
  BY <1>3, <1>4, <1>5 DEF IInv, Moments, Ceilings, Sealing, Stamped, OneChild, Unfinished

LEMMA CommitFailsStep == IInv /\ CommitFails => IInv'
  BY FailsStep DEF CommitFails, history, IInv, ChildRunTypeOK, Codes, NON_RECEIPT_EXECUTION_ERRORS

LEMMA StutterStep == IInv /\ UNCHANGED vars => IInv'
  BY DEF IInv, vars, parent, documents, history, ChildRunTypeOK, Moments, Ceilings, Sealing,
         Stamped, Sealed, InTime, Truthful, Timely, OneChild, Unfinished, ReplayAccepted,
         validate_result_document

LEMMA NextIInv == IInv /\ [Next]_vars => IInv'
<1> SUFFICES ASSUME IInv, Next PROVE IInv'
  BY StutterStep
<1>1. CASE Parent
  BY <1>1, LoadStep, AdmitStep, SetTimeoutStep, PreflightPassesStep, PreflightFailsStep,
     EvaluationEndsStep, TimesOutStep, SealStep, CommitStep, CommitFailsStep DEF Parent
<1>2. CASE ChildStarts
  BY <1>2, ChildStep DEF ChildStarts
<1>3. CASE AbandonedExits
  BY <1>3, ChildStep DEF AbandonedExits
<1>4. ASSUME NEW what \in {"ok"} \cup (Codes \ {"output", "protocol", "timeout"}), ChildSays(what)
      PROVE  IInv'
  BY <1>4, ChildStep DEF ChildSays
<1>5. ASSUME NEW what \in Broken, ChildBreaks(what) PROVE IInv'
  BY <1>5, ChildStep DEF ChildBreaks
<1> QED
  BY <1>1, <1>2, <1>3, <1>4, <1>5, TickStep DEF Next

LEMMA Inductive == Spec => []IInv
  BY InitIInv, NextIInv, PTL DEF Spec
-----------------------------------------------------------------------------
(* A receipt comes from an evaluation heard of within the deadline and the *)
(* shared wall time, whatever the limits of operator, job and benchmark    *)
(* (_remaining_timeout, reduce_limits).                                    *)
THEOREM ReceiptsWithinCeilings == Spec => []WithinCeilings
<1>1. IInv => WithinCeilings
  BY DEF IInv, Sealed, InTime, WithinCeilings
<1> QED
  BY <1>1, Inductive, PTL

(* Only a failure that the evaluation itself reports, or a packet without  *)
(* a timestamp, becomes an ERROR receipt (_packet_or_error,                *)
(* _terminal_error_packet).                                                *)
THEOREM ErrorsAreEvaluations == Spec => []ErrorIsEvaluations
<1>1. IInv => ErrorIsEvaluations
  BY DEF IInv, Sealed, Truthful, ErrorIsEvaluations
<1> QED
  BY <1>1, Inductive, PTL

(* The replay of a job accepts what its run has written exactly when the   *)
(* run was loaded in the window of the job or the child took a decision,   *)
(* with one clock that is never set back (validate_result_document).       *)
THEOREM ReplaysAccept == Spec => []ReplayAccepted
<1>1. IInv => ReplayAccepted
  BY DEF IInv
<1> QED
  BY <1>1, Inductive, PTL

(* Every variable of a run keeps its type, and no child that was given the *)
(* job outlives its run (_communicate_child).                              *)
THEOREM NoWorkLeft == Spec => []ChildRunInv
<1>1. IInv => ChildRunInv
  BY DEF IInv, OneChild, NoDeadWork, ChildRunInv
<1> QED
  BY <1>1, Inductive, PTL
=============================================================================
