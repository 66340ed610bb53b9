------------------------------ MODULE ChildRun ------------------------------
(***************************************************************************)
(* The evaluation of one admitted job by run_isolated_job of worker.py:    *)
(* a preflight child reports the benchmark's limits, an evaluation child   *)
(* the packet, and the parent bounds both by the job's deadline and by one *)
(* wall-time budget that starts at admission.  It ends with a committed    *)
(* receipt, with a result without one, or with an exception and neither.   *)
(* IsolatedWorker takes all of this for one step, and models what happens  *)
(* to receipt and result on the disk.                                      *)
(*                                                                         *)
(* Time is one clock, for the deadlines and for the timeouts: the wall     *)
(* clock is assumed not to be set back.                                    *)
(***************************************************************************)
EXTENDS Limits, Integers

CONSTANTS MaxNow,      \* bound: the clock
          JobLimits,   \* limits a job or a preflight packet may carry
          None         \* no such document, or no such moment

ASSUME ChildRunAssumption ==
    /\ MaxNow \in Nat
    /\ "wall_seconds" \in LimitNames
    /\ JobLimits \subseteq EffectiveLimits
    /\ None \notin Nat

VARIABLES now,        \* the clock
          job,        \* created_at, deadline and limits of the job
          pc,         \* where the parent is
          mode,       \* the child it deals with
          child,      \* what has become of each child
          limits,     \* the reduced ceilings in force
          started,    \* started_at of the invocation
          admitted,   \* admitted_monotonic
          until,      \* when the wait for the child times out
          packet,     \* the evaluation packet to be committed
          result,     \* the result document
          receipt,    \* the committed receipt
          told,       \* history: what the evaluation child reported
          heard       \* history: when the parent had heard it

parent == <<pc, mode, limits, started, admitted, until, packet>>
documents == <<result, receipt>>
history == <<told, heard>>
vars == <<now, job, parent, child, documents, history>>

Times == 0..MaxNow
Modes == {"preflight", "evaluate"}
NON_RECEIPT_EXECUTION_ERRORS == {"internal", "expired", "output", "protocol", "timeout"}
Retryable == NON_RECEIPT_EXECUTION_ERRORS \ {"expired"}
Codes == NON_RECEIPT_EXECUTION_ERRORS \cup {"data"}
(* What a child may leave behind instead of a packet: nothing or anything, *)
(* too much, or a packet with no timestamp in "started_at".                *)
Broken == {"garbage", "overlong", "undated"}
Jobs == {j \in [created : Times, deadline : Times, limits : JobLimits] :
             j.created <= j.deadline /\ j.deadline < MaxNow}
Packets == [started : Times, verdict : {"decided", "error"}, finished : Times]
Statuses == {"completed", "rejected", "cancelled", "expired"}

ASSUME NoneIsNoPacket == None \notin Packets

ChildRunTypeOK ==
    /\ now \in Times /\ job \in Jobs
    /\ pc \in {"load", "admit", "spawned", "waiting", "seal", "commit", "over"}
    /\ mode \in Modes
    /\ child \in [Modes -> {"none", "new", "working", "ok"} \cup Broken \cup Codes]
    /\ limits \in EffectiveLimits
    /\ started \in Times /\ admitted \in Times /\ until \in Nat
    /\ packet \in Packets \cup {None}
    /\ result \in [status : Statuses, started : Times, finished : Times,
                   retryable : BOOLEAN] \cup {None}
    /\ receipt \in Packets \cup {None}
    /\ told \in Codes \cup {"ok", "undated", None} /\ heard \in Times \cup {None}

Init ==
    /\ now = 0 /\ job \in Jobs
    /\ pc = "load" /\ mode = "preflight"
    /\ child = [m \in Modes |-> "none"]
    /\ limits = reduce_limits(job.limits)
    /\ started = 0 /\ admitted = 0 /\ until = 0
    /\ packet = None /\ result = None /\ receipt = None
    /\ told = None /\ heard = None
-----------------------------------------------------------------------------
Tick ==
    /\ now < MaxNow
    /\ now' = now + 1
    /\ UNCHANGED <<job, parent, child, documents, history>>

(* ensure_not_expired: JOB_NOT_YET_VALID or JOB_EXPIRED otherwise.         *)
Expired == now > job.deadline
InWindow == now >= job.created /\ ~Expired

Over == pc' = "over" /\ UNCHANGED <<mode, limits, started, admitted, until, packet>>

(* The outer handler: a result without a receipt.                          *)
Status(code) == IF Expired \/ code = "expired" THEN "expired"
                ELSE IF code \in {"timeout", "output"} THEN "cancelled" ELSE "rejected"

Rejected(code) ==
    [status |-> Status(code), started |-> started, finished |-> now,
     retryable |-> code \in Retryable]

Fails(code) ==
    /\ Over
    /\ result' = Rejected(code)
    /\ UNCHANGED receipt

(* started_at is taken before the lock and the admission check.            *)
Load ==
    /\ pc = "load"
    /\ pc' = "admit" /\ started' = now
    /\ UNCHANGED <<now, job, mode, limits, admitted, until, packet, child, documents, history>>

Spawn(m) == pc' = "spawned" /\ mode' = m

(* An expired or a future job is raised without a result.                  *)
Admit ==
    /\ pc = "admit"
    /\ IF InWindow
       THEN /\ Spawn("preflight") /\ child' = [child EXCEPT !["preflight"] = "new"]
            /\ admitted' = now /\ UNCHANGED <<limits, started, until, packet>>
       ELSE Over /\ UNCHANGED child
    /\ UNCHANGED <<now, job, documents, history>>

(* Mutant: every child has the whole wall-time budget for itself.          *)
WallLeft_PerChild == limits["wall_seconds"]

WallLeft == limits["wall_seconds"] - (now - admitted)

(* _remaining_timeout, evaluated after the child was spawned: when it      *)
(* raises, the child gets no snapshot and is neither awaited nor killed.   *)
SetTimeout ==
    /\ pc = "spawned"
    /\ \/ /\ now >= job.deadline
          /\ Fails("expired")
       \/ /\ now < job.deadline /\ WallLeft <= 0
          /\ Fails("timeout")
       \/ /\ now < job.deadline /\ WallLeft > 0
          /\ pc' = "waiting"
          /\ until' = now + IF job.deadline - now <= WallLeft
                            THEN job.deadline - now ELSE WallLeft
          /\ UNCHANGED <<mode, limits, started, admitted, packet, documents>>
    /\ UNCHANGED <<now, job, child, history>>
-----------------------------------------------------------------------------
(* The children.  One that has its snapshot checks the deadline at its     *)
(* start, and the evaluation again at its end; either may report an error, *)
(* die, write too much, or never come to an end.                           *)
ChildStarts ==
    /\ pc = "waiting" /\ child[mode] = "new"
    /\ child' = [child EXCEPT ![mode] = IF Expired THEN "expired" ELSE "working"]
    /\ UNCHANGED <<now, job, parent, documents, history>>

ChildSays(what) ==
    /\ child[mode] = "working"
    /\ what = "ok" /\ mode = "evaluate" => ~Expired
    /\ what = "expired" => Expired /\ mode = "evaluate"
    /\ child' = [child EXCEPT ![mode] = what]
    /\ UNCHANGED <<now, job, parent, documents, history>>

ChildBreaks(what) ==
    /\ child[mode] \in {"new", "working"} /\ pc = "waiting"
    /\ what = "undated" => mode = "evaluate"
    /\ child' = [child EXCEPT ![mode] = what]
    /\ UNCHANGED <<now, job, parent, documents, history>>

(* A child without a snapshot reads the end of its input and exits once    *)
(* the parent's exception has released its pipes.                          *)
AbandonedExits ==
    /\ pc = "over" /\ child[mode] = "new"
    /\ child' = [child EXCEPT ![mode] = "none"]
    /\ UNCHANGED <<now, job, parent, documents, history>>
-----------------------------------------------------------------------------
(* _packet_or_error and the checks after it: all that can be wrong with a  *)
(* packet is WORKER_PROTOCOL_INVALID, but for the text of its timestamp,   *)
(* which has the code of a timestamp anywhere, INVALID_TIMESTAMP.          *)
Code(what) == CASE what = "garbage"  -> "protocol"
                [] what = "overlong" -> "output"
                [] what = "undated"  -> "timestamp"
                [] OTHER             -> what

Gone == child' = [child EXCEPT ![mode] = "none"]

(* _run_preflight returns: the reported limits are reduced again.          *)
PreflightPasses ==
    /\ pc = "waiting" /\ mode = "preflight" /\ child[mode] = "ok" /\ now <= until
    /\ \E reported \in JobLimits : limits' = effective_limits(job.limits, reported)
    /\ Spawn("evaluate")
    /\ child' = [child EXCEPT !["preflight"] = "none", !["evaluate"] = "new"]
    /\ UNCHANGED <<now, job, started, admitted, until, packet, documents, history>>

PreflightFails ==
    /\ pc = "waiting" /\ mode = "preflight" /\ now <= until
    /\ child[mode] \in Codes \cup {"garbage", "overlong"}
    /\ Fails(Code(child[mode])) /\ Gone
    /\ UNCHANGED <<now, job, history>>

(* Mutant: a broken packet is taken for the evaluation's own failure.      *)
Terminal_Protocol(code) == code \notin NON_RECEIPT_EXECUTION_ERRORS \ {"protocol"}

(* The errors that become an ERROR receipt.                                *)
Terminal(code) == code \notin NON_RECEIPT_EXECUTION_ERRORS

Seals(p) ==
    /\ pc' = "seal" /\ packet' = p
    /\ UNCHANGED <<mode, limits, started, admitted, until, documents>>

(* _run_child returns or raises, and the inner handler.  The packet's own  *)
(* start is checked against the window of the job.                         *)
EvaluationEnds ==
    LET what == child["evaluate"] code == Code(what) IN
    /\ pc = "waiting" /\ mode = "evaluate" /\ now <= until
    /\ what \notin {"none", "new", "working"}
    /\ \/ /\ what = "ok"
          /\ \E t \in admitted..now :
                Seals([started |-> t, verdict |-> "decided", finished |-> 0])
       \/ /\ what # "ok" /\ Terminal(code)
          /\ Seals([started |-> started, verdict |-> "error", finished |-> 0])
       \/ /\ what # "ok" /\ ~Terminal(code)
          /\ Fails(code)
    /\ Gone
    /\ told' = (IF what \in {"garbage", "overlong"} THEN None ELSE what)
    /\ heard' = now
    /\ UNCHANGED <<now, job>>

(* Mutant: a child that times out is not killed.                           *)
Killed_Left == UNCHANGED child

(* killpg and wait.                                                        *)
Killed == Gone

(* Mutant: communicate() is called without a timeout.                      *)
TimesOut_NoTimeout == FALSE

TimesOut ==
    /\ pc = "waiting" /\ now > until
    /\ Fails("timeout") /\ Killed
    /\ UNCHANGED <<now, job, history>>
-----------------------------------------------------------------------------
(* The deadline is checked again, provenance and chain head are read, and  *)
(* the receipt is stamped.                                                 *)
Seal ==
    /\ pc = "seal"
    /\ IF InWindow
       THEN /\ pc' = "commit" /\ packet' = [packet EXCEPT !.finished = now]
            /\ UNCHANGED <<mode, limits, started, admitted, until, documents>>
       ELSE Fails("expired")
    /\ UNCHANGED <<now, job, child, history>>

(* ReceiptLog.commit with not_after, then the completed result.            *)
Commit ==
    /\ pc = "commit" /\ ~Expired
    /\ Over
    /\ receipt' = packet
    /\ result' = [status |-> "completed", started |-> packet.started,
                  finished |-> packet.finished, retryable |-> FALSE]
    /\ UNCHANGED <<now, job, child, history>>

CommitFails ==
    /\ pc = "commit"
    /\ Fails(IF Expired THEN "expired" ELSE "data")
    /\ UNCHANGED <<now, job, child, history>>
-----------------------------------------------------------------------------
Parent == \/ Load \/ Admit \/ SetTimeout \/ PreflightPasses \/ PreflightFails
          \/ EvaluationEnds \/ TimesOut \/ Seal \/ Commit \/ CommitFails

Next ==
    \/ Tick \/ Parent \/ ChildStarts \/ AbandonedExits
    \/ \E what \in {"ok"} \cup (Codes \ {"output", "protocol", "timeout"}) : ChildSays(what)
    \/ \E what \in Broken : ChildBreaks(what)

(* The parent runs and time passes; a child owes nothing.                  *)
Spec == Init /\ [][Next]_vars /\ WF_vars(Parent) /\ WF_vars(Tick)
-----------------------------------------------------------------------------
(* A receipt is only ever made from an evaluation that the parent had      *)
(* heard of within the deadline and within the wall time, since admission, *)
(* of the operator and of the job, both children together.                 *)
WithinCeilings ==
    receipt # None =>
        /\ heard <= job.deadline
        /\ heard - admitted <= Operator["wall_seconds"]
        /\ heard - admitted <= job.limits["wall_seconds"]

(* An ERROR receipt says that the evaluation itself failed: a preflight    *)
(* rejection, a timeout, a dead child or a broken packet never makes one,  *)
(* so that such a job can be run again.  The code has one exception: a     *)
(* packet that is right but for its timestamp.  And a decision is one that *)
(* the evaluation reported.                                                *)
ErrorIsEvaluations ==
    receipt # None =>
        told \in IF receipt.verdict = "error" THEN {"data", "undated"} ELSE {"ok"}

(* Mutant: a result without a receipt must also have met the deadline.     *)
validate_result_document_Strict(r) ==
    /\ r.started <= r.finished /\ r.started >= job.created
    /\ r.finished <= job.deadline

validate_result_document(r) ==
    /\ r.started <= r.finished /\ r.started >= job.created
    /\ r.status = "completed" => r.finished <= job.deadline

(* What a run writes as its immutable result is accepted when the job is   *)
(* replayed, unless the run was loaded before created_at and admitted      *)
(* after it: then the replay refuses every result but a decision, whose    *)
(* start is the child's.                                                   *)
ReplayAccepted ==
    result # None =>
        (validate_result_document(result) <=>
             \/ started >= job.created
             \/ receipt # None /\ receipt.verdict = "decided")

(* A run that is over leaves no child behind that was given the job.       *)
NoDeadWork == pc = "over" => \A m \in Modes : child[m] \in {"none", "new"}

(* The invariant of a run of the two children: types, and no work left     *)
(* (_communicate_child).                                                   *)
ChildRunInv == ChildRunTypeOK /\ NoDeadWork

(* A run ends although a child may hang for ever.                          *)
RunEnds == pc = "load" ~> pc = "over"
=============================================================================
