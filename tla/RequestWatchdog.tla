-------------------------- MODULE RequestWatchdog --------------------------
(***************************************************************************)
(* One HTTPS request of ScoutWorkerClient._request with a hard deadline,   *)
(* and the watchdog thread that enforces it.  The peer answers whenever it *)
(* likes, or never: a socket timeout starts again with every byte, so only *)
(* the connection attempts are bounded by their own timeout and every      *)
(* later stage ends by the peer, or because the watchdog shut the          *)
(* transport down.                                                         *)
(***************************************************************************)
EXTENDS Naturals

CONSTANT MaxAddr   \* addresses the resolver may return

ASSUME MaxAddrAssumption == MaxAddr \in Nat \ {0}

VARIABLES stage,     \* where the requesting thread is
          addr,      \* the address being dialled
          held,      \* resolver process and descriptors the request holds
          dog,       \* the watchdog thread runs
          event,     \* the caller's cancel_event is set
          late,      \* the hard deadline has passed
          aborted, finished,  \* the two events of the request
          shut,      \* the transport has been shut down by the watchdog
          body,      \* the body: none yet, of a refusal, or how it ended
          answer     \* what the request returned or raised

request == <<stage, addr, held, dog, event, late, aborted, finished, shut, body, answer>>

Stages == {"idle", "resolve", "dial", "handshake", "send", "wait", "read", "check",
           "final"}

RequestTypeOK ==
    /\ stage \in Stages
    /\ addr \in 0..MaxAddr
    /\ held \subseteq {"resolver", "candidate", "socket", "dup"}
    /\ dog \in BOOLEAN /\ event \in BOOLEAN /\ late \in BOOLEAN
    /\ aborted \in BOOLEAN /\ finished \in BOOLEAN /\ shut \in BOOLEAN
    /\ body \in {"none", "refused", "whole", "short", "cut"}
    /\ answer \in {"none", "unavailable", "refused", "whole", "short", "cut"}

RequestInit ==
    /\ stage = "idle" /\ addr = 0 /\ held = {} /\ dog = FALSE
    /\ event = FALSE /\ late = FALSE /\ aborted = FALSE /\ finished = FALSE
    /\ shut = FALSE /\ body = "none" /\ answer = "none"
-----------------------------------------------------------------------------
(* What check_active() tests; it sets aborted and raises if this holds.    *)
Overdue == aborted \/ event \/ late

(* The request ends, by an exception or a return: finally, finished is set. *)
Ends(a) == stage' = "final" /\ finished' = TRUE /\ answer' = a

(* Raised inside _request: TimeoutError, OSError or HTTPException.         *)
Raises(kept) ==
    /\ Ends("unavailable") /\ held' = kept
    /\ aborted' = (aborted \/ Overdue)
    /\ UNCHANGED <<addr, dog, event, late, shut, body>>

(* On to the next stage, past the check_active() that guards it.           *)
Moves(next) ==
    /\ ~Overdue /\ stage' = next
    /\ UNCHANGED <<addr, dog, event, late, aborted, finished, shut, body, answer>>

(* The caller's part: a fresh set of events, the watchdog, the resolver.   *)
BeginRequest(cancelled) ==
    /\ stage = "idle"
    /\ stage' = "resolve" /\ held' = {"resolver"} /\ dog' = TRUE
    /\ event' = cancelled /\ late' = FALSE /\ aborted' = FALSE /\ finished' = FALSE
    /\ shut' = FALSE /\ body' = "none" /\ answer' = "none" /\ addr' = 0

(* The resolver process answers, fails, or is polled past the deadline.    *)
(* finally: it is terminated or killed, and its pipe closed.               *)
ResolverAnswers ==
    /\ stage = "resolve"
    /\ ~Overdue /\ stage' = "dial" /\ held' = {"candidate"} /\ addr' = 1
    /\ UNCHANGED <<dog, event, late, aborted, finished, shut, body, answer>>

ResolverFails == stage = "resolve" /\ ~Overdue /\ Raises({})

ResolverOverdue == stage = "resolve" /\ Overdue /\ Raises({})

(* connect() succeeds: check_active(), then the duplicate descriptor.  A   *)
(* late success closes the candidate and is raised, not retried.           *)
Connected ==
    /\ stage = "dial"
    /\ IF Overdue THEN Raises({}) ELSE held' = {"socket", "dup"} /\ Moves("handshake")

(* Mutant: a failed candidate socket is dropped without being closed.      *)
ConnectFails_Leaks ==
    /\ stage = "dial"
    /\ IF Overdue \/ addr = MaxAddr THEN Raises({"candidate"})
       ELSE addr' = addr + 1 /\ UNCHANGED <<stage, held, dog, event, late, aborted,
                                            finished, shut, body, answer>>

(* connect() fails or its share of the deadline runs out: the candidate is *)
(* closed and the next address tried while the request is active.          *)
ConnectFails ==
    /\ stage = "dial"
    /\ IF Overdue \/ addr = MaxAddr THEN Raises({})
       ELSE addr' = addr + 1 /\ UNCHANGED <<stage, held, dog, event, late, aborted,
                                            finished, shut, body, answer>>

(* The TLS handshake, the request and the status line: each waits for the  *)
(* peer.  A failed handshake closes the socket; the duplicate stays.  No   *)
(* check_active() comes between the handshake and the sending.             *)
Handshaken ==
    /\ stage = "handshake" /\ ~shut
    /\ stage' = "send"
    /\ UNCHANGED <<addr, held, dog, event, late, aborted, finished, shut, body, answer>>

Sent == stage = "send" /\ ~shut /\ Moves("wait") /\ UNCHANGED held

(* A status outside the expected ones is raised once its body is drained.  *)
Answered(status) ==
    /\ stage = "wait" /\ ~shut /\ ~Overdue
    /\ stage' = "read" /\ body' = status
    /\ UNCHANGED <<addr, held, dog, event, late, aborted, finished, shut, answer>>

(* The connection breaks, or check_active() raises once the stage is over. *)
StageFails == stage \in {"handshake", "send", "wait", "read"} /\ Raises(held)

(* A shut transport fails the stage at once, except that a read returns    *)
(* the end of the stream, as it does when the peer closes early.           *)
StageShut == stage \in {"handshake", "send", "wait"} /\ shut /\ Raises(held)

BodyEnds(how) ==
    /\ stage = "read" /\ (how = "cut") = shut
    /\ stage' = "check" /\ body' = IF body = "refused" THEN body ELSE how
    /\ UNCHANGED <<addr, held, dog, event, late, aborted, finished, shut, answer>>

(* Mutant: the read loop is not followed by check_active().                *)
BodyChecked_Unchecked ==
    /\ stage = "check" /\ Ends(body)
    /\ UNCHANGED <<addr, held, dog, event, late, aborted, shut, body>>

(* The check_active() after the read loop, then the return.                *)
BodyChecked ==
    /\ stage = "check"
    /\ IF Overdue THEN Raises(held)
       ELSE Ends(body) /\ UNCHANGED <<addr, held, dog, event, late, aborted, shut, body>>
-----------------------------------------------------------------------------
(* watch_request: aborted is set before anything is shut down.             *)
Caller == <<stage, addr, held, event, late, body, answer>>

(* Mutant: the watchdog only watches the cancel event.                     *)
DogAborts_CancelOnly ==
    /\ dog /\ ~finished /\ ~aborted /\ event
    /\ aborted' = TRUE
    /\ UNCHANGED <<Caller, dog, finished, shut>>

DogAborts ==
    /\ dog /\ ~finished /\ ~aborted /\ (event \/ late)
    /\ aborted' = TRUE
    /\ UNCHANGED <<Caller, dog, finished, shut>>

(* abort_socket: while TLS wraps the socket, and while a response that     *)
(* closes the connection is read, only the duplicate reaches the           *)
(* transport.  Shutting an unconnected candidate has no effect to rely on. *)
Reached == "dup" \in held \/ stage \in {"send", "wait"}

DogShuts ==
    /\ dog /\ ~finished /\ aborted /\ ~shut
    /\ Reached /\ shut' = TRUE
    /\ UNCHANGED <<Caller, dog, aborted, finished>>

DogEnds ==
    /\ dog /\ finished
    /\ dog' = FALSE
    /\ UNCHANGED <<Caller, aborted, finished, shut>>

(* Time passes, and the caller's event is set by somebody else.            *)
DeadlinePasses ==
    /\ stage \notin {"idle", "final"} /\ ~late
    /\ late' = TRUE
    /\ UNCHANGED <<stage, addr, held, dog, event, aborted, finished, shut, body, answer>>

(* A request that is gone, and the events and threads that go with it.     *)
Gone(leaked) ==
    /\ stage' = "idle" /\ addr' = 0 /\ held' = leaked /\ dog' = FALSE
    /\ event' = FALSE /\ late' = FALSE /\ aborted' = FALSE /\ finished' = FALSE
    /\ shut' = FALSE /\ body' = "none" /\ answer' = "none"

(* finally: the watchdog is joined, then response, connection and          *)
(* duplicate are closed.  A candidate that never became the connection's   *)
(* socket is not among them.                                               *)
EndRequest ==
    /\ stage = "final" /\ ~dog
    /\ Gone(held \ {"socket", "dup"})
-----------------------------------------------------------------------------
PeerActs ==
    \/ ResolverAnswers \/ ResolverFails \/ Connected
    \/ Handshaken \/ Sent \/ StageFails
    \/ \E status \in {"none", "refused"} : Answered(status)
    \/ \E how \in {"whole", "short"} : BodyEnds(how)

RequestActs == ResolverOverdue \/ ConnectFails \/ StageShut \/ BodyEnds("cut") \/ BodyChecked

WatchdogActs == DogAborts \/ DogShuts \/ DogEnds

RequestStep == PeerActs \/ RequestActs \/ WatchdogActs \/ DeadlinePasses

(* The peer owes nothing.  Local steps, the watchdog and the clock go on.  *)
RequestFairness ==
    /\ WF_request(RequestActs) /\ WF_request(WatchdogActs) /\ WF_request(DeadlinePasses)
-----------------------------------------------------------------------------
(* A request never returns a body that the watchdog cut short: reading     *)
(* from the shut transport looks like the end of the stream, and only the  *)
(* check after the read loop tells it from a whole body.                   *)
NoTruncatedSuccess == answer # "cut"

(* When a request is over, nothing of it is left: no watchdog thread, no   *)
(* resolver process, no descriptor, whichever address or stage failed.     *)
NothingLeft == stage = "idle" => held = {} /\ ~dog
=============================================================================
