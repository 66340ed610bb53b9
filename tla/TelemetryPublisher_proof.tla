----------------------- MODULE TelemetryPublisher_proof ----------------------
(***************************************************************************)
(* Theorems about TelemetryPublisher: the invariant of its requests, and   *)
(* that the projection file implements TelemetryRegister, for any clock,   *)
(* skew, number of addresses, restarts and deletions.                      *)
(***************************************************************************)
EXTENDS TelemetryPublisher, TLAPS

(***************************************************************************)
(* The inductive invariant.  A request must be known well before it ends:  *)
(* what it holds at each stage, and that a transport is shut down only     *)
(* after aborted is set, so that the check after the read loop sees it.    *)
(***************************************************************************)
Transport == {"socket", "dup"}

Held ==
    /\ stage = "idle" => held = {} /\ ~dog
    /\ stage = "resolve" => held = {"resolver"}
    /\ stage = "dial" => held = {"candidate"}
    /\ stage \notin {"idle", "resolve", "dial"} => held \subseteq Transport

Aborts ==
    /\ shut => aborted
    /\ body = "cut" => aborted /\ stage \in {"check", "final"}

(* One publication at a time, which is the one request.                    *)
OnePublication ==
    /\ holder = "nobody" <=> step = "none"
    /\ stage # "idle" <=> step = "fetch"

(* The main thread publishes last, as "offline".                           *)
Last ==
    /\ main \in {"work", "stopping"} <=> ~done
    /\ main # "work" => state = "offline"
    /\ holder = "main" => main = "final"
    /\ main = "final" => holder # "thread"
    /\ holder = "main" /\ step = "write" => shown = "offline"
    /\ sealed => /\ done /\ holder # "thread"
                 /\ main = "over" \/ (holder = "main" /\ step = "sync")

(* What the process knows bounds what it has made visible.                 *)
Bound ==
    /\ step \in {"state", "write", "sync"} => got >= last /\ got > 0
    /\ step = "sync" => high = got
    /\ step # "sync" => high <= last

IInv == /\ TelemetryTypeOK /\ NoTruncatedSuccess /\ Held /\ Aborts /\ OnePublication
        /\ Last /\ Bound
-----------------------------------------------------------------------------
USE TelemetryAssumption, MaxAddrAssumption

(* The invariant of a request, its type split in two.                      *)
Flags ==
    /\ dog \in BOOLEAN /\ event \in BOOLEAN /\ late \in BOOLEAN
    /\ aborted \in BOOLEAN /\ finished \in BOOLEAN /\ shut \in BOOLEAN

Shape ==
    /\ stage \in Stages /\ addr \in 0..MaxAddr
    /\ held \subseteq {"resolver", "candidate", "socket", "dup"}
    /\ body \in {"none", "refused", "whole", "short", "cut"}
    /\ answer \in {"none", "unavailable", "refused", "whole", "short", "cut"}

RequestInv == Flags /\ Shape /\ NoTruncatedSuccess /\ Held /\ Aborts

LEMMA RequestStarts == RequestInit => RequestInv
<1> SUFFICES ASSUME RequestInit PROVE RequestInv
  OBVIOUS
<1> USE DEF RequestInit
<1>1. Flags
  BY DEF Flags
<1>2. Shape
  BY DEF Shape, Stages
<1>3. NoTruncatedSuccess /\ Held /\ Aborts
  BY DEF NoTruncatedSuccess, Held, Aborts
<1> QED
  BY <1>1, <1>2, <1>3 DEF RequestInv

(* A step of the request alone.                                            *)

LEMMA RequestKeeps ==
  ASSUME RequestInv, stage # "idle", RequestStep
  PROVE  RequestInv' /\ stage' # "idle"
<1> USE DEF RequestInv, Flags, Shape, Stages, NoTruncatedSuccess, Held, Aborts, Transport
<1>1. ASSUME NEW kept, kept \subseteq Transport, Raises(kept) PROVE RequestInv' /\ stage' # "idle"
  BY <1>1 DEF Raises, Ends, Overdue
<1>2. CASE ResolverAnswers
  BY <1>2 DEF ResolverAnswers
<1>3. CASE ResolverFails \/ ResolverOverdue
  BY <1>3, <1>1 DEF ResolverFails, ResolverOverdue
<1>4. CASE Connected
  BY <1>4, <1>1 DEF Connected, Moves
<1>5. CASE ConnectFails
  BY <1>5, <1>1 DEF ConnectFails
<1>6. CASE Handshaken \/ Sent
  <2> USE <1>6 DEF Handshaken, Sent, Moves
  <2>1. Flags'
    OBVIOUS
  <2>2. Shape' /\ stage' # "idle"
    OBVIOUS
  <2>3. NoTruncatedSuccess' /\ Held'
    OBVIOUS
  <2>4. Aborts'
    OBVIOUS
  <2> QED
    BY <2>1, <2>2, <2>3, <2>4
<1>7. CASE StageFails \/ StageShut
  BY <1>7, <1>1 DEF StageFails, StageShut
<1>8. ASSUME NEW status \in {"none", "refused"}, Answered(status)
      PROVE  RequestInv' /\ stage' # "idle"
  BY <1>8 DEF Answered
<1>9. ASSUME NEW how \in {"whole", "short", "cut"}, BodyEnds(how)
      PROVE  RequestInv' /\ stage' # "idle"
  BY <1>9 DEF BodyEnds
<1>10. CASE BodyChecked
  BY <1>10, <1>1 DEF BodyChecked, Ends, Overdue
<1>11. CASE WatchdogActs
  <2> USE <1>11 DEF WatchdogActs, DogAborts, DogShuts, DogEnds, Caller
  <2>1. Flags'
    OBVIOUS
  <2>2. Shape' /\ stage' # "idle"
    OBVIOUS
  <2>3. NoTruncatedSuccess' /\ Held'
    OBVIOUS
  <2>4. Aborts'
    OBVIOUS
  <2> QED
    BY <2>1, <2>2, <2>3, <2>4
<1>12. CASE DeadlinePasses
  BY <1>12 DEF DeadlinePasses
<1> QED
  BY <1>2, <1>3, <1>4, <1>5, <1>6, <1>7, <1>8, <1>9, <1>10, <1>11, <1>12
  DEF RequestStep, PeerActs, RequestActs

LEMMA RequestBegins ==
  ASSUME RequestInv, NEW cancelled \in BOOLEAN, BeginRequest(cancelled)
  PROVE  RequestInv' /\ stage' # "idle"
<1> USE DEF BeginRequest
<1>1. Flags'
  BY DEF Flags
<1>2. Shape' /\ stage' # "idle"
  BY DEF Shape, Stages
<1>3. NoTruncatedSuccess' /\ Held' /\ Aborts'
  BY DEF NoTruncatedSuccess, Held, Aborts
<1> QED
  BY <1>1, <1>2, <1>3 DEF RequestInv

LEMMA RequestEnded ==
  ASSUME RequestInv, EndRequest \/ Gone({})
  PROVE  RequestInv' /\ stage' = "idle"
<1>1. Gone({})
  <2>1. CASE EndRequest
    <3>1. held \ {"socket", "dup"} = {}
      BY <2>1 DEF EndRequest, RequestInv, Held, Transport
    <3> QED
      BY <2>1, <3>1 DEF EndRequest
  <2> QED
    BY <2>1
<1>2. Flags'
  BY <1>1 DEF Gone, Flags
<1>3. Shape' /\ stage' = "idle"
  BY <1>1 DEF Gone, Shape, Stages
<1>4. NoTruncatedSuccess' /\ Held' /\ Aborts'
  BY <1>1 DEF Gone, NoTruncatedSuccess, Held, Aborts
<1> QED
  BY <1>2, <1>3, <1>4 DEF RequestInv

LEMMA RequestSame ==
  ASSUME RequestInv, UNCHANGED request
  PROVE  RequestInv' /\ stage' = stage
  BY DEF request, RequestInv, Flags, Shape, Stages, NoTruncatedSuccess, Held, Aborts, Transport

(* The rest of the invariant.                                              *)
PublisherTypeOK ==
    /\ now \in 1..MaxNow /\ life \in 1..MaxLives /\ removed \in 0..MaxRemoved
    /\ main \in {"work", "stopping", "join", "final", "over"}
    /\ state \in States /\ shown \in States /\ done \in BOOLEAN /\ sealed \in BOOLEAN
    /\ holder \in {"nobody", "thread", "main"}
    /\ step \in {"none", "fetch", "state", "write", "sync"}
    /\ got \in 0..MaxNow /\ last \in 0..MaxNow /\ high \in 0..MaxNow
    /\ file \in [at : 0..MaxNow, state : States]

PublisherInv == PublisherTypeOK /\ OnePublication /\ Last /\ Bound

LEMMA Parts == IInv <=> RequestInv /\ PublisherInv
  BY DEF IInv, RequestInv, RequestTypeOK, Flags, Shape, PublisherInv, PublisherTypeOK,
         TelemetryTypeOK

LEMMA PartsNext == IInv' <=> RequestInv' /\ PublisherInv'
  BY DEF IInv, RequestInv, RequestTypeOK, Flags, Shape, PublisherInv, PublisherTypeOK,
         TelemetryTypeOK

LEMMA InitIInv == Init => IInv
<1> SUFFICES ASSUME Init PROVE RequestInv /\ PublisherInv
  BY Parts
<1>1. RequestInv
  BY RequestStarts DEF Init
<1> USE DEF Init, ProcessInit
<1>2. PublisherTypeOK
  <2>1. done \in BOOLEAN /\ sealed \in BOOLEAN
    OBVIOUS
  <2>2. now \in 1..MaxNow /\ life \in 1..MaxLives /\ removed \in 0..MaxRemoved
    OBVIOUS
  <2>3. file \in [at : 0..MaxNow, state : States] /\ state \in States /\ shown \in States
    BY DEF States
  <2> QED
    BY <2>1, <2>2, <2>3 DEF PublisherTypeOK
<1>3. OnePublication
  BY DEF OnePublication, RequestInit
<1>4. Last
  BY DEF Last
<1>5. Bound
  BY DEF Bound
<1> QED
  BY <1>1, <1>2, <1>3, <1>4, <1>5 DEF PublisherInv

LEMMA NextIInv == IInv /\ [Next]_vars => IInv'
<1> SUFFICES ASSUME RequestInv, PublisherInv, [Next]_vars PROVE RequestInv' /\ PublisherInv'
  BY Parts, PartsNext
<1> USE DEF PublisherInv, PublisherTypeOK, OnePublication, Last, Bound, States, process,
            publication, disk
<1>1. ASSUME NEW who \in {"thread", "main"}, Begin(who), who = "thread" => ~done,
             who = "main" => main = "final"
      PROVE  RequestInv' /\ PublisherInv'
  <2>1. RequestInv' /\ stage' # "idle"
    BY <1>1, RequestBegins DEF Begin
  <2> QED
    BY <1>1, <2>1 DEF Begin
<1>2. CASE Fetching
  <2>1. RequestInv' /\ stage' # "idle"
    BY <1>2, RequestKeeps DEF Fetching
  <2> QED
    BY <1>2, <2>1 DEF Fetching
<1>3. CASE Fetched
  <2>1. RequestInv' /\ stage' = "idle"
    BY <1>3, RequestEnded DEF Fetched
  <2>2. CASE Release
    BY <1>3, <2>1, <2>2 DEF Fetched, Release
  <2>3. CASE ~Release
    <3>1. PICK t \in FreshAt : t >= last /\ got' = t
      BY <1>3, <2>3 DEF Fetched
    <3>2. t \in 1..MaxNow
      BY DEF FreshAt
    <3> QED
      BY <1>3, <2>1, <2>3, <3>1, <3>2 DEF Fetched
  <2> QED
    BY <2>2, <2>3
<1>4. CASE ReadState \/ Rejected \/ WriteFails \/ Replaces \/ Synced
  <2>1. RequestInv' /\ stage' = stage
    BY <1>4, RequestSame DEF ReadState, Rejected, WriteFails, Replaces, Synced
  <2>2. CASE ReadState
    BY <2>1, <2>2 DEF ReadState
  <2>3. CASE Rejected
    BY <2>1, <2>3 DEF Rejected, Release
  <2>4. CASE WriteFails
    BY <2>1, <2>4 DEF WriteFails, Release
  <2>5. CASE Replaces
    BY <2>1, <2>5 DEF Replaces
  <2>6. CASE Synced
    <3>1. last' = got
      BY <2>6 DEF Synced, Watermark
    <3> QED
      BY <2>1, <2>6, <3>1 DEF Synced, Release
  <2> QED
    BY <1>4, <2>2, <2>3, <2>4, <2>5, <2>6
<1>5. CASE (\E s \in States : SetState(s)) \/ GoOffline \/ Joined \/ JoinTimesOut
           \/ FinalSkipped \/ RemoveFile \/ Tick
  <2>1. RequestInv' /\ stage' = stage
    BY <1>5, RequestSame
    DEF SetState, GoOffline, Joined, JoinTimesOut, FinalSkipped, RemoveFile, Tick
  <2> QED
    BY <1>5, <2>1 DEF SetState, GoOffline, Joined, JoinTimesOut, FinalSkipped, RemoveFile, Tick
<1>6. CASE SetDone
  <2>1. RequestInv' /\ stage' = stage
    BY <1>6 DEF SetDone, RequestInv, Flags, Shape, Stages, NoTruncatedSuccess, Held, Aborts
  <2> QED
    BY <1>6, <2>1 DEF SetDone
<1>7. CASE Restart
  <2>1. RequestInv' /\ stage' = "idle"
    BY <1>7, RequestEnded DEF Restart
  <2>2. PublisherTypeOK'
    <3>1. done' \in BOOLEAN /\ sealed' \in BOOLEAN
      BY <1>7 DEF Restart
    <3>2. now' \in 1..MaxNow /\ life' \in 1..MaxLives /\ removed' \in 0..MaxRemoved
      BY <1>7 DEF Restart
    <3> QED
      BY <1>7, <3>1, <3>2 DEF Restart
  <2>3. OnePublication'
    BY <1>7, <2>1 DEF Restart
  <2>4. Last'
    BY <1>7 DEF Restart
  <2>5. Bound'
    BY <1>7 DEF Restart
  <2> QED
    BY <2>1, <2>2, <2>3, <2>4, <2>5
<1>8. CASE UNCHANGED vars
  <2>1. RequestInv' /\ stage' = stage
    BY <1>8, RequestSame DEF vars
  <2> QED
    BY <1>8, <2>1 DEF vars
<1> QED
  BY <1>1, <1>2, <1>3, <1>4, <1>5, <1>6, <1>7, <1>8
  DEF Next, ThreadBegins, FinalBegins, Stop, Write

LEMMA Inductive == Spec => []IInv
  BY InitIInv, NextIInv, PTL DEF Spec
-----------------------------------------------------------------------------
(* Whatever the peer does and whenever the deadline passes, a request      *)
(* never answers with a body the watchdog cut, and when it is over it has  *)
(* left no descriptor, process or thread (_request).                       *)
THEOREM RequestsClean == Spec => []TelemetryInv
<1>1. IInv => TelemetryInv
  BY DEF IInv, TelemetryInv, Held, NothingLeft
<1> QED
  BY <1>1, Inductive, PTL

(* The projection file implements the register: it never goes back behind  *)
(* what is visible nor behind what this process published, and nothing     *)
(* follows the final publication of a process (_publish_telemetry_once).   *)
THEOREM FileKeepsPromise == Spec => FilePromise
<1>1. Init => Register!Init
  BY DEF Init, ProcessInit, Register!Init
<1>2. ASSUME IInv, [Next]_vars PROVE [Register!Next]_<<file.at, file.state, high, sealed>>
  <2>1. PublisherInv
    BY <1>2, Parts
  <2>2. CASE Replaces
    <3>1. got \in 1..MaxNow /\ shown \in States /\ got >= file.at /\ got >= high
      BY <2>1, <2>2 DEF Replaces, Stale, PublisherInv, PublisherTypeOK, Bound
    <3>2. ~sealed /\ (holder = "main" => shown = "offline")
      BY <2>1, <2>2 DEF Replaces, PublisherInv, PublisherTypeOK, Last, OnePublication
    <3>3. file'.at = got /\ file'.state = shown /\ high' = got /\ sealed' = (holder = "main")
      BY <2>2 DEF Replaces
    <3>4. sealed' \in {FALSE, shown = "offline"}
      BY <3>2, <3>3
    <3> QED
      BY <3>1, <3>2, <3>3, <3>4 DEF Register!Next, Register!Publish
  <2>3. CASE Restart
    BY <2>3 DEF Restart, Register!Next, Register!Restart
  <2>4. CASE RemoveFile
    BY <2>1, <2>4 DEF RemoveFile, PublisherInv, PublisherTypeOK, Register!Next, Register!Remove
  <2>5. CASE ~Replaces /\ ~Restart /\ ~RemoveFile
    <3>1. UNCHANGED <<file, high, sealed>>
      BY <1>2, <2>5
      DEF Next, vars, disk, ThreadBegins, FinalBegins, Begin, Fetching, Fetched, Write, WriteFails,
          ReadState, Rejected, Synced, SetState, GoOffline, Stop, SetDone, Joined, JoinTimesOut,
          FinalSkipped, Tick
    <3> QED
      BY <3>1
  <2> QED
    BY <2>2, <2>3, <2>4, <2>5
<1> QED
  BY <1>1, <1>2, Inductive, PTL DEF Spec, FilePromise, Register!Spec
=============================================================================
