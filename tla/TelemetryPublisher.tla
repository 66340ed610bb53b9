------------------------ MODULE TelemetryPublisher ------------------------
(***************************************************************************)
(* The telemetry of RemoteWorker.serve: a publisher thread fetches a       *)
(* snapshot from Scout and replaces one local file, while the main thread  *)
(* changes the worker's state, stops the publisher on shutdown and then    *)
(* publishes "offline" itself.  Each fetch is a request of                 *)
(* RequestWatchdog.  The process may be killed at any moment and is        *)
(* started again; the file outlives it.                                    *)
(***************************************************************************)
EXTENDS RequestWatchdog

CONSTANTS MaxNow,     \* bound: the clock
          Skew,       \* TELEMETRY_FRESH_SECONDS, in ticks of the clock
          MaxLives,   \* bound: processes
          MaxRemoved  \* bound: times an operator deletes the file

ASSUME TelemetryAssumption ==
    MaxNow \in Nat \ {0} /\ MaxLives \in Nat \ {0} /\ MaxRemoved \in Nat /\ Skew \in Nat

VARIABLES now,      \* the clock
          life,     \* which process runs
          main,     \* the main thread: "work", "stopping", "join", "final" or "over"
          state,    \* _telemetry_state
          done,     \* the publisher's _done event
          holder,   \* who publishes and holds _telemetry_publish_lock
          step,     \* how far that publication has come
          got,      \* collected_at of the snapshot it fetched
          shown,    \* the state it is going to publish
          last,     \* _last_telemetry_at, 0 for None
          file,     \* the projection on disk
          high,     \* history: the newest timestamp this process published
          sealed,   \* history: this process's final publication is on disk
          removed   \* how often the file was deleted

process == <<main, state, done>>
publication == <<holder, step, got, shown>>
disk == <<file, high, sealed>>
vars == <<request, now, life, process, publication, last, disk, removed>>

States == {"idle", "running", "degraded", "offline"}

TelemetryTypeOK ==
    /\ RequestTypeOK
    /\ now \in 1..MaxNow /\ life \in 1..MaxLives /\ removed \in 0..MaxRemoved
    /\ main \in {"work", "stopping", "join", "final", "over"}
    /\ state \in States /\ shown \in States /\ done \in BOOLEAN /\ sealed \in BOOLEAN
    /\ holder \in {"nobody", "thread", "main"}
    /\ step \in {"none", "fetch", "state", "write", "sync"}
    /\ got \in 0..MaxNow /\ last \in 0..MaxNow /\ high \in 0..MaxNow
    /\ file \in [at : 0..MaxNow, state : States]

ProcessInit ==
    /\ main = "work" /\ state = "idle" /\ done = FALSE
    /\ holder = "nobody" /\ step = "none" /\ got = 0 /\ shown = "idle"
    /\ last = 0 /\ high = 0 /\ sealed = FALSE

Init ==
    /\ RequestInit /\ ProcessInit
    /\ now = 1 /\ life = 1 /\ removed = 0
    /\ file = [at |-> 0, state |-> "idle"]
-----------------------------------------------------------------------------
(* _publish_telemetry_once, by the thread or by the main thread.           *)
Begin(who) ==
    /\ holder = "nobody"
    /\ holder' = who /\ step' = "fetch"
    /\ BeginRequest(who = "thread" /\ done)
    /\ UNCHANGED <<now, life, process, got, shown, last, disk, removed>>

(* finally: the lock is released.  The main thread is then done.           *)
Release ==
    /\ holder' = "nobody" /\ step' = "none" /\ got' = 0 /\ shown' = "idle"
    /\ main' = IF holder = "main" THEN "over" ELSE main
    /\ UNCHANGED <<state, done>>

Fetching ==
    /\ step = "fetch" /\ RequestStep
    /\ UNCHANGED <<now, life, process, publication, last, disk, removed>>

(* parse_scout_telemetry accepts a snapshot around the worker's own clock; *)
(* Scout's instances need not agree on theirs.                             *)
FreshAt == {t \in 1..MaxNow : t + Skew >= now /\ t <= now + Skew}

(* The answer is parsed; a cancelled or an older one is dropped.           *)
Fetched ==
    /\ step = "fetch" /\ EndRequest
    /\ \/ /\ answer = "whole" /\ ~(holder = "thread" /\ done)
          /\ \E t \in FreshAt : t >= last /\ got' = t
          /\ step' = "state" /\ UNCHANGED <<holder, shown, process>>
       \/ /\ answer # "whole" \/ (holder = "thread" /\ done)
             \/ \E t \in FreshAt : t < last
          /\ Release
    /\ UNCHANGED <<now, life, last, disk, removed>>

ReadState ==
    /\ step = "state"
    /\ step' = "write" /\ shown' = state
    /\ UNCHANGED <<request, now, life, process, holder, got, last, disk, removed>>

(* Mutant: the watermark of the file on disk is not consulted.             *)
Stale_Ignored == FALSE

(* _read_existing_watermark: the file on disk is newer, whoever wrote it.  *)
Stale == file.at > got

Rejected ==
    /\ step = "write" /\ Stale
    /\ last' = IF file.at > last THEN file.at ELSE last
    /\ Release
    /\ UNCHANGED <<request, now, life, disk, removed>>

WriteFails ==
    /\ step = "write"
    /\ Release
    /\ UNCHANGED <<request, now, life, last, disk, removed>>

Replaces ==
    /\ step = "write" /\ ~Stale
    /\ step' = "sync"
    /\ file' = [at |-> got, state |-> shown] /\ high' = got
    /\ sealed' = (holder = "main")
    /\ UNCHANGED <<request, now, life, process, holder, got, shown, last, removed>>

(* After os.replace: durable and verified, or TelemetryCommitAmbiguousError. *)
Watermark(committed) == IF committed \/ got > last THEN got ELSE last

Synced ==
    /\ step = "sync"
    /\ \E committed \in BOOLEAN : last' = Watermark(committed)
    /\ Release
    /\ UNCHANGED <<request, now, life, disk, removed>>
-----------------------------------------------------------------------------
(* run_once ends in one of the states; a claim makes the worker running.   *)
SetState(s) ==
    /\ main = "work" /\ s # state /\ s # "offline"
    /\ state' = s
    /\ UNCHANGED <<request, now, life, main, done, publication, last, disk, removed>>

GoOffline ==
    /\ main = "work"
    /\ main' = "stopping" /\ state' = "offline"
    /\ UNCHANGED <<request, now, life, done, publication, last, disk, removed>>

(* publisher.stop(): the event cancels the thread's request.               *)
SetDone ==
    /\ main = "stopping"
    /\ main' = "join" /\ done' = TRUE
    /\ event' = (event \/ (holder = "thread" /\ step = "fetch"))
    /\ UNCHANGED <<stage, addr, held, dog, late, aborted, finished, shut, body, answer,
                   now, life, state, publication, last, disk, removed>>

Joined ==
    /\ main = "join" /\ holder # "thread"
    /\ main' = "final"
    /\ UNCHANGED <<request, now, life, state, done, publication, last, disk, removed>>

(* The thread is still alive after _TELEMETRY_REQUEST_TIMEOUT_SECONDS + 1:  *)
(* there is no final publication.                                          *)
JoinTimesOut ==
    /\ main = "join" /\ holder = "thread"
    /\ main' = "over"
    /\ UNCHANGED <<request, now, life, state, done, publication, last, disk, removed>>

(* No session, or an expired one.                                          *)
FinalSkipped ==
    /\ main = "final" /\ holder = "nobody"
    /\ main' = "over"
    /\ UNCHANGED <<request, now, life, state, done, publication, last, disk, removed>>

(* The process is killed, or has ended, and another is started.            *)
Restart ==
    /\ life < MaxLives
    /\ life' = life + 1
    /\ Gone({})
    /\ main' = "work" /\ state' = "idle" /\ done' = FALSE
    /\ holder' = "nobody" /\ step' = "none" /\ got' = 0 /\ shown' = "idle"
    /\ last' = 0 /\ high' = 0 /\ sealed' = FALSE
    /\ UNCHANGED <<now, file, removed>>

RemoveFile ==
    /\ file.at # 0 /\ removed < MaxRemoved
    /\ removed' = removed + 1 /\ file' = [file EXCEPT !.at = 0]
    /\ UNCHANGED <<request, now, life, process, publication, last, high, sealed>>

Tick ==
    /\ now < MaxNow
    /\ now' = now + 1
    /\ UNCHANGED <<request, life, process, publication, last, disk, removed>>
-----------------------------------------------------------------------------
ThreadBegins == ~done /\ Begin("thread")

FinalBegins == main = "final" /\ Begin("main")

Stop == SetDone \/ Joined \/ JoinTimesOut \/ FinalBegins

Write == ReadState \/ Rejected \/ Replaces \/ Synced

Next ==
    \/ ThreadBegins \/ Fetching \/ Fetched \/ Write \/ WriteFails
    \/ (\E s \in States : SetState(s)) \/ GoOffline \/ Stop \/ FinalSkipped
    \/ Restart \/ RemoveFile \/ Tick

(* Both threads and the watchdog are scheduled and time passes; nobody has *)
(* to start a publication, to stop the worker or to answer a request.      *)
Spec == /\ Init /\ [][Next]_vars
        /\ RequestFairness /\ WF_vars(Fetched) /\ WF_vars(Write) /\ WF_vars(Stop)
-----------------------------------------------------------------------------
Register == INSTANCE TelemetryRegister
    WITH MaxAt <- MaxNow, at <- file.at, state <- file.state

(* The file keeps the promise of TelemetryRegister: a late answer, another *)
(* of Scout's instances, an ambiguous commit or a restart never moves it   *)
(* back, and nothing replaces the final publication of a process.          *)
FilePromise == Register!Spec

(* The invariant of the publisher and its requests: types, no cut answer   *)
(* and nothing left of a request that is over (_request).                  *)
TelemetryInv == TelemetryTypeOK /\ NoTruncatedSuccess /\ NothingLeft

(* The worker stops although Scout may answer neither the request that the *)
(* stop interrupts nor the final one.                                      *)
StopEnds == main = "stopping" ~> main = "over" \/ main = "work"
=============================================================================
