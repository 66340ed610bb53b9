------------------------ MODULE TelemetryRegister ------------------------
(***************************************************************************)
(* What a reader of telemetry_file is promised: one snapshot at a time,    *)
(* whose timestamp never moves back behind the visible one nor behind what *)
(* the running process has published, and which, once a process has        *)
(* published its final "offline", does not change until another process    *)
(* starts.  An operator may delete the file.                               *)
(***************************************************************************)
EXTENDS Naturals

CONSTANTS States,   \* the states a projection can show
          MaxAt     \* bound: the last timestamp

VARIABLES at,       \* timestamp of the visible snapshot, 0 when there is no file
          state,    \* the state it shows
          high,     \* the newest timestamp this process has published
          sealed    \* this process has published its final snapshot

Init == at = 0 /\ state = "idle" /\ high = 0 /\ sealed = FALSE

Publish ==
    /\ ~sealed
    /\ \E t \in 1..MaxAt, s \in States :
          /\ t >= at /\ t >= high
          /\ at' = t /\ high' = t /\ state' = s
          /\ sealed' \in {FALSE, s = "offline"}

Remove == at' = 0 /\ UNCHANGED <<state, high, sealed>>

Restart == high' = 0 /\ sealed' = FALSE /\ UNCHANGED <<at, state>>

Next == Publish \/ Remove \/ Restart

Spec == Init /\ [][Next]_<<at, state, high, sealed>>
=============================================================================
