--------------------------- MODULE MCRemoteWorker ---------------------------
(* Instances of RemoteWorker for TLC.                                      *)
EXTENDS RemoteWorker, TLC

CONSTANTS j1, j2

OneBad == {j2}
=============================================================================
