------------------------ MODULE MCTelemetryPublisher ------------------------
(* Instances of TelemetryPublisher for TLC.                                *)
EXTENDS TelemetryPublisher, TLC
=============================================================================
