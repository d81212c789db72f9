------------------------- MODULE MCMonitorWorkerLive -------------------------
(***************************************************************************)
(* The instance of MonitorWorkerLive for TLC, with MCMonitorWorker's       *)
(* networks and settings.                                                  *)
(***************************************************************************)
EXTENDS MCMonitorWorker, MonitorWorkerLive

=============================================================================
