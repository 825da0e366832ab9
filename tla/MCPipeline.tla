------------------------------ MODULE MCPipeline ------------------------------
(* The configuration of Pipeline.cfg. *)
EXTENDS Pipeline

\* A human acts on the task, or the watchdog takes one of its jobs for lost.
HumanOrWatchdog == touches + slips <= 1

=============================================================================
