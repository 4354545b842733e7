-------------------------- MODULE MCEventPipeline --------------------------
(* The instance of EventPipeline that TLC checks.                          *)
EXTENDS EventPipeline
=============================================================================
