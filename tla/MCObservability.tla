-------------------------- MODULE MCObservability --------------------------
(* Instances of Observability, and with it of RequestPipeline, for TLC.    *)
EXTENDS Observability

CONSTANTS r1, r2
=============================================================================
