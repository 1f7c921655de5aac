----------------------------- MODULE MCTelemetry -----------------------------
EXTENDS Telemetry, TLC

\* The application configures the first type only.
ConfigFirst == 1 :> 1
=============================================================================
