----------------------------- MODULE MCGateway -----------------------------
(* Gateway and its log with the bounds given in the configurations.        *)
EXTENDS GatewayLog

\* Every restart needs a signal of its own: with as many signals as this the
\* last run is never restarted, and the bound on the runs never blocks.
ASSUME RunsSuffice == MaxSignals < MaxRuns

=============================================================================
