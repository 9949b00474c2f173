-------------------------- MODULE MCTelemetryQueries --------------------------
(* The payload timestamps of two records: of readings sent late, in the    *)
(* wrong order, and of a device that counts from its boot and then sends   *)
(* none.                                                                   *)
EXTENDS TelemetryQueries

MCStamps == {<<21, 9>>, <<9, 0>>}
=============================================================================
