---------------------------- MODULE MCEventStream ----------------------------
(* EventStream for TLC: what the dashboard says of its connection.          *)
EXTENDS EventStream
=============================================================================
