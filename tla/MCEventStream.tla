---------------------------- MODULE MCEventStream ----------------------------
(* EventStream with a list shorter than the run.  One client is enough: the *)
(* publisher does not read what clients do, and no client reads another's   *)
(* state, so a second one would only multiply the interleavings.            *)
EXTENDS EventStream

CONSTANT ann

MCClients == {ann}
=============================================================================
