---------------------------- MODULE MCEventStream ----------------------------
(* Small instances of EventStream.                                         *)
EXTENDS EventStream

CONSTANTS n1, n2, k1
=============================================================================
