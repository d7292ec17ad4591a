-------------------------- MODULE MCNetSyncCapture --------------------------
(* Two games; up to three events in each of two lives, asked for one at a   *)
(* time, of which a game keeps two.                                         *)
EXTENDS NetSyncCapture

MCPorts == {"p1", "p2"}

=============================================================================
