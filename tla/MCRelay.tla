------------------------------ MODULE MCRelay ------------------------------
(* Instances of Relay for TLC. *)
EXTENDS Relay

CONSTANTS e1, e2, c1, j1, j2
=============================================================================
