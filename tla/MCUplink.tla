------------------------------ MODULE MCUplink ------------------------------
(* Two networks the router can be on, and the home channel. *)
EXTENDS Uplink

CONSTANTS n1, n2

=============================================================================
