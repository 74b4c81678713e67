------------------------------ MODULE MCBoard ------------------------------
(* Board and its Clocks handle, with a budget of three polls per handshake. *)
EXTENDS Clock
=============================================================================
