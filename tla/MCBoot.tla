------------------------------- MODULE MCBoot -------------------------------
(* Boot with a budget of two polls and one clock loss. *)
EXTENDS Boot
=============================================================================
