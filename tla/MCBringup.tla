----------------------------- MODULE MCBringup -----------------------------
(* Bringup with a tick of a microsecond and all intervals scaled down, their *)
(* order and the ratios the checks rest on kept.                             *)
EXTENDS Bringup
=============================================================================
