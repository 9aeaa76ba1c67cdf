--------------------------- MODULE MCPortTeardown ---------------------------
(* Two ports that compete for one reaper. *)
EXTENDS PortTeardown
=============================================================================
