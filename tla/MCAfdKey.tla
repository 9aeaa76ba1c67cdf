------------------------------ MODULE MCAfdKey ------------------------------
(* Three polls of one base socket, four handle values, every call may fail. *)
EXTENDS AfdKey
=============================================================================
