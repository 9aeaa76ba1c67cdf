---------------------------- MODULE MCReadyNodes ----------------------------
(* Two producers, and a pool of two nodes that can grow to three. *)
EXTENDS ReadyNodes
=============================================================================
