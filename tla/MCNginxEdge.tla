---------------------------- MODULE MCNginxEdge ----------------------------
(* Small instances of NginxEdge: a connection slot that is used twice and  *)
(* the slot of a listening socket.                                         *)
EXTENDS NginxEdge

CONSTANTS conn, listener

MCMaxReuse == [c \in Conns |-> IF c = conn THEN 2 ELSE 1]
=============================================================================
