----------------------------- MODULE ReadyFifo -----------------------------
(***************************************************************************)
(* What the ready queue promises: nodes come out in the order in which     *)
(* they were pushed, each exactly once, and none is left behind while the  *)
(* consumer keeps draining.                                                *)
(***************************************************************************)
EXTENDS Sequences, SequencesExt

CONSTANTS Nodes, None

VARIABLES
    fifo,   \* the queued nodes, oldest first
    out     \* the node the last successful pop returned

fvars == <<fifo, out>>

Init == fifo = <<>> /\ out = None

Push == \E n \in Nodes \ ToSet(fifo) : fifo' = Append(fifo, n) /\ out' = out

Pop == fifo # <<>> /\ out' = Head(fifo) /\ fifo' = Tail(fifo)

Next == Push \/ Pop

(* Draining never stops while a node is queued. *)
Spec == Init /\ [][Next]_fvars /\ WF_fvars(Pop)
=============================================================================
