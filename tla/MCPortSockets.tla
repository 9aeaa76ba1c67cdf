--------------------------- MODULE MCPortSockets ---------------------------
(* Small instances of PortSockets for TLC. *)
EXTENDS PortSockets, TLC

CONSTANTS f1, f2

(* Every flag on every descriptor, or one level-triggered and one          *)
(* edge-triggered descriptor.                                              *)
AllModes == [f \in Fds |-> {{}, {"ONESHOT"}, {"ET"}}]
MixedModes == (f1 :> {{}}) @@ (f2 :> {{"ET"}})

Symmetry == Permutations(Socks)
=============================================================================
