------------------------- MODULE MCExclusiveClaims -------------------------
(* Small instances of ExclusiveClaims for TLC. *)
EXTENDS ExclusiveClaims, TLC

Symmetry == Permutations(Bases)
=============================================================================
