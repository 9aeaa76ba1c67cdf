-------------------------- MODULE MCPosixMetadata --------------------------
(* PosixMetadata on small instances. *)
EXTENDS PosixMetadata, TLC

CONSTANTS o1, o2, o3

(* Two of three open file descriptions have the same fingerprint. *)
MCFingerprint == (o1 :> "a") @@ (o2 :> "a") @@ (o3 :> "b")

Symmetry == Permutations(Fds) \cup Permutations(Data) \cup Permutations(Contexts)
=============================================================================
