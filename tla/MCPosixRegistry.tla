-------------------------- MODULE MCPosixRegistry --------------------------
(* PosixRegistry on small instances. *)
EXTENDS PosixRegistry, TLC

Symmetry == Permutations(Threads) \cup Permutations(Fds) \cup Permutations(Instances)
              \cup Permutations(Ports)
=============================================================================
