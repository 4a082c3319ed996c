---------------------------- MODULE MCRpcServer -----------------------------
(* Small instances of RpcServer for TLC. *)
EXTENDS RpcServer, TLC

Symmetry == Permutations(Workers) \cup Permutations(Conns)
=============================================================================
