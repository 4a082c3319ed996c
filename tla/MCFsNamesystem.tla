--------------------------- MODULE MCFsNamesystem ---------------------------
(* A small instance of the name system and its image for TLC. *)
EXTENDS Namespace

MCPaths == {<<>>, <<"a">>, <<"a", "b">>}
MCToken == [p \in Paths |-> p]

Symmetry == Permutations(DataNodes) \cup Permutations(Blocks)
=============================================================================
