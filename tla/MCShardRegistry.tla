-------------------------- MODULE MCShardRegistry --------------------------
(***************************************************************************)
(* Small instances of ShardRegistry for TLC.                               *)
(***************************************************************************)
EXTENDS ShardRegistry

Symmetry == Permutations(Urls) \cup Permutations(Keys)
             \cup Permutations(Tasks)

=============================================================================
