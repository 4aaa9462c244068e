--------------------------- MODULE MCShardMailbox ---------------------------
(***************************************************************************)
(* Small instances of ShardMailbox for TLC.                                *)
(***************************************************************************)
EXTENDS CombinedMailbox, TLC

OneList     == {Shards}          \* every /create names all the shards

RequestSymmetry == Permutations(Requests)

=============================================================================
