-------------------------- MODULE MCShardIdentity --------------------------
(***************************************************************************)
(* Small instances of ShardIdentity for TLC.                               *)
(***************************************************************************)
EXTENDS ShardIdentity

=============================================================================
