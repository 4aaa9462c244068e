---------------------------- MODULE MCPlacement ----------------------------
(***************************************************************************)
(* Small instances of Placement for TLC.  With at most three shards, only  *)
(* the hash point modulo six matters.                                      *)
(***************************************************************************)
EXTENDS CombinedPlacement, TLC

AllPoints == 0 .. 5

Symmetry == Permutations(Requests)

=============================================================================
