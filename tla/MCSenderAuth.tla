---------------------------- MODULE MCSenderAuth ----------------------------
(***************************************************************************)
(* Small instances of SenderAuth for TLC.                                  *)
(***************************************************************************)
EXTENDS SenderAuth, TLC

AttemptSymmetry == Permutations(Attempts)

=============================================================================
