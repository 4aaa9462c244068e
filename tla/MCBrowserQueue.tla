--------------------------- MODULE MCBrowserQueue ---------------------------
(***************************************************************************)
(* A small instance of BrowserQueue for TLC: the order of the sizes and    *)
(* addresses is the module's.                                              *)
(***************************************************************************)
EXTENDS BrowserQueue, TLC

FrameSizes == {3, SafeSize, SafeSize + 1, Q - Base + 1, Cap - 1, Cap}

Symmetry == Permutations(Tags)

=============================================================================
