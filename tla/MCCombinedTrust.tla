-------------------------- MODULE MCCombinedTrust --------------------------
(***************************************************************************)
(* Small instances of CombinedTrust for TLC.                               *)
(***************************************************************************)
EXTENDS CombinedTrust

(***************************************************************************)
(* The state without what none of the properties can tell apart.  Of the   *)
(* history of a signed table, all that is ever asked is whether it lists a *)
(* key already gone; no guard looks at `gone' or `retired'.  So states     *)
(* with the same view have the same behaviours as far as the properties    *)
(* are concerned.                                                          *)
(***************************************************************************)
Judged(b) == << b.peer, b.self, b.self \in b.gone >>

Distinguished ==
  << own, made, peerKey, listed, pc, kind, held, crashes, retired,
     [t \in Tasks |-> IF pc[t] = "store" THEN Judged(draft[t]) ELSE draft[t]],
     [t \in Tasks |-> Judged(push[t])],
     [n \in Nodes |-> Judged(cache[n])] >>

=============================================================================
