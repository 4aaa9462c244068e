------------------------------ MODULE MCBridge ------------------------------
(***************************************************************************)
(* Small instances of Bridge for TLC: two mailboxes on two shards, each    *)
(* the primary of one and the replica of the other.                        *)
(***************************************************************************)
EXTENDS Bridge, TLC

CONSTANTS m1, m2, f1, f2, s1, s2

DestDef == (f1 :> m1) @@ (f2 :> m2)
HomeDef == (m1 :> << s1, s2 >>) @@ (m2 :> << s2, s1 >>)

=============================================================================
