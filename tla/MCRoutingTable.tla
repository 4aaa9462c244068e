--------------------------- MODULE MCRoutingTable ---------------------------
(***************************************************************************)
(* Small instances of RoutingTable (and ShardRegistry) for TLC.            *)
(***************************************************************************)
EXTENDS RoutingTable

CONSTANTS a, s

StaticDef == << s >>

=============================================================================
