--------------------------- MODULE MCLocalDiscovery ---------------------------
(* Instances of LocalDiscovery for TLC. *)
EXTENDS LocalDiscovery, TLC

CONSTANTS a, b

MCKey == a :> 1 @@ b :> 2

\* Both dial; the server of one of them stops and starts.
MCDials == a :> 1 @@ b :> 1
MCStops == a :> 0 @@ b :> 1
=============================================================================
