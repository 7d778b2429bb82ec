------------------------------- MODULE MCDemo ------------------------------
(* The demo with three tokens to draw from, of which one is the consumer's  *)
(* own: each forwarder may draw the consumer's token or the other's.        *)
EXTENDS Demo

MCNames == {"i1", "ri1", "ri2"}
MCPrefixOf == {<<n, n>> : n \in MCNames}
MCNextHops == [n \in MCNames |-> IF n = "i1" THEN <<"m">> ELSE << >>]
=============================================================================
