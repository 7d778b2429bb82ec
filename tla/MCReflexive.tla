---------------------------- MODULE MCReflexive ----------------------------
(* Small instances of Forwarder around one reflexive exchange: consumers    *)
(* behind faces "c" and "d" send I1 = "x", a producer behind "p" sends      *)
(* RI = "r" back.                                                           *)
EXTENDS Forwarder

Key(n) == [name |-> n, canBePrefix |-> FALSE, mustBeFresh |-> FALSE]

Interest(n, nonce, token) ==
  [key |-> Key(n), nonce |-> nonce, hopLimit |-> NoHopLimit, token |-> token, nextHop |-> NoTag]

Data(n) == [name |-> n, freshness |-> 0, noCache |-> TRUE]

MCNames == {"x", "r"}
MCReflexiveNames == {"x", "r"}
MCProducerNames == {"r"}
MCPrefixOf == {<<n, n>> : n \in MCNames}

OneConsumer == {"c", "p"}
TwoConsumers == {"c", "d", "p"}
MCNextHops == [n \in MCNames |-> IF n = "x" THEN <<"p">> ELSE << >>]

(* Token 7 is the consumer's own; the forwarder may generate 1 or 7.        *)
MCWord32 == {0, 1, 7}
RetransmittedI1 == {<<Interest("x", nonce, 7), "c">> : nonce \in {1, 2}}
AnyRI == {<<Interest("r", 1, t), "p">> : t \in {NoTag, 1, 7}}
OneConsumerInterests == RetransmittedI1 \cup AnyRI
MCDatas == {<<Data("x"), "p">>, <<Data("r"), "c">>}
MCNacks == {<<[key |-> Key("x"), nonce |-> 1, reason |-> NO_ROUTE], "p">>,
            <<[key |-> Key("r"), nonce |-> 1, reason |-> CONGESTION], "c">>}

(* Two consumers, one of which puts no token on its Interest.               *)
TwoConsumersInterests ==
  {<<Interest("x", 1, 7), "c">>, <<Interest("x", 2, NoTag), "d">>, <<Interest("r", 1, 1), "p">>}

(* An RI under /localhost from a local producer "p", for a consumer "c"     *)
(* that is not local.                                                       *)
LocalRINames == {"x", "localhost"}
LocalRIPrefixOf == {<<n, n>> : n \in LocalRINames}
LocalRINextHops == [n \in LocalRINames |-> <<"p">>]
LocalRIInterests == {<<Interest("x", 1, 7), "c">>, <<Interest("localhost", 1, 1), "p">>}
=============================================================================
