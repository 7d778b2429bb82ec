------------------------------ MODULE MCPlain ------------------------------
(* Small instances of Forwarder for ordinary Interest/Data exchanges: the   *)
(* Content Store and several matching entries, retransmission over two      *)
(* upstreams, scopes and link types.                                        *)
EXTENDS Forwarder

Key(n, prefix, fresh) == [name |-> n, canBePrefix |-> prefix, mustBeFresh |-> fresh]
Plain(n) == Key(n, FALSE, FALSE)

Interest(k, nonce) ==
  [key |-> k, nonce |-> nonce, hopLimit |-> NoHopLimit, token |-> NoTag, nextHop |-> NoTag]

Data(n, freshness) == [name |-> n, freshness |-> freshness, noCache |-> FALSE]
Nack(k, nonce, reason) == [key |-> k, nonce |-> nonce, reason |-> reason]

----------------------------------------------------------------------------
(* Content Store: "a" is a prefix of "ab"; consumers "c" and "d", producer  *)
(* "p".                                                                     *)
CsNames == {"a", "ab"}
CsPrefixOf == {<<"a", "a">>, <<"a", "ab">>, <<"ab", "ab">>}
CsFaces == {"c", "d", "p"}
CsNextHops == [n \in CsNames |-> <<"p">>]
CsInterests == {<<[Interest(Key("a", TRUE, FALSE), 1) EXCEPT !.token = 7], "c">>,
                <<Interest(Key("ab", FALSE, TRUE), 2), "c">>,
                <<Interest(Key("ab", FALSE, TRUE), 1), "d">>}
CsDatas == {<<Data("ab", 1), "p">>, <<Data("ab", 0), "p">>,
            <<[Data("ab", 2) EXCEPT !.noCache = TRUE], "p">>}

----------------------------------------------------------------------------
(* Retransmission in its smallest instance: "c" asks for "a", reachable     *)
(* over "p" or "q"; "q" asks for it too.                                    *)
RetxNames == {"a"}
RetxPrefixOf == {<<"a", "a">>}
RetxFaces == {"c", "p", "q"}
RetxNextHops == [n \in RetxNames |-> <<"p", "q">>]
RetxInterests == {<<Interest(Plain("a"), nonce), "c">> : nonce \in {1, 2}}
                 \cup {<<Interest(Plain("a"), 3), "q">>}
RetxDatas == {<<[Data("a", 0) EXCEPT !.noCache = TRUE], "q">>}
RetxNacks == {<<Nack(Plain("a"), 1, NO_ROUTE), "p">>, <<Nack(Plain("a"), 2, NO_ROUTE), "p">>,
              <<Nack(Plain("a"), 2, CONGESTION), "q">>}

----------------------------------------------------------------------------
(* Scopes and links: "l" is a local application, "m" a multi-access face,   *)
(* "h" an ad hoc one, "p" a point-to-point link to another node.  The       *)
(* application retransmits over "h" and "p", is Nacked by either, and both   *)
(* ask for the same name, so that they are upstream and downstream of one   *)
(* entry.                                                                   *)
ScopeNames == {"localhost", "localhop"}
ScopePrefixOf == {<<n, n>> : n \in ScopeNames}
ScopeFaces == {"l", "m", "h", "p"}
ScopeNextHops == [n \in ScopeNames |-> IF n = "localhost" THEN <<"m", "l">> ELSE <<"h", "p", "l">>]
ScopeInterests ==
  {<<[Interest(Plain("localhop"), 1) EXCEPT !.hopLimit = 1], "m">>,
   <<[Interest(Plain("localhop"), 1) EXCEPT !.hopLimit = 2], "h">>,
   <<[Interest(Plain("localhop"), 2) EXCEPT !.hopLimit = 0], "p">>,
   <<[Interest(Plain("localhop"), 2) EXCEPT !.nextHop = "p", !.token = 7], "l">>,
   <<Interest(Plain("localhop"), 1), "l">>,
   <<Interest(Plain("localhost"), 1), "p">>,
   <<Interest(Plain("localhost"), 1), "l">>}
ScopeDatas == {<<Data("localhop", 1), "h">>, <<Data("localhost", 1), "l">>,
               <<Data("localhost", 1), "p">>}
ScopeNacks == {<<Nack(Plain("localhop"), 1, NO_ROUTE), "h">>,
               <<Nack(Plain("localhop"), 1, CONGESTION), "p">>,
               <<Nack(Plain("localhop"), 2, DUPLICATE), "p">>}
=============================================================================
