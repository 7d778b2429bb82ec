---------------------------- MODULE TokenTable -----------------------------
(* What pit_assist promises to the forwarding pipelines: names are bound to *)
(* tokens one at a time, no token is given to two names, and a binding is   *)
(* neither changed nor taken back, since a next hop may bring the token     *)
(* back at any later time.                                                  *)
CONSTANTS Names, Tokens

VARIABLE binding   \* the <<name, token>> pairs

Init == binding = {}

bind(n, t) ==
  /\ \A b \in binding : b[1] # n /\ b[2] # t
  /\ binding' = binding \cup {<<n, t>>}

Next == \E n \in Names, t \in Tokens : bind(n, t)

Spec == Init /\ [][Next]_binding
=============================================================================
