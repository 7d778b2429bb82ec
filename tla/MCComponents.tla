--------------------------- MODULE MCComponents ----------------------------
(* The parts of the daemon and of its library that are specified on their   *)
(* own, on one small instance each.  They share no state, so a behaviour is *)
(* one of one part: which one is chosen with the initial state.             *)
EXTENDS PitAssist, Rib, DeadNonceList, ContentStore, LinkService, Fetcher

CONSTANT Parts   \* the parts to be checked

VARIABLE part

allVars == <<part, assistVars, ribVars, dnlVars, csVars, linkVars, fetchVars>>

(* A transfer that is over.                                                 *)
NoTransfer ==
  /\ options \in {o \in FetchOptions : ~ o.inOrder}
  /\ fetcher = stopped(newFetcher, "stopped")
  /\ overdue = FALSE
  /\ losses = 0

Init ==
  /\ part \in Parts
  /\ AssistInit
  /\ RibInit
  /\ DnlInit /\ (part # "dnl" => rate = 0)
  /\ CsInit /\ (part # "cs" => limit = 0)
  /\ LinkInit
  /\ IF part = "fetch" THEN FetchInit ELSE NoTransfer

stepAssist == part = "assist" /\ AssistNext /\ UNCHANGED <<part, ribVars, dnlVars, csVars, linkVars, fetchVars>>
stepRib == part = "rib" /\ RibNext /\ UNCHANGED <<part, assistVars, dnlVars, csVars, linkVars, fetchVars>>
stepDnl == part = "dnl" /\ DnlNext /\ UNCHANGED <<part, assistVars, ribVars, csVars, linkVars, fetchVars>>
stepCs == part = "cs" /\ CsNext /\ UNCHANGED <<part, assistVars, ribVars, dnlVars, linkVars, fetchVars>>
stepLink == part = "link" /\ LinkNext /\ UNCHANGED <<part, assistVars, ribVars, dnlVars, csVars, fetchVars>>
stepFetch == part = "fetch" /\ FetchNext /\ UNCHANGED <<part, assistVars, ribVars, dnlVars, csVars, linkVars>>

Next == stepAssist \/ stepRib \/ stepDnl \/ stepCs \/ stepLink \/ stepFetch

Spec ==
  /\ Init
  /\ [][Next]_allVars
  /\ part = "rib" => RibFairness
  /\ part = "dnl" => DnlFairness

----------------------------------------------------------------------------
(* pit_assist: three reflexive names and as many tokens, so that the draw   *)
(* runs into tokens in use.                                                 *)
MCNames == {"x", "y", "z"}
MCWord32 == 0 .. 3

(* RIB: prefixes r < a < b, with routes for children to inherit under r and *)
(* a, one under a that captures, and one under b that expires.              *)
MCPrefixes == {"r", "a", "b"}
MCStrictPrefixOf == {<<"r", "a">>, <<"r", "b">>, <<"a", "b">>}

Route(f, cost, isInherit, isCapture) ==
  [face |-> f, origin |-> 0, cost |-> cost, inherit |-> isInherit, capture |-> isCapture,
   timer |-> NoTimer]

MCRegister == {<<"r", Route(1, 1, TRUE, FALSE), FALSE>>, <<"a", Route(3, 2, TRUE, FALSE), FALSE>>,
               <<"a", Route(4, 1, FALSE, TRUE), FALSE>>, <<"b", Route(2, 2, FALSE, FALSE), TRUE>>}
MCUnregister == {<<a[1], a[2]>> : a \in {a \in MCRegister : ~ a[2].capture}}
MCLate == {<<"add", 1>>}

(* Link: p1 takes two fragments, the others one, and "big" has too many;    *)
(* "q" goes the other way.                                                  *)
MCNetPkts == {"p1", "p2", "q", "big"}
MCSender == [p \in MCNetPkts |-> IF p = "q" THEN "right" ELSE "left"]
MCSize == [p \in MCNetPkts |-> CASE p = "p1" -> 8 [] p = "big" -> 99 [] OTHER -> 1]
MCHeaderSize == [p \in MCNetPkts |-> IF p = "p1" THEN 2 ELSE 0]

(* Transfers: a block under the default window rules, and in order with a   *)
(* reorder buffer that fills up, under these rules and with a window of one *)
(* segment.                                                                 *)
Transfer(isInOrder, isConstant, window, buffer) ==
  [inOrder |-> isInOrder, useConstantCwnd |-> isConstant, disableCwa |-> FALSE,
   resetCwndToInit |-> FALSE, ignoreCongMarks |-> FALSE, initCwnd |-> window * CwndUnit,
   initSsthresh |-> 1000 * CwndUnit, flowControlWindow |-> buffer]

MCTransfers == {Transfer(FALSE, FALSE, 2, 9), Transfer(TRUE, FALSE, 2, 2), Transfer(TRUE, TRUE, 1, 2)}
MCDefault == {Transfer(FALSE, FALSE, 1, 9)}
=============================================================================
