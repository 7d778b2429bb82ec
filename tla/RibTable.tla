----------------------------- MODULE RibTable ------------------------------
(* The Routing Information Base as a data structure: nfd::rib::RibEntry and *)
(* the table and tree operations of nfd::rib::Rib.                          *)
EXTENDS Integers, Sequences, SequencesExt

CONSTANTS
  NamePrefixes,        \* name prefixes that routes may be registered for
  StrictPrefixOf,  \* <<p, n>> where p is a prefix of n and not n itself
  FaceIds,         \* ids of the faces of the forwarder; never reused
  Origins,         \* who has registered a route
  Costs,           \* costs of routes
  TimerIds,        \* expiration events that may be scheduled at a time
  CountLimit,      \* number of values of a uint64_t counter
  NoPrefix,        \* no parent
  NoTimer,         \* a route that does not expire
  NoRibEntry       \* no entry under a prefix

(* The prefixes of a name form a chain, so some of them have a longest one. *)
ASSUME RibAssumption ==
  /\ StrictPrefixOf \subseteq NamePrefixes \X NamePrefixes
  /\ \A p, n \in NamePrefixes : <<p, n>> \in StrictPrefixOf => <<n, p>> \notin StrictPrefixOf
  /\ \A p, q, n \in NamePrefixes :
       <<p, q>> \in StrictPrefixOf /\ <<q, n>> \in StrictPrefixOf => <<p, n>> \in StrictPrefixOf
  /\ \A n \in NamePrefixes : \A S \in SUBSET {p \in NamePrefixes : <<p, n>> \in StrictPrefixOf} :
       S # {} => \E p \in S : \A q \in S : q = p \/ <<q, p>> \in StrictPrefixOf
  /\ Costs \subseteq Nat
  /\ CountLimit \in Nat \ {0, 1}
  /\ NoPrefix \notin NamePrefixes
  /\ NoTimer \notin TimerIds

Routes == [face : FaceIds, origin : Origins, cost : Costs, inherit : BOOLEAN,
           capture : BOOLEAN, timer : TimerIds \cup {NoTimer}]

(* Of the inherited routes only the faces are ever read, so m_inheritedRoutes *)
(* is a set of faces; the children are the entries whose parent this one is.  *)
RibEntries == [routes : Seq(Routes), inherited : SUBSET FaceIds,
               nCapture : 0 .. (CountLimit - 1), parent : NamePrefixes \cup {NoPrefix}]

----------------------------------------------------------------------------
(* RibEntry                                                                 *)

findRoute(e, r) ==
  {i \in DOMAIN e.routes : e.routes[i].face = r.face /\ e.routes[i].origin = r.origin}

hasFaceId(e, f) == \E i \in DOMAIN e.routes : e.routes[i].face = f

hasCapture(e) == e.nCapture > 0

hasChildInheritOnFaceId(e, f) ==
  \E i \in DOMAIN e.routes : e.routes[i].face = f /\ e.routes[i].inherit

(* What getRouteWithLowestCostByFaceId, and ...AndChildInheritByFaceId,     *)
(* take the lowest of; the callers only use the cost.                       *)
costsOn(e, f) == {e.routes[i].cost : i \in {i \in DOMAIN e.routes : e.routes[i].face = f}}

inheritCostsOn(e, f) ==
  {e.routes[i].cost :
     i \in {i \in DOMAIN e.routes : e.routes[i].face = f /\ e.routes[i].inherit}}

(* getRouteWithSecondLowestCostByFaceId, as the positions of the route: one *)
(* other precedes it by cost, and then by place, for nth_element sorts a    *)
(* range as short as this one by insertion.                                 *)
secondLowest(e, f) ==
  LET on == {i \in DOMAIN e.routes : e.routes[i].face = f}
      before(i, j) == \/ e.routes[i].cost < e.routes[j].cost
                      \/ e.routes[i].cost = e.routes[j].cost /\ i < j
  IN  {j \in on : \E i \in on : before(i, j) /\ \A k \in on \ {i} : ~ before(k, j)}

insertRoute(e, r) ==
  [e EXCEPT !.routes = Append(@, r),
            !.nCapture = IF r.capture THEN (@ + 1) % CountLimit ELSE @]

eraseRoute(e, i) ==
  [e EXCEPT !.routes = RemoveAt(@, i),
            !.nCapture = IF e.routes[i].capture THEN (@ - 1) % CountLimit ELSE @]

----------------------------------------------------------------------------
(* Rib                                                                      *)

EmptyRib == [n \in NamePrefixes |-> NoRibEntry]

present(R) == {n \in NamePrefixes : R[n] # NoRibEntry}

ancestors(R, n) == {p \in present(R) : <<p, n>> \in StrictPrefixOf}

findParent(R, n) ==
  LET A == ancestors(R, n)
  IN  IF A = {} THEN NoPrefix ELSE CHOOSE p \in A : \A q \in A : q = p \/ <<q, p>> \in StrictPrefixOf

children(R, n) == {c \in present(R) : R[c].parent = n}

(* The entries a new entry under n takes over from its parent.              *)
adopted(R, n) ==
  {c \in present(R) : <<n, c>> \in StrictPrefixOf /\ R[c].parent = findParent(R, n)}

(* Mutant: the entries below a new one keep their old parent.               *)
addEntryAdoptsNone(R, n, r) ==
  LET e == insertRoute([routes |-> << >>, inherited |-> {}, nCapture |-> 0,
                        parent |-> findParent(R, n)], r)
  IN  [R EXCEPT ![n] = e]

addEntry(R, n, r) ==
  LET e == insertRoute([routes |-> << >>, inherited |-> {}, nCapture |-> 0,
                        parent |-> findParent(R, n)], r)
  IN  [c \in NamePrefixes |-> IF c = n THEN e
                          ELSE IF c \in adopted(R, n) THEN [R[c] EXCEPT !.parent = n]
                          ELSE R[c]]

(* An existing route is overwritten in place; m_nRoutesWithCaptureSet is    *)
(* left as it is.                                                           *)
insert(R, n, r) ==
  IF R[n] = NoRibEntry THEN addEntry(R, n, r)
  ELSE IF findRoute(R[n], r) = {} THEN [R EXCEPT ![n] = insertRoute(@, r)]
  ELSE [R EXCEPT ![n].routes = [i \in DOMAIN @ |-> IF i \in findRoute(R[n], r) THEN r ELSE @[i]]]

eraseEntry(R, n) ==
  [c \in NamePrefixes |-> IF c = n THEN NoRibEntry
                      ELSE IF c \in children(R, n) THEN [R[c] EXCEPT !.parent = R[n].parent]
                      ELSE R[c]]

erase(R, n, r) ==
  IF R[n] = NoRibEntry \/ findRoute(R[n], r) = {} THEN R
  ELSE LET e == eraseRoute(R[n], CHOOSE i \in findRoute(R[n], r) : TRUE)
       IN  IF e.routes = << >> THEN eraseEntry(R, n) ELSE [R EXCEPT ![n] = e]

(* The expiration event that insert, or erase, of r cancels.                *)
cancelled(R, n, r) ==
  IF R[n] = NoRibEntry THEN {} ELSE {R[n].routes[i].timer : i \in findRoute(R[n], r)}

(* modifyInheritedRoutes: faces to add and to remove, by prefix.            *)
modifyInheritedRoutes(R, add, remove) ==
  [n \in NamePrefixes |->
     IF R[n] = NoRibEntry THEN NoRibEntry
     ELSE [R[n] EXCEPT !.inherited = (@ \ {f \in FaceIds : <<n, f>> \in remove})
                                     \cup {f \in FaceIds : <<n, f>> \in add}]]

(* getAncestorRoutes from the entry under p upwards, as a function from     *)
(* faces to costs: nearer entries, and in an entry earlier routes, come     *)
(* first.                                                                   *)
inheritable(e) ==
  LET on(f) == {i \in DOMAIN e.routes : e.routes[i].face = f /\ e.routes[i].inherit}
      earliest(f) == CHOOSE i \in on(f) : \A j \in on(f) : i <= j
  IN  [f \in {f \in FaceIds : on(f) # {}} |-> e.routes[earliest(f)].cost]

(* The entries from the one under n up to the root.                         *)
lineage(R) ==
  LET up[n \in NamePrefixes \cup {NoPrefix}] ==
        IF n = NoPrefix \/ n \notin present(R) THEN {} ELSE {n} \cup up[R[n].parent]
  IN  up

ancestorRoutes(R) ==
  LET up[n \in NamePrefixes \cup {NoPrefix}] ==
        IF n = NoPrefix THEN << >>
        ELSE inheritable(R[n]) @@ (IF hasCapture(R[n]) THEN << >> ELSE up[R[n].parent])
  IN  up
=============================================================================
