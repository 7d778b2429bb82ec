---------------------------- MODULE FibUpdater -----------------------------
(* What nfd::rib::FibUpdater computes: the next hops to add to and remove   *)
(* from the FIB, and the inherited routes to record in the RIB, when one    *)
(* route is registered or unregistered.                                     *)
EXTENDS RibTable

(* An edit is a step of the computation.  fib maps <<prefix, face>> to what *)
(* is to become of that next hop; inh tells for which pairs an inherited    *)
(* route is recorded (TRUE) or its record removed (FALSE).  addFibUpdate    *)
(* replaces an earlier update of the same prefix and face, and of several   *)
(* records of a pair the last one decides, so later edits win.              *)
NoEdit == [fib |-> << >>, inh |-> << >>]

InOrder(edits) ==
  FoldLeft(LAMBDA a, b : [fib |-> b.fib @@ a.fib, inh |-> b.inh @@ a.inh], NoEdit, edits)

If(condition, edit) == IF condition THEN edit ELSE NoEdit

createAddUpdate(n, f, cost) ==
  [NoEdit EXCEPT !.fib = <<n, f>> :> [action |-> "add", cost |-> cost]]

createRemoveUpdate(n, f) ==
  [NoEdit EXCEPT !.fib = <<n, f>> :> [action |-> "remove", cost |-> 0]]

(* Routes are handed on as functions from faces to costs (RouteSet).        *)
NoRoutes == << >>

only(r) == r.face :> r.cost

(* Inherited routes for the pairs of P, which cost gives a cost; routes no  *)
(* longer inherited.                                                        *)
inherit(P, cost) ==
  [fib |-> [x \in P |-> [action |-> "add", cost |-> cost[x[2]]]], inh |-> [x \in P |-> TRUE]]

disinherit(P) ==
  [fib |-> [x \in P |-> [action |-> "remove", cost |-> 0]], inh |-> [x \in P |-> FALSE]]

addInheritedRoutes(n, e, routes) ==
  inherit({<<n, f>> : f \in {f \in DOMAIN routes : ~ hasFaceId(e, f)}}, routes)

removeInheritedRoutes(n, e, routes) == disinherit({n} \X (DOMAIN routes \cap e.inherited))

(* Mutant: an entry that captures is passed like any other.                 *)
reachesPastCapture(R, C, m, f) ==
  \E c \in C :
    /\ c \in lineage(R)[m]
    /\ \A q \in lineage(R)[m] :
         c \in lineage(R)[q] => ~ hasChildInheritOnFaceId(R[q], f)

(* traverseSubTree from the entries C down: face f is passed on to the      *)
(* entry under m unless an entry on the way, m included, captures or has a  *)
(* route of its own for f that children inherit.                            *)
reaches(R, C, m, f) ==
  \E c \in C :
    /\ c \in lineage(R)[m]
    /\ \A q \in lineage(R)[m] :
         c \in lineage(R)[q] => ~ hasCapture(R[q]) /\ ~ hasChildInheritOnFaceId(R[q], f)

modifyChildrensInheritedRoutes(R, C, add, remove) ==
  InOrder(<<disinherit({x \in present(R) \X DOMAIN remove :
                          reaches(R, C, x[1], x[2]) /\ x[2] \in R[x[1]].inherited}),
            inherit({x \in present(R) \X DOMAIN add :
                       reaches(R, C, x[1], x[2]) /\ ~ hasFaceId(R[x[1]], x[2])}, add)>>)

----------------------------------------------------------------------------
(* Registration                                                             *)

createFibUpdatesForNewRibEntry(R, n, r) ==
  LET above == ancestorRoutes(R)[findParent(R, n)]
      others == [f \in DOMAIN above \ {r.face} |-> above[f]]
      passedOn == IF ~ r.inherit THEN NoRoutes
                  ELSE IF r.capture THEN only(r) ELSE only(r) @@ above
  IN  InOrder(<<createAddUpdate(n, r.face, r.cost),
                If(~ r.capture, inherit({n} \X DOMAIN others, others)),
                modifyChildrensInheritedRoutes(R, adopted(R, n), passedOn,
                                               IF r.capture THEN above ELSE NoRoutes)>>)

createFibUpdatesForNewRoute(R, n, e, r, captureWasTurnedOn) ==
  LET lowestInherited == \A c \in inheritCostsOn(e, r.face) : r.cost <= c
      lowest == \A c \in costsOn(e, r.face) : r.cost <= c
      routesToRemove == IF captureWasTurnedOn THEN ancestorRoutes(R)[e.parent] ELSE NoRoutes
  IN  InOrder(<<removeInheritedRoutes(n, e, routesToRemove),
                modifyChildrensInheritedRoutes(R, children(R, n),
                  IF r.inherit /\ lowestInherited THEN only(r) ELSE NoRoutes, routesToRemove),
                If(lowest, createAddUpdate(n, r.face, r.cost))>>)

(* e is the entry with the route already changed to r; old is the route as  *)
(* it was.                                                                  *)
createFibUpdatesForUpdatedRoute(R, n, e, r, old) ==
  LET lowest == \A c \in costsOn(e, r.face) : r.cost <= c
      lowestInherited == \A c \in inheritCostsOn(e, r.face) : r.cost <= c
      cheapest == CHOOSE c \in inheritCostsOn(e, r.face) :
                    \A d \in inheritCostsOn(e, r.face) : c <= d
      costDidChange == r.cost # old.cost
      flagsDidChange == r.inherit # old.inherit \/ r.capture # old.capture
      above == ancestorRoutes(R)[e.parent]
      onChildren(add, remove) == modifyChildrensInheritedRoutes(R, children(R, n), add, remove)
      wasLowest == \A c \in costsOn(e, r.face) : old.cost < c
      newCost == If(costDidChange,
                    IF lowest THEN createAddUpdate(n, r.face, r.cost)
                    ELSE If(wasLowest /\ inheritCostsOn(e, r.face) # {},
                            createAddUpdate(n, r.face, cheapest)))
      fallback == IF inheritCostsOn(e, r.face) # {} THEN r.face :> cheapest
                  ELSE [f \in DOMAIN above \cap {r.face} |-> above[f]]
  IN  IF ~ flagsDidChange
      THEN InOrder(<<newCost, If(costDidChange /\ lowestInherited /\ r.inherit,
                                 onChildren(only(r), NoRoutes))>>)
      ELSE InOrder(<<newCost,
                     If(~ old.inherit /\ r.inherit /\ lowestInherited,
                        onChildren(only(r), NoRoutes)),
                     If(old.inherit /\ ~ r.inherit, onChildren(fallback, only(r))),
                     If(~ old.capture /\ r.capture,
                        InOrder(<<removeInheritedRoutes(n, e, above),
                                  onChildren(NoRoutes, above)>>)),
                     If(old.capture /\ ~ r.capture,
                        InOrder(<<addInheritedRoutes(n, e, above),
                                  onChildren(above, NoRoutes)>>))>>)

(* createFibUpdatesForUpdatedRoute follows prevRoute without looking whether *)
(* there is one: the cheapest route of its face gets dearer than another     *)
(* one, and no route of that face is for children to inherit.                *)
followsNull(R, n, r) ==
  R[n] # NoRibEntry /\ \E i \in findRoute(R[n], r) :
    LET rest == [R[n] EXCEPT !.routes = RemoveAt(@, i)]
    IN  /\ \E c \in costsOn(rest, r.face) : c < r.cost
        /\ \A c \in costsOn(rest, r.face) : R[n].routes[i].cost < c
        /\ inheritCostsOn(rest, r.face) = {} /\ ~ r.inherit

computeUpdatesForRegistration(R, n, r) ==
  IF R[n] = NoRibEntry THEN createFibUpdatesForNewRibEntry(R, n, r)
  ELSE LET existing == findRoute(R[n], r)
           old == R[n].routes[CHOOSE i \in existing : TRUE]
           updated == [R[n] EXCEPT !.routes = [i \in DOMAIN @ |-> IF i \in existing THEN r ELSE @[i]]]
       IN  IF existing = {}
           THEN createFibUpdatesForNewRoute(R, n, R[n], r, ~ hasCapture(R[n]) /\ r.capture)
           ELSE createFibUpdatesForUpdatedRoute(R, n, updated, r, old)

----------------------------------------------------------------------------
(* Unregistration                                                           *)

(* e is the entry without the route.                                        *)
createFibUpdatesForErasedRoute(R, n, e, r, captureWasTurnedOff) ==
  LET above == ancestorRoutes(R)[e.parent]
      isLeft == e.routes # << >>
      uncovered == r.capture /\ captureWasTurnedOff /\ isLeft
      routesToAdd == IF uncovered \/ (~ r.capture /\ r.inherit /\ ~ hasCapture(e))
                     THEN above ELSE NoRoutes
  IN  InOrder(<<createRemoveUpdate(n, r.face),
                If(uncovered, addInheritedRoutes(n, e, above)),
                If(r.inherit \/ r.capture,
                   modifyChildrensInheritedRoutes(R, children(R, n), routesToAdd,
                                                  IF r.inherit THEN only(r) ELSE NoRoutes)),
                If(~ hasCapture(e) /\ isLeft,
                   inherit({n} \X (DOMAIN above \cap {r.face}), above))>>)

createFibUpdatesForErasedRibEntry(n, e) ==
  [NoEdit EXCEPT !.fib = [x \in {n} \X e.inherited |-> [action |-> "remove", cost |-> 0]]]

computeUpdatesForUnregistration(R, n, r) ==
  IF R[n] = NoRibEntry \/ findRoute(R[n], r) = {} THEN NoEdit
  ELSE LET i == CHOOSE i \in findRoute(R[n], r) : TRUE
           temp == eraseRoute(R[n], i)
           next == secondLowest(R[n], r.face)
       IN  InOrder(<<createFibUpdatesForErasedRoute(R, n, temp, R[n].routes[i],
                                                    hasCapture(R[n]) /\ ~ hasCapture(temp)),
                     IF next = {} THEN NoEdit
                     ELSE createFibUpdatesForNewRoute(R, n, temp,
                                                      R[n].routes[CHOOSE j \in next : TRUE], FALSE),
                     If(temp.routes = << >>, createFibUpdatesForErasedRibEntry(n, R[n]))>>)
=============================================================================
