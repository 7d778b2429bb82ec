-------------------------------- MODULE Rib --------------------------------
(* The RIB service and the FIB it maintains.  The RIB manager, the RIB and  *)
(* the FIB updater run on the RIB thread; they change the FIB by commands   *)
(* to the FIB manager on the main thread, which also runs the face table.   *)
EXTENDS FibUpdater

CONSTANTS
  InitialFaces,     \* faces that exist when the service starts
  RegisterRequests, \* <<prefix, route, expires>> of rib/register commands
  UnregisterRequests, \* <<prefix, route>> of rib/unregister commands
  MaxRequests,      \* bound: register and unregister commands that arrive
  Losable,          \* bound: the faces that may be destroyed
  MaxQueued,        \* bound: batches in the queue when a dataset is fetched
  MaxTimeouts,      \* MAX_NUM_TIMEOUTS
  LateCommands,     \* bound: <<action, face>> of the commands that may time out
  NoCost            \* no such next hop

ASSUME RibServiceAssumption ==
  /\ InitialFaces \subseteq FaceIds
  /\ Losable \subseteq FaceIds
  /\ MaxRequests \in Nat /\ MaxQueued \in Nat /\ MaxTimeouts \in Nat /\ LateCommands \subseteq {"add", "remove"} \X FaceIds
  /\ NoCost \notin Costs

VARIABLES
  svc,        \* the RIB thread
  fib,        \* the FIB: <<prefix, face>> -> cost
  faceState,  \* the face table: what has become of a face id
  notices,    \* faces whose destruction the RIB has not been told of yet
  datasets,   \* the face datasets on their way, as sets of active faces
  requests    \* commands that have arrived

ribVars == <<svc, fib, faceState, notices, datasets, requests>>

(* A handler of the RIB thread may carry any number of queued batches to    *)
(* their end before it returns, so the thread's state is one record and a   *)
(* handler is an operator from such records to such records:                *)
(*   rib         the table                                                  *)
(*   queue       m_updateBatches                                            *)
(*   inProgress  m_isUpdateInProgress                                       *)
(*   batchFace, forBatch, forOthers, inh   members of the FIB updater       *)
(*   cmds        commands that have not been answered                       *)
(*   timers      expiration events that are scheduled                       *)
(*   nBatches    batches begun so far                                       *)
(*   applied     the batch that was applied to the table last               *)
(*   failed      the batches that have failed                               *)
(*   dead        the thread has ended with an exception                     *)
RibInit ==
  /\ svc = [rib |-> EmptyRib, queue |-> << >>, inProgress |-> FALSE,
            batchFace |-> CHOOSE f \in FaceIds : TRUE, forBatch |-> {}, forOthers |-> {},
            inh |-> << >>, cmds |-> {}, timers |-> [t \in TimerIds |-> NoTimer],
            nBatches |-> 0, applied |-> 0, failed |-> {}, dead |-> FALSE]
  /\ fib = [x \in NamePrefixes \X FaceIds |-> NoCost]
  /\ faceState = [f \in FaceIds |-> IF f \in InitialFaces THEN "up" ELSE "new"]
  /\ notices = {}
  /\ datasets = {}
  /\ requests = 0

Update(action, n, r) == [action |-> action, name |-> n, route |-> r]

----------------------------------------------------------------------------
(* Batches                                                                  *)

(* A command carries the callbacks of the batch it was sent for.            *)
sendUpdates(s, U, u, no) ==
  [s EXCEPT !.cmds = @ \cup {[fibUpdate |-> x, verb |-> x.action, nTimeouts |-> 0,
                              update |-> u, batch |-> no] : x \in U}]

onFibUpdateSuccess(s, u, no) ==
  LET R == IF u.action = "register" THEN insert(s.rib, u.name, u.route)
                                    ELSE erase(s.rib, u.name, u.route)
  IN  [s EXCEPT
         !.rib = modifyInheritedRoutes(R, {x \in DOMAIN s.inh : s.inh[x]},
                                          {x \in DOMAIN s.inh : ~ s.inh[x]}),
         !.timers = [t \in TimerIds |-> IF t \in cancelled(s.rib, u.name, u.route)
                                        THEN NoTimer ELSE @[t]],
         !.inProgress = FALSE, !.applied = no]

onFibUpdateFailure(s, no) == [s EXCEPT !.inProgress = FALSE, !.failed = @ \cup {no}]

sendUpdatesForNonBatchFaceId(s, u, no) ==
  IF s.forOthers # {} THEN sendUpdates(s, s.forOthers, u, no) ELSE onFibUpdateSuccess(s, u, no)

sendUpdatesForBatchFaceId(s, u, no) ==
  IF s.forBatch # {} THEN sendUpdates(s, s.forBatch, u, no)
                     ELSE sendUpdatesForNonBatchFaceId(s, u, no)

(* The updates for a face that is gone are not sent.                        *)
sendEdit(s, u, edit) ==
  LET all == {[name |-> x[1], face |-> x[2], action |-> edit.fib[x].action,
               cost |-> edit.fib[x].cost] : x \in DOMAIN edit.fib}
      own == {x \in all : x.face = u.route.face}
  IN  sendUpdatesForBatchFaceId(
        [s EXCEPT !.inProgress = TRUE, !.batchFace = u.route.face,
                  !.forBatch = IF u.action = "remove_face" THEN {} ELSE own,
                  !.forOthers = all \ own, !.inh = edit.inh, !.nBatches = @ + 1],
        u, s.nBatches + 1)

computeAndSendFibUpdates(s, u) ==
  IF u.action = "register" /\ followsNull(s.rib, u.name, u.route)
  THEN [s EXCEPT !.dead = TRUE]
  ELSE sendEdit(s, u, IF u.action = "register"
                      THEN computeUpdatesForRegistration(s.rib, u.name, u.route)
                      ELSE computeUpdatesForUnregistration(s.rib, u.name, u.route))

(* Mutant: a batch is begun while another one is in progress.               *)
sendBatchFromQueueAtOnce(s) ==
  FoldLeft(LAMBDA t, u : IF t.dead THEN [t EXCEPT !.queue = Append(@, u)]
                                   ELSE computeAndSendFibUpdates(t, u),
           [s EXCEPT !.queue = << >>], s.queue)

(* A batch that needs no command is finished at once and the next one is    *)
(* begun: the queue is gone through up to the first one that has to wait.   *)
sendBatchFromQueue(s) ==
  FoldLeft(LAMBDA t, u : IF t.inProgress \/ t.dead
                         THEN [t EXCEPT !.queue = Append(@, u)]
                         ELSE computeAndSendFibUpdates(t, u),
           [s EXCEPT !.queue = << >>], s.queue)

beginApplyUpdate(s, u) == sendBatchFromQueue([s EXCEPT !.queue = Append(@, u)])

----------------------------------------------------------------------------
(* Requests to the RIB manager                                              *)

(* beginAddRoute schedules the expiration event before the route is in.     *)
registerEntry(n, r, expires) ==
  /\ ~ svc.dead
  /\ requests < MaxRequests
  /\ \E t \in IF expires THEN {t \in TimerIds : svc.timers[t] = NoTimer} ELSE {NoTimer} :
       LET route == [r EXCEPT !.timer = t]
           scheduled == [svc EXCEPT !.timers = [x \in TimerIds |->
                           IF x = t THEN Update("unregister", n, route) ELSE @[x]]]
       IN  svc' = beginApplyUpdate(scheduled, Update("register", n, route))
  /\ requests' = requests + 1
  /\ UNCHANGED <<fib, faceState, notices, datasets>>

unregisterEntry(n, r) ==
  /\ ~ svc.dead
  /\ requests < MaxRequests
  /\ svc' = beginApplyUpdate(svc, Update("unregister", n, r))
  /\ requests' = requests + 1
  /\ UNCHANGED <<fib, faceState, notices, datasets>>

onRouteExpiration(t) ==
  /\ ~ svc.dead
  /\ svc.timers[t] # NoTimer
  /\ svc' = beginApplyUpdate([svc EXCEPT !.timers[t] = NoTimer], svc.timers[t])
  /\ UNCHANGED <<fib, faceState, notices, datasets, requests>>

(* enqueueRemoveFace for the routes over the faces F, prefix by prefix in   *)
(* some order.  m_faceEntries may list an entry twice or list one without   *)
(* routes over the face; both only add batches that change nothing.         *)
removeFaces(F, order) ==
  LET onF(n) == SelectSeq(svc.rib[n].routes, LAMBDA r : r.face \in F)
      updates(n) == [i \in DOMAIN onF(n) |-> Update("remove_face", n, onF(n)[i])]
  IN  sendBatchFromQueue([svc EXCEPT !.queue = FoldLeft(LAMBDA q, n : q \o updates(n), @, order)])

onNotification(f) ==
  /\ ~ svc.dead
  /\ f \in notices
  /\ \E order \in SetToSeqs({n \in present(svc.rib) : hasFaceId(svc.rib[n], f)}) :
       svc' = removeFaces({f}, order)
  /\ notices' = notices \ {f}
  /\ UNCHANGED <<fib, faceState, datasets, requests>>

(* The dataset is made on the main thread and used later on this one.       *)
fetchActiveFaces ==
  /\ ~ svc.dead
  /\ Len(svc.queue) <= MaxQueued /\ datasets = {}
  /\ datasets' = datasets \cup {{f \in FaceIds : faceState[f] = "up"}}
  /\ UNCHANGED <<svc, fib, faceState, notices, requests>>

(* Mutant: the dataset is received and nothing is done with it.             *)
removeInvalidFacesIgnored(active) ==
  /\ ~ svc.dead
  /\ active \in datasets
  /\ datasets' = datasets \ {active}
  /\ UNCHANGED <<svc, fib, faceState, notices, requests>>

removeInvalidFaces(active) ==
  /\ ~ svc.dead
  /\ active \in datasets
  /\ \E order \in SetToSeqs({n \in present(svc.rib) :
                               \E f \in FaceIds \ active : hasFaceId(svc.rib[n], f)}) :
       svc' = removeFaces(FaceIds \ active, order)
  /\ datasets' = datasets \ {active}
  /\ UNCHANGED <<fib, faceState, notices, requests>>

----------------------------------------------------------------------------
(* The main thread                                                          *)

createFace(f) ==
  /\ faceState[f] = "new"
  /\ faceState' = [faceState EXCEPT ![f] = "up"]
  /\ UNCHANGED <<svc, fib, notices, datasets, requests>>

(* cleanupOnFaceRemoval takes the next hops with it.                        *)
destroyFace(f) ==
  /\ faceState[f] = "up"
  /\ f \in Losable
  /\ faceState' = [faceState EXCEPT ![f] = "down"]
  /\ fib' = [x \in DOMAIN fib |-> IF x[2] = f THEN NoCost ELSE fib[x]]
  /\ notices' = notices \cup {f}
  /\ UNCHANGED <<svc, datasets, requests>>

(* FibManager::addNextHop and removeNextHop.                                *)
fibAfter(c) ==
  LET x == c.fibUpdate
  IN  IF faceState[x.face] # "up" THEN fib
      ELSE [fib EXCEPT ![<<x.name, x.face>>] = IF c.verb = "add" THEN x.cost ELSE NoCost]

isRefused(c) == c.verb = "add" /\ faceState[c.fibUpdate.face] # "up"

onUpdateSuccess(s, c) ==
  LET own == [s EXCEPT !.forBatch = @ \ {c.fibUpdate}]
      other == [s EXCEPT !.forOthers = @ \ {c.fibUpdate}]
  IN  IF c.fibUpdate.face = s.batchFace
      THEN IF own.forBatch = {} THEN sendUpdatesForNonBatchFaceId(own, c.update, c.batch) ELSE own
      ELSE IF other.forOthers = {} THEN onFibUpdateSuccess(other, c.update, c.batch) ELSE other

(* ERROR_FACE_NOT_FOUND                                                     *)
onUpdateRefused(s, c) ==
  LET other == [s EXCEPT !.forOthers = @ \ {c.fibUpdate}]
  IN  IF c.fibUpdate.face = s.batchFace THEN onFibUpdateFailure(s, c.batch)
      ELSE IF other.forOthers = {} THEN onFibUpdateSuccess(other, c.update, c.batch) ELSE other

(* The command is executed and its response comes back.                     *)
answerCommand(c) ==
  LET s == [svc EXCEPT !.cmds = @ \ {c}]
  IN  /\ ~ svc.dead
      /\ fib' = fibAfter(c)
      /\ svc' = sendBatchFromQueue(IF isRefused(c) THEN onUpdateRefused(s, c)
                                                   ELSE onUpdateSuccess(s, c))
      /\ UNCHANGED <<faceState, notices, datasets, requests>>

(* The command or its response is late.  Whatever it was, what is sent      *)
(* again is sendAddNextHopUpdate; after too many timeouts onUpdateError     *)
(* throws.                                                                  *)
timeoutCommand(c) ==
  /\ ~ svc.dead
  /\ <<c.fibUpdate.action, c.fibUpdate.face>> \in LateCommands
  /\ fib' \in {fib, fibAfter(c)}
  /\ svc' = IF c.nTimeouts < MaxTimeouts
            THEN [svc EXCEPT !.cmds = (@ \ {c}) \cup {[c EXCEPT !.verb = "add",
                                                               !.nTimeouts = @ + 1]}]
            ELSE [svc EXCEPT !.dead = TRUE]
  /\ UNCHANGED <<faceState, notices, datasets, requests>>

RibNext ==
  \/ \E a \in RegisterRequests : registerEntry(a[1], a[2], a[3])
  \/ \E a \in UnregisterRequests : unregisterEntry(a[1], a[2])
  \/ \E t \in TimerIds : onRouteExpiration(t)
  \/ \E f \in FaceIds : onNotification(f) \/ createFace(f) \/ destroyFace(f)
  \/ fetchActiveFaces
  \/ \E active \in datasets : removeInvalidFaces(active)
  \/ \E c \in svc.cmds : answerCommand(c) \/ timeoutCommand(c)

(* Responses and notifications arrive, and faces are fetched periodically.  *)
RibFairness ==
  /\ <>[](~ svc.dead /\ (svc.cmds # {} \/ notices # {}))
       => []<><<svc'.cmds # svc.cmds \/ notices' # notices>>_ribVars
  /\ <>[](~ svc.dead /\ (datasets # {} \/ Len(svc.queue) <= MaxQueued))
       => []<><<datasets' # datasets>>_ribVars

RibSpec == RibInit /\ [][RibNext]_ribVars /\ RibFairness

----------------------------------------------------------------------------
(* Properties                                                               *)

IsQuiet == /\ ~ svc.dead
           /\ ~ svc.inProgress
           /\ svc.queue = << >>
           /\ svc.cmds = {}
           /\ notices = {}

(* What the FIB should hold for face f under prefix n: the lowest cost of   *)
(* the prefix's own routes over f; without any, unless a route of the       *)
(* prefix captures, what the nearest prefix above with a route over f that  *)
(* children inherit has to offer, if no prefix in between captures.         *)
cheapestOf(C) == CHOOSE c \in C : \A d \in C : c <= d

captures(n) == \E i \in DOMAIN svc.rib[n].routes : svc.rib[n].routes[i].capture

expectedCost(n, f) ==
  LET R == svc.rib
      offers == {p \in ancestors(R, n) : inheritCostsOn(R[p], f) # {}}
      nearest == CHOOSE p \in offers : \A q \in offers : q = p \/ <<q, p>> \in StrictPrefixOf
      between == {q \in ancestors(R, n) : <<nearest, q>> \in StrictPrefixOf}
  IN  IF n \notin present(R) THEN NoCost
      ELSE IF costsOn(R[n], f) # {} THEN cheapestOf(costsOn(R[n], f))
      ELSE IF captures(n) \/ offers = {} THEN NoCost
      ELSE IF \E q \in between : captures(q) THEN NoCost
      ELSE cheapestOf(inheritCostsOn(R[nearest], f))

(* Whenever no update is on its way, the FIB holds what the routes of the   *)
(* RIB call for, with inheritance and capture taken into account, whatever  *)
(* order commands, expirations and face events came in and however often a  *)
(* FIB command was repeated.  A face created while the service runs is      *)
(* excepted in one direction: a dataset older than the face takes its       *)
(* routes away, and REMOVE_FACE leaves its next hops in the FIB.  It is for *)
(* one route per prefix and face, capturing entries that stay and REMOVE    *)
(* commands that do not time out; README has what the code does otherwise.  *)
FibMatchesRib ==
  IsQuiet => \A n \in NamePrefixes, f \in FaceIds :
               \/ faceState[f] # "up"
               \/ fib[<<n, f>>] = expectedCost(n, f)
               \/ f \notin InitialFaces /\ expectedCost(n, f) = NoCost

(* The tree of RIB entries is the order of their prefixes: after any        *)
(* sequence of insertions and erasures the parent of an entry is the        *)
(* longest prefix in the table.  Inheritance follows these links only.      *)
TreeFollowsNames ==
  \A n \in present(svc.rib) : svc.rib[n].parent = findParent(svc.rib, n)

(* rib.hpp: if the FIB update of a batch fails, the RIB is not updated with *)
(* it.  The batch last applied is not one that has failed.                  *)
FailedUpdateStaysOut == svc.applied \notin svc.failed

(* No route outlives its face for good.  The notification may come while a  *)
(* registration for the face is still in progress, and is then too early    *)
(* for it: only the periodic comparison with the face dataset is left.      *)
RoutesLeaveWithFace ==
  <>[](svc.dead \/ \A f \in FaceIds : faceState[f] = "down" =>
                     \A n \in present(svc.rib) : ~ hasFaceId(svc.rib[n], f))

(* The members of the FIB updater belong to one batch at a time: every      *)
(* unanswered command is of the current batch, and a batch in progress      *)
(* waits for exactly the commands of its current stage, so that their       *)
(* answers bring it to its end and the queue behind it moves.  It needs     *)
(* that of a batch over a face that is gone one command is refused, not     *)
(* two: FailedUpdateStaysOut is about what happens then.                    *)
OneBatchAtATime ==
  ~ svc.dead =>
    /\ \A c \in svc.cmds : c.batch = svc.nBatches
    /\ (svc.inProgress <=> svc.cmds # {})
    /\ svc.inProgress => {c.fibUpdate : c \in svc.cmds}
                         = IF svc.forBatch # {} THEN svc.forBatch ELSE svc.forOthers
=============================================================================
