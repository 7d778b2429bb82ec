---------------------------- MODULE ClientFace -----------------------------
(* ndn::Face, the face an application has to its forwarder, as operators on *)
(* face values.  What the application asks for is posted to the io_service  *)
(* and done in a later event; the callbacks run inside the event that       *)
(* brings the packet or the timeout.                                        *)
EXTENDS Packets, SequencesExt

(* PendingInterest; origin tells whether the application or the forwarder   *)
(* has sent the Interest, notNacked counts the destinations it went to that *)
(* have not Nacked.                                                         *)
PendingInterest(k, origin, n) == [key |-> k, origin |-> origin, notNacked |-> n]

(* accepts: the names some InterestFilter matches; calls: the callbacks     *)
(* that have been invoked, as <<name, outcome>>.                            *)
NewFace(names) == [pending |-> {}, posted |-> << >>, accepts |-> names, calls |-> << >>,
                   open |-> TRUE]

post(c, task) == [c EXCEPT !.posted = Append(@, task)]

(* expressInterest: names an application asks for match no filter of its    *)
(* own here, so that the forwarder is the only destination.                 *)
expressInterest(c, k) == [c EXCEPT !.pending = @ \cup {PendingInterest(k, "app", 1)}]

(* processIncomingInterest and dispatchInterest.                            *)
isDispatched(c, k) == k.name \in c.accepts

processIncomingInterest(c, k) ==
  [c EXCEPT !.pending = @ \cup
     {PendingInterest(k, "forwarder", IF isDispatched(c, k) THEN 1 ELSE 0)}]

satisfiedBy(c, d) == {e \in c.pending : matchesData(e.key, d)}

(* The names of the Interests of E for which a callback is due.             *)
calledFor(E) == {e.key.name : e \in {e \in E : e.origin = "app"}}

invoke(c, E, outcome) ==
  [c EXCEPT !.calls = @ \o SetToSeq({<<n, outcome>> : n \in calledFor(E)})]

(* Mutant: the record stays after the callback.                             *)
satisfyPendingInterestsKeeps(c, d) == invoke(c, satisfiedBy(c, d), "data")

satisfyPendingInterests(c, d) ==
  [invoke(c, satisfiedBy(c, d), "data") EXCEPT !.pending = @ \ satisfiedBy(c, d)]

(* Mutant: the result is inverted.                                          *)
shouldSendToForwarderOnlyApp(c, d) ==
  /\ calledFor(satisfiedBy(c, d)) # {}
  /\ \A e \in satisfiedBy(c, d) : e.origin # "forwarder"

(* Data is sent unless only Interests of the application itself want it.    *)
shouldSendToForwarder(c, d) ==
  \/ \E e \in satisfiedBy(c, d) : e.origin = "forwarder"
  \/ calledFor(satisfiedBy(c, d)) = {}

(* A Nack is matched without regard to the nonce.                           *)
nackPendingInterests(c, k) ==
  LET matching == {e \in c.pending : e.key = k}
      final == {e \in matching : e.notNacked <= 1}
      rest == {[e EXCEPT !.notNacked = @ - 1] : e \in matching \ final}
  IN  [invoke(c, final, "nack") EXCEPT !.pending = (@ \ matching) \cup rest]

invokeTimeoutCallback(c, e) == [invoke(c, {e}, "timeout") EXCEPT !.pending = @ \ {e}]

(* shutdown: the Interests that are pending get no callback.  Data still    *)
(* posted would go over a new connection, as unsolicited Data.              *)
shutdown(c) == [c EXCEPT !.pending = {}, !.posted = << >>, !.open = FALSE]
=============================================================================
