------------------------------- MODULE Demo --------------------------------
(* The reflexive forwarding demo as a whole: a consumer, the forwarder of   *)
(* its node, the forwarder of the producer's node, and the producer.  The   *)
(* Forwarder module is there twice: its own variables are those of the      *)
(* consumer's node, an instance has those of the producer's.                *)
EXTENDS Forwarder, ClientFace

CONSTANTS
  I1, RI1, RI2,    \* the three names
  ConsumerToken,   \* the PIT token the consumer puts on I1
  MaxMishaps       \* bound: losses, failures, early expiries

ASSUME DemoAssumption ==
  /\ {RI1, RI2} \subseteq ProducerNames
  /\ I1 \in ReflexiveNames \ ProducerNames
  /\ ConsumerToken \in Word32 \ {0}
  /\ Faces = {"c", "m", "p"}
  /\ NextHops[I1] = <<"m">>

VARIABLES
  upFaces, upPit, upDnl, upCs, upSent,                             \* the producer's node
  upNameToToken, upTokenToName, upNameToPrevToken, upPrevTokenToName,
  wire,           \* packets on their way, in order, per link and direction
  client,         \* the ndn::Face of each application
  registration,   \* of the consumer's prefix: "pending", "done" or "failed"
  answered,       \* RIs the consumer has answered
  missed,         \* RIs that have reached the consumer before its filter was set
  producer,       \* flag, the token of m_interest, m_incoming_RD
  mishaps         \* losses, failures and early expiries so far

Up == INSTANCE Forwarder WITH
        NextHops <- [n \in Names |-> IF n = I1 THEN <<"p">> ELSE << >>],
        faces <- upFaces, pit <- upPit, dnl <- upDnl, cs <- upCs, sent <- upSent,
        nameToToken <- upNameToToken, tokenToName <- upTokenToName,
        nameToPrevToken <- upNameToPrevToken, prevTokenToName <- upPrevTokenToName

upVars == <<upFaces, upPit, upDnl, upCs, upSent, upNameToToken, upTokenToName,
            upNameToPrevToken, upPrevTokenToName>>

appVars == <<client, registration, answered, missed, producer>>

demoVars == <<vars, upVars, appVars, wire, mishaps>>

(* Face "c" of the consumer's node leads to the consumer, face "p" of the   *)
(* producer's node to the producer, "m" connects the nodes.  Each node has  *)
(* the third face too, and nothing comes or goes over it.                   *)
Links == {"c", "m", "p"} \X {"up", "down"}

KeyOf(n) == [name |-> n, canBePrefix |-> FALSE, mustBeFresh |-> n = I1]

InterestFor(n, token) ==
  [kind |-> "interest", key |-> KeyOf(n), nonce |-> CHOOSE x \in Nonces : TRUE, token |-> token]

DataFor(n) == [kind |-> "data", name |-> n, token |-> NoTag]

(* run() of the consumer has posted the filter's registration and I1; the   *)
(* producer has registered its prefix and waits.                            *)
DemoInit ==
  /\ Init /\ Up!Init
  /\ wire = [l \in Links |-> << >>]
  /\ client = [consumer |-> post(NewFace({}), InterestFor(I1, ConsumerToken)),
               producer |-> NewFace({I1})]
  /\ registration = "pending"
  /\ answered = {}
  /\ missed = {}
  /\ producer = [flag |-> FALSE, token |-> NoTag, nRD |-> 0]
  /\ mishaps = 0

----------------------------------------------------------------------------
(* The forwarders                                                           *)

(* Packets that leave a node go down one link or up another.                *)
carried(w, packets, down, up) ==
  [l \in Links |-> IF l \in {<<down, "down">>, <<up, "up">>}
                   THEN w[l] \o SetToSeq({p \in packets : p.face = l[1]}) ELSE w[l]]

taken(l) == [wire EXCEPT ![l] = Tail(@)]

received(p) == [key |-> p.key, nonce |-> p.nonce, hopLimit |-> NoHopLimit, token |-> p.token,
                nextHop |-> NoTag]

(* The applications set a FreshnessPeriod of 10 s.                          *)
receivedData(p) == [name |-> p.name, freshness |-> 2, noCache |-> FALSE]

nodeReceives(l) ==
  LET p == Head(wire[l])
  IN  /\ wire[l] # << >>
      /\ \/ p.kind = "interest" /\ onIncomingInterest(received(p), l[1])
         \/ p.kind = "data" /\ onIncomingData(receivedData(p), l[1])
         \/ p.kind = "nack" /\ onIncomingNack(p, l[1])
      /\ wire' = carried(taken(l), sent', "c", "m")
      /\ UNCHANGED <<upVars, appVars, mishaps>>

upNodeReceives(l) ==
  LET p == Head(wire[l])
  IN  /\ wire[l] # << >>
      /\ \/ p.kind = "interest" /\ Up!onIncomingInterest(received(p), l[1])
         \/ p.kind = "data" /\ Up!onIncomingData(receivedData(p), l[1])
         \/ p.kind = "nack" /\ Up!onIncomingNack(p, l[1])
      /\ wire' = carried(taken(l), upSent', "m", "p")
      /\ UNCHANGED <<vars, appVars, mishaps>>

nodeFinalizes ==
  /\ \E k \in Keys : \/ onInterestFinalize(k) /\ UNCHANGED upVars
                     \/ Up!onInterestFinalize(k) /\ UNCHANGED vars
  /\ UNCHANGED <<appVars, wire, mishaps>>

(* An InterestLifetime runs out, a packet is lost between the nodes.        *)
recordExpires ==
  /\ mishaps < MaxMishaps
  /\ mishaps' = mishaps + 1
  /\ \E k \in Keys, f \in Faces : \/ expireInRecord(k, f) /\ UNCHANGED upVars
                                  \/ Up!expireInRecord(k, f) /\ UNCHANGED vars
  /\ UNCHANGED <<appVars, wire>>

(* One end of the link between the nodes fails.                             *)
linkFails ==
  /\ mishaps < MaxMishaps
  /\ mishaps' = mishaps + 1
  /\ \/ /\ removeFace("m")
        /\ wire' = [wire EXCEPT ![<<"m", "down">>] = << >>]
        /\ UNCHANGED upVars
     \/ /\ Up!removeFace("m")
        /\ wire' = [wire EXCEPT ![<<"m", "up">>] = << >>]
        /\ UNCHANGED vars
  /\ UNCHANGED appVars

losePacket ==
  /\ mishaps < MaxMishaps
  /\ mishaps' = mishaps + 1
  /\ \E l \in {<<"m", "up">>, <<"m", "down">>} : wire[l] # << >> /\ wire' = taken(l)
  /\ UNCHANGED <<vars, upVars, appVars>>

----------------------------------------------------------------------------
(* The applications                                                         *)

linkTo(a) == IF a = "consumer" THEN <<"c", "down">> ELSE <<"p", "up">>
linkFrom(a) == IF a = "consumer" THEN <<"c", "up">> ELSE <<"p", "down">>

(* What expressInterest and put have posted is done.                        *)
runPosted(a) ==
  LET task == Head(client[a].posted)
      c == [client[a] EXCEPT !.posted = Tail(@)]
      d == receivedData(task)
  IN  /\ client[a].posted # << >>
      /\ \/ /\ task.kind = "interest"
            /\ client' = [client EXCEPT ![a] = expressInterest(c, task.key)]
            /\ wire' = [wire EXCEPT ![linkFrom(a)] = Append(@, task)]
         \/ /\ task.kind = "data"
            /\ client' = [client EXCEPT ![a] = satisfyPendingInterests(c, d)]
            /\ wire' = [wire EXCEPT ![linkFrom(a)] =
                          IF shouldSendToForwarder(c, d) THEN Append(@, task) ELSE @]
         \/ /\ task.kind = "shutdown"
            /\ client' = [client EXCEPT ![a] = shutdown(c)]
            /\ UNCHANGED wire
      /\ UNCHANGED <<vars, upVars, registration, answered, missed, producer, mishaps>>

(* The prefix is registered, and only then is the filter set.               *)
registerSucceeds ==
  /\ registration = "pending"
  /\ registration' = "done"
  /\ client' = [client EXCEPT !.consumer.accepts = {RI1, RI2}]
  /\ UNCHANGED <<vars, upVars, wire, answered, missed, producer, mishaps>>

(* The registration fails, or that of the prefix of the certificate, whose  *)
(* answer may come later.                                                   *)
onRegisterFailed ==
  /\ registration # "failed"
  /\ mishaps < MaxMishaps
  /\ mishaps' = mishaps + 1
  /\ registration' = "failed"
  /\ client' = [client EXCEPT !.consumer = post(@, [kind |-> "shutdown"])]
  /\ UNCHANGED <<vars, upVars, wire, answered, missed, producer>>

(* The producer's process ends and takes its face with it.                  *)
producerQuits ==
  /\ mishaps < MaxMishaps
  /\ mishaps' = mishaps + 1
  /\ Up!removeFace("p")
  /\ client' = [client EXCEPT !.producer = shutdown(@)]
  /\ wire' = [wire EXCEPT ![<<"p", "up">>] = << >>, ![<<"p", "down">>] = << >>]
  /\ UNCHANGED <<vars, registration, answered, missed, producer>>

(* The forwarder finds the connection closed.                               *)
faceCloses ==
  /\ ~ client.consumer.open
  /\ removeFace("c")
  /\ wire' = [wire EXCEPT ![<<"c", "up">>] = << >>, ![<<"c", "down">>] = << >>]
  /\ UNCHANGED <<upVars, appVars, mishaps>>

(* Consumer::onInterest, Producer::onInterest; reflect sends the token of   *)
(* I1 back.                                                                 *)
consumerOnInterest(c, p) == post(c, DataFor(p.key.name))

producerOnInterest(c, p) ==
  IF producer.flag \/ p.token = NoTag THEN c ELSE post(c, InterestFor(RI1, p.token))

receiveInterestByApp(a, p) ==
  LET c == processIncomingInterest(client[a], p.key)
      hit == isDispatched(client[a], p.key)
  IN  /\ p.kind = "interest"
      /\ client' = [client EXCEPT ![a] = IF ~ hit THEN c
                                         ELSE IF a = "consumer" THEN consumerOnInterest(c, p)
                                         ELSE producerOnInterest(c, p)]
      /\ answered' = IF hit /\ a = "consumer" THEN answered \cup {p.key.name} ELSE answered
      /\ missed' = IF ~ hit /\ a = "consumer" THEN missed \cup {p.key.name} ELSE missed
      /\ producer' = IF hit /\ a = "producer" /\ ~ producer.flag
                     THEN [producer EXCEPT !.flag = TRUE, !.token = p.token] ELSE producer

(* Mutant: D1 is sent after the first RD.                                   *)
datacallbackEarly(c, nRD) ==
  IF nRD = 1 THEN post(c, DataFor(I1)) ELSE c

(* Producer::datacallback: reflect2 after the first RD, replyData after the *)
(* second.                                                                  *)
datacallback(c, nRD) ==
  IF nRD = 1 /\ producer.token # NoTag THEN post(c, InterestFor(RI2, producer.token))
  ELSE IF nRD = 2 THEN post(c, DataFor(I1)) ELSE c

receiveDataByApp(a, p) ==
  LET d == receivedData(p)
      c == satisfyPendingInterests(client[a], d)
      hit == a = "producer" /\ calledFor(satisfiedBy(client[a], d)) # {}
  IN  /\ p.kind = "data"
      /\ client' = [client EXCEPT ![a] = IF hit THEN datacallback(c, producer.nRD + 1) ELSE c]
      /\ producer' = IF hit THEN [producer EXCEPT !.nRD = @ + 1] ELSE producer
      /\ UNCHANGED <<answered, missed>>

receiveNackByApp(a, p) ==
  /\ p.kind = "nack"
  /\ client' = [client EXCEPT ![a] = nackPendingInterests(@, p.key)]
  /\ UNCHANGED <<answered, missed, producer>>

onReceiveElement(a) ==
  LET p == Head(wire[linkTo(a)])
  IN  /\ client[a].open
      /\ wire[linkTo(a)] # << >>
      /\ \/ receiveInterestByApp(a, p)
         \/ receiveDataByApp(a, p)
         \/ receiveNackByApp(a, p)
      /\ wire' = taken(linkTo(a))
      /\ UNCHANGED <<vars, upVars, registration, mishaps>>

(* Packets that will be received, or posted work that will be done.         *)
isUnderWay ==
  \/ \E a \in {"consumer", "producer"} :
       client[a].posted # << >> \/ (client[a].open /\ wire[linkTo(a)] # << >>)
  \/ "c" \in faces /\ wire[<<"c", "up">>] # << >>
  \/ "m" \in faces /\ wire[<<"m", "down">>] # << >>
  \/ "m" \in upFaces /\ wire[<<"m", "up">>] # << >>
  \/ "p" \in upFaces /\ wire[<<"p", "down">>] # << >>

(* An InterestLifetime that runs out while something is under way is one of *)
(* the mishaps.                                                             *)
interestTimesOut(a) ==
  /\ isUnderWay => mishaps < MaxMishaps
  /\ mishaps' = IF isUnderWay THEN mishaps + 1 ELSE mishaps
  /\ \E e \in client[a].pending :
       client' = [client EXCEPT ![a] = invokeTimeoutCallback(@, e)]
  /\ UNCHANGED <<vars, upVars, registration, answered, missed, producer, wire>>

----------------------------------------------------------------------------
Progress ==
  \/ \E l \in {<<"c", "up">>, <<"m", "down">>} : nodeReceives(l)
  \/ \E l \in {<<"m", "up">>, <<"p", "down">>} : upNodeReceives(l)
  \/ \E a \in {"consumer", "producer"} : runPosted(a) \/ onReceiveElement(a)

DemoNext ==
  \/ Progress
  \/ nodeFinalizes
  \/ recordExpires
  \/ losePacket
  \/ linkFails
  \/ producerQuits
  \/ registerSucceeds
  \/ onRegisterFailed
  \/ faceCloses
  \/ \E a \in {"consumer", "producer"} : interestTimesOut(a)

(* Packets that have been sent are received, posted work is done, and       *)
(* pending Interests time out.                                              *)
DemoFairness ==
  /\ WF_demoVars(Progress)
  /\ WF_demoVars(interestTimesOut("consumer") \/ interestTimesOut("producer"))

DemoSpec == DemoInit /\ [][DemoNext]_demoVars /\ DemoFairness

----------------------------------------------------------------------------
(* Properties                                                               *)

callsFor(a, n) == {i \in DOMAIN client[a].calls : client[a].calls[i][1] = n}

hasOutcome(a, n, outcome) == <<n, outcome>> \in Range(client[a].calls)

(* README: the forwarders restore the PIT tokens hop by hop.  However each  *)
(* of them has drawn its own, an RI that reaches the consumer carries the   *)
(* consumer's, which Consumer::onInterest reads without asking for it.      *)
RIBringsOwnToken ==
  \A i \in DOMAIN wire[<<"c", "down">>] :
    LET p == wire[<<"c", "down">>][i]
    IN  p.kind = "interest" => /\ p.key.name \in {RI1, RI2}
                               /\ p.token = ConsumerToken

(* README: the producer gathers the necessary information and only then     *)
(* sends D1.  When the consumer has D1 it has answered both RIs and the     *)
(* producer has received both answers.                                      *)
D1ComesLast ==
  hasOutcome("consumer", I1, "data") =>
    /\ answered = {RI1, RI2}
    /\ hasOutcome("producer", RI1, "data") /\ hasOutcome("producer", RI2, "data")

(* README: the procedure is gone through to its end.  Unless a packet is    *)
(* lost, a lifetime runs out, something fails or an RI overtakes the        *)
(* registration, the consumer gets D1.                                      *)
ExchangeCompletes ==
  <>(\/ hasOutcome("consumer", I1, "data")
     \/ mishaps > 0 \/ missed # {})

(* Every Interest an application expresses comes to one end: of Data, Nack  *)
(* and timeout, racing each other, exactly one callback is invoked.         *)
SettledOnce ==
  <>[](registration # "failed" =>
         /\ Cardinality(callsFor("consumer", I1)) = 1
         /\ \A n \in {RI1, RI2} : Cardinality(callsFor("producer", n)) <= 1
         /\ \A a \in {"consumer", "producer"} : client[a].pending = {})
=============================================================================
