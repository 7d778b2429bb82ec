----------------------------- MODULE Forwarder -----------------------------
(* One NFD forwarder: the forwarding pipelines of nfd::Forwarder with the   *)
(* PIT, the Dead Nonce List, the Content Store, pit_assist and the          *)
(* best-route strategy.  NFD runs its pipelines on one thread, so a packet  *)
(* or timer event is one step; the steps of different packets, timers and   *)
(* face events interleave.                                                  *)
EXTENDS PitEntry, PitAssist, Sequences

CONSTANTS
  NextHops,          \* FIB: the next hops of a name in order of cost
  DefaultHopLimit,   \* default_hop_limit of the configuration, 0 if off
  AdmitUnsolicited,  \* faces whose unsolicited Data the policy admits to the CS
  InInterests,       \* <<Interest, face>> pairs the neighbours may send
  InDatas,           \* <<Data, face>> pairs the neighbours may send
  InNacks,           \* <<Nack, face>> pairs the neighbours may send
  NoEntry,           \* no PIT entry under a key
  NoData             \* no Data in the CS under a name

ASSUME ForwarderAssumption ==
  /\ NextHops \in [Names -> Seq(Faces)]
  /\ DefaultHopLimit \in 0 .. MaxHopLimit
  /\ AdmitUnsolicited \subseteq Faces
  /\ InInterests \subseteq Interests \X Faces
  /\ InDatas \subseteq Datas \X Faces
  /\ InNacks \subseteq Nacks \X Faces
  /\ NoEntry \notin Entries
  /\ NoData \notin FreshnessPeriods \X BOOLEAN

VARIABLES
  faces,   \* the face table: ids of the faces that are up
  pit,     \* the PIT: key -> entry
  dnl,     \* the Dead Nonce List, as the pairs it answers "has" for
  cs,      \* the Content Store: name -> <<freshness period, still fresh>>
  sent     \* the packets this step has put on faces

fwVars == <<faces, pit, dnl, cs, sent>>

vars == <<faces, pit, dnl, cs, sent, nameToToken, tokenToName, nameToPrevToken, prevTokenToName>>

(* What leaves a face.                                                      *)
InterestOut(f, i) == [kind |-> "interest", face |-> f, key |-> i.key, nonce |-> i.nonce,
                      token |-> i.token]
DataOut(f, n, token) == [kind |-> "data", face |-> f, name |-> n, token |-> token]
NackOut(f, k, nonce, reason) == [kind |-> "nack", face |-> f, key |-> k, nonce |-> nonce,
                                 reason |-> reason]

Packets == [kind : {"interest"}, face : Faces, key : Keys, nonce : Nonces, token : Tags]
           \cup [kind : {"data"}, face : Faces, name : Names, token : Tags]
           \cup [kind : {"nack"}, face : Faces, key : Keys, nonce : Nonces, reason : Reasons]

TypeOK ==
  /\ faces \subseteq Faces
  /\ pit \in [Keys -> Entries \cup {NoEntry}]
  /\ dnl \subseteq Names \X Nonces
  /\ cs \in [Names -> (FreshnessPeriods \X BOOLEAN) \cup {NoData}]
  /\ sent \subseteq Packets
  /\ AssistTypeOK

Init ==
  /\ faces = Faces
  /\ pit = [k \in Keys |-> NoEntry]
  /\ dnl = {}
  /\ cs = [n \in Names |-> NoData]
  /\ sent = {}
  /\ AssistInit

----------------------------------------------------------------------------
(* PIT                                                                      *)

(* Pit::insert: the entry under k, new if there was none.                   *)
findOrInsert(k) == IF pit[k] = NoEntry THEN NewEntry ELSE pit[k]

(* The entries Pit::findBasedOnName may return: the first one under the     *)
(* name in the order its NameTree entry holds them, whatever the selectors. *)
findBasedOnName(n) == {k \in Keys : k.name = n /\ pit[k] # NoEntry}

findAllDataMatches(d) == {k \in Keys : pit[k] # NoEntry /\ matchesData(k, d)}

(* Mutant: the test whether the entry was satisfied is inverted.            *)
deadNoncesInverted(k, e, F) ==
  IF ~ e.satisfied THEN {} ELSE {<<k.name, e.out[g].nonce>> : g \in F \cap OutFaces(e)}

(* The pairs insertDeadNonceList adds for the out-records on the faces F.   *)
deadNonces(k, e, F) ==
  IF e.satisfied /\ ~ (k.mustBeFresh /\ e.freshness < 2)
  THEN {}
  ELSE {<<k.name, e.out[g].nonce>> : g \in F \cap OutFaces(e)}

(* The lookup of Cs::findImpl: the first entry under the prefix that can    *)
(* satisfy the Interest; the order among several is not modelled.           *)
csMatches(k) ==
  {n \in Names : /\ cs[n] # NoData
                 /\ matchesData(k, [name |-> n, freshness |-> cs[n][1], noCache |-> FALSE])
                 /\ k.mustBeFresh => cs[n][2]}

csInsert(d) == IF d.noCache THEN cs ELSE [cs EXCEPT ![d.name] = <<d.freshness, TRUE>>]

----------------------------------------------------------------------------
(* Outgoing pipelines and the best-route strategy.  Each returns the entry  *)
(* it leaves behind and the packets it sends.                               *)

Result(e, packets) == [e |-> e, packets |-> packets]

(* An Interest whose HopLimit is used up only goes to local faces.          *)
isOverHopLimit(i, g) == i.hopLimit = 0 /\ g \notin LocalFaces

onOutgoingInterest(e, i, g) ==
  IF isOverHopLimit(i, g)
  THEN Result(e, {})
  ELSE Result(insertOrUpdateOutRecord(e, g, i.nonce), {InterestOut(g, i)})

(* Mutant: the in-record is deleted before the link type is looked at.      *)
onOutgoingNackForgets(e, k, F, reason) ==
  LET targets == F \cap InFaces(e)
  IN  Result(deleteInRecords(e, targets),
             {NackOut(g, k, e.in[g].nonce, reason) : g \in targets \cap P2PFaces})

(* onOutgoingNack towards each face of F: it takes the in-record with it.   *)
(* Faces without in-record, or that are not point-to-point, get none.       *)
onOutgoingNack(e, k, F, reason) ==
  LET targets == F \cap InFaces(e) \cap P2PFaces
  IN  Result(deleteInRecords(e, targets),
             {NackOut(g, k, e.in[g].nonce, reason) : g \in targets})

rejectPendingInterest(r) == Result(setExpiryTimer(r.e, "now"), r.packets)

(* /localhost Data is not sent to a non-local face.                         *)
onOutgoingData(F, n, tokenOf) ==
  {DataOut(g, n, tokenOf[g]) : g \in {g \in F : n \notin LocalhostNames \/ g \in LocalFaces}}

(* The lowest of a set of positions in a next hop list.                     *)
first(J) == {j \in J : \A m \in J : j <= m}

(* BestRouteStrategy::afterReceiveInterest for an Interest that is not an   *)
(* RI: the possible results.  A retransmission is suppressed or forwarded   *)
(* according to the time since the last one, which is not modelled; nor is  *)
(* which of the next hops that are all in use was used earliest.            *)
afterReceiveInterest(e, i, f) ==
  LET hops == NextHops[i.key.name]
      eligible == {j \in DOMAIN hops : /\ hops[j] \in faces
                                       /\ isNextHopEligible(f, i.key.name, hops[j])}
      unused == {j \in eligible : isUnused(e, hops[j])}
      sendInterest(J) == {onOutgoingInterest(e, i, hops[j]) : j \in J}
  IN  IF ~ hasPendingOutRecords(e)
      THEN IF eligible = {}
           THEN {rejectPendingInterest(onOutgoingNack(e, i.key, {f}, NO_ROUTE))}
           ELSE sendInterest(first(eligible))
      ELSE {Result(e, {})}
           \cup sendInterest(IF unused # {} THEN first(unused) ELSE eligible)

(* Mutant: with one upstream left to wait for, everyone is Nacked.          *)
processNackEarly(e, k) ==
  LET waiting == {g \in OutFaces(e) : e.out[g].nack = NotNacked}
      reason == leastSevereReason({e.out[g].nack : g \in OutFaces(e) \ waiting})
      downstreams == IF Cardinality(waiting) <= 1 THEN Faces ELSE {}
  IN  onOutgoingNack(e, k, downstreams, reason)

(* ProcessNackTraits::processNack.                                          *)
processNack(e, k) ==
  LET waiting == {g \in OutFaces(e) : e.out[g].nack = NotNacked}
      reason == leastSevereReason({e.out[g].nack : g \in OutFaces(e) \ waiting})
      downstreams == IF waiting = {} THEN Faces ELSE {g \in waiting : waiting = {g}}
  IN  onOutgoingNack(e, k, downstreams, reason)

----------------------------------------------------------------------------
(* Incoming Interest                                                        *)

decrementHopLimit(i) ==
  [i EXCEPT !.hopLimit = IF @ = NoHopLimit THEN NoHopLimit ELSE @ - 1]

attachHopLimit(i) ==
  [i EXCEPT !.hopLimit = IF @ = NoHopLimit /\ DefaultHopLimit > 0 THEN DefaultHopLimit ELSE @]

isViolatingLocalhost(n, f) == f \notin LocalFaces /\ n \in LocalhostNames

(* A Nack of onInterestLoop needs no in-record.                             *)
onInterestLoop(i, f) ==
  IF f \in P2PFaces THEN {NackOut(f, i.key, i.nonce, DUPLICATE)} ELSE {}

dropInterest(i, f) ==
  /\ i.hopLimit = 0 \/ isViolatingLocalhost(i.key.name, f)
  /\ sent' = {}
  /\ UNCHANGED <<faces, pit, dnl, cs, assistVars>>

(* What an Interest has to pass to reach the PIT.                           *)
isAccepted(i, f) ==
  /\ i.hopLimit # 0
  /\ ~ isViolatingLocalhost(i.key.name, f)
  /\ <<i.key.name, i.nonce>> \notin dnl

detectLoopInDnl(i, f) ==
  /\ i.hopLimit # 0
  /\ ~ isViolatingLocalhost(i.key.name, f)
  /\ <<i.key.name, i.nonce>> \in dnl
  /\ sent' = onInterestLoop(i, f)
  /\ UNCHANGED <<faces, pit, dnl, cs, assistVars>>

(* onSendingRI: an Interest the producer sends towards the consumer.  The   *)
(* PIT entry it was given by onIncomingInterest stays, whatever follows.    *)
nackRI(i, f) ==
  /\ \/ tokenValue(i) = 0
     \/ tokenToName[tokenValue(i)] = NoName
  /\ pit' = [pit EXCEPT ![i.key] = findOrInsert(i.key)]
  /\ sent' = {NackOut(f, i.key, i.nonce, IF tokenValue(i) = 0 THEN NONE ELSE NO_ROUTE)}

dropRI(i, f) ==
  /\ tokenValue(i) # 0
  /\ tokenToName[tokenValue(i)] # NoName
  /\ \/ findBasedOnName(tokenToName[tokenValue(i)]) = {}
     \/ nameToPrevToken[tokenToName[tokenValue(i)]] = NoToken
  /\ pit' = [pit EXCEPT ![i.key] = findOrInsert(i.key)]
  /\ sent' = {}

(* Mutant: the timer of the RI's entry is not set.                          *)
pendingRINoTimer(i, f, tag) ==
  insertOrUpdateInRecord(findOrInsert(i.key), f, i.nonce, tag, i.token)

(* The in-record and the timer of the RI's own entry.                       *)
pendingRI(i, f, tag) ==
  setExpiryTimer(insertOrUpdateInRecord(findOrInsert(i.key), f, i.nonce, tag, i.token), "lifetime")

(* Mutant: the RI goes on with the token it came with.                      *)
forwardRIKeepsToken(i, f) ==
  LET original == tokenToName[tokenValue(i)]
  IN  /\ tokenValue(i) # 0
      /\ original # NoName
      /\ \E ko \in findBasedOnName(original) : \E g \in FrontFaces(pit[ko]) :
           LET r == onOutgoingInterest(pendingRI(i, f, i.token), i, g)
           IN  /\ pit' = [pit EXCEPT ![i.key] = r.e]
               /\ sent' = r.packets

(* best-route sends the RI to the front in-record of the original Interest  *)
(* under key ko; the RI's own entry gets the in-record and the out-record.  *)
(* With no in-record left, the original Interest is rejected.               *)
forwardRI(i, f) ==
  LET original == tokenToName[tokenValue(i)]
      ri == attachHopLimit([i EXCEPT !.token = nameToPrevToken[original]])
      pending == pendingRI(i, f, ri.token)
  IN  /\ tokenValue(i) # 0
      /\ original # NoName
      /\ nameToPrevToken[original] # NoToken
      /\ \E ko \in findBasedOnName(original) :
           \/ \E g \in FrontFaces(pit[ko]) :
                LET r == onOutgoingInterest(pending, ri, g)
                IN  /\ pit' = [pit EXCEPT ![i.key] = r.e]
                    /\ sent' = r.packets
           \/ /\ ~ hasInRecords(pit[ko])
              /\ LET r == rejectPendingInterest(onOutgoingNack(pit[ko], ko, {f}, NO_ROUTE))
                 IN  /\ pit' = [pit EXCEPT ![i.key] = pending, ![ko] = r.e]
                     /\ sent' = r.packets

onSendingRI(i, f) ==
  /\ isAccepted(i, f)
  /\ isReflexiveInterestFromProducer(i)
  /\ LET ri == decrementHopLimit(i)
     IN  nackRI(ri, f) \/ dropRI(ri, f) \/ forwardRI(ri, f)
  /\ UNCHANGED <<faces, dnl, cs, assistVars>>

(* onContentStoreMiss.  The in-record points to the Interest object itself, *)
(* so the token set for the next hop also replaces the tag in the record.   *)
onContentStoreMiss(i, f, e) ==
  LET ii == attachHopLimit(i)
      nextToken == IF isReflexiveInterest(i) THEN nameToToken'[i.key.name] ELSE i.token
      pending(tag) ==
        setExpiryTimer(insertOrUpdateInRecord(e, f, i.nonce, tag, i.token), "lifetime")
      result(r) == pit' = [pit EXCEPT ![i.key] = r.e] /\ sent' = r.packets
  IN  \/ /\ i.nextHop \in faces
         /\ ~ isOverHopLimit(ii, i.nextHop)
         /\ result(onOutgoingInterest(pending(nextToken), [ii EXCEPT !.token = nextToken],
                                      i.nextHop))
      \/ /\ i.nextHop # NoTag
         /\ i.nextHop \in faces => isOverHopLimit(ii, i.nextHop)
         /\ result(Result(pending(i.token), {}))
      \/ /\ i.nextHop = NoTag
         /\ \E r \in afterReceiveInterest(
                      pending(nextToken),
                      [ii EXCEPT !.token = IF isReflexiveInterest(i) THEN nextToken ELSE NoTag],
                      f) : result(r)

onContentStoreHit(i, f, e, n) ==
  /\ pit' = [pit EXCEPT ![i.key] = setExpiryTimer(setSatisfied(e, cs[n][1]), "now")]
  /\ sent' = onOutgoingData({f}, n, [g \in {f} |-> i.token])

(* The rest of onIncomingInterest for an Interest that is not an RI.        *)
receiveInterest(i, f) ==
  LET e == findOrInsert(i.key)
      ii == decrementHopLimit(i)
      hits == IF hasInRecords(e) THEN {} ELSE csMatches(i.key)
  IN  /\ isAccepted(i, f)
      /\ ~ isReflexiveInterestFromProducer(i)
      /\ recordToken(i)
      /\ \/ /\ hasDuplicateNonce(e, i.nonce, f)
            /\ pit' = [pit EXCEPT ![i.key] = e]
            /\ sent' = onInterestLoop(i, f)
         \/ /\ ~ hasDuplicateNonce(e, i.nonce, f)
            /\ \/ \E n \in hits : onContentStoreHit(ii, f, e, n)
               \/ hits = {} /\ onContentStoreMiss(ii, f, e)
      /\ UNCHANGED <<faces, dnl, cs>>

onIncomingInterest(i, f) ==
  /\ f \in faces
  /\ \/ dropInterest(i, f)
     \/ detectLoopInDnl(i, f)
     \/ onSendingRI(i, f)
     \/ receiveInterest(i, f)

----------------------------------------------------------------------------
(* Incoming Data                                                            *)

(* What satisfying the entry under k with Data d from face f leaves of it   *)
(* once the in-records of the faces D are gone.                             *)
satisfy(e, d, D, f) ==
  deleteOutRecord(setSatisfied(setExpiryTimer(deleteInRecords(e, D), "now"), d.freshness), f)

satisfiedNonces(K, d, f) ==
  UNION {deadNonces(k, setSatisfied(pit[k], d.freshness), {f}) : k \in K}

dropData(d, f) ==
  /\ isViolatingLocalhost(d.name, f)
  /\ sent' = {}
  /\ UNCHANGED <<pit, dnl, cs>>

onDataUnsolicited(d, f) ==
  /\ ~ isViolatingLocalhost(d.name, f)
  /\ findAllDataMatches(d) = {}
  /\ cs' = IF f \in AdmitUnsolicited THEN csInsert(d) ELSE cs
  /\ sent' = {}
  /\ UNCHANGED <<pit, dnl>>

(* One entry matches: Strategy::sendDataToAll.  Every downstream gets the   *)
(* token of its own in-record.                                              *)
satisfyOne(d, f) ==
  /\ ~ isViolatingLocalhost(d.name, f)
  /\ \E k \in Keys :
       LET D == pendingDownstreams(pit[k], f)
       IN  /\ findAllDataMatches(d) = {k}
           /\ pit' = [pit EXCEPT ![k] = satisfy(@, d, D, f)]
           /\ sent' = onOutgoingData(D, d.name, [g \in D |-> pit[k].in[g].tag])
  /\ cs' = csInsert(d)
  /\ dnl' = dnl \cup satisfiedNonces(findAllDataMatches(d), d, f)

(* Mutant: every matching entry is cleared, one is served.                  *)
satisfyManyServesOne(d, f) ==
  LET K == findAllDataMatches(d)
      D == pendingDownstreams(pit[CHOOSE k \in K : TRUE], f)
  IN  /\ ~ isViolatingLocalhost(d.name, f)
      /\ \E k, l \in K : k # l
      /\ pit' = [k \in Keys |-> IF k \in K THEN satisfy(pit[k], d, Faces, f) ELSE pit[k]]
      /\ sent' = onOutgoingData(D, d.name, [g \in D |-> NoTag])
      /\ cs' = csInsert(d)
      /\ dnl' = dnl \cup satisfiedNonces(K, d, f)

(* Several entries match: all their in-records are cleared, and the Data    *)
(* is sent as it is, without a token.                                       *)
satisfyMany(d, f) ==
  LET K == findAllDataMatches(d)
      D == UNION {pendingDownstreams(pit[k], f) : k \in K}
  IN  /\ ~ isViolatingLocalhost(d.name, f)
      /\ \E k, l \in K : k # l
      /\ pit' = [k \in Keys |-> IF k \in K THEN satisfy(pit[k], d, Faces, f) ELSE pit[k]]
      /\ sent' = onOutgoingData(D, d.name, [g \in D |-> NoTag])
      /\ cs' = csInsert(d)
      /\ dnl' = dnl \cup satisfiedNonces(K, d, f)

onIncomingData(d, f) ==
  /\ f \in faces
  /\ dropData(d, f) \/ onDataUnsolicited(d, f) \/ satisfyOne(d, f) \/ satisfyMany(d, f)
  /\ UNCHANGED <<faces, assistVars>>

----------------------------------------------------------------------------
(* Incoming Nack                                                            *)

(* A Nack counts if it answers the last Interest sent on that face.         *)
isNackAccepted(n, f) ==
  /\ f \in P2PFaces
  /\ pit[n.key] # NoEntry
  /\ pit[n.key].out[f] # NoRecord
  /\ pit[n.key].out[f].nonce = n.nonce

dropNack(n, f) ==
  /\ ~ isNackAccepted(n, f)
  /\ sent' = {}
  /\ UNCHANGED pit

recordNack(n, f) ==
  LET nacked == [pit[n.key] EXCEPT !.out[f].nack = n.reason]
      due == IF hasPendingOutRecords(nacked) THEN nacked ELSE setExpiryTimer(nacked, "now")
      r == processNack(due, n.key)
  IN  /\ isNackAccepted(n, f)
      /\ pit' = [pit EXCEPT ![n.key] = r.e]
      /\ sent' = r.packets

onIncomingNack(n, f) ==
  /\ f \in faces
  /\ dropNack(n, f) \/ recordNack(n, f)
  /\ UNCHANGED <<faces, dnl, cs, assistVars>>

----------------------------------------------------------------------------
(* Timers, face removal, and what the tables do by themselves               *)

(* The expiry timer of the entry under k fires.  A timer set for the last   *)
(* in-record's expiry does not fire before every in-record has expired.     *)
onInterestFinalize(k) ==
  /\ pit[k] # NoEntry
  /\ \/ pit[k].timer = "now"
     \/ pit[k].timer = "lifetime" /\ \A f \in InFaces(pit[k]) : pit[k].in[f].expired
  /\ dnl' = dnl \cup deadNonces(k, pit[k], Faces)
  /\ pit' = [pit EXCEPT ![k] = NoEntry]
  /\ sent' = {}
  /\ UNCHANGED <<faces, cs, assistVars>>

(* The InterestLifetime of an in-record, of an out-record, runs out.        *)
expireInRecord(k, f) ==
  /\ pit[k] # NoEntry
  /\ pit[k].in[f] # NoRecord
  /\ ~ pit[k].in[f].expired
  /\ pit' = [pit EXCEPT ![k].in[f].expired = TRUE]
  /\ sent' = {}
  /\ UNCHANGED <<faces, dnl, cs, assistVars>>

expireOutRecord(k, f) ==
  /\ pit[k] # NoEntry
  /\ pit[k].out[f] # NoRecord
  /\ ~ pit[k].out[f].expired
  /\ pit' = [pit EXCEPT ![k].out[f].expired = TRUE]
  /\ sent' = {}
  /\ UNCHANGED <<faces, dnl, cs, assistVars>>

(* Mutant: the out-records of the face are left.                            *)
removeFaceKeepsOut(f) ==
  /\ f \in faces
  /\ faces' = faces \ {f}
  /\ pit' = [k \in Keys |-> IF pit[k] = NoEntry THEN NoEntry ELSE deleteInRecords(pit[k], {f})]
  /\ sent' = {}
  /\ UNCHANGED <<dnl, cs, assistVars>>

(* FaceTable::remove with cleanupOnFaceRemoval.  That a removed face is no  *)
(* next hop any more is in afterReceiveInterest.                            *)
removeFace(f) ==
  /\ f \in faces
  /\ faces' = faces \ {f}
  /\ pit' = [k \in Keys |-> IF pit[k] = NoEntry
                            THEN NoEntry
                            ELSE deleteOutRecord(deleteInRecords(pit[k], {f}), f)]
  /\ sent' = {}
  /\ UNCHANGED <<dnl, cs, assistVars>>

(* The Dead Nonce List evicts its oldest entries to keep to its capacity.   *)
evictNonce ==
  /\ \E x \in dnl : dnl' = dnl \ {x}
  /\ sent' = {}
  /\ UNCHANGED <<faces, pit, cs, assistVars>>

(* The FreshnessPeriod of cached Data runs out.                             *)
ageData ==
  /\ \E n \in Names : /\ cs[n] # NoData
                      /\ cs[n][2]
                      /\ cs' = [cs EXCEPT ![n] = <<@[1], FALSE>>]
  /\ sent' = {}
  /\ UNCHANGED <<faces, pit, dnl, assistVars>>

(* The Content Store's policy evicts Data, or management erases it.         *)
evictData ==
  /\ \E n \in Names : cs[n] # NoData /\ cs' = [cs EXCEPT ![n] = NoData]
  /\ sent' = {}
  /\ UNCHANGED <<faces, pit, dnl, assistVars>>

Next ==
  \/ \E a \in InInterests : onIncomingInterest(a[1], a[2])
  \/ \E a \in InDatas : onIncomingData(a[1], a[2])
  \/ \E a \in InNacks : onIncomingNack(a[1], a[2])
  \/ \E k \in Keys : onInterestFinalize(k)
  \/ \E k \in Keys, f \in Faces : expireInRecord(k, f) \/ expireOutRecord(k, f)
  \/ \E f \in Faces : removeFace(f)
  \/ evictNonce
  \/ ageData
  \/ evictData

Spec == Init /\ [][Next]_vars

(* Lifetimes run out and scheduled events run: the clock does not stop.     *)
(* Nothing is assumed of the neighbours, the evictions or face removal.     *)
Fairness == \A k \in Keys : /\ WF_vars(onInterestFinalize(k))
                            /\ \A f \in Faces : WF_vars(expireInRecord(k, f))

FairSpec == Spec /\ Fairness

----------------------------------------------------------------------------
(* Properties                                                               *)

IsRI(p) == p.kind = "interest" /\ p.key.name \in ProducerNames

IsReflexive(p) == p.kind = "interest" /\ p.key.name \in ReflexiveNames \ ProducerNames

(* PIT records hold plain references to faces.  cleanupOnFaceRemoval has to *)
(* take every record of a face with it, or a later Data, Nack or RI follows *)
(* a reference to a face that is gone; and no pipeline sends on such a face.*)
RecordsOnLiveFaces ==
  /\ \A k \in Keys : pit[k] # NoEntry =>
       /\ InFaces(pit[k]) \subseteq faces
       /\ OutFaces(pit[k]) \subseteq faces
  /\ \A p \in sent : p.face \in faces

(* An entry someone waits on, or that has been forwarded, has its expiry    *)
(* timer running whatever order Interests, RIs, Data, Nacks and face        *)
(* removals come in: nothing else ever deletes it.                          *)
PendingHasTimer ==
  \A k \in Keys : pit[k] # NoEntry =>
    (InFaces(pit[k]) \cup OutFaces(pit[k]) # {} => pit[k].timer # "none")

(* Every reflexive Interest that goes upstream carries a token from which   *)
(* onSendingRI will find the name of this very Interest again.              *)
UpstreamTokenNamesInterest ==
  \A p \in sent : IsReflexive(p) =>
    /\ p.token \in Word32 \ reserved
    /\ tokenToName[p.token] = p.key.name

(* An RI leaves on a face only if an Interest from that face is pending for *)
(* the name the token belongs to, and it leaves with the token the previous *)
(* hop had given for that name.                                             *)
RIGoesToRequester ==
  [][\A p \in sent' : IsRI(p) =>
       \E k \in Keys : /\ pit[k] # NoEntry
                       /\ k.name \notin ProducerNames
                       /\ p.face \in InFaces(pit[k])
                       /\ existName(k.name)
                       /\ p.token = nameToPrevToken[k.name]]_vars

(* Flow balance: Data leaves on a face only as the answer to an Interest of *)
(* that face, and uses the Interest up.  Either an in-record that had not   *)
(* expired goes with it, or the Interest was answered from the Content      *)
(* Store as it arrived and left no in-record at all.                        *)
DataAnswersInterest ==
  [][\A p \in sent' : p.kind = "data" =>
       \E k \in Keys :
         /\ IF k.canBePrefix THEN <<k.name, p.name>> \in PrefixOf ELSE k.name = p.name
         /\ pit'[k] # NoEntry
         /\ pit'[k].satisfied
         /\ p.face \notin InFaces(pit'[k])
         /\ \/ pit[k] # NoEntry /\ p.face \in InFaces(pit[k]) /\ ~ pit[k].in[p.face].expired
            \/ cs[p.name] # NoData /\ ~ hasInRecords(findOrInsert(k))]_vars

(* A downstream is not forgotten: an in-record that has not expired goes    *)
(* away only with an answer on its face, with its face, with Data that came *)
(* from that face itself, with /localhost Data it may not see, or with an   *)
(* entry that was already scheduled for immediate deletion.                 *)
PendingIsAnswered ==
  [][\A k \in Keys, f \in Faces :
       (/\ pit[k] # NoEntry
        /\ pit[k].in[f] # NoRecord
        /\ ~ pit[k].in[f].expired
        /\ pit'[k] # NoEntry => pit'[k].in[f] = NoRecord)
       => \/ \E p \in sent' : p.face = f /\ p.kind \in {"data", "nack"}
          \/ f \notin faces'
          \/ \E a \in InDatas : /\ onIncomingData(a[1], a[2])
                                /\ a[2] = f \/ a[1].name \in LocalhostNames
          \/ pit[k].timer = "now" /\ pit'[k] = NoEntry]_vars

(* Loop detection does not lapse between the PIT and the Dead Nonce List: a *)
(* nonce that has been sent upstream leaves its out-record only for a newer *)
(* one, with its face, into the Dead Nonce List, or because Data that the   *)
(* Content Store can serve has satisfied the entry.                         *)
NonceIsRemembered ==
  [][\A k \in Keys, f \in Faces :
       (/\ pit[k] # NoEntry
        /\ pit[k].out[f] # NoRecord
        /\ pit'[k] # NoEntry => pit'[k].out[f] = NoRecord)
       => \/ f \notin faces'
          \/ <<k.name, pit[k].out[f].nonce>> \in dnl'
          \/ LET e == IF pit'[k] = NoEntry THEN pit[k] ELSE pit'[k]
             IN  e.satisfied /\ (k.mustBeFresh => e.freshness = 2)]_vars

(* Pending Interests do not stay: the entry under k is without in-records   *)
(* again and again, unless Interests for k keep arriving for ever.          *)
PendingIsResolved ==
  \A k \in Keys :
    \/ []<>(pit[k] = NoEntry \/ ~ hasInRecords(pit[k]))
    \/ []<><<\E a \in InInterests : a[1].key = k /\ onIncomingInterest(a[1], a[2])>>_vars

(* A Nack goes down only when no upstream is left to wait for: when a Nack  *)
(* comes in and one goes out to face g, every out-record other than g's own *)
(* has been Nacked, and g hears the least severe of the reasons.            *)
NackWaitsForUpstreams ==
  [][\A a \in InNacks :
       (a[2] \in faces /\ recordNack(a[1], a[2]))
       => \A p \in sent' : \A g \in OutFaces(pit'[a[1].key]) \ {p.face} :
            LET nack == pit'[a[1].key].out[g].nack
            IN  nack # NotNacked /\ ~ isLessSevere(nack, p.reason)]_vars

(* Scope control of scope-prefix.hpp: packets under /localhost stay on      *)
(* local faces, and an Interest under /localhop that crosses a non-local    *)
(* face was asked for by a local application.                               *)
ScopeIsKept ==
  \A p \in sent :
    /\ p.kind = "data" /\ p.name \in LocalhostNames => p.face \in LocalFaces
    /\ p.kind = "interest" =>
         /\ p.key.name \in LocalhostNames => p.face \in LocalFaces
         /\ p.key.name \in LocalhopNames /\ p.face \notin LocalFaces
              => InFaces(pit[p.key]) \cap LocalFaces # {}

----------------------------------------------------------------------------
(* What the repository's documentation, comments and tests say of the       *)
(* pipelines and the code does not do.                                      *)

(* pit-token.t.cpp: the Data a downstream receives carries the PIT token of *)
(* the Interest it had sent.                                                *)
DataEchoesToken ==
  [][\A p \in sent' : p.kind = "data" =>
       LET consumed == {k \in Keys : /\ pit[k] # NoEntry
                                     /\ p.face \in InFaces(pit[k])
                                     /\ p.face \notin InFaces(pit'[k])}
       IN  consumed # {} => \E k \in consumed : p.token = pit[k].in[p.face].asked]_vars

(* README: the forwarder forwards an RI to the consumer based on the token: *)
(* the RI leaves, with token t, on a face whose Interest had brought t.     *)
RIFollowsToken ==
  [][\A p \in sent' : IsRI(p) =>
       \E k \in Keys : /\ pit[k] # NoEntry
                       /\ p.face \in InFaces(pit[k])
                       /\ p.token = tokenValue([token |-> pit[k].in[p.face].asked])]_vars

(* forwarder.t.cpp: a PIT entry should not be left behind.  Unless          *)
(* Interests for it keep arriving, every entry is gone again and again.     *)
EntryIsReleased ==
  \A k \in Keys :
    \/ []<>(pit[k] = NoEntry)
    \/ []<><<\E a \in InInterests : a[1].key = k /\ onIncomingInterest(a[1], a[2])>>_vars

(* pit-out-record.hpp: the outgoing Interest pipeline clears the last Nack, *)
(* so that an out-record with a Nack is one whose last Interest was Nacked. *)
NackIsCleared ==
  [][\A p \in sent' : p.kind = "interest" =>
       pit'[p.key].out[p.face].nack = NotNacked]_vars
=============================================================================
