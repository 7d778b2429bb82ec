-------------------------- MODULE ReflexiveProofs --------------------------
(* Proofs about reflexive forwarding: what token an Interest leaves with,   *)
(* and on which face an RI leaves.                                          *)
EXTENDS ForwarderProofs

(* The Interests among the packets S are all copies of i.                   *)
OnlyForwards(S, i) == \A p \in S : p.kind = "interest" => p.key = i.key /\ p.token = i.token

(* There is no Interest among the packets S.                                *)
NoInterest(S) == \A p \in S : p.kind # "interest"

LEMMA OutgoingInterestForwards ==
  ASSUME NEW e, NEW i, NEW g
  PROVE  OnlyForwards(onOutgoingInterest(e, i, g).packets, i)
BY DEF OnlyForwards, onOutgoingInterest, Result, InterestOut

LEMMA OutgoingNackNoInterest ==
  ASSUME NEW e, NEW k, NEW D, NEW reason
  PROVE  NoInterest(onOutgoingNack(e, k, D, reason).packets)
BY DEF NoInterest, onOutgoingNack, Result, NackOut

LEMMA OutgoingDataNoInterest ==
  ASSUME NEW D, NEW n, NEW tokenOf
  PROVE  NoInterest(onOutgoingData(D, n, tokenOf))
BY DEF NoInterest, onOutgoingData, DataOut

LEMMA AfterReceiveInterestForwards ==
  ASSUME NEW e, NEW i, NEW f, NEW r \in afterReceiveInterest(e, i, f)
  PROVE  OnlyForwards(r.packets, i)
<1> DEFINE hops == NextHops[i.key.name]
           nacked == onOutgoingNack(e, i.key, {f}, NO_ROUTE)
<1>1. \/ r = rejectPendingInterest(nacked)
      \/ r = Result(e, {})
      \/ \E g : r = onOutgoingInterest(e, i, g)
  <2> HIDE DEF nacked
  <2>1. \/ r \in {rejectPendingInterest(nacked)}
        \/ \E J : r \in {Result(e, {})} \cup {onOutgoingInterest(e, i, hops[j]) : j \in J}
    BY ZenonT(60) DEF afterReceiveInterest, nacked
  <2>2. QED BY <2>1, SMTT(60)
<1>2. CASE r = rejectPendingInterest(nacked)
  BY <1>2, OutgoingNackNoInterest DEF rejectPendingInterest, Result, OnlyForwards, NoInterest
<1>3. CASE r = Result(e, {})
  BY <1>3 DEF Result, OnlyForwards
<1>4. CASE \E g : r = onOutgoingInterest(e, i, g)
  BY <1>4, OutgoingInterestForwards
<1>5. QED BY <1>1, <1>2, <1>3, <1>4

(* onContentStoreMiss forwards the Interest it was given, a reflexive one   *)
(* with the token of pit_assist.                                            *)
LEMMA MissForwards ==
  ASSUME NEW i \in Interests, NEW f, NEW e, onContentStoreMiss(i, f, e),
         NEW p \in sent', p.kind = "interest"
  PROVE  /\ p.key = i.key
         /\ isReflexiveInterest(i) => p.token = nameToToken'[i.key.name]
<1> DEFINE ii == attachHopLimit(i)
           nextToken == IF isReflexiveInterest(i) THEN nameToToken'[i.key.name] ELSE i.token
           stripped == IF isReflexiveInterest(i) THEN nextToken ELSE NoTag
           pending(tag) ==
             setExpiryTimer(insertOrUpdateInRecord(e, f, i.nonce, tag, i.token), "lifetime")
<1>1. \/ sent' = onOutgoingInterest(pending(nextToken), [ii EXCEPT !.token = nextToken],
                                    i.nextHop).packets
      \/ sent' = {}
      \/ \E r \in afterReceiveInterest(pending(nextToken), [ii EXCEPT !.token = stripped], f) :
            sent' = r.packets
  BY DEF onContentStoreMiss, Result
<1>2. ii \in Interests /\ ii.key = i.key
  BY AttachedInterest
<1> HIDE DEF ii, pending
<1>3. ASSUME NEW t
      PROVE  [ii EXCEPT !.token = t].key = i.key /\ [ii EXCEPT !.token = t].token = t
  BY <1>2 DEF Interests
<1>4. isReflexiveInterest(i) => nextToken = nameToToken'[i.key.name] /\ stripped = nextToken
  OBVIOUS
<1> HIDE DEF nextToken, stripped
<1>5. CASE sent' = onOutgoingInterest(pending(nextToken), [ii EXCEPT !.token = nextToken],
                                      i.nextHop).packets
  <2>1. OnlyForwards(sent', [ii EXCEPT !.token = nextToken])
    BY <1>5, OutgoingInterestForwards
  <2>2. QED BY <1>3, <1>4, <2>1 DEF OnlyForwards
<1>6. CASE \E r \in afterReceiveInterest(pending(nextToken), [ii EXCEPT !.token = stripped], f) :
              sent' = r.packets
  <2>1. OnlyForwards(sent', [ii EXCEPT !.token = stripped])
    BY <1>6, AfterReceiveInterestForwards
  <2>2. QED BY <1>3, <1>4, <2>1 DEF OnlyForwards
<1>7. QED BY <1>1, <1>5, <1>6

----------------------------------------------------------------------------
(* Only an incoming Interest makes an Interest leave.                       *)
LEMMA InterestBringsInterest ==
  ASSUME Inv, Next, NEW p \in sent', p.kind = "interest"
  PROVE  \E a \in InInterests : onIncomingInterest(a[1], a[2])
<1>1. ASSUME NEW d \in Datas, NEW f, onIncomingData(d, f) PROVE FALSE
  <2>1. CASE dropData(d, f) \/ onDataUnsolicited(d, f)
    BY <2>1 DEF dropData, onDataUnsolicited
  <2>2. CASE satisfyOne(d, f)
    <3>1. PICK k \in Keys :
            LET D == pendingDownstreams(pit[k], f)
            IN  sent' = onOutgoingData(D, d.name, [g \in D |-> pit[k].in[g].tag])
      BY <2>2, ZenonT(60) DEF satisfyOne
    <3>2. QED BY <3>1, OutgoingDataNoInterest, SMTT(60) DEF NoInterest
  <2>3. CASE satisfyMany(d, f)
    <3>1. LET D == UNION {pendingDownstreams(pit[k], f) : k \in findAllDataMatches(d)}
          IN  sent' = onOutgoingData(D, d.name, [g \in D |-> NoTag])
      BY <2>3 DEF satisfyMany
    <3>2. QED BY <3>1, OutgoingDataNoInterest DEF NoInterest
  <2>4. QED BY <1>1, <2>1, <2>2, <2>3 DEF onIncomingData
<1>2. ASSUME NEW n \in Nacks, NEW f, onIncomingNack(n, f) PROVE FALSE
  <2>1. ASSUME NEW e, NEW k PROVE NoInterest(processNack(e, k).packets)
    BY OutgoingNackNoInterest DEF processNack
  <2>2. CASE dropNack(n, f)
    BY <2>2 DEF dropNack
  <2>3. CASE recordNack(n, f)
    <3>1. \E e : sent' = processNack(e, n.key).packets
      BY <2>3 DEF recordNack
    <3>2. QED BY <2>1, <3>1 DEF NoInterest
  <2>4. QED BY <1>2, <2>2, <2>3 DEF onIncomingNack
<1>3. ~ \E k \in Keys : onInterestFinalize(k)
  BY SMTT(60) DEF onInterestFinalize
<1>4. ~ \E k \in Keys, f \in Faces : expireInRecord(k, f) \/ expireOutRecord(k, f)
  BY DEF expireInRecord, expireOutRecord
<1>5. ~ \E f \in Faces : removeFace(f)
  BY ZenonT(60) DEF removeFace
<1>6. ~ (evictNonce \/ ageData \/ evictData)
  BY ZenonT(60) DEF evictNonce, ageData, evictData
<1>7. QED BY <1>1, <1>2, <1>3, <1>4, <1>5, <1>6, ForwarderAssumption, SMTT(60) DEF Next

(* Where an Interest that leaves comes from: from an incoming one that is   *)
(* not an RI and keeps its name, or from forwardRI.                         *)
LEMMA InterestLeaves ==
  ASSUME Inv, Next, NEW p \in sent', p.kind = "interest"
  PROVE  \/ \E i \in Interests :
              /\ ~ isReflexiveInterestFromProducer(i)
              /\ recordToken(i)
              /\ p.key = i.key
              /\ isReflexiveInterest(i) => p.token = nameToToken'[i.key.name]
         \/ \E i \in Interests, f \in Faces :
              isReflexiveInterestFromProducer(i) /\ forwardRI(i, f) /\ UNCHANGED assistVars
<1>1. PICK i \in Interests, f \in Faces : onIncomingInterest(i, f)
  BY InterestBringsInterest, ForwarderAssumption, SMTT(60)
<1>2. CASE dropInterest(i, f)
  BY <1>2, SMTT(60) DEF dropInterest
<1>3. CASE detectLoopInDnl(i, f)
  BY <1>3 DEF detectLoopInDnl, onInterestLoop, NackOut
<1>4. CASE onSendingRI(i, f)
  <2> DEFINE ri == decrementHopLimit(i)
  <2>1. ri \in Interests /\ isReflexiveInterestFromProducer(ri) /\ UNCHANGED assistVars
    BY <1>4, DecrementedInterest DEF onSendingRI, isAccepted, isReflexiveInterestFromProducer
  <2>2. nackRI(ri, f) \/ dropRI(ri, f) \/ forwardRI(ri, f)
    BY <1>4, SMTT(60) DEF onSendingRI
  <2> HIDE DEF ri
  <2>3. ~ nackRI(ri, f) /\ ~ dropRI(ri, f)
    BY DEF nackRI, dropRI, NackOut
  <2>4. QED BY <2>1, <2>2, <2>3
<1>5. CASE receiveInterest(i, f)
  <2> DEFINE e == findOrInsert(i.key)
             ii == decrementHopLimit(i)
  <2>1. isAccepted(i, f) /\ ~ isReflexiveInterestFromProducer(i) /\ recordToken(i)
    BY <1>5 DEF receiveInterest
  <2>2. /\ ii \in Interests /\ ii.key = i.key
        /\ isReflexiveInterest(ii) <=> isReflexiveInterest(i)
    BY <2>1, DecrementedInterest, SMTT(60) DEF isAccepted, isReflexiveInterest
  <2>3. \/ sent' = onInterestLoop(i, f)
        \/ \E n : sent' = onOutgoingData({f}, n, [g \in {f} |-> ii.token])
        \/ onContentStoreMiss(ii, f, e)
    BY <1>5 DEF receiveInterest, onContentStoreHit
  <2> HIDE DEF e, ii
  <2>4. onContentStoreMiss(ii, f, e)
    BY <2>3, OutgoingDataNoInterest, SMTT(60) DEF NoInterest, onInterestLoop, NackOut
  <2>5. /\ p.key = ii.key
        /\ isReflexiveInterest(ii) => p.token = nameToToken'[ii.key.name]
    BY <2>2, <2>4, MissForwards
  <2>6. QED BY <2>1, <2>2, <2>5, SMTT(60)
<1>6. QED BY <1>1, <1>2, <1>3, <1>4, <1>5 DEF onIncomingInterest

----------------------------------------------------------------------------
(* pit_assist only holds names of Interests that are not RIs.               *)
OriginalNames == \A n \in Names : existName(n) => n \in ReflexiveNames \ ProducerNames

RInv == Inv /\ OriginalNames

LEMMA OriginalNamesStep ==
  ASSUME AssistInv, OriginalNames, [AssistNext]_assistVars
  PROVE  OriginalNames'
<1>1. CASE AssistNext
  BY <1>1 DEF AssistNext, createName, OriginalNames, existName, AssistInv, AssistTypeOK
<1>2. CASE UNCHANGED assistVars
  BY <1>2 DEF assistVars, OriginalNames, existName
<1>3. QED BY <1>1, <1>2, SMTT(60)

LEMMA RInvInit == Init => RInv
<1>1. Init => OriginalNames
  BY DEF Init, AssistInit, OriginalNames, existName
<1>2. QED BY <1>1, InvInit DEF RInv

LEMMA RInvStep == RInv /\ [Next]_vars => RInv'
BY InvStep, OriginalNamesStep, SMTT(60) DEF RInv, Inv

(* What forwardRI sends, and where.                                         *)
LEMMA RILeaves ==
  ASSUME RInv, NEW i \in Interests, NEW f \in Faces, forwardRI(i, f),
         NEW p \in sent', p.kind = "interest"
  PROVE  /\ p.key = i.key
         /\ \E k \in Keys : /\ pit[k] # NoEntry
                             /\ k.name \notin ProducerNames
                             /\ p.face \in InFaces(pit[k])
                             /\ existName(k.name)
                             /\ p.token = nameToPrevToken[k.name]
<1> DEFINE original == tokenToName[tokenValue(i)]
           ri == attachHopLimit([i EXCEPT !.token = nameToPrevToken[original]])
           pending == pendingRI(i, f, ri.token)
<1>1. /\ tokenValue(i) \in Word32
      /\ original \in Names
      /\ original # NoName
      /\ nameToPrevToken[original] \in Tags
  <2>1. tokenValue(i) \in Word32
    BY NumbersAssumption, SMTT(60) DEF Interests, Tags, tokenValue
  <2>2. QED BY <2>1 DEF forwardRI, RInv, Inv, AssistInv, AssistTypeOK, Tags
<1>2. existName(original) /\ original \notin ProducerNames
  BY <1>1, AssistAssumption
     DEF RInv, Inv, AssistInv, TokenIdentifiesName, OriginalNames, existName
<1>3. ri.key = i.key /\ ri.token = nameToPrevToken[original]
  <2> DEFINE tagged == [i EXCEPT !.token = nameToPrevToken[original]]
  <2>1. tagged \in Interests /\ tagged.key = i.key /\ tagged.token = nameToPrevToken[original]
    BY <1>1, RetaggedInterest, SMTT(60)
  <2> HIDE DEF tagged
  <2>2. attachHopLimit(tagged).key = tagged.key /\ attachHopLimit(tagged).token = tagged.token
    BY <2>1, AttachedInterest, SMTT(60)
  <2>3. QED BY <2>1, <2>2 DEF tagged
<1>4. PICK ko \in findBasedOnName(original) :
        \/ \E g \in FrontFaces(pit[ko]) : sent' = onOutgoingInterest(pending, ri, g).packets
        \/ sent' = onOutgoingNack(pit[ko], ko, {f}, NO_ROUTE).packets
  BY SMTT(60) DEF forwardRI, rejectPendingInterest, Result
<1> HIDE DEF original, ri, pending
<1>5. PICK g \in FrontFaces(pit[ko]) : sent' = onOutgoingInterest(pending, ri, g).packets
  BY <1>4, OutgoingNackNoInterest, SMTT(60) DEF NoInterest
<1>6. p = InterestOut(g, ri)
  BY <1>5, SMTT(60) DEF onOutgoingInterest, Result
<1>7. p.face = g /\ p.key = i.key /\ p.token = nameToPrevToken[original]
  BY <1>3, <1>6, SMTT(60) DEF InterestOut
<1>8. ko \in Keys /\ pit[ko] # NoEntry /\ ko.name = original /\ g \in InFaces(pit[ko])
  BY <1>4, <1>5 DEF findBasedOnName, FrontFaces
<1>9. QED BY <1>2, <1>7, <1>8, SMTT(60)

(* An RI never leaves on a face nobody asked from: onSendingRI sends it to  *)
(* a downstream of the Interest its token was generated for, with the token *)
(* that was recorded for the previous hop.                                  *)
THEOREM RIToRequester == Spec => RIGoesToRequester
<1> DEFINE Sends ==
      \A p \in sent' : IsRI(p) =>
        \E k \in Keys : /\ pit[k] # NoEntry
                        /\ k.name \notin ProducerNames
                        /\ p.face \in InFaces(pit[k])
                        /\ existName(k.name)
                        /\ p.token = nameToPrevToken[k.name]
<1>1. RInv /\ [Next]_vars => [Sends]_vars
  <2> SUFFICES ASSUME RInv, Next, NEW p \in sent', IsRI(p)
               PROVE  \E k \in Keys : /\ pit[k] # NoEntry
                                      /\ k.name \notin ProducerNames
                                      /\ p.face \in InFaces(pit[k])
                                      /\ existName(k.name)
                                      /\ p.token = nameToPrevToken[k.name]
    OBVIOUS
  <2>1. PICK i \in Interests, f \in Faces : forwardRI(i, f)
    BY InterestLeaves DEF RInv, IsRI, isReflexiveInterestFromProducer
  <2>2. QED BY <2>1, RILeaves, SMTT(60) DEF IsRI
<1> HIDE DEF Sends
<1>2. Spec => [][Sends]_vars
  BY <1>1, RInvInit, RInvStep, PTL DEF Spec
<1>3. QED BY <1>2, SMTT(60) DEF RIGoesToRequester, Sends

(* Every reflexive Interest leaves for the next hop with a token from which *)
(* this forwarder finds its name again when an RI brings the token back.    *)
THEOREM UpstreamToken == Spec => []UpstreamTokenNamesInterest
<1>1. Init => UpstreamTokenNamesInterest
  BY DEF Init, UpstreamTokenNamesInterest
<1>2. RInv /\ UpstreamTokenNamesInterest /\ [Next]_vars => UpstreamTokenNamesInterest'
  <2> SUFFICES ASSUME RInv, UpstreamTokenNamesInterest, [Next]_vars
               PROVE  UpstreamTokenNamesInterest'
    OBVIOUS
  <2>1. CASE UNCHANGED vars
    BY <2>1 DEF vars, UpstreamTokenNamesInterest, reserved
  <2>2. CASE Next
    <3> SUFFICES ASSUME NEW p \in sent', IsReflexive(p)
                 PROVE  p.token \in Word32 \ reserved /\ tokenToName'[p.token] = p.key.name
      BY DEF UpstreamTokenNamesInterest, reserved, IsReflexive
    <3>1. p.kind = "interest" /\ p.key.name \in ReflexiveNames \ ProducerNames
      BY DEF IsReflexive
    <3>2. ASSUME NEW i \in Interests, NEW f \in Faces,
                 isReflexiveInterestFromProducer(i), forwardRI(i, f)
          PROVE  FALSE
      BY <3>1, <3>2, RILeaves, SMTT(60) DEF isReflexiveInterestFromProducer
    <3>3. PICK i \in Interests : /\ ~ isReflexiveInterestFromProducer(i)
                                 /\ recordToken(i)
                                 /\ p.key = i.key
                                 /\ isReflexiveInterest(i) => p.token = nameToToken'[i.key.name]
      BY <2>2, <3>1, <3>2, InterestLeaves, SMTT(60) DEF RInv
    <3>4. isReflexiveInterest(i) /\ i.key.name \in Names
      BY <3>1, <3>3, NamesAssumption, SMTT(60) DEF isReflexiveInterest
    <3>5. AssistInv' /\ existName(i.key.name)'
      BY <3>3, <3>4, RecordToken, SMTT(60) DEF RInv, Inv
    <3>6. /\ nameToToken'[i.key.name] \in Word32 \ reserved
          /\ tokenToName'[nameToToken'[i.key.name]] = i.key.name
      BY <3>4, <3>5 DEF AssistInv, AssistTypeOK, TokenIdentifiesName, existName, reserved
    <3>7. QED BY <3>3, <3>4, <3>6, SMTT(60)
  <2>3. QED BY <2>1, <2>2
<1>3. QED BY <1>1, <1>2, RInvInit, RInvStep, PTL DEF Spec
=============================================================================
