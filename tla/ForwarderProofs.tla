-------------------------- MODULE ForwarderProofs --------------------------
(* Proofs about the forwarder, for any names, faces, tokens, routes and     *)
(* incoming packets: type correctness, that PIT records are on faces that   *)
(* are up and pending entries have a timer, and that the forwarder uses     *)
(* pit_assist as TokenTable promises.                                       *)
EXTENDS Forwarder, PitEntryProofs, PitAssistProofs

PacketsOn(S, F) == S \subseteq Packets /\ \A p \in S : p.face \in F

PitOK ==
  /\ faces \subseteq Faces
  /\ pit \in [Keys -> Entries \cup {NoEntry}]
  /\ \A k \in Keys : pit[k] # NoEntry => Good(pit[k], faces)

(* The inductive invariant: TypeOK, with every entry Good and every packet  *)
(* of the last step on a face that is up.                                   *)
Inv ==
  /\ PitOK
  /\ dnl \subseteq Names \X Nonces
  /\ cs \in [Names -> (FreshnessPeriods \X BOOLEAN) \cup {NoData}]
  /\ PacketsOn(sent, faces)
  /\ AssistInv

----------------------------------------------------------------------------
(* Entries and packets                                                      *)

LEMMA FindOrInsertGood ==
  ASSUME PitOK, NEW k \in Keys
  PROVE  Good(findOrInsert(k), faces)
BY NewEntryGood DEF PitOK, findOrInsert

LEMMA PitUpdate ==
  ASSUME PitOK, NEW k \in Keys, NEW e, Good(e, faces), faces' = faces,
         pit' = [pit EXCEPT ![k] = e]
  PROVE  PitOK'
<1>1. e \in Entries
  BY DEF Good, Live
<1>2. pit' \in [Keys -> Entries \cup {NoEntry}]
  BY <1>1 DEF PitOK
<1>3. ASSUME NEW j \in Keys, pit'[j] # NoEntry PROVE Good(pit'[j], faces)
  BY <1>3 DEF PitOK
<1>4. QED BY <1>2, <1>3 DEF PitOK

LEMMA OutgoingInterest ==
  ASSUME faces \subseteq Faces, NEW e, Armed(e, faces), NEW i \in Interests, NEW g \in faces
  PROVE  /\ Armed(onOutgoingInterest(e, i, g).e, faces)
         /\ PacketsOn(onOutgoingInterest(e, i, g).packets, faces)
<1>1. InterestOut(g, i) \in Packets /\ InterestOut(g, i).face = g
  BY DEF InterestOut, Packets, Interests
<1>2. Armed(insertOrUpdateOutRecord(e, g, i.nonce), faces)
  BY InsertOutArmed DEF Interests
<1>3. QED BY <1>1, <1>2 DEF onOutgoingInterest, Result, PacketsOn

LEMMA OutgoingNack ==
  ASSUME faces \subseteq Faces, NEW e, Live(e, faces), NEW k \in Keys, NEW D, NEW reason \in Reasons
  PROVE  /\ Live(onOutgoingNack(e, k, D, reason).e, faces)
         /\ onOutgoingNack(e, k, D, reason).e.timer = e.timer
         /\ PacketsOn(onOutgoingNack(e, k, D, reason).packets, faces)
<1> DEFINE targets == D \cap InFaces(e) \cap P2PFaces
           S == {NackOut(g, k, e.in[g].nonce, reason) : g \in targets}
<1>1. ASSUME NEW g \in targets
      PROVE  /\ NackOut(g, k, e.in[g].nonce, reason) \in Packets
             /\ NackOut(g, k, e.in[g].nonce, reason).face \in faces
  <2>1. g \in Faces /\ g \in faces /\ e.in[g] \in InRecords
    BY DEF Live, InFaces, Entries
  <2>2. e.in[g].nonce \in Nonces
    BY <2>1 DEF InRecords
  <2>3. QED BY <2>1, <2>2 DEF NackOut, Packets
<1>2. PacketsOn(S, faces)
  BY <1>1 DEF PacketsOn
<1>3. onOutgoingNack(e, k, D, reason) = Result(deleteInRecords(e, targets), S)
  BY DEF onOutgoingNack
<1>4. QED BY <1>2, <1>3, DeleteInLive DEF Result

LEMMA OutgoingData ==
  ASSUME faces \subseteq Faces, NEW D \in SUBSET faces, NEW n \in Names, NEW tokenOf \in [D -> Tags]
  PROVE  PacketsOn(onOutgoingData(D, n, tokenOf), faces)
<1>1. ASSUME NEW g \in D
      PROVE  DataOut(g, n, tokenOf[g]) \in Packets /\ DataOut(g, n, tokenOf[g]).face = g
  BY SMTT(60) DEF DataOut, Packets
<1>2. QED BY <1>1 DEF PacketsOn, onOutgoingData

LEMMA AfterReceiveInterest ==
  ASSUME faces \subseteq Faces, NEW e, Armed(e, faces), NEW i \in Interests, NEW f \in Faces,
         NEW r \in afterReceiveInterest(e, i, f)
  PROVE  Armed(r.e, faces) /\ PacketsOn(r.packets, faces)
<1> DEFINE hops == NextHops[i.key.name]
           eligible == {j \in DOMAIN hops : /\ hops[j] \in faces
                                            /\ isNextHopEligible(f, i.key.name, hops[j])}
           unused == {j \in eligible : isUnused(e, hops[j])}
           nacked == onOutgoingNack(e, i.key, {f}, NO_ROUTE)
<1>1. \/ r = rejectPendingInterest(nacked)
      \/ r = Result(e, {})
      \/ \E j \in eligible : r = onOutgoingInterest(e, i, hops[j])
  <2> HIDE DEF nacked
  <2>1. first(eligible) \subseteq eligible /\ first(unused) \subseteq eligible
    BY SMTT(60) DEF first
  <2>2. CASE ~ hasPendingOutRecords(e)
    <3>1. CASE eligible = {}
      <4>1. r \in {rejectPendingInterest(nacked)}
        BY <2>2, <3>1, SMTT(60) DEF afterReceiveInterest, nacked
      <4>2. QED BY <4>1, SMTT(60)
    <3>2. CASE eligible # {}
      <4>1. r \in {onOutgoingInterest(e, i, hops[j]) : j \in first(eligible)}
        BY <2>2, <3>2 DEF afterReceiveInterest
      <4>2. QED BY <2>1, <4>1, ZenonT(60)
    <3>3. QED BY <3>1, <3>2
  <2>3. CASE hasPendingOutRecords(e)
    <3> DEFINE J == IF unused # {} THEN first(unused) ELSE eligible
    <3>1. r \in {Result(e, {})} \cup {onOutgoingInterest(e, i, hops[j]) : j \in J}
      BY <2>3, ZenonT(60) DEF afterReceiveInterest
    <3>2. J \subseteq eligible
      BY <2>1
    <3> HIDE DEF J
    <3>3. QED BY <3>1, <3>2
  <2>4. QED BY <2>2, <2>3, SMTT(60)
<1>2. CASE r = rejectPendingInterest(nacked)
  <2>1. Live(nacked.e, faces) /\ PacketsOn(nacked.packets, faces)
    BY OutgoingNack DEF Armed, Interests, Reasons
  <2>2. QED BY <1>2, <2>1, SetTimerArmed, SMTT(60) DEF rejectPendingInterest, Result
<1>3. CASE r = Result(e, {})
  BY <1>3, SMTT(60) DEF Result, PacketsOn
<1>4. CASE \E j \in eligible : r = onOutgoingInterest(e, i, hops[j])
  BY <1>4, OutgoingInterest, SMTT(60)
<1>5. QED BY <1>1, <1>2, <1>3, <1>4, SMTT(60)

LEMMA ProcessNack ==
  ASSUME faces \subseteq Faces, NEW e, Live(e, faces), NEW k \in Keys
  PROVE  /\ Live(processNack(e, k).e, faces)
         /\ processNack(e, k).e.timer = e.timer
         /\ PacketsOn(processNack(e, k).packets, faces)
<1> DEFINE waiting == {g \in OutFaces(e) : e.out[g].nack = NotNacked}
           rs == {e.out[g].nack : g \in OutFaces(e) \ waiting}
<1>1. rs \subseteq Reasons
  <2>1. \A g \in OutFaces(e) : e.out[g] \in OutRecords
    BY DEF Live, Entries, OutFaces
  <2>2. QED BY <2>1 DEF OutRecords
<1>2. leastSevereReason(rs) \in Reasons
  BY <1>1, LeastSevereReason
<1>3. QED BY <1>2, OutgoingNack DEF processNack

----------------------------------------------------------------------------
(* Steps                                                                    *)

LEMMA PitSame ==
  ASSUME PitOK, UNCHANGED <<faces, pit>>
  PROVE  PitOK'
BY DEF PitOK

LEMMA AssistSame ==
  ASSUME AssistInv, UNCHANGED assistVars
  PROVE  AssistInv'
BY AssistInvStep

LEMMA NothingSent == ASSUME NEW F PROVE PacketsOn({}, F)
BY DEF PacketsOn

LEMMA DecrementedInterest ==
  ASSUME NEW i \in Interests, i.hopLimit # 0
  PROVE  /\ decrementHopLimit(i) \in Interests
         /\ decrementHopLimit(i).key = i.key
         /\ decrementHopLimit(i).nonce = i.nonce
         /\ decrementHopLimit(i).token = i.token
         /\ decrementHopLimit(i).nextHop = i.nextHop
BY NumbersAssumption DEF decrementHopLimit, Interests, HopLimits

LEMMA AttachedInterest ==
  ASSUME NEW i \in Interests
  PROVE  /\ attachHopLimit(i) \in Interests
         /\ attachHopLimit(i).key = i.key
         /\ attachHopLimit(i).nonce = i.nonce
         /\ attachHopLimit(i).token = i.token
         /\ attachHopLimit(i).nextHop = i.nextHop
BY ForwarderAssumption, NumbersAssumption DEF attachHopLimit, Interests, HopLimits

LEMMA RetaggedInterest ==
  ASSUME NEW i \in Interests, NEW t \in Tags
  PROVE  /\ [i EXCEPT !.token = t] \in Interests
         /\ [i EXCEPT !.token = t].key = i.key
         /\ [i EXCEPT !.token = t].nonce = i.nonce
         /\ [i EXCEPT !.token = t].token = t
BY DEF Interests

(* Entering a reflexive name is a step of pit_assist, after which the name  *)
(* has a token.                                                             *)
LEMMA RecordToken ==
  ASSUME AssistInv, NEW i \in Interests, ~ isReflexiveInterestFromProducer(i), recordToken(i)
  PROVE  /\ [AssistNext]_assistVars
         /\ AssistInv'
         /\ isReflexiveInterest(i) => existName(i.key.name)'
<1>0. i.key.name \in Names /\ tokenValue(i) \in Word32
  BY NumbersAssumption DEF Interests, Keys, Tags, tokenValue
<1>1. CASE isReflexiveInterest(i) /\ ~ existName(i.key.name)
  <2>1. createName(i.key.name, tokenValue(i))
    BY <1>1 DEF recordToken
  <2>2. AssistNext
    BY <1>0, <1>1, <2>1
      , SMTT(60) DEF AssistNext, isReflexiveInterest, isReflexiveInterestFromProducer
  <2>3. existName(i.key.name)'
    BY <1>0, <2>1, AssistAssumption
       DEF createName, generateToken, existName, AssistInv, AssistTypeOK
  <2>4. QED BY <2>2, <2>3, AssistInvStep
<1>2. CASE ~ (isReflexiveInterest(i) /\ ~ existName(i.key.name))
  <2>1. UNCHANGED assistVars
    BY <1>2 DEF recordToken
  <2>2. QED BY <1>2, <2>1, AssistSame DEF assistVars, existName
<1>3. QED BY <1>1, <1>2

LEMMA PendingRI ==
  ASSUME PitOK, NEW i \in Interests, NEW f \in faces, NEW tag \in Tags
  PROVE  Armed(pendingRI(i, f, tag), faces)
<1>1. Live(findOrInsert(i.key), faces)
  BY FindOrInsertGood DEF Good, Interests
<1>2. Live(insertOrUpdateInRecord(findOrInsert(i.key), f, i.nonce, tag, i.token), faces)
  BY <1>1, InsertInLive DEF PitOK, Interests
<1>3. QED BY <1>2, SetTimerArmed DEF pendingRI

LEMMA NackRIStep ==
  ASSUME PitOK, faces' = faces, NEW i \in Interests, NEW f \in faces,
         nackRI(i, f) \/ dropRI(i, f)
  PROVE  PitOK' /\ PacketsOn(sent', faces)
<1>1. pit' = [pit EXCEPT ![i.key] = findOrInsert(i.key)]
  BY DEF nackRI, dropRI
<1>2. PitOK'
  BY <1>1, FindOrInsertGood, PitUpdate, ZenonT(60) DEF Interests
<1>3. CASE nackRI(i, f)
  <2>1. PICK reason \in Reasons : sent' = {NackOut(f, i.key, i.nonce, reason)}
    BY <1>3 DEF nackRI, Reasons
  <2>2. NackOut(f, i.key, i.nonce, reason) \in Packets
        /\ NackOut(f, i.key, i.nonce, reason).face = f
    BY DEF NackOut, Packets, Interests, PitOK
  <2>3. QED BY <1>2, <2>1, <2>2 DEF PacketsOn
<1>4. CASE dropRI(i, f)
  BY <1>2, <1>4, NothingSent DEF dropRI
<1>5. QED BY <1>3, <1>4

LEMMA ForwardRIStep ==
  ASSUME PitOK, AssistInv, faces' = faces, NEW i \in Interests, NEW f \in faces, forwardRI(i, f)
  PROVE  PitOK' /\ PacketsOn(sent', faces)
<1> DEFINE original == tokenToName[tokenValue(i)]
           ri == attachHopLimit([i EXCEPT !.token = nameToPrevToken[original]])
           pending == pendingRI(i, f, ri.token)
<1>1. original \in Names /\ nameToPrevToken[original] \in Word32
  <2>1. tokenValue(i) \in Word32
    BY NumbersAssumption DEF Interests, Tags, tokenValue
  <2>2. QED BY <2>1 DEF forwardRI, AssistInv, AssistTypeOK
<1>2. /\ ri \in Interests
      /\ ri.token \in Tags
      /\ ri.key = i.key
  <2>1. nameToPrevToken[original] \in Tags
    BY <1>1 DEF Tags
  <2>2. QED BY <2>1, RetaggedInterest, AttachedInterest, SMTT(60) DEF Interests
<1>3. Armed(pending, faces)
  BY <1>2, PendingRI
<1>4. i.key \in Keys /\ faces \subseteq Faces
  BY SMTT(60) DEF Interests, PitOK
<1>5. PICK ko \in findBasedOnName(original) :
        \/ \E g \in FrontFaces(pit[ko]) :
             LET r == onOutgoingInterest(pending, ri, g)
             IN  /\ pit' = [pit EXCEPT ![i.key] = r.e]
                 /\ sent' = r.packets
        \/ /\ ~ hasInRecords(pit[ko])
           /\ LET r == rejectPendingInterest(onOutgoingNack(pit[ko], ko, {f}, NO_ROUTE))
              IN  /\ pit' = [pit EXCEPT ![i.key] = pending, ![ko] = r.e]
                  /\ sent' = r.packets
  BY SMTT(60) DEF forwardRI
<1> HIDE DEF ri, pending, original
<1>6. ko \in Keys /\ pit[ko] # NoEntry /\ Live(pit[ko], faces)
  BY DEF findBasedOnName, PitOK, Good
<1>7. CASE \E g \in FrontFaces(pit[ko]) :
             LET r == onOutgoingInterest(pending, ri, g)
             IN  /\ pit' = [pit EXCEPT ![i.key] = r.e]
                 /\ sent' = r.packets
  <2>1. PICK g \in FrontFaces(pit[ko]) :
          /\ pit' = [pit EXCEPT ![i.key] = onOutgoingInterest(pending, ri, g).e]
          /\ sent' = onOutgoingInterest(pending, ri, g).packets
    BY <1>7, ZenonT(60)
  <2>2. g \in faces
    BY <1>6, <2>1 DEF FrontFaces, Live
  <2>3. /\ Good(onOutgoingInterest(pending, ri, g).e, faces)
        /\ PacketsOn(sent', faces)
    BY <1>2, <1>3, <1>4, <2>1, <2>2, OutgoingInterest, ArmedIsGood, SMTT(60)
  <2>4. QED BY <1>4, <2>1, <2>3, PitUpdate, ZenonT(60)
<1>8. CASE /\ ~ hasInRecords(pit[ko])
           /\ LET r == rejectPendingInterest(onOutgoingNack(pit[ko], ko, {f}, NO_ROUTE))
              IN  /\ pit' = [pit EXCEPT ![i.key] = pending, ![ko] = r.e]
                  /\ sent' = r.packets
  <2> DEFINE nacked == onOutgoingNack(pit[ko], ko, {f}, NO_ROUTE)
             e == setExpiryTimer(nacked.e, "now")
  <2>1. pit' = [pit EXCEPT ![i.key] = pending, ![ko] = e] /\ sent' = nacked.packets
    BY <1>8, SMTT(60) DEF rejectPendingInterest, Result
  <2>2. Live(nacked.e, faces) /\ PacketsOn(nacked.packets, faces)
    BY <1>4, <1>6, OutgoingNack, SMTT(60) DEF Reasons
  <2>3. Good(e, faces) /\ Good(pending, faces)
    BY <1>3, <2>2, SetTimerArmed, ArmedIsGood, SMTT(60)
  <2> HIDE DEF nacked, e
  <2>4. e \in Entries /\ pending \in Entries
    BY <2>3 DEF Good, Live
  <2>5. pit' \in [Keys -> Entries \cup {NoEntry}]
    BY <2>1, <2>4, ZenonT(60) DEF PitOK
  <2>6. ASSUME NEW k \in Keys, pit'[k] # NoEntry PROVE Good(pit'[k], faces)
    BY <1>4, <1>6, <2>1, <2>3, <2>6 DEF PitOK
  <2>7. QED BY <2>1, <2>2, <2>5, <2>6, SMTT(60) DEF PitOK
<1>9. QED BY <1>5, <1>7, <1>8

LEMMA MissStep ==
  ASSUME PitOK, AssistInv', faces' = faces, NEW i \in Interests, NEW f \in faces,
         isReflexiveInterest(i) => existName(i.key.name)',
         NEW e, Live(e, faces), onContentStoreMiss(i, f, e)
  PROVE  PitOK' /\ PacketsOn(sent', faces)
<1> DEFINE ii == attachHopLimit(i)
           nextToken == IF isReflexiveInterest(i) THEN nameToToken'[i.key.name] ELSE i.token
           stripped == IF isReflexiveInterest(i) THEN nextToken ELSE NoTag
           pending(tag) ==
             setExpiryTimer(insertOrUpdateInRecord(e, f, i.nonce, tag, i.token), "lifetime")
           result(r) == pit' = [pit EXCEPT ![i.key] = r.e] /\ sent' = r.packets
<1>1. faces \subseteq Faces /\ f \in Faces /\ i.key \in Keys /\ i.nonce \in Nonces /\ i.token \in Tags
  BY DEF PitOK, Interests
<1>2. nextToken \in Tags /\ stripped \in Tags
  <2>1. isReflexiveInterest(i) => nameToToken'[i.key.name] \in Word32
    BY <1>1 DEF AssistInv, AssistTypeOK, existName, Keys
  <2>2. QED BY <1>1, <2>1 DEF Tags
<1>3. ASSUME NEW tag \in Tags PROVE Armed(pending(tag), faces)
  BY <1>1, InsertInLive, SetTimerArmed
<1>4. ASSUME NEW r, result(r), Armed(r.e, faces), PacketsOn(r.packets, faces)
      PROVE  PitOK' /\ PacketsOn(sent', faces)
  BY <1>1, <1>4, ArmedIsGood, PitUpdate, ZenonT(60)
<1>5. ii \in Interests
  BY AttachedInterest
<1>6. \/ i.nextHop \in faces
         /\ result(onOutgoingInterest(pending(nextToken), [ii EXCEPT !.token = nextToken], i.nextHop))
      \/ result(Result(pending(i.token), {}))
      \/ \E r \in afterReceiveInterest(pending(nextToken), [ii EXCEPT !.token = stripped], f) : result(r)
  BY DEF onContentStoreMiss
<1> HIDE DEF ii, nextToken, stripped, pending, result
<1>7. CASE i.nextHop \in faces
           /\ result(onOutgoingInterest(pending(nextToken), [ii EXCEPT !.token = nextToken], i.nextHop))
  BY <1>1, <1>2, <1>3, <1>4, <1>5, <1>7, RetaggedInterest, OutgoingInterest
<1>8. CASE result(Result(pending(i.token), {}))
  BY <1>1, <1>3, <1>4, <1>8, NothingSent, SMTT(60) DEF Result
<1>9. CASE \E r \in afterReceiveInterest(pending(nextToken), [ii EXCEPT !.token = stripped], f) : result(r)
  <2>1. PICK r \in afterReceiveInterest(pending(nextToken), [ii EXCEPT !.token = stripped], f) : result(r)
    BY <1>9
  <2>2. Armed(r.e, faces) /\ PacketsOn(r.packets, faces)
    BY <1>1, <1>2, <1>3, <1>5, RetaggedInterest, AfterReceiveInterest
  <2>3. QED BY <1>4, <2>1, <2>2
<1>10. QED BY <1>6, <1>7, <1>8, <1>9

LEMMA HitStep ==
  ASSUME PitOK, faces' = faces, NEW i \in Interests, NEW f \in faces,
         cs \in [Names -> (FreshnessPeriods \X BOOLEAN) \cup {NoData}],
         NEW e, Live(e, faces), NEW n \in csMatches(i.key), onContentStoreHit(i, f, e, n)
  PROVE  PitOK' /\ PacketsOn(sent', faces)
<1>1. n \in Names /\ cs[n][1] \in FreshnessPeriods
  BY DEF csMatches
<1>2. Good(setExpiryTimer(setSatisfied(e, cs[n][1]), "now"), faces)
  BY <1>1, SetSatisfiedLive, SetTimerArmed, ArmedIsGood, SMTT(60)
<1>3. PitOK'
  BY <1>2, PitUpdate, ZenonT(60) DEF onContentStoreHit, Interests
<1>4. [g \in {f} |-> i.token] \in [{f} -> Tags]
  BY DEF Interests
<1>5. PacketsOn(onOutgoingData({f}, n, [g \in {f} |-> i.token]), faces)
  BY <1>1, <1>4, OutgoingData, ZenonT(60) DEF PitOK
<1>6. QED BY <1>3, <1>5, SMTT(60) DEF onContentStoreHit

LEMMA LoopNack ==
  ASSUME faces \subseteq Faces, NEW i \in Interests, NEW f \in faces
  PROVE  PacketsOn(onInterestLoop(i, f), faces)
<1>1. NackOut(f, i.key, i.nonce, DUPLICATE) \in Packets
      /\ NackOut(f, i.key, i.nonce, DUPLICATE).face = f
  BY DEF NackOut, Packets, Interests, Reasons
<1>2. QED BY <1>1 DEF onInterestLoop, PacketsOn

LEMMA ReceiveInterestStep ==
  ASSUME Inv, NEW i \in Interests, NEW f \in faces, receiveInterest(i, f)
  PROVE  Inv' /\ [AssistNext]_assistVars
<1> DEFINE e == findOrInsert(i.key)
           ii == decrementHopLimit(i)
<1>1. /\ isAccepted(i, f)
      /\ ~ isReflexiveInterestFromProducer(i)
      /\ recordToken(i)
      /\ UNCHANGED <<faces, dnl, cs>>
  BY DEF receiveInterest
<1>2. /\ [AssistNext]_assistVars
      /\ AssistInv'
      /\ isReflexiveInterest(i) => existName(i.key.name)'
  BY <1>1, RecordToken, SMTT(60) DEF Inv
<1>3. Good(e, faces) /\ Live(e, faces) /\ i.key \in Keys
  BY FindOrInsertGood, SMTT(60) DEF Inv, Good, Interests
<1>4. /\ ii \in Interests /\ ii.key = i.key
      /\ isReflexiveInterest(ii) => existName(ii.key.name)'
  BY <1>1, <1>2, DecrementedInterest, SMTT(60) DEF isAccepted, isReflexiveInterest
<1>5. \/ pit' = [pit EXCEPT ![i.key] = e] /\ sent' = onInterestLoop(i, f)
      \/ \E n \in csMatches(i.key) : onContentStoreHit(ii, f, e, n)
      \/ onContentStoreMiss(ii, f, e)
  BY DEF receiveInterest
<1> HIDE DEF e, ii
<1>6. PitOK /\ faces' = faces /\ faces \subseteq Faces
  BY <1>1, SMTT(60) DEF Inv, PitOK
<1>7. PitOK' /\ PacketsOn(sent', faces)
  <2>1. CASE pit' = [pit EXCEPT ![i.key] = e] /\ sent' = onInterestLoop(i, f)
    BY <1>3, <1>6, <2>1, PitUpdate, LoopNack, ZenonT(60)
  <2>2. CASE \E n \in csMatches(i.key) : onContentStoreHit(ii, f, e, n)
    BY <1>3, <1>4, <1>6, <2>2, HitStep DEF Inv
  <2>3. CASE onContentStoreMiss(ii, f, e)
    BY <1>2, <1>3, <1>4, <1>6, <2>3, MissStep
  <2>4. QED BY <1>5, <2>1, <2>2, <2>3, SMTT(60)
<1>8. QED BY <1>1, <1>2, <1>7, SMTT(60) DEF Inv

LEMMA SendingRIStep ==
  ASSUME Inv, NEW i \in Interests, NEW f \in faces, onSendingRI(i, f)
  PROVE  Inv'
<1> DEFINE ri == decrementHopLimit(i)
<1>1. /\ nackRI(ri, f) \/ dropRI(ri, f) \/ forwardRI(ri, f)
      /\ UNCHANGED <<faces, dnl, cs, assistVars>>
  BY DEF onSendingRI
<1>2. ri \in Interests
  BY DecrementedInterest DEF onSendingRI, isAccepted
<1> HIDE DEF ri
<1>3. PitOK' /\ PacketsOn(sent', faces)
  BY <1>1, <1>2, NackRIStep, ForwardRIStep DEF Inv
<1>4. QED BY <1>1, <1>3, AssistSame DEF Inv

LEMMA IncomingInterestStep ==
  ASSUME Inv, NEW i \in Interests, NEW f, onIncomingInterest(i, f)
  PROVE  Inv' /\ [AssistNext]_assistVars
<1>1. f \in faces
  BY DEF onIncomingInterest
<1>2. CASE dropInterest(i, f)
  BY <1>2, NothingSent, PitSame, AssistSame, SMTT(60) DEF dropInterest, Inv
<1>3. CASE detectLoopInDnl(i, f)
  BY <1>1, <1>3, LoopNack, PitSame, AssistSame, SMTT(60) DEF detectLoopInDnl, Inv, PitOK
<1>4. CASE onSendingRI(i, f)
  BY <1>1, <1>4, SendingRIStep DEF onSendingRI
<1>5. CASE receiveInterest(i, f)
  BY <1>1, <1>5, ReceiveInterestStep, SMTT(60)
<1>6. QED BY <1>2, <1>3, <1>4, <1>5 DEF onIncomingInterest

LEMMA DeadNonces ==
  ASSUME NEW k \in Keys, NEW e \in Entries, NEW D
  PROVE  deadNonces(k, e, D) \subseteq Names \X Nonces
<1>1. ASSUME NEW g \in OutFaces(e) PROVE <<k.name, e.out[g].nonce>> \in Names \X Nonces
  <2>1. e.out[g] \in OutRecords
    BY DEF OutFaces, Entries
  <2>2. QED BY <2>1 DEF OutRecords, Keys
<1>2. QED BY <1>1 DEF deadNonces

LEMMA CsInsertType ==
  ASSUME cs \in [Names -> (FreshnessPeriods \X BOOLEAN) \cup {NoData}], NEW d \in Datas
  PROVE  csInsert(d) \in [Names -> (FreshnessPeriods \X BOOLEAN) \cup {NoData}]
BY ZenonT(60) DEF csInsert, Datas

LEMMA SatisfyGood ==
  ASSUME NEW e, Live(e, faces), NEW d \in Datas, NEW D, NEW f
  PROVE  Good(satisfy(e, d, D, f), faces)
<1>1. Live(deleteInRecords(e, D), faces)
  BY DeleteInLive
<1>2. Armed(setExpiryTimer(deleteInRecords(e, D), "now"), faces)
  BY <1>1, SetTimerArmed
<1>3. Armed(setSatisfied(setExpiryTimer(deleteInRecords(e, D), "now"), d.freshness), faces)
  BY <1>2, SetSatisfiedLive DEF Armed, Datas
<1>4. Armed(satisfy(e, d, D, f), faces)
  BY <1>3, DeleteOutLive DEF Armed, satisfy
<1>5. QED BY <1>4, ArmedIsGood

LEMMA SatisfiedNonces ==
  ASSUME PitOK, NEW d \in Datas, NEW f
  PROVE  satisfiedNonces(findAllDataMatches(d), d, f) \subseteq Names \X Nonces
<1>1. ASSUME NEW k \in findAllDataMatches(d)
      PROVE  deadNonces(k, setSatisfied(pit[k], d.freshness), {f}) \subseteq Names \X Nonces
  <2>1. k \in Keys /\ Live(pit[k], faces)
    BY SMTT(60) DEF findAllDataMatches, PitOK, Good
  <2>2. setSatisfied(pit[k], d.freshness) \in Entries
    BY <2>1, SetSatisfiedLive, ZenonT(60) DEF Live, Datas
  <2>3. QED BY <2>1, <2>2, DeadNonces, SMTT(60)
<1>2. QED BY <1>1 DEF satisfiedNonces

LEMMA IncomingDataStep ==
  ASSUME Inv, NEW d \in Datas, NEW f, onIncomingData(d, f)
  PROVE  Inv'
<1> DEFINE K == findAllDataMatches(d)
<1>1. f \in faces /\ UNCHANGED <<faces, assistVars>>
  BY DEF onIncomingData
<1>2. AssistInv' /\ PitOK /\ faces \subseteq Faces /\ d.name \in Names
  BY <1>1, AssistSame DEF Inv, PitOK, Datas
<1>3. \A k \in K : k \in Keys /\ Live(pit[k], faces)
  BY <1>2 DEF findAllDataMatches, PitOK, Good
<1>4. CASE dropData(d, f)
  BY <1>1, <1>2, <1>4, PitSame, NothingSent DEF dropData, Inv
<1>5. CASE onDataUnsolicited(d, f)
  BY <1>1, <1>2, <1>5, PitSame, NothingSent, CsInsertType DEF onDataUnsolicited, Inv
<1>6. CASE satisfyOne(d, f)
  <2>1. PICK k \in Keys :
          LET D == pendingDownstreams(pit[k], f)
          IN  /\ K = {k}
              /\ pit' = [pit EXCEPT ![k] = satisfy(pit[k], d, D, f)]
              /\ sent' = onOutgoingData(D, d.name, [g \in D |-> pit[k].in[g].tag])
    BY <1>2, <1>6, ZenonT(60) DEF satisfyOne, PitOK
  <2> DEFINE D == pendingDownstreams(pit[k], f)
             tokenOf == [g \in D |-> pit[k].in[g].tag]
  <2>2. Live(pit[k], faces)
    BY <1>3, <2>1
  <2>3. PitOK'
    BY <1>1, <1>2, <2>1, <2>2, SatisfyGood, PitUpdate, ZenonT(60)
  <2>4. D \subseteq faces /\ tokenOf \in [D -> Tags]
    <3>1. \A g \in D : g \in faces /\ pit[k].in[g] \in InRecords
      BY <2>2, SMTT(60) DEF pendingDownstreams, Live, InFaces, Entries
    <3>2. QED BY <3>1 DEF InRecords
  <2>5. PacketsOn(sent', faces)
    BY <1>2, <2>1, <2>4, OutgoingData, SMTT(60)
  <2>6. dnl' \subseteq Names \X Nonces /\ cs' = csInsert(d)
    BY <1>2, <1>6, SatisfiedNonces, ZenonT(60) DEF satisfyOne, Inv
  <2>7. QED BY <1>1, <1>2, <2>3, <2>5, <2>6, CsInsertType, SMTT(60) DEF Inv
<1>7. CASE satisfyMany(d, f)
  <2> DEFINE D == UNION {pendingDownstreams(pit[k], f) : k \in K}
             tokenOf == [g \in D |-> NoTag]
  <2>1. /\ pit' = [k \in Keys |-> IF k \in K THEN satisfy(pit[k], d, Faces, f) ELSE pit[k]]
        /\ sent' = onOutgoingData(D, d.name, tokenOf)
    BY <1>7 DEF satisfyMany
  <2>2. \A k \in K : Good(satisfy(pit[k], d, Faces, f), faces)
    BY <1>3, SatisfyGood
  <2>3. PitOK'
    <3>1. \A k \in K : satisfy(pit[k], d, Faces, f) \in Entries
      BY <2>2, SMTT(60) DEF Good, Live
    <3>2. pit' \in [Keys -> Entries \cup {NoEntry}]
      BY <1>2, <2>1, <3>1, SMTT(60) DEF PitOK
    <3>3. ASSUME NEW k \in Keys, pit'[k] # NoEntry PROVE Good(pit'[k], faces)
      BY <1>2, <2>1, <2>2, <3>3, SMTT(60) DEF PitOK
    <3>4. QED BY <1>1, <1>2, <3>2, <3>3 DEF PitOK
  <2>4. D \subseteq faces /\ tokenOf \in [D -> Tags]
    <3>1. \A k \in K : pendingDownstreams(pit[k], f) \subseteq faces
      BY <1>3, SMTT(60) DEF pendingDownstreams, Live
    <3>2. QED BY <3>1 DEF Tags
  <2>5. PacketsOn(sent', faces)
    BY <1>2, <2>1, <2>4, OutgoingData, SMTT(60)
  <2>6. dnl' \subseteq Names \X Nonces /\ cs' = csInsert(d)
    BY <1>2, <1>7, SatisfiedNonces DEF satisfyMany, Inv
  <2>7. QED BY <1>1, <1>2, <2>3, <2>5, <2>6, CsInsertType DEF Inv
<1>8. QED BY <1>4, <1>5, <1>6, <1>7 DEF onIncomingData

LEMMA NackedEntry ==
  ASSUME NEW e, Good(e, faces), NEW f, f \in OutFaces(e), NEW reason \in Reasons
  PROVE  Armed([e EXCEPT !.out[f].nack = reason], faces)
<1> DEFINE r == [e.out[f] EXCEPT !.nack = reason]
           x == [e EXCEPT !.out = [e.out EXCEPT ![f] = r]]
<1>1. f \in Faces /\ e.out[f] \in OutRecords /\ e \in Entries
  BY DEF Good, Live, OutFaces, Entries
<1>2. r \in OutRecords
  BY <1>1 DEF OutRecords
<1>3. [e EXCEPT !.out[f].nack = reason] = x
  BY <1>1 DEF Entries
<1> HIDE DEF r
<1>4. x \in Entries /\ x.timer = e.timer /\ x.in = e.in
  BY <1>1, <1>2 DEF Entries
<1>5. OutFaces(x) = OutFaces(e)
  BY <1>1, <1>2, RecordAssumption DEF OutFaces, Entries
<1>6. InFaces(x) = InFaces(e)
  BY <1>4 DEF InFaces
<1> HIDE DEF x
<1>7. QED BY <1>3, <1>4, <1>5, <1>6, SMTT(60) DEF Armed, Good, Live

LEMMA IncomingNackStep ==
  ASSUME Inv, NEW n \in Nacks, NEW f, onIncomingNack(n, f)
  PROVE  Inv'
<1>1. f \in faces /\ UNCHANGED <<faces, dnl, cs, assistVars>>
  BY SMTT(60) DEF onIncomingNack
<1>2. AssistInv' /\ PitOK /\ faces \subseteq Faces /\ n.key \in Keys /\ n.reason \in Reasons
  BY <1>1, AssistSame, SMTT(60) DEF Inv, PitOK, Nacks
<1>3. CASE dropNack(n, f)
  BY <1>1, <1>2, <1>3, PitSame, NothingSent, SMTT(60) DEF dropNack, Inv
<1>4. CASE recordNack(n, f)
  <2> DEFINE nacked == [pit[n.key] EXCEPT !.out[f].nack = n.reason]
             due == IF hasPendingOutRecords(nacked) THEN nacked ELSE setExpiryTimer(nacked, "now")
             r == processNack(due, n.key)
  <2>1. /\ isNackAccepted(n, f)
        /\ pit' = [pit EXCEPT ![n.key] = r.e]
        /\ sent' = r.packets
    BY <1>4, SMTT(60) DEF recordNack
  <2>2. Good(pit[n.key], faces) /\ f \in OutFaces(pit[n.key])
    BY <1>1, <1>2, <2>1, SMTT(60) DEF isNackAccepted, PitOK, OutFaces
  <2>3. Armed(nacked, faces)
    BY <1>2, <2>2, NackedEntry, SMTT(60)
  <2> HIDE DEF nacked
  <2>4. Armed(due, faces)
    BY <2>3, SetTimerArmed, SMTT(60) DEF Armed
  <2> HIDE DEF due
  <2>5. Live(r.e, faces) /\ r.e.timer = due.timer /\ PacketsOn(r.packets, faces)
    BY <1>2, <2>4, ProcessNack, SMTT(60) DEF Armed
  <2> HIDE DEF r
  <2>6. Good(r.e, faces)
    BY <2>4, <2>5, SMTT(60) DEF Armed, Good
  <2>7. PitOK'
    BY <1>1, <1>2, <2>1, <2>6, PitUpdate, ZenonT(60)
  <2>8. QED BY <1>1, <1>2, <2>1, <2>5, <2>7, SMTT(60) DEF Inv
<1>5. QED BY <1>3, <1>4 DEF onIncomingNack

LEMMA FinalizeStep ==
  ASSUME Inv, NEW k \in Keys, onInterestFinalize(k)
  PROVE  Inv'
<1>1. /\ pit[k] # NoEntry
      /\ dnl' = dnl \cup deadNonces(k, pit[k], Faces)
      /\ pit' = [pit EXCEPT ![k] = NoEntry]
      /\ sent' = {}
      /\ UNCHANGED <<faces, cs, assistVars>>
  BY DEF onInterestFinalize
<1>2. pit[k] \in Entries
  BY <1>1 DEF Inv, PitOK
<1>3. dnl' \subseteq Names \X Nonces
  BY <1>1, <1>2, DeadNonces DEF Inv
<1>4. PitOK'
  BY <1>1, SMTT(60) DEF Inv, PitOK
<1>5. QED BY <1>1, <1>3, <1>4, NothingSent, AssistSame DEF Inv

(* An expired record is still a record.                                     *)
LEMMA ExpireStep ==
  ASSUME Inv, NEW k \in Keys, NEW f \in Faces, expireInRecord(k, f) \/ expireOutRecord(k, f)
  PROVE  Inv'
<1>1. pit[k] # NoEntry /\ sent' = {} /\ UNCHANGED <<faces, dnl, cs, assistVars>>
  BY SMTT(60) DEF expireInRecord, expireOutRecord
<1>2. Good(pit[k], faces) /\ pit[k] \in Entries
  BY <1>1 DEF Inv, PitOK
<1>3. PICK x : Good(x, faces) /\ pit' = [pit EXCEPT ![k] = x]
  <2>1. CASE expireInRecord(k, f)
    <3> DEFINE r == [pit[k].in[f] EXCEPT !.expired = TRUE]
               x == [pit[k] EXCEPT !.in = [pit[k].in EXCEPT ![f] = r]]
    <3>1. pit' = [pit EXCEPT ![k] = x] /\ pit[k].in[f] # NoRecord
      BY <2>1, <1>2 DEF expireInRecord, Inv, PitOK, Entries
    <3>2. r \in InRecords
      BY <1>2, <3>1, ZenonT(60) DEF Entries, InRecords
    <3> HIDE DEF r
    <3>3. x \in Entries /\ x.timer = pit[k].timer /\ x.out = pit[k].out
      BY <1>2, <3>2 DEF Entries
    <3>4. InFaces(x) = InFaces(pit[k])
      BY <1>2, <3>1, <3>2, RecordAssumption DEF InFaces, Entries
    <3>5. OutFaces(x) = OutFaces(pit[k])
      BY <3>3 DEF OutFaces
    <3>6. Good(x, faces)
      <4> HIDE DEF x
      <4> QED BY <1>2, <3>3, <3>4, <3>5 DEF Good, Live
    <3>7. QED BY <3>1, <3>6, ZenonT(60)
  <2>2. CASE expireOutRecord(k, f)
    <3> DEFINE r == [pit[k].out[f] EXCEPT !.expired = TRUE]
               x == [pit[k] EXCEPT !.out = [pit[k].out EXCEPT ![f] = r]]
    <3>1. pit' = [pit EXCEPT ![k] = x] /\ pit[k].out[f] # NoRecord
      BY <2>2, <1>2 DEF expireOutRecord, Inv, PitOK, Entries
    <3>2. r \in OutRecords
      BY <1>2, <3>1, ZenonT(60) DEF Entries, OutRecords
    <3> HIDE DEF r
    <3>3. x \in Entries /\ x.timer = pit[k].timer /\ x.in = pit[k].in
      BY <1>2, <3>2 DEF Entries
    <3>4. OutFaces(x) = OutFaces(pit[k])
      BY <1>2, <3>1, <3>2, RecordAssumption DEF OutFaces, Entries
    <3>5. InFaces(x) = InFaces(pit[k])
      BY <3>3 DEF InFaces
    <3>6. Good(x, faces)
      <4> HIDE DEF x
      <4> QED BY <1>2, <3>3, <3>4, <3>5 DEF Good, Live
    <3>7. QED BY <3>1, <3>6, ZenonT(60)
  <2>3. QED BY <2>1, <2>2
<1>4. PitOK'
  BY <1>1, <1>3, PitUpdate, ZenonT(60) DEF Inv
<1>5. QED BY <1>1, <1>4, NothingSent, AssistSame, SMTT(60) DEF Inv

(* cleanupOnFaceRemoval leaves no record of the face.                       *)
LEMMA RemoveFaceStep ==
  ASSUME Inv, NEW f \in Faces, removeFace(f)
  PROVE  Inv'
<1> DEFINE x(k) == deleteOutRecord(deleteInRecords(pit[k], {f}), f)
<1>1. /\ faces' = faces \ {f}
      /\ pit' = [k \in Keys |-> IF pit[k] = NoEntry THEN NoEntry ELSE x(k)]
      /\ sent' = {}
      /\ UNCHANGED <<dnl, cs, assistVars>>
  BY DEF removeFace
<1>2. ASSUME NEW k \in Keys, pit[k] # NoEntry PROVE Good(x(k), faces \ {f})
  <2> DEFINE y == deleteInRecords(pit[k], {f})
  <2>1. Good(pit[k], faces)
    BY <1>2 DEF Inv, PitOK
  <2>2. /\ Live(y, faces) /\ y.timer = pit[k].timer
        /\ InFaces(y) = InFaces(pit[k]) \ {f} /\ OutFaces(y) = OutFaces(pit[k])
    BY <2>1, DeleteInLive DEF Good
  <2> HIDE DEF y
  <2>3. /\ Live(deleteOutRecord(y, f), faces) /\ deleteOutRecord(y, f).timer = y.timer
        /\ InFaces(deleteOutRecord(y, f)) = InFaces(y)
        /\ OutFaces(deleteOutRecord(y, f)) = OutFaces(y) \ {f}
    BY <2>2, DeleteOutLive, SMTT(60)
  <2>4. Good(deleteOutRecord(y, f), faces \ {f})
    BY <2>1, <2>2, <2>3, SMTT(60) DEF Good, Live
  <2>5. QED BY <2>4 DEF y
<1> HIDE DEF x
<1>3. PitOK'
  <2>1. \A k \in Keys : pit[k] # NoEntry => x(k) \in Entries
    BY <1>2, SMTT(60) DEF Good, Live
  <2>2. pit' \in [Keys -> Entries \cup {NoEntry}]
    BY <1>1, <2>1, SMTT(60)
  <2>3. ASSUME NEW k \in Keys, pit'[k] # NoEntry PROVE Good(pit'[k], faces \ {f})
    BY <1>1, <1>2, <2>3, SMTT(60)
  <2>4. QED BY <1>1, <2>2, <2>3, SMTT(60) DEF Inv, PitOK
<1>4. QED BY <1>1, <1>3, NothingSent, AssistSame DEF Inv

LEMMA TablesStep ==
  ASSUME Inv, evictNonce \/ ageData \/ evictData
  PROVE  Inv'
<1>1. sent' = {} /\ UNCHANGED <<faces, pit, assistVars>>
  BY ZenonT(60) DEF evictNonce, ageData, evictData
<1>2. dnl' \subseteq Names \X Nonces
  BY ZenonT(60) DEF evictNonce, ageData, evictData, Inv
<1>3. cs' \in [Names -> (FreshnessPeriods \X BOOLEAN) \cup {NoData}]
  <2>1. CASE evictNonce
    BY <2>1 DEF evictNonce, Inv
  <2>2. CASE ageData
    <3>1. PICK n \in Names : /\ cs[n] # NoData
                             /\ cs' = [cs EXCEPT ![n] = <<cs[n][1], FALSE>>]
      BY <2>2, ZenonT(60) DEF ageData, Inv
    <3>2. <<cs[n][1], FALSE>> \in FreshnessPeriods \X BOOLEAN
      BY <3>1, ZenonT(60) DEF Inv
    <3>3. QED BY <3>1, <3>2, ZenonT(60) DEF Inv
  <2>3. CASE evictData
    BY <2>3 DEF evictData, Inv
  <2>4. QED BY <2>1, <2>2, <2>3
<1>4. QED BY <1>1, <1>2, <1>3, PitSame, NothingSent, AssistSame, SMTT(60) DEF Inv

----------------------------------------------------------------------------
LEMMA InvInit == Init => Inv
<1> SUFFICES ASSUME Init PROVE Inv
  OBVIOUS
<1>1. PitOK
  BY DEF Init, PitOK
<1>2. QED BY <1>1, NothingSent, AssistInvInit DEF Init, Inv

LEMMA InvStep == Inv /\ [Next]_vars => Inv' /\ [AssistNext]_assistVars
<1> SUFFICES ASSUME Inv, [Next]_vars PROVE Inv' /\ [AssistNext]_assistVars
  OBVIOUS
<1>1. CASE \E a \in InInterests : onIncomingInterest(a[1], a[2])
  BY <1>1, IncomingInterestStep, ForwarderAssumption, SMTT(60)
<1>2. CASE \E a \in InDatas : onIncomingData(a[1], a[2])
  BY <1>2, IncomingDataStep, ForwarderAssumption, SMTT(60) DEF onIncomingData
<1>3. CASE \E a \in InNacks : onIncomingNack(a[1], a[2])
  BY <1>3, IncomingNackStep, ForwarderAssumption, SMTT(60) DEF onIncomingNack
<1>4. CASE \E k \in Keys : onInterestFinalize(k)
  BY <1>4, FinalizeStep, ZenonT(60) DEF onInterestFinalize
<1>5. CASE \E k \in Keys, f \in Faces : expireInRecord(k, f) \/ expireOutRecord(k, f)
  BY <1>5, ExpireStep DEF expireInRecord, expireOutRecord
<1>6. CASE \E f \in Faces : removeFace(f)
  BY <1>6, RemoveFaceStep DEF removeFace
<1>7. CASE evictNonce \/ ageData \/ evictData
  BY <1>7, TablesStep, ZenonT(60) DEF evictNonce, ageData, evictData
<1>8. CASE UNCHANGED vars
  BY <1>8, PitSame, AssistSame DEF vars, assistVars, Inv, PacketsOn
<1>9. QED BY <1>1, <1>2, <1>3, <1>4, <1>5, <1>6, <1>7, <1>8 DEF Next

(* Every pipeline keeps the forwarder's tables and packets well-formed,     *)
(* whatever its neighbours send.                                            *)
THEOREM TypeCorrect == Spec => []TypeOK
<1>1. Inv => TypeOK
  BY DEF Inv, PitOK, PacketsOn, AssistInv, TypeOK
<1>2. QED BY <1>1, InvInit, InvStep, PTL DEF Spec

(* No PIT record refers to a face that is gone, and no pipeline sends on    *)
(* one: cleanupOnFaceRemoval and the pipelines together see to it.          *)
THEOREM NoDanglingFaces == Spec => []RecordsOnLiveFaces
<1>1. Inv => RecordsOnLiveFaces
  BY DEF Inv, PitOK, PacketsOn, RecordsOnLiveFaces, Good, Live
<1>2. QED BY <1>1, InvInit, InvStep, PTL DEF Spec

(* An entry with an in-record or an out-record always has its expiry timer  *)
(* running: only entries without any record can be left behind.             *)
THEOREM PendingTimed == Spec => []PendingHasTimer
<1>1. Inv => PendingHasTimer
  BY DEF Inv, PitOK, PendingHasTimer, Good
<1>2. QED BY <1>1, InvInit, InvStep, PTL DEF Spec

(* The pipelines use pit_assist only to enter names it does not hold, so    *)
(* the forwarder too implements TokenTable.                                 *)
THEOREM ForwarderRefinesTable == Spec => ImplementsTokenTable
<1>1. Spec => AssistSpec
  <2>1. Init => AssistInit
    BY DEF Init
  <2>2. QED BY <2>1, InvInit, InvStep, PTL DEF Spec, AssistSpec
<1>2. QED BY <1>1, AssistRefinesTable, PTL

(* In the forwarder, a token given to the next hop identifies one name and  *)
(* comes with the token of the previous hop.                                *)
THEOREM ForwarderTokens == Spec => [](TokenIdentifiesName /\ TokenHasPrevToken)
<1>1. Inv => TokenIdentifiesName /\ TokenHasPrevToken
  BY DEF Inv, AssistInv
<1>2. QED BY <1>1, InvInit, InvStep, PTL DEF Spec
=============================================================================
