---------------------------- MODULE ScopeProofs ----------------------------
(* Proof that the pipelines keep to the scopes of /localhost and /localhop, *)
(* for any names, faces and routes.                                         *)
EXTENDS ReflexiveProofs

(* The Interests the neighbours send are no RIs, which are sent to a        *)
(* downstream whatever their scope, and none asks by a NextHopFaceId for a  *)
(* face outside its scope, which onContentStoreMiss does not look at.       *)
OrdinaryInterests ==
  \A a \in InInterests :
    /\ ~ isReflexiveInterestFromProducer(a[1])
    /\ a[1].nextHop \in Faces => ~ wouldViolateScope(a[2], a[1].key.name, a[1].nextHop)

DataInScope(S) == \A p \in S : p.kind = "data" /\ p.name \in LocalhostNames => p.face \in LocalFaces

LEMMA OutgoingDataInScope ==
  ASSUME NEW D, NEW n, NEW tokenOf
  PROVE  DataInScope(onOutgoingData(D, n, tokenOf))
BY DEF DataInScope, onOutgoingData, DataOut

(* What a step of onOutgoingInterest leaves of the in-records, and where    *)
(* its packets go.                                                          *)
LEMMA OutgoingInterestKeepsIn ==
  ASSUME NEW e \in Entries, NEW i, NEW g
  PROVE  /\ onOutgoingInterest(e, i, g).e.in = e.in
         /\ \A p \in onOutgoingInterest(e, i, g).packets : p.kind = "interest" /\ p.face = g
<1>1. insertOrUpdateOutRecord(e, g, i.nonce).in = e.in
  BY SMTT(60) DEF Entries, insertOrUpdateOutRecord
<1>2. QED BY <1>1 DEF onOutgoingInterest, Result, InterestOut

(* The strategy sends to next hops in scope only.                           *)
LEMMA StrategyInScope ==
  ASSUME NEW e \in Entries, NEW i, NEW f, NEW r \in afterReceiveInterest(e, i, f),
         NEW p \in r.packets, p.kind = "interest"
  PROVE  r.e.in = e.in /\ ~ wouldViolateScope(f, i.key.name, p.face)
<1> DEFINE hops == NextHops[i.key.name]
           nacked == onOutgoingNack(e, i.key, {f}, NO_ROUTE)
           eligible == {j \in DOMAIN hops : /\ hops[j] \in faces
                                            /\ isNextHopEligible(f, i.key.name, hops[j])}
           unused == {j \in eligible : isUnused(e, hops[j])}
           sendInterest(J) == {onOutgoingInterest(e, i, hops[j]) : j \in J}
<1>1. first(eligible) \subseteq eligible /\ first(unused) \subseteq eligible
  BY DEF first
<1>2. \/ r = rejectPendingInterest(nacked)
      \/ r = Result(e, {})
      \/ \E j \in eligible : r = onOutgoingInterest(e, i, hops[j])
  <2>1. \/ r \in {rejectPendingInterest(nacked)}
        \/ r \in sendInterest(first(eligible))
        \/ r \in {Result(e, {})} \cup
                 sendInterest(IF unused # {} THEN first(unused) ELSE eligible)
    <3> HIDE DEF nacked
    <3> QED BY DEF afterReceiveInterest, nacked
  <2> HIDE DEF nacked, eligible, unused
  <2>2. QED BY <1>1, <2>1, SMTT(60)
<1>3. CASE r = rejectPendingInterest(nacked)
  BY <1>3, OutgoingNackNoInterest DEF rejectPendingInterest, Result, NoInterest
<1>4. CASE r = Result(e, {})
  BY <1>4 DEF Result
<1>5. CASE \E j \in eligible : r = onOutgoingInterest(e, i, hops[j])
  <2>1. PICK j \in eligible : r = onOutgoingInterest(e, i, hops[j])
    BY <1>5, SMTT(60)
  <2>2. ~ wouldViolateScope(f, i.key.name, hops[j])
    BY <2>1, SMTT(60) DEF isNextHopEligible
  <2>3. r.e.in = e.in /\ p.face = hops[j]
    BY <2>1, OutgoingInterestKeepsIn
  <2>4. QED BY <2>2, <2>3, SMTT(60)
<1>6. QED BY <1>2, <1>3, <1>4, <1>5, SMTT(60)

(* onContentStoreMiss: the Interest leaves in scope of the face it came     *)
(* from, which has its in-record.                                           *)
LEMMA MissInScope ==
  ASSUME PitOK, AssistInv', NEW i \in Interests, NEW f \in faces,
         isReflexiveInterest(i) => existName(i.key.name)',
         i.nextHop \in Faces => ~ wouldViolateScope(f, i.key.name, i.nextHop),
         NEW e, Live(e, faces), onContentStoreMiss(i, f, e),
         NEW p \in sent', p.kind = "interest"
  PROVE  ~ wouldViolateScope(f, i.key.name, p.face) /\ f \in InFaces(pit'[i.key])
<1> DEFINE ii == attachHopLimit(i)
           nextToken == IF isReflexiveInterest(i) THEN nameToToken'[i.key.name] ELSE i.token
           stripped == IF isReflexiveInterest(i) THEN nextToken ELSE NoTag
           pending(tag) ==
             setExpiryTimer(insertOrUpdateInRecord(e, f, i.nonce, tag, i.token), "lifetime")
           result(r) == pit' = [pit EXCEPT ![i.key] = r.e] /\ sent' = r.packets
<1>1. faces \subseteq Faces /\ f \in Faces /\ i.key \in Keys /\ i.nonce \in Nonces /\ i.token \in Tags
  BY DEF PitOK, Interests
<1>2. nextToken \in Tags
  <2>1. isReflexiveInterest(i) => nameToToken'[i.key.name] \in Word32
    BY <1>1 DEF AssistInv, AssistTypeOK, existName, Keys
  <2>2. QED BY <1>1, <2>1 DEF Tags
<1>3. pending(nextToken) \in Entries /\ pending(nextToken).in[f] \in InRecords
  <2> HIDE DEF nextToken
  <2> DEFINE x == insertOrUpdateInRecord(e, f, i.nonce, nextToken, i.token)
  <2>1. x \in Entries
    BY <1>1, <1>2, InsertInLive, ZenonT(60) DEF Live
  <2>2. x.in[f] = [nonce |-> i.nonce, tag |-> nextToken, asked |-> i.token, expired |-> FALSE]
    BY <1>1 DEF Live, Entries, insertOrUpdateInRecord
  <2>3. x.in[f] \in InRecords
    BY <1>1, <1>2, <2>2 DEF InRecords
  <2> HIDE DEF x
  <2>4. setExpiryTimer(x, "lifetime") \in Entries /\ setExpiryTimer(x, "lifetime").in = x.in
    BY <2>1 DEF setExpiryTimer, Entries
  <2>5. QED BY <2>3, <2>4 DEF x
<1>4. ASSUME NEW r, result(r), r.e.in = pending(nextToken).in PROVE f \in InFaces(pit'[i.key])
  <2>1. pit'[i.key] = r.e
    BY <1>1, <1>4 DEF PitOK
  <2>2. pit'[i.key].in[f] \in InRecords
    BY <1>3, <1>4, <2>1
  <2>3. QED BY <1>1, <2>2, RecordAssumption DEF InFaces
<1>5. ii \in Interests /\ ii.key = i.key
  BY AttachedInterest, SMTT(60)
<1>6. \/ i.nextHop \in faces
         /\ result(onOutgoingInterest(pending(nextToken), [ii EXCEPT !.token = nextToken], i.nextHop))
      \/ result(Result(pending(i.token), {}))
      \/ \E r \in afterReceiveInterest(pending(nextToken), [ii EXCEPT !.token = stripped], f) : result(r)
  BY DEF onContentStoreMiss
<1> HIDE DEF ii, nextToken, stripped, pending
<1>7. CASE i.nextHop \in faces
           /\ result(onOutgoingInterest(pending(nextToken), [ii EXCEPT !.token = nextToken], i.nextHop))
  <2> DEFINE r == onOutgoingInterest(pending(nextToken), [ii EXCEPT !.token = nextToken], i.nextHop)
  <2>1. r.e.in = pending(nextToken).in /\ \A q \in r.packets : q.face = i.nextHop
    BY <1>3, OutgoingInterestKeepsIn
  <2>2. result(r) /\ p \in r.packets
    BY <1>7
  <2> HIDE DEF r
  <2>3. QED BY <1>1, <1>4, <1>7, <2>1, <2>2, ZenonT(60)
<1>8. CASE result(Result(pending(i.token), {}))
  BY <1>8 DEF Result
<1>9. CASE \E r \in afterReceiveInterest(pending(nextToken), [ii EXCEPT !.token = stripped], f) : result(r)
  <2> DEFINE j == [ii EXCEPT !.token = stripped]
  <2>1. PICK r \in afterReceiveInterest(pending(nextToken), j, f) : result(r)
    BY <1>9, ZenonT(60)
  <2>2. j.key = i.key
    BY <1>5 DEF Interests
  <2> HIDE DEF j
  <2>3. r.e.in = pending(nextToken).in /\ ~ wouldViolateScope(f, j.key.name, p.face)
    BY <1>3, <2>1, StrategyInScope
  <2>4. QED BY <1>4, <2>1, <2>2, <2>3, ZenonT(60)
<1>10. QED BY <1>6, <1>7, <1>8, <1>9

(* Data that leaves, from whatever pipeline, leaves through onOutgoingData. *)
LEMMA DataLeaves ==
  ASSUME Inv, Next
  PROVE  DataInScope(sent')
<1>1. ASSUME NEW S, \A p \in S : p.kind \in {"interest", "nack"} PROVE DataInScope(S)
  BY <1>1 DEF DataInScope
<1>2. ASSUME NEW e, NEW k, NEW D, NEW reason
      PROVE  DataInScope(onOutgoingNack(e, k, D, reason).packets)
  BY DEF DataInScope, onOutgoingNack, Result, NackOut
<1>3. ASSUME NEW e, NEW i, NEW g
      PROVE  DataInScope(onOutgoingInterest(e, i, g).packets)
  BY DEF DataInScope, onOutgoingInterest, Result, InterestOut
<1>4. ASSUME NEW i, NEW f, onIncomingInterest(i, f) PROVE DataInScope(sent')
  <2>1. CASE dropInterest(i, f) \/ detectLoopInDnl(i, f)
    BY <2>1 DEF dropInterest, detectLoopInDnl, onInterestLoop, NackOut, DataInScope
  <2>2. CASE onSendingRI(i, f)
    <3> DEFINE ri == decrementHopLimit(i)
    <3>1. nackRI(ri, f) \/ dropRI(ri, f) \/ forwardRI(ri, f)
      BY <2>2, SMTT(60) DEF onSendingRI
    <3> HIDE DEF ri
    <3>2. CASE nackRI(ri, f) \/ dropRI(ri, f)
      BY <3>2, SMTT(60) DEF nackRI, dropRI, NackOut, DataInScope
    <3>3. CASE forwardRI(ri, f)
      <4>1. \/ \E e, j, g : sent' = onOutgoingInterest(e, j, g).packets
            \/ \E e, k : sent' = onOutgoingNack(e, k, {f}, NO_ROUTE).packets
        BY <3>3 DEF forwardRI, rejectPendingInterest, Result
      <4>2. QED BY <1>2, <1>3, <4>1, SMTT(60)
    <3>4. QED BY <3>1, <3>2, <3>3
  <2>3. CASE receiveInterest(i, f)
    <3> DEFINE e == findOrInsert(i.key)
               ii == decrementHopLimit(i)
    <3>1. \/ sent' = onInterestLoop(i, f)
          \/ \E n : sent' = onOutgoingData({f}, n, [g \in {f} |-> ii.token])
          \/ onContentStoreMiss(ii, f, e)
      BY <2>3 DEF receiveInterest, onContentStoreHit
    <3> HIDE DEF e, ii
    <3>2. CASE sent' = onInterestLoop(i, f)
      BY <3>2, SMTT(60) DEF onInterestLoop, NackOut, DataInScope
    <3>3. CASE onContentStoreMiss(ii, f, e)
      <4>1. \/ \E x, j, g : sent' = onOutgoingInterest(x, j, g).packets
            \/ sent' = {}
            \/ \E x, j : \E r \in afterReceiveInterest(x, j, f) : sent' = r.packets
        BY <3>3, SMTT(60) DEF onContentStoreMiss, Result
      <4>2. ASSUME NEW x, NEW j, NEW r \in afterReceiveInterest(x, j, f)
            PROVE  DataInScope(r.packets)
        <5> DEFINE nacked == onOutgoingNack(x, j.key, {f}, NO_ROUTE)
        <5>1. \/ r = rejectPendingInterest(nacked)
              \/ r = Result(x, {})
              \/ \E g : r = onOutgoingInterest(x, j, g)
          <6> HIDE DEF nacked
          <6>1. \/ r \in {rejectPendingInterest(nacked)}
                \/ \E J : r \in {Result(x, {})} \cup
                             {onOutgoingInterest(x, j, NextHops[j.key.name][m]) : m \in J}
            BY ZenonT(60) DEF afterReceiveInterest, nacked
          <6>2. QED BY <6>1, SMTT(60)
        <5>2. QED BY <1>2, <1>3, <5>1, SMTT(60) DEF rejectPendingInterest, Result, DataInScope
      <4>3. QED BY <1>3, <4>1, <4>2, SMTT(60) DEF DataInScope
    <3>4. QED BY <3>1, <3>2, <3>3, OutgoingDataInScope, SMTT(60)
  <2>4. QED BY <1>4, <2>1, <2>2, <2>3, SMTT(60) DEF onIncomingInterest
<1>5. ASSUME NEW d, NEW f, onIncomingData(d, f) PROVE DataInScope(sent')
  <2>1. \/ sent' = {}
        \/ \E D, tokenOf : sent' = onOutgoingData(D, d.name, tokenOf)
    BY <1>5, ZenonT(60) DEF onIncomingData, dropData, onDataUnsolicited, satisfyOne, satisfyMany
  <2>2. QED BY <2>1, OutgoingDataInScope DEF DataInScope
<1>6. ASSUME NEW n, NEW f, onIncomingNack(n, f) PROVE DataInScope(sent')
  <2>1. \/ sent' = {}
        \/ \E e, D, reason : sent' = onOutgoingNack(e, n.key, D, reason).packets
    BY <1>6, ZenonT(60) DEF onIncomingNack, dropNack, recordNack, processNack
  <2>2. QED BY <1>2, <2>1 DEF DataInScope
<1>7. ASSUME sent' = {} PROVE DataInScope(sent')
  BY <1>7 DEF DataInScope
<1>8. CASE \/ \E k \in Keys : onInterestFinalize(k)
           \/ \E k \in Keys, f \in Faces : expireInRecord(k, f) \/ expireOutRecord(k, f)
           \/ \E f \in Faces : removeFace(f)
           \/ evictNonce \/ ageData \/ evictData
  BY <1>7, <1>8, ZenonT(60) DEF onInterestFinalize, expireInRecord, expireOutRecord, removeFace,
                    evictNonce, ageData, evictData
<1>9. QED BY <1>4, <1>5, <1>6, <1>8 DEF Next

LEMMA InterestInScope ==
  ASSUME Inv, OrdinaryInterests, Next, NEW p \in sent', p.kind = "interest"
  PROVE  /\ p.key.name \in LocalhostNames => p.face \in LocalFaces
         /\ p.key.name \in LocalhopNames /\ p.face \notin LocalFaces
              => InFaces(pit'[p.key]) \cap LocalFaces # {}
<1>1. PICK a \in InInterests : onIncomingInterest(a[1], a[2])
  BY InterestBringsInterest
<1> DEFINE i == a[1]
           f == a[2]
<1>2. i \in Interests /\ f \in faces
  BY <1>1, ForwarderAssumption DEF onIncomingInterest
<1>3. /\ ~ isReflexiveInterestFromProducer(i)
      /\ i.nextHop \in Faces => ~ wouldViolateScope(f, i.key.name, i.nextHop)
  BY DEF OrdinaryInterests
<1>4. onIncomingInterest(i, f)
  BY <1>1
<1> HIDE DEF i, f
<1>5. receiveInterest(i, f)
  <2>1. ~ dropInterest(i, f)
    BY DEF dropInterest
  <2>2. ~ detectLoopInDnl(i, f)
    BY DEF detectLoopInDnl, onInterestLoop, NackOut
  <2>3. QED BY <1>3, <1>4, <2>1, <2>2 DEF onIncomingInterest, onSendingRI
<1> DEFINE e == findOrInsert(i.key)
           ii == decrementHopLimit(i)
<1>6. isAccepted(i, f) /\ recordToken(i)
  BY <1>5 DEF receiveInterest
<1>7. ii \in Interests /\ ii.key = i.key /\ ii.nextHop = i.nextHop
  BY <1>2, <1>6, DecrementedInterest, SMTT(60) DEF isAccepted, decrementHopLimit, Interests
<1>8. AssistInv' /\ (isReflexiveInterest(ii) => existName(ii.key.name)')
  BY <1>2, <1>3, <1>6, <1>7, RecordToken, SMTT(60) DEF Inv, isReflexiveInterest
<1>9. Live(e, faces)
  BY <1>2, FindOrInsertGood, SMTT(60) DEF Inv, Good, Interests
<1>10. \/ sent' = onInterestLoop(i, f)
       \/ \E n : sent' = onOutgoingData({f}, n, [g \in {f} |-> ii.token])
       \/ onContentStoreMiss(ii, f, e)
  BY <1>5 DEF receiveInterest, onContentStoreHit
<1> HIDE DEF e, ii
<1>11. onContentStoreMiss(ii, f, e)
  BY <1>10, OutgoingDataNoInterest DEF NoInterest, onInterestLoop, NackOut
<1>12. p.key = ii.key
  BY <1>7, <1>11, MissForwards, SMTT(60)
<1>13. ~ wouldViolateScope(f, ii.key.name, p.face) /\ f \in InFaces(pit'[ii.key])
  BY <1>2, <1>3, <1>7, <1>8, <1>9, <1>11, MissInScope, SMTT(60) DEF Inv
<1>14. QED BY <1>12, <1>13 DEF wouldViolateScope

(* Packets under /localhost stay on local faces, and an Interest under      *)
(* /localhop leaves the node only if a local application waits for it: the  *)
(* checks in onIncomingInterest, onOutgoingData and the strategy together   *)
(* keep scope-prefix.hpp's rules, as long as no RI and no NextHopFaceId     *)
(* bypasses the strategy.                                                   *)
THEOREM ScopeHolds == OrdinaryInterests /\ Spec => []ScopeIsKept
<1>1. Init => ScopeIsKept
  BY DEF Init, ScopeIsKept
<1>2. OrdinaryInterests /\ Inv /\ ScopeIsKept /\ [Next]_vars => ScopeIsKept'
  <2> SUFFICES ASSUME OrdinaryInterests, Inv, ScopeIsKept, [Next]_vars PROVE ScopeIsKept'
    OBVIOUS
  <2>1. CASE UNCHANGED vars
    BY <2>1 DEF vars, ScopeIsKept
  <2>2. CASE Next
    BY <2>2, DataLeaves, InterestInScope DEF ScopeIsKept, DataInScope
  <2>3. QED BY <2>1, <2>2
<1>3. OrdinaryInterests => OrdinaryInterests'
  BY DEF OrdinaryInterests, isReflexiveInterestFromProducer, wouldViolateScope
<1>4. QED BY <1>1, <1>2, <1>3, InvInit, InvStep, PTL DEF Spec
=============================================================================
