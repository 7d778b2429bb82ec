---------------------------- MODULE LinkService ----------------------------
(* Two link services that talk over a channel which loses and reorders:     *)
(* fragmentation, the reliability feature and reassembly.                   *)
EXTENDS Integers, FiniteSets, SequencesExt

CONSTANTS
  Ends,               \* the two ends of the link
  NetPkts,            \* network packets to be sent
  sender,             \* the end that sends a packet
  Size,               \* the size of a network packet
  HeaderSize,         \* the size of its other link headers, the PIT token's among them
  Mtu,                \* effective MTU without the space for feature fields
  SingleOverhead,     \* MAX_SINGLE_FRAG_OVERHEAD
  FragOverhead,       \* MAX_FRAG_OVERHEAD
  NMaxFragments,      \* nMaxFragments
  MaxRetx,            \* maxRetx
  SeqNumLossThreshold,
  AckRoom,            \* Acks that fit into an LpPacket
  TxModulus,          \* TxSequence numbers wrap around here
  FirstTx,            \* TxSequence number of the next LpPacket
  MaxInFlight,        \* bound: LpPackets in the channel
  MaxSequences,       \* bound: fragments that are given a Sequence
  MaxForgotten,       \* bound: Sequences that become too old to be recognized
  NoTx, NoFrag

ASSUME LinkAssumption ==
  /\ Cardinality(Ends) = 2 /\ sender \in [NetPkts -> Ends] /\ {Size, HeaderSize} \subseteq [NetPkts -> Nat]
  /\ FragOverhead < Mtu
  /\ MaxRetx \in Nat /\ SeqNumLossThreshold \in Nat /\ AckRoom \in Nat \ {0}
  /\ FirstTx \in 0..(TxModulus - 1) /\ NoTx \notin Int

VARIABLES
  ends,      \* the state of each link service
  channel,   \* LpPackets on their way
  deliveries \* how often a packet has been handed to the forwarder (2: more than once)

linkVars == <<ends, channel, deliveries>>

(* A link service:                                                          *)
(*   lastSeq, lastTx   m_lastSeqNo and m_lastTxSeqNo                        *)
(*   unacked           m_unackedFrags: TxSequence -> [frag, retx, greater]  *)
(*   first             the TxSequence that m_firstUnackedFrag refers to     *)
(*   netPkts           unackedFrags of the NetPkts that are not finished    *)
(*   outcome           what has become of the packets sent                  *)
(*   ackQueue          m_ackQueue                                           *)
(*   idleTimer         m_idleAckTimer is running                            *)
(*   recent, known     m_recentRecvSeqsQueue and m_recentRecvSeqs, as the   *)
(*                     fragments that had the Sequences                     *)
(*   forgotten         those that have left them                            *)
(*   partial           m_partialPackets: message identifier -> fragments    *)
(*   timedOut          packets whose reassembly has timed out               *)
(*   out               LpPackets the current handler has sent               *)
(*   dead              assignTxSequence has thrown                          *)
LinkInit ==
  /\ ends = [e \in Ends |->
       [lastSeq |-> 0, lastTx |-> (FirstTx - 1) % TxModulus, unacked |-> << >>, first |-> NoTx,
        netPkts |-> << >>, outcome |-> << >>, ackQueue |-> << >>, idleTimer |-> FALSE,
        recent |-> << >>, known |-> {}, forgotten |-> {}, partial |-> << >>, timedOut |-> {},
        out |-> {}, dead |-> FALSE]]
  /\ channel = {}
  /\ deliveries = [p \in NetPkts |-> 0]

with(f, x, y) == [z \in DOMAIN f \cup {x} |-> IF z = x THEN y ELSE f[z]]
less(f, x) == [z \in DOMAIN f \ {x} |-> f[z]]

(* How far t comes behind s in the order in which numbers are given out.    *)
txDistance(s, t) == (t - s) % TxModulus

----------------------------------------------------------------------------
(* Sending                                                                  *)

(* fragmentPacket: the other headers are in the first fragment; 0 stands   *)
(* for failure.                                                             *)
fragCount(p) ==
  LET payload == Mtu - FragOverhead
      room == Mtu - HeaderSize[p] - FragOverhead
      rest == IF Size[p] <= room THEN 0 ELSE Size[p] - room
      n == 1 + (rest \div payload) + (IF rest % payload # 0 THEN 1 ELSE 0)
  IN  IF SingleOverhead + HeaderSize[p] + Size[p] <= Mtu THEN 1
      ELSE IF room < 1 \/ n > NMaxFragments THEN 0 ELSE n

fragmentsOf(p, lastSeq) ==
  [i \in 1..fragCount(p) |->
     [pkt |-> p, seq |-> lastSeq + i, index |-> i - 1, count |-> fragCount(p)]]

(* Acks that wait ride along.                                               *)
sendLpPacket(s, frag, tx) ==
  LET n == IF Len(s.ackQueue) < AckRoom THEN Len(s.ackQueue) ELSE AckRoom
  IN  [s EXCEPT !.out = @ \cup {[frag |-> frag, tx |-> tx, acks |-> SubSeq(s.ackQueue, 1, n)]},
                !.ackQueue = SubSeq(@, n + 1, Len(@))]

assignTxSequence(s) ==
  LET tx == (s.lastTx + 1) % TxModulus
  IN  [s EXCEPT !.lastTx = tx, !.dead = @ \/ (s.unacked # << >> /\ tx = s.first)]

(* The first fragment of an empty window is where the window begins.        *)
handleOutgoing(s, frag) ==
  LET t == assignTxSequence(s)
      open == IF frag.pkt \in DOMAIN s.netPkts THEN s.netPkts[frag.pkt] ELSE {}
  IN  [t EXCEPT !.unacked = with(@, t.lastTx, [frag |-> frag, retx |-> 0, greater |-> 0]),
                !.first = IF s.unacked = << >> THEN t.lastTx ELSE @,
                !.netPkts = with(@, frag.pkt, open \cup {t.lastTx})]

txOf(s, frag) == CHOOSE t \in DOMAIN s.unacked : s.unacked[t].frag = frag

sendNetPacket(s, p) ==
  LET frags == fragmentsOf(p, s.lastSeq)
      t == FoldLeft(handleOutgoing, [s EXCEPT !.lastSeq = @ + Len(frags)], frags)
  IN  IF frags = << >> THEN [s EXCEPT !.outcome = with(@, p, "error")]
      ELSE FoldLeft(LAMBDA x, f : sendLpPacket(x, f, txOf(x, f)),
                    [t EXCEPT !.outcome = with(@, p, "pending")], frags)

----------------------------------------------------------------------------
(* The window of unacknowledged fragments                                   *)

(* Mutant: the window goes on with the smallest number.                     *)
deleteUnackedFragSmallest(s, tx) ==
  LET rest == DOMAIN s.unacked \ {tx}
      next == CHOOSE t \in rest : \A u \in rest : t <= u
  IN  [s EXCEPT !.unacked = less(@, tx),
                !.first = IF rest = {} THEN NoTx ELSE IF @ = tx THEN next ELSE @]

(* If it was the first one the window now begins with the next.             *)
deleteUnackedFrag(s, tx) ==
  LET rest == DOMAIN s.unacked \ {tx}
      next == CHOOSE t \in rest : \A u \in rest : txDistance(tx, t) <= txDistance(tx, u)
  IN  [s EXCEPT !.unacked = less(@, tx),
                !.first = IF rest = {} THEN NoTx ELSE IF @ = tx THEN next ELSE @]

(* Mutant: the packet is finished with the first Ack.                       *)
onLpPacketAcknowledgedEarly(s, tx) ==
  LET p == s.unacked[tx].frag.pkt
      left == s.netPkts[p] \ {tx}
      t == deleteUnackedFrag(s, tx)
  IN  [t EXCEPT !.netPkts = IF left = {} THEN less(@, p) ELSE with(@, p, left),
                !.outcome[p] = "acknowledged"]

onLpPacketAcknowledged(s, tx) ==
  LET p == s.unacked[tx].frag.pkt
      left == s.netPkts[p] \ {tx}
      t == deleteUnackedFrag(s, tx)
  IN  IF left = {} THEN [t EXCEPT !.netPkts = less(@, p), !.outcome[p] = "acknowledged"]
      ELSE [t EXCEPT !.netPkts[p] = left]

(* Mutant: of a packet that is given up, only this fragment is.             *)
onLpPacketLostAlone(s, tx) ==
  LET u == s.unacked[tx]
      p == u.frag.pkt
      a == assignTxSequence(s)
      moved == deleteUnackedFrag(
                 [a EXCEPT !.unacked = with(@, a.lastTx, [u EXCEPT !.retx = @ + 1, !.greater = 0]),
                           !.netPkts[p] = (@ \ {tx}) \cup {a.lastTx}], tx)
  IN  IF u.retx >= MaxRetx
      THEN [deleteUnackedFrag(s, tx) EXCEPT !.netPkts = less(@, p), !.outcome[p] = "exhausted"]
      ELSE sendLpPacket(moved, u.frag, a.lastTx)

(* A fragment is sent again under a new number, or its packet given up.     *)
onLpPacketLost(s, tx) ==
  LET u == s.unacked[tx]
      p == u.frag.pkt
      a == assignTxSequence(s)
      moved == deleteUnackedFrag(
                 [a EXCEPT !.unacked = with(@, a.lastTx, [u EXCEPT !.retx = @ + 1, !.greater = 0]),
                           !.netPkts[p] = (@ \ {tx}) \cup {a.lastTx}], tx)
      dropped == FoldLeft(deleteUnackedFrag, s, SetToSeq(s.netPkts[p]))
  IN  IF u.retx >= MaxRetx
      THEN [dropped EXCEPT !.netPkts = less(@, p), !.outcome[p] = "exhausted"]
      ELSE sendLpPacket(moved, u.frag, a.lastTx)

(* findLostLpPackets and what follows it, for one Ack.                      *)
processAck(s, tx) ==
  LET older == {t \in DOMAIN s.unacked : txDistance(s.first, t) < txDistance(s.first, tx)}
      counted == [s EXCEPT !.unacked = [t \in DOMAIN @ |->
                    IF t \in older THEN [@[t] EXCEPT !.greater = @ + 1] ELSE @[t]]]
      lost == SetToSortSeq({t \in older : counted.unacked[t].greater >= SeqNumLossThreshold},
                           LAMBDA t, u : txDistance(s.first, t) < txDistance(s.first, u))
  IN  IF tx \notin DOMAIN s.unacked THEN s
      ELSE FoldLeft(LAMBDA x, t : IF t \in DOMAIN x.unacked THEN onLpPacketLost(x, t) ELSE x,
                    onLpPacketAcknowledged(counted, tx), lost)

----------------------------------------------------------------------------
(* Receiving                                                                *)

(* The n oldest Sequences have been there for longer than the RTO.          *)
rememberSequence(s, frag, n) ==
  LET old == {s.recent[i] : i \in 1..n}
  IN  [s EXCEPT !.recent = Append(SubSeq(@, n + 1, Len(@)), frag),
                !.known = (@ \ old) \cup {frag},
                !.forgotten = @ \cup old]

(* Mutant: the Sequences that were received are not looked up.              *)
isDuplicateNever(s, frag) == FALSE

isDuplicate(s, frag) == frag \in s.known

(* receiveFragment: the fragments collected so far with this one.           *)
collected(s, frag) ==
  LET id == frag.seq - frag.index
  IN  (IF id \in DOMAIN s.partial THEN s.partial[id] ELSE {}) \cup {frag}

isComplete(s, frag) == Cardinality(collected(s, frag)) = frag.count

receiveFragment(s, frag) ==
  LET id == frag.seq - frag.index
  IN  IF isComplete(s, frag) THEN [s EXCEPT !.partial = less(@, id)]
      ELSE [s EXCEPT !.partial = with(@, id, collected(s, frag))]

----------------------------------------------------------------------------
(* Actions                                                                  *)

peer(e) == CHOOSE x \in Ends : x # e

(* The handler ends: what it has sent is in the channel, or lost.           *)
finish(e, s, inFlight) ==
  /\ ends' = [ends EXCEPT ![e] = [s EXCEPT !.out = {}]]
  /\ \E kept \in SUBSET s.out :
       channel' = inFlight \cup {[to |-> peer(e), frag |-> m.frag, tx |-> m.tx, acks |-> m.acks] :
                                   m \in kept}
  /\ Cardinality(channel') <= MaxInFlight

send(p) ==
  LET e == sender[p]
  IN  /\ ~ ends[e].dead
      /\ p \notin DOMAIN ends[e].outcome
      /\ ends[e].lastSeq + ends[peer(e)].lastSeq + fragCount(p) <= MaxSequences
      /\ finish(e, sendNetPacket(ends[e], p), channel)
      /\ UNCHANGED deliveries

rtoExpired(e, tx) ==
  /\ ~ ends[e].dead
  /\ finish(e, onLpPacketLost(ends[e], tx), channel)
  /\ UNCHANGED deliveries

(* IDLE packets until no Ack waits.                                         *)
idleAckTimer(e) ==
  LET n == (Len(ends[e].ackQueue) + AckRoom - 1) \div AckRoom
  IN  /\ ~ ends[e].dead
      /\ ends[e].idleTimer
      /\ finish(e, FoldLeft(LAMBDA x, i : sendLpPacket(x, NoFrag, NoTx),
                            [ends[e] EXCEPT !.idleTimer = FALSE], [i \in 1..n |-> i]), channel)
      /\ UNCHANGED deliveries

(* doReceivePacket                                                          *)
receive(m, n) ==
  LET e == m.to
      s == FoldLeft(processAck, ends[e], m.acks)
      t == rememberSequence([s EXCEPT !.ackQueue = Append(@, m.tx), !.idleTimer = TRUE],
                            m.frag, n)
      new == ~ isDuplicate(s, m.frag)
      whole == new /\ isComplete(s, m.frag)
      after == IF m.frag = NoFrag THEN s ELSE IF new THEN receiveFragment(t, m.frag) ELSE t
  IN  /\ ~ ends[e].dead
      /\ n = 0 \/ m.frag # NoFrag
      /\ n <= Len(s.recent) /\ Cardinality(s.forgotten) + n <= MaxForgotten
      /\ finish(e, after, channel \ {m})
      /\ IF m.frag = NoFrag THEN UNCHANGED deliveries
         ELSE deliveries' = [deliveries EXCEPT ![m.frag.pkt] =
                               IF whole /\ @ < 2 THEN @ + 1 ELSE @]

timeoutPartialPacket(e, id) ==
  /\ ends' = [ends EXCEPT ![e].partial = less(@, id),
                          ![e].timedOut = @ \cup {f.pkt : f \in ends[e].partial[id]}]
  /\ UNCHANGED <<channel, deliveries>>

LinkNext ==
  \/ \E p \in NetPkts : send(p)
  \/ \E e \in Ends : \/ \E tx \in DOMAIN ends[e].unacked : rtoExpired(e, tx)
                     \/ idleAckTimer(e)
                     \/ \E id \in DOMAIN ends[e].partial : timeoutPartialPacket(e, id)
  \/ \E m \in channel, n \in 0..MaxForgotten : receive(m, n)

----------------------------------------------------------------------------
(* Properties                                                               *)

(* m_firstUnackedFrag refers to the oldest unacknowledged fragment, also    *)
(* across the wraparound of TxSequence numbers: findLostLpPackets walks     *)
(* from there to the acknowledged one.                                      *)
WindowStartsAtOldest ==
  \A e \in Ends : LET s == ends[e] IN
    IF s.unacked = << >> THEN s.first = NoTx
    ELSE /\ s.first \in DOMAIN s.unacked
         /\ \A t \in DOMAIN s.unacked : txDistance(s.lastTx + 1, s.first)
                                           <= txDistance(s.lastTx + 1, t)

(* The iterators a NetPkt keeps are those of its unacknowledged fragments,  *)
(* as long as it is neither acknowledged nor given up.                      *)
NetPktsHoldWindow ==
  \A e \in Ends : LET s == ends[e] IN
    /\ DOMAIN s.netPkts = {p \in DOMAIN s.outcome : s.outcome[p] = "pending"}
    /\ \A p \in DOMAIN s.netPkts :
         s.netPkts[p] = {t \in DOMAIN s.unacked : s.unacked[t].frag.pkt = p} /\ s.netPkts[p] # {}
    /\ \A t \in DOMAIN s.unacked : s.unacked[t].frag.pkt \in DOMAIN s.netPkts

(* A packet that is counted as acknowledged has been handed to the peer's   *)
(* forwarder, unless the peer's reassembler has given it up in between.     *)
AckedIsDelivered ==
  \A p \in NetPkts : p \in DOMAIN ends[sender[p]].outcome =>
    (ends[sender[p]].outcome[p] = "acknowledged"
       => deliveries[p] > 0 \/ p \in ends[peer(sender[p])].timedOut)

(* However often a fragment is retransmitted, its packet is handed over     *)
(* only once while the receiver remembers its Sequence.                     *)
TwiceOnlyIfForgotten ==
  \A p \in NetPkts : deliveries[p] > 1 =>
    \E f \in ends[peer(sender[p])].forgotten : f.pkt = p
=============================================================================
