------------------------------ MODULE Fetcher ------------------------------
(* SegmentFetcher, with which the RIB manager's controller fetches the face *)
(* dataset: a pipeline of Interests under a congestion window, with timers, *)
(* retransmission, and reassembly as a block or in order.  The validator is *)
(* the controller's, which answers at once.                                 *)
EXTENDS Integers, FiniteSets, SequencesExt

CONSTANTS
  FetchOptions,  \* SegmentFetcher::Options, those that a transfer may be started with
  CwndUnit,      \* windows are counted in 1/CwndUnit of a segment, rounded down; aiStep is 1, mdCoef 1/2
  NObject,       \* the number of segments of the object
  NackReasons,   \* reasons of Nacks; all but RetryReasons end the transfer
  RetryReasons,
  MaxLosses,     \* bound: timeouts and Nacks that the transfer survives
  NoFinalBlock, NotSegment

ASSUME FetchAssumption ==
  /\ FetchOptions \subseteq
       [inOrder : BOOLEAN, useConstantCwnd : BOOLEAN, disableCwa : BOOLEAN, resetCwndToInit : BOOLEAN,
        ignoreCongMarks : BOOLEAN, initCwnd : Nat, initSsthresh : Nat, flowControlWindow : Nat]
  /\ \A o \in FetchOptions : o.initCwnd >= CwndUnit
  /\ NObject \in Nat \ {0} /\ RetryReasons \subseteq NackReasons

VARIABLES
  options,  \* m_options
  fetcher,  \* the rest of the SegmentFetcher
  overdue,  \* maxTimeout has passed since m_timeLastSegmentReceived
  losses    \* timeouts and Nacks so far

fetchVars == <<options, fetcher, overdue, losses>>

MIN_SSTHRESH == 2 * CwndUnit

(* The Interest of a pending segment is pending at the face ("asked"), and  *)
(* its timer runs; the discovery Interest has no segment number ("base").   *)
PendingSegment(state, isBase) == [state |-> state, asked |-> TRUE, timer |-> TRUE, base |-> isBase]

(* The handle and the event of the earlier Interest go.                     *)
updateRetransmittedSegment(f, seg, isBase) ==
  [f EXCEPT !.pending[seg] = PendingSegment("Retransmitted", isBase)]

sendInterest(f, seg, isBase, isRetransmission) ==
  LET sent == [f EXCEPT !.inFlight = @ + 1]
  IN  IF isRetransmission THEN updateRetransmittedSegment(sent, seg, isBase)
      ELSE [sent EXCEPT !.pending = (seg :> PendingSegment("FirstInterest", isBase)) @@ @,
                        !.highInterest = seg]

fetchFirstSegment(f, isRetransmission) == sendInterest(f, 0, TRUE, isRetransmission)

(* The members in the order of segment-fetcher.hpp; the maps hold segment   *)
(* numbers, "delivered" is what onInOrderData has handed out.               *)
newFetcher ==
  [outcome |-> "none", retxQueue |-> << >>, next |-> 0, cwnd |-> options.initCwnd,
   ssthresh |-> options.initSsthresh, inFlight |-> 0, nSegments |-> 0, highInterest |-> 0,
   highData |-> 0, recPoint |-> 0, nReceived |-> 0, nextInOrder |-> 0, buffer |-> {},
   pending |-> << >>, received |-> {}, delivered |-> << >>]

FetchInit ==
  /\ options \in FetchOptions
  /\ fetcher = fetchFirstSegment(newFetcher, FALSE)
  /\ overdue = FALSE
  /\ losses = 0

(* stop: the handles and the events go with the pending segments, and the   *)
(* fetcher is destroyed; what the application has got remains.              *)
stopped(f, outcome) ==
  [newFetcher EXCEPT !.outcome = outcome, !.buffer = f.buffer, !.delivered = f.delivered]

signalError(f, code) == stopped(f, code)
finalizeFetch(f) == stopped(f, "complete")

(* ~ shouldStop                                                             *)
running == fetcher.outcome = "none"

----------------------------------------------------------------------------
(* The congestion window                                                    *)

windowIncrease(f) ==
  IF options.useConstantCwnd THEN f
  ELSE [f EXCEPT !.cwnd = @ + IF @ < f.ssthresh THEN CwndUnit ELSE CwndUnit \div (@ \div CwndUnit)]

windowDecrease(f) ==
  LET ssthresh == Max({MIN_SSTHRESH, f.cwnd \div 2})
      cut == [f EXCEPT !.recPoint = f.highInterest]
  IN  IF ~ (options.disableCwa \/ f.highData > f.recPoint) THEN f
      ELSE IF options.useConstantCwnd THEN cut
      ELSE [cut EXCEPT !.ssthresh = ssthresh,
                       !.cwnd = IF options.resetCwndToInit THEN options.initCwnd ELSE ssthresh]

(* The window less what is in flight; in order, the reorder buffer limits   *)
(* it too.                                                                  *)
availableWindowSize(f) ==
  LET cwnd == f.cwnd \div CwndUnit
  IN  (IF options.inOrder
       THEN Min({cwnd, options.flowControlWindow - Cardinality(f.buffer)})
       ELSE cwnd) - f.inFlight

----------------------------------------------------------------------------
(* Asking for segments                                                      *)

(* The loop that chooses what to ask for, <<segment, is it again>>: what is *)
(* in the queue and has not come in the meantime, then what is next.        *)
RECURSIVE segmentsToRequest(_, _, _)
segmentsToRequest(f, room, chosen) ==
  LET first == Head(f.retxQueue)
      popped == [f EXCEPT !.retxQueue = Tail(@)]
      passed == [f EXCEPT !.next = @ + 1]
  IN  CASE room > 0 /\ f.retxQueue # << >> ->
             IF first \in DOMAIN f.pending
             THEN segmentsToRequest(popped, room - 1, Append(chosen, <<first, TRUE>>))
             ELSE segmentsToRequest(popped, room, chosen)
        [] room > 0 /\ f.retxQueue = << >> /\ (f.nSegments = 0 \/ f.next < f.nSegments) ->
             IF f.next \in f.buffer
             THEN segmentsToRequest(passed, room, chosen)
             ELSE segmentsToRequest(passed, room - 1, Append(chosen, <<f.next, FALSE>>))
        [] OTHER -> <<f, chosen>>

missing(f) == {i \in 0..(f.nSegments - 1) : i \notin f.received}

enoughReceived(f) == f.nSegments # 0 /\ f.nReceived >= f.nSegments

(* Mutant: as many as there are segments are all of them.                   *)
checkAllSegmentsReceivedCount(f) == <<f, enoughReceived(f)>>

(* When enough have come, those that are missing are queued.                *)
checkAllSegmentsReceived(f) ==
  IF enoughReceived(f)
  THEN <<[f EXCEPT !.retxQueue = @ \o SetToSortSeq(missing(f), <)], missing(f) = {}>>
  ELSE <<f, FALSE>>

fetchSegmentsInWindow(f) ==
  LET checked == checkAllSegmentsReceived(f)
      chosen == segmentsToRequest(checked[1], availableWindowSize(checked[1]), << >>)
  IN  IF checked[2] THEN finalizeFetch(checked[1])
      ELSE FoldLeft(LAMBDA g, r : sendInterest(g, r[1], FALSE, r[2]), chosen[1], chosen[2])

----------------------------------------------------------------------------
(* Data                                                                     *)

cancelExcessInFlightSegments(f) ==
  LET kept == {s \in DOMAIN f.pending : s < f.nSegments}
  IN  [f EXCEPT !.pending = Restrict(@, kept),
                !.inFlight = @ - Cardinality(DOMAIN f.pending \ kept)]

(* In order, the segments that are next leave the buffer.                   *)
deliverInOrder(f, seg) ==
  LET last == Max({s \in f.buffer : f.nextInOrder..s \subseteq f.buffer})
      ready == f.nextInOrder..last
  IN  IF ~ options.inOrder \/ f.nextInOrder # seg THEN f
      ELSE [f EXCEPT !.delivered = @ \o [i \in 1..Cardinality(ready) |-> f.nextInOrder + i - 1],
                     !.buffer = @ \ ready,
                     !.nextInOrder = last + 1]

(* seg has been validated; owner is the pending segment that asked.         *)
afterValidationSuccess(f, owner, seg, final, isMarked) ==
  LET stored == [f EXCEPT !.nReceived = @ + 1,
                          !.received = @ \cup {seg},
                          !.pending = Restrict(@, DOMAIN @ \ {owner}),
                          !.buffer = @ \cup {seg}]
      bounded == IF final = NoFinalBlock \/ final + 1 = f.nSegments THEN stored
                 ELSE cancelExcessInFlightSegments([stored EXCEPT !.nSegments = final + 1])
      ordered == deliverInOrder(bounded, seg)
      counted == [ordered EXCEPT !.next = IF Cardinality(ordered.received) = 1 /\ seg = 0 THEN @ + 1 ELSE @,
                                 !.highData = Max({@, seg})]
  IN  IF final = NotSegment THEN signalError(stored, "FINALBLOCKID_NOT_SEGMENT")
      ELSE fetchSegmentsInWindow(IF isMarked /\ ~ options.ignoreCongMarks
                                 THEN windowDecrease(counted) ELSE windowIncrease(counted))

afterValidationFailure(f) == signalError(f, "SEGMENT_VALIDATION_FAIL")

(* The Data answers the Interest of "asker".  Before any segment has come,  *)
(* the pending segment is the first one, whatever the Data's number.        *)
afterSegmentReceivedCb(asker, seg, final, isMarked, isValid) ==
  LET f == [fetcher EXCEPT !.inFlight = @ - 1, !.pending[asker].asked = FALSE]
      owner == IF f.received # {} THEN seg ELSE Min(DOMAIN f.pending)
  IN  /\ running /\ asker \in DOMAIN fetcher.pending /\ fetcher.pending[asker].asked
      /\ seg \in 0..(NObject - 1) \cup {NotSegment}
      /\ fetcher.pending[asker].base \/ seg = asker
      /\ fetcher' = CASE seg = NotSegment -> signalError(f, "DATA_HAS_NO_SEGMENT")
                      [] owner \notin DOMAIN f.pending -> f
                      [] ~ isValid -> afterValidationFailure(f)
                      [] OTHER -> afterValidationSuccess(f, owner, seg, final, isMarked)
      /\ overdue' = (overdue /\ ~ (isValid /\ seg # NotSegment /\ owner \in DOMAIN f.pending))
      /\ UNCHANGED <<options, losses>>

----------------------------------------------------------------------------
(* Nacks and timeouts                                                       *)

afterNackOrTimeout(f, seg) ==
  LET queued == [f EXCEPT !.pending[seg].timer = FALSE, !.pending[seg].state = "InRetxQueue"]
      cut == windowDecrease(queued)
  IN  IF overdue THEN signalError(f, "INTEREST_TIMEOUT")
      ELSE IF f.received = {} THEN fetchFirstSegment(queued, TRUE)
      ELSE fetchSegmentsInWindow([cut EXCEPT !.retxQueue = Append(@, seg)])

(* A loss that counts, within the bound; one that ends the transfer may     *)
(* always come.                                                             *)
lose ==
  /\ overdue \/ losses < MaxLosses
  /\ losses' = IF overdue THEN losses ELSE losses + 1

afterNackReceivedCb(seg, reason) ==
  LET f == [fetcher EXCEPT !.inFlight = @ - 1, !.pending[seg].asked = FALSE]
  IN  /\ running /\ seg \in DOMAIN fetcher.pending /\ fetcher.pending[seg].asked
      /\ lose
      /\ fetcher' = IF reason \in RetryReasons THEN afterNackOrTimeout(f, seg)
                                               ELSE signalError(f, "NACK_ERROR")
      /\ UNCHANGED <<options, overdue>>

(* Mutant: what has timed out is still counted as in flight.                *)
afterTimeoutCbKept(seg) ==
  /\ running /\ seg \in DOMAIN fetcher.pending /\ fetcher.pending[seg].timer
  /\ lose
  /\ fetcher' = afterNackOrTimeout(fetcher, seg)
  /\ UNCHANGED <<options, overdue>>

(* The timer of a segment's Interest fires; the Interest itself may still   *)
(* be pending at the face.                                                  *)
afterTimeoutCb(seg) ==
  /\ running /\ seg \in DOMAIN fetcher.pending /\ fetcher.pending[seg].timer
  /\ lose
  /\ fetcher' = afterNackOrTimeout([fetcher EXCEPT !.inFlight = @ - 1], seg)
  /\ UNCHANGED <<options, overdue>>

(* The face forgets an Interest after interestLifetime; nobody is told.     *)
interestExpires(seg) ==
  /\ running /\ seg \in DOMAIN fetcher.pending /\ fetcher.pending[seg].asked
  /\ fetcher' = [fetcher EXCEPT !.pending[seg].asked = FALSE]
  /\ UNCHANGED <<options, overdue, losses>>

(* Time passes without a segment.                                           *)
maxTimeoutPasses ==
  /\ running /\ ~ overdue
  /\ overdue' = TRUE
  /\ UNCHANGED <<options, fetcher, losses>>

(* The destructor of the controller stops the transfer.                     *)
stop ==
  /\ running
  /\ fetcher' = stopped(fetcher, "stopped")
  /\ UNCHANGED <<options, overdue, losses>>

receiveSegment ==
  \E asker \in DOMAIN fetcher.pending, seg \in 0..(NObject - 1) \cup {NotSegment},
     final \in {NoFinalBlock, NotSegment, NObject - 1}, isMarked, isValid \in BOOLEAN :
    afterSegmentReceivedCb(asker, seg, final, isMarked, isValid)

FetchNext ==
  \/ receiveSegment
  \/ \E seg \in DOMAIN fetcher.pending, reason \in NackReasons : afterNackReceivedCb(seg, reason)
  \/ \E seg \in DOMAIN fetcher.pending : afterTimeoutCb(seg)
  \/ \E seg \in DOMAIN fetcher.pending : interestExpires(seg)
  \/ maxTimeoutPasses
  \/ stop

FetchSpec == FetchInit /\ [][FetchNext]_fetchVars

----------------------------------------------------------------------------

timersRunning(f) == {s \in DOMAIN f.pending : f.pending[s].timer}

(* A transfer that goes on has a timer running: whatever the count of       *)
(* segments in flight has come to, the window is never taken to be full     *)
(* with nothing on its way, when the transfer would wait for ever.  As the  *)
(* first timer that fires after maxTimeout without a segment ends it, it    *)
(* comes to an end.                                                         *)
TransferIsAlive == running => timersRunning(fetcher) # {}

(* A transfer that is complete has the whole object, in order each segment  *)
(* once; until then the segments handed out are the first ones.             *)
ObjectIsWhole ==
  /\ fetcher.delivered = [i \in 1..Len(fetcher.delivered) |-> i - 1]
  /\ fetcher.outcome = "complete" =>
       IF options.inOrder THEN Len(fetcher.delivered) = NObject ELSE 0..(NObject - 1) \subseteq fetcher.buffer

(* "BOOST_ASSERT(m_nSegmentsInFlight > 0)" in afterSegmentReceivedCb: an    *)
(* Interest that is still pending at the face is counted as in flight.      *)
PendingIsInFlight ==
  running => ((\E s \in DOMAIN fetcher.pending : fetcher.pending[s].asked) => fetcher.inFlight > 0)
=============================================================================
