----------------------------- MODULE PitEntry ------------------------------
(* A PIT entry: its in-records, its out-records and its expiry timer, with  *)
(* the operations of pit::Entry and the questions fw::algorithm asks of an  *)
(* entry, as operators on entry values.                                     *)
(*                                                                          *)
(* Time is not a number here.  A record carries the flag "expired", which   *)
(* the passing of time may raise at any moment, and the timer says when the *)
(* entry is due: never ("none"), at once ("now", a timer of 0 ms), or when  *)
(* the last in-record expires ("lifetime").                                 *)
EXTENDS Packets

CONSTANTS
  NoRecord,   \* a face without a record
  NotNacked   \* an out-record that has received no Nack

(* tag is the PIT token of the Interest object the record points to, as the *)
(* object stands now.  asked is history: the token tag the Interest carried *)
(* when it arrived from the face.                                           *)
InRecords == [nonce : Nonces, tag : Tags, asked : Tags, expired : BOOLEAN]

OutRecords == [nonce : Nonces, nack : Reasons \cup {NotNacked}, expired : BOOLEAN]

ASSUME RecordAssumption ==
  /\ NotNacked \notin Reasons
  /\ NoRecord \notin InRecords
  /\ NoRecord \notin OutRecords

(* The in-records are a std::list whose order one caller relies on:         *)
(* <<f, g>> \in before says that f's record stands in front of g's.  The    *)
(* order of the out-records is never used.                                  *)
Entries == [in : [Faces -> InRecords \cup {NoRecord}],
            before : SUBSET (Faces \X Faces),
            out : [Faces -> OutRecords \cup {NoRecord}],
            timer : {"none", "lifetime", "now"},
            satisfied : BOOLEAN, freshness : FreshnessPeriods]

NewEntry == [in |-> [f \in Faces |-> NoRecord], before |-> {},
             out |-> [f \in Faces |-> NoRecord],
             timer |-> "none", satisfied |-> FALSE, freshness |-> 0]

InFaces(e) == {f \in Faces : e.in[f] # NoRecord}

OutFaces(e) == {f \in Faces : e.out[f] # NoRecord}

hasInRecords(e) == InFaces(e) # {}

(* Mutant: the front of the out-records is taken.                           *)
FrontFacesOut(e) == OutFaces(e)

(* getInRecords().begin(): the face whose record was inserted last, as a    *)
(* set that is empty if there are no in-records.                            *)
FrontFaces(e) == {f \in InFaces(e) : \A g \in InFaces(e) \ {f} : <<f, g>> \in e.before}

(* A face that has a record keeps its place in the list; a new one goes to  *)
(* the front.                                                               *)
insertOrUpdateInRecord(e, f, nonce, tag, asked) ==
  [e EXCEPT !.in[f] = [nonce |-> nonce, tag |-> tag, asked |-> asked, expired |-> FALSE],
            !.before = IF f \in InFaces(e) THEN @ ELSE @ \cup ({f} \X InFaces(e))]

(* deleteInRecord for every face of F; clearInRecords when F is Faces.      *)
deleteInRecords(e, F) ==
  [e EXCEPT !.in = [f \in Faces |-> IF f \in F THEN NoRecord ELSE e.in[f]],
            !.before = {p \in @ : p[1] \notin F /\ p[2] \notin F}]

(* FaceRecord::update renews nonce and expiry; a Nack an existing record    *)
(* has received stays on it, clearIncomingNack having no caller.            *)
insertOrUpdateOutRecord(e, f, nonce) ==
  [e EXCEPT !.out[f] = [nonce |-> nonce, expired |-> FALSE,
                        nack |-> IF f \in OutFaces(e) THEN @.nack ELSE NotNacked]]

deleteOutRecord(e, f) == [e EXCEPT !.out[f] = NoRecord]

setExpiryTimer(e, when) == [e EXCEPT !.timer = when]

setSatisfied(e, freshness) == [e EXCEPT !.satisfied = TRUE, !.freshness = freshness]

----------------------------------------------------------------------------
(* fw::findDuplicateNonce together with the exception onIncomingInterest    *)
(* makes for a point-to-point ingress: there a nonce the same face has sent *)
(* before is a retransmission and not a loop.                               *)
hasDuplicateNonce(e, nonce, f) ==
  LET inSame == f \in InFaces(e) /\ e.in[f].nonce = nonce
      others == \/ \E g \in InFaces(e) \ {f} : e.in[g].nonce = nonce
                \/ \E g \in OutFaces(e) : e.out[g].nonce = nonce
  IN  IF f \in P2PFaces THEN ~ inSame /\ others ELSE inSame \/ others

hasPendingOutRecords(e) ==
  \E g \in OutFaces(e) : ~ e.out[g].expired /\ e.out[g].nack = NotNacked

wouldViolateScope(f, n, g) ==
  /\ g \notin LocalFaces
  /\ \/ n \in LocalhostNames
     \/ n \in LocalhopNames \ LocalhostNames /\ f \notin LocalFaces

(* Mutant: scope is not checked.                                            *)
isNextHopEligibleAnyScope(f, n, g) == g # f \/ g \in AdHocFaces

isNextHopEligible(f, n, g) ==
  /\ g # f \/ g \in AdHocFaces
  /\ ~ wouldViolateScope(f, n, g)

(* isNextHopEligible with wantUnused: no out-record that has not expired.   *)
isUnused(e, g) == e.out[g] = NoRecord \/ e.out[g].expired

(* Mutant: expired in-records are served too.                               *)
pendingDownstreamsExpired(e, f) == {g \in InFaces(e) : g # f \/ g \in AdHocFaces}

(* The faces Data from face f is sent to: in-records that have not expired, *)
(* but not back to f unless f is an ad hoc link.                            *)
pendingDownstreams(e, f) ==
  {g \in InFaces(e) : ~ e.in[g].expired /\ (g # f \/ g \in AdHocFaces)}
=============================================================================
