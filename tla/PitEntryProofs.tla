--------------------------- MODULE PitEntryProofs --------------------------
(* What the operations on a PIT entry preserve, for any set of faces.       *)
EXTENDS PitEntry, TLAPS

(* An entry whose records are all on faces of F.                            *)
Live(e, F) == e \in Entries /\ InFaces(e) \subseteq F /\ OutFaces(e) \subseteq F

(* ... and whose expiry timer is running.                                   *)
Armed(e, F) == Live(e, F) /\ e.timer # "none"

(* What every entry of the PIT is: armed, unless it has no records.         *)
Good(e, F) == Live(e, F) /\ (InFaces(e) \cup OutFaces(e) # {} => e.timer # "none")

LEMMA NewEntryGood == ASSUME NEW F PROVE Good(NewEntry, F)
BY RecordAssumption DEF Good, Live, NewEntry, Entries, InFaces, OutFaces, FreshnessPeriods

LEMMA ArmedIsGood == ASSUME NEW e, NEW F, Armed(e, F) PROVE Good(e, F)
BY DEF Good, Armed

LEMMA InsertInLive ==
  ASSUME NEW F \in SUBSET Faces, NEW e, Live(e, F), NEW f \in F,
         NEW nonce \in Nonces, NEW tag \in Tags, NEW asked \in Tags
  PROVE  Live(insertOrUpdateInRecord(e, f, nonce, tag, asked), F)
<1> DEFINE r == [nonce |-> nonce, tag |-> tag, asked |-> asked, expired |-> FALSE]
           x == insertOrUpdateInRecord(e, f, nonce, tag, asked)
<1>1. r \in InRecords
  BY DEF InRecords
<1>2. x \in Entries
  <2>1. ({f} \X InFaces(e)) \subseteq Faces \X Faces
    BY DEF InFaces
  <2>2. QED BY <1>1, <2>1, ZenonT(60) DEF Live, Entries, insertOrUpdateInRecord
<1>3. InFaces(x) \subseteq F
  BY <1>1 DEF Live, Entries, insertOrUpdateInRecord, InFaces
<1>4. OutFaces(x) = OutFaces(e)
  BY DEF Live, Entries, insertOrUpdateInRecord, OutFaces
<1>5. QED BY <1>2, <1>3, <1>4 DEF Live

LEMMA SetTimerArmed ==
  ASSUME NEW F, NEW e, Live(e, F), NEW w \in {"lifetime", "now"}
  PROVE  Armed(setExpiryTimer(e, w), F)
BY DEF Live, Armed, Entries, setExpiryTimer, InFaces, OutFaces

LEMMA InsertOutArmed ==
  ASSUME NEW F \in SUBSET Faces, NEW e, Armed(e, F), NEW f \in F, NEW nonce \in Nonces
  PROVE  Armed(insertOrUpdateOutRecord(e, f, nonce), F)
<1> DEFINE nack == IF f \in OutFaces(e) THEN e.out[f].nack ELSE NotNacked
           r == [nonce |-> nonce, expired |-> FALSE, nack |-> nack]
           x == insertOrUpdateOutRecord(e, f, nonce)
<1>1. nack \in Reasons \cup {NotNacked}
  BY DEF Armed, Live, Entries, OutFaces, OutRecords
<1>2. r \in OutRecords
  BY <1>1 DEF OutRecords
<1>3. x = [e EXCEPT !.out = [e.out EXCEPT ![f] = r]]
  BY DEF insertOrUpdateOutRecord, Armed, Live, Entries
<1> HIDE DEF nack, r, x
<1>4. x \in Entries /\ x.timer = e.timer /\ x.in = e.in
  BY <1>2, <1>3 DEF Armed, Live, Entries
<1>5. OutFaces(x) \subseteq F
  BY <1>2, <1>3 DEF Armed, Live, Entries, OutFaces
<1>6. InFaces(x) = InFaces(e)
  BY <1>4 DEF InFaces
<1>7. QED BY <1>4, <1>5, <1>6 DEF Armed, Live, x

LEMMA DeleteInLive ==
  ASSUME NEW F, NEW e, Live(e, F), NEW D
  PROVE  /\ Live(deleteInRecords(e, D), F)
         /\ deleteInRecords(e, D).timer = e.timer
         /\ InFaces(deleteInRecords(e, D)) = InFaces(e) \ D
         /\ OutFaces(deleteInRecords(e, D)) = OutFaces(e)
<1> DEFINE x == deleteInRecords(e, D)
<1>1. x \in Entries /\ x.timer = e.timer /\ x.out = e.out
  BY DEF deleteInRecords, Live, Entries
<1>2. InFaces(x) = InFaces(e) \ D
  BY DEF deleteInRecords, Live, Entries, InFaces
<1>3. OutFaces(x) = OutFaces(e)
  BY <1>1 DEF OutFaces
<1>4. QED BY <1>1, <1>2, <1>3 DEF Live

LEMMA DeleteOutLive ==
  ASSUME NEW F, NEW e, Live(e, F), NEW f
  PROVE  /\ Live(deleteOutRecord(e, f), F)
         /\ deleteOutRecord(e, f).timer = e.timer
         /\ InFaces(deleteOutRecord(e, f)) = InFaces(e)
         /\ OutFaces(deleteOutRecord(e, f)) = OutFaces(e) \ {f}
<1> DEFINE x == deleteOutRecord(e, f)
<1>1. x \in Entries /\ x.timer = e.timer /\ x.in = e.in
  BY DEF deleteOutRecord, Live, Entries
<1>2. OutFaces(x) = OutFaces(e) \ {f}
  BY DEF deleteOutRecord, Live, Entries, OutFaces
<1>3. InFaces(x) = InFaces(e)
  BY <1>1 DEF InFaces
<1>4. QED BY <1>1, <1>2, <1>3 DEF Live

LEMMA SetSatisfiedLive ==
  ASSUME NEW F, NEW e, Live(e, F), NEW p \in FreshnessPeriods
  PROVE  Live(setSatisfied(e, p), F) /\ setSatisfied(e, p).timer = e.timer
BY ZenonT(60) DEF Live, Entries, setSatisfied, InFaces, OutFaces

(* The reason ProcessNackTraits reports is one of the reasons it was given. *)
LEMMA LeastSevereReason ==
  ASSUME NEW rs \in SUBSET Reasons
  PROVE  leastSevereReason(rs) \in Reasons
<1>1. CASE rs \subseteq {NONE}
  BY <1>1 DEF leastSevereReason, Reasons
<1>2. CASE ~ (rs \subseteq {NONE})
  <2>1. \E r \in rs : \A s \in rs : ~ isLessSevere(s, r)
    <3>1. CASE CONGESTION \in rs
      BY <3>1 DEF isLessSevere, Reasons, NONE, CONGESTION, DUPLICATE, NO_ROUTE
    <3>2. CASE CONGESTION \notin rs /\ DUPLICATE \in rs
      BY <3>2 DEF isLessSevere, Reasons, NONE, CONGESTION, DUPLICATE, NO_ROUTE
    <3>3. CASE CONGESTION \notin rs /\ DUPLICATE \notin rs
      BY <1>2, <3>3 DEF isLessSevere, Reasons, NONE, CONGESTION, DUPLICATE, NO_ROUTE
    <3>4. QED BY <3>1, <3>2, <3>3
  <2>2. (CHOOSE r \in rs : \A s \in rs : ~ isLessSevere(s, r)) \in rs
    BY <2>1
  <2>3. QED BY <1>2, <2>2 DEF leastSevereReason
<1>3. QED BY <1>1, <1>2
=============================================================================
