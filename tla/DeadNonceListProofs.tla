------------------------ MODULE DeadNonceListProofs ------------------------
(* The Dead Nonce List stays within its bounds and keeps what is young, for *)
(* every capacity, mark count and eviction limit.                           *)
EXTENDS DeadNonceList, SequenceTheorems, TLAPS

Entry == Hashes \cup {MARK}

(* QueueIsBounded alone is not inductive: that the marks are few enough for *)
(* adjustCapacity to evict the rest of them at once depends on marked.      *)
DnlInv ==
  /\ dnlQueue \in Seq(Entry)
  /\ capacity \in MIN_CAPACITY..MAX_CAPACITY
  /\ marked \in 0..(EXPECTED_MARK_COUNT + 1)
  /\ Len(dnlQueue) <= MAX_CAPACITY + marked

(* What is left is the end of the queue, and how much of it.                *)
LEMMA EvictLength ==
  ASSUME NEW q \in Seq(Entry), NEW c \in Nat
  PROVE  /\ evictEntries(q, c) \in Seq(Entry)
         /\ Len(q) <= c => evictEntries(q, c) = q
         /\ Len(q) > c => Len(evictEntries(q, c)) = Len(q) - lesser(Len(q) - c, EVICT_LIMIT)
<1> USE DnlAssumption
<1>1. CASE Len(q) <= c
  BY <1>1 DEF evictEntries
<1>2. CASE Len(q) > c
  <2> DEFINE n == lesser(Len(q) - c, EVICT_LIMIT)
  <2>1. n \in 0..Len(q)
    BY <1>2 DEF lesser
  <2>2. evictEntries(q, c) = SubSeq(q, n + 1, Len(q))
    <3>1. ~ (Len(q) <= c)
      BY <1>2
    <3>2. QED BY <3>1, Zenon DEF evictEntries
  <2> HIDE DEF n
  <2>3. SubSeq(q, n + 1, Len(q)) \in Seq(Entry) /\ Len(SubSeq(q, n + 1, Len(q))) = Len(q) - n
    BY <2>1
  <2>4. QED BY <1>2, <2>2, <2>3, SMTT(60) DEF n
<1>3. QED BY <1>1, <1>2, SMTT(60)

(* An entry that is one of the last c is still there.                       *)
LEMMA EvictKeeps ==
  ASSUME NEW q \in Seq(Entry), NEW c \in Nat, NEW i \in DOMAIN q, Len(q) - i < c
  PROVE  q[i] \in Range(evictEntries(q, c))
<1> USE DnlAssumption
<1>1. CASE Len(q) <= c
  BY <1>1, SMTT(60) DEF evictEntries, Range
<1>2. CASE Len(q) > c
  <2> DEFINE n == lesser(Len(q) - c, EVICT_LIMIT)
             r == SubSeq(q, n + 1, Len(q))
  <2>1. n \in 0..Len(q) /\ n <= Len(q) - c
    BY <1>2 DEF lesser
  <2>2. evictEntries(q, c) = r
    <3>1. ~ (Len(q) <= c)
      BY <1>2
    <3>2. QED BY <3>1, Zenon DEF evictEntries
  <2>3. i \in 1..Len(q) /\ i - n \in 1..(Len(q) - n)
    BY <2>1, SMTT(60)
  <2>4. i - n \in DOMAIN r /\ r[i - n] = q[i]
    <3> HIDE DEF n
    <3>1. Len(r) = Len(q) - n
      BY <1>2, <2>2, EvictLength, ZenonT(60) DEF n
    <3>2. \A m \in 1..(Len(q) - n) : r[m] = q[m + n]
      BY <2>1
    <3>3. r \in Seq(Entry)
      BY <2>1, SMTT(60)
    <3> HIDE DEF r
    <3>4. r[i - n] = q[(i - n) + n]
      BY <2>3, <3>2, SMTT(60)
    <3>5. (i - n) + n = i
      BY <2>1, <2>3, SMTT(60)
    <3>6. QED BY <2>3, <3>1, <3>3, <3>4, <3>5
  <2>5. QED BY <2>2, <2>4, ZenonT(60) DEF Range
<1>3. QED BY <1>1, <1>2, SMTT(60)

(* Taking an entry out of the queue and putting it at its end.              *)
LEMMA Relocate ==
  ASSUME NEW q \in Seq(Entry), NEW e \in Entry, NEW j \in DOMAIN q
  PROVE  /\ Append(RemoveAt(q, j), e) \in Seq(Entry)
         /\ Len(Append(RemoveAt(q, j), e)) = Len(q)
         /\ \A i \in DOMAIN q : i # j => q[i] \in Range(Append(RemoveAt(q, j), e))
         /\ e \in Range(Append(RemoveAt(q, j), e))
<1> DEFINE a == SubSeq(q, 1, j - 1)
           b == SubSeq(q, j + 1, Len(q))
           r == Append(a \o b, e)
<1>1. j \in 1..Len(q)
  OBVIOUS
<1>2. a \in Seq(Entry) /\ Len(a) = j - 1 /\ \A i \in 1..(j - 1) : a[i] = q[i]
  BY <1>1
<1>3. b \in Seq(Entry) /\ Len(b) = Len(q) - j /\ \A i \in 1..(Len(q) - j) : b[i] = q[i + j]
  BY <1>1
<1> HIDE DEF a, b
<1>4. /\ a \o b \in Seq(Entry) /\ Len(a \o b) = Len(q) - 1
      /\ \A i \in 1..(j - 1) : (a \o b)[i] = a[i]
      /\ \A i \in 1..(Len(q) - j) : (a \o b)[j - 1 + i] = b[i]
  <2>1. /\ a \o b \in Seq(Entry) /\ Len(a \o b) = Len(a) + Len(b)
        /\ \A i \in 1 .. Len(a) + Len(b) :
             (a \o b)[i] = IF i <= Len(a) THEN a[i] ELSE b[i - Len(a)]
    BY <1>2, <1>3, ConcatProperties, ZenonT(60)
  <2> DEFINE x == a \o b
  <2> HIDE DEF x
  <2>2. /\ x \in Seq(Entry) /\ Len(x) = j - 1 + (Len(q) - j)
        /\ \A i \in 1 .. j - 1 + (Len(q) - j) :
             x[i] = IF i <= j - 1 THEN a[i] ELSE b[i - (j - 1)]
    BY <1>2, <1>3, <2>1, ZenonT(60) DEF x
  <2>3. Len(x) = Len(q) - 1
    BY <1>1, <2>2, SMTT(60)
  <2>4. \A i \in 1..(j - 1) : x[i] = a[i]
    BY <1>1, <2>2, SMTT(60)
  <2>5. ASSUME NEW i \in 1..(Len(q) - j)
        PROVE  x[j - 1 + i] = b[i]
    <3>1. /\ j - 1 + i \in 1 .. j - 1 + (Len(q) - j)
          /\ ~ (j - 1 + i <= j - 1) /\ (j - 1 + i) - (j - 1) = i
      BY <1>1, SMTT(60)
    <3>2. QED BY <2>2, <3>1, SMTT(60)
  <2>6. QED BY <2>2, <2>3, <2>4, <2>5, ZenonT(60) DEF x
<1> DEFINE ab == a \o b
<1> HIDE DEF ab
<1>5. ab \in Seq(Entry) /\ Len(ab) = Len(q) - 1
  BY <1>4, SMTT(60) DEF ab
<1>6. /\ Append(ab, e) \in Seq(Entry) /\ Len(Append(ab, e)) = Len(q)
      /\ \A i \in 1..(Len(q) - 1) : Append(ab, e)[i] = ab[i]
      /\ Append(ab, e)[Len(q)] = e
  BY <1>1, <1>5, SMTT(60)
<1>7. ASSUME NEW i \in DOMAIN q, i # j
      PROVE  q[i] \in Range(Append(ab, e))
  <2>1. CASE i < j
    <3>1. i \in 1..(j - 1) /\ i \in 1..(Len(q) - 1) /\ i \in DOMAIN Append(ab, e)
      BY <1>1, <1>6, <2>1, SMTT(60)
    <3>2. Append(ab, e)[i] = q[i]
      BY <1>2, <1>4, <1>6, <3>1, SMTT(60) DEF ab
    <3>3. QED BY <3>1, <3>2, SMTT(60) DEF Range
  <2>2. CASE i > j
    <3>1. i - j \in 1..(Len(q) - j) /\ i - 1 \in 1..(Len(q) - 1) /\ i - 1 \in DOMAIN Append(ab, e)
      BY <1>1, <1>6, <2>2, SMTT(60)
    <3>2. ab[i - 1] = b[i - j]
      <4>1. ab[j - 1 + (i - j)] = b[i - j]
        BY <1>4, <3>1, ZenonT(60) DEF ab
      <4>2. j - 1 + (i - j) = i - 1
        BY <1>1
      <4>3. QED BY <4>1, <4>2, SMTT(60)
    <3>3. b[i - j] = q[i]
      <4>1. b[i - j] = q[(i - j) + j]
        BY <1>3, <3>1
      <4>2. (i - j) + j = i
        BY <1>1
      <4>3. QED BY <4>1, <4>2
    <3>4. QED BY <1>6, <3>1, <3>2, <3>3, SMTT(60) DEF Range
  <2>3. QED BY <1>1, <1>7, <2>1, <2>2, SMTT(60)
<1>8. e \in Range(Append(ab, e))
  BY <1>1, <1>6, SMTT(60) DEF Range
<1>9. RemoveAt(q, j) = ab
  BY DEF RemoveAt, ab, a, b
<1>10. QED BY <1>6, <1>7, <1>8, <1>9

LEMMA AdjustedInRange ==
  ASSUME NEW c \in MIN_CAPACITY..MAX_CAPACITY, NEW counts
  PROVE  adjusted(c, counts) \in MIN_CAPACITY..MAX_CAPACITY
<1>1. MIN_CAPACITY \in Nat /\ MAX_CAPACITY \in Nat /\ c \in Nat
  BY DnlAssumption
<1>2. adjustedDown(c) \in Nat /\ adjustedDown(c) <= c
  BY <1>1 DEF adjustedDown
<1>3. adjustedUp(c) \in Nat /\ adjustedUp(c) >= c
  BY <1>1 DEF adjustedUp
<1>4. QED BY <1>1, <1>2, <1>3, SMTT(60) DEF adjusted, lesser

LEMMA DnlInvInit == DnlInit => DnlInv
<1> USE DnlAssumption
<1> SUFFICES ASSUME DnlInit PROVE DnlInv
  OBVIOUS
<1>1. dnlQueue \in Seq(Entry) /\ Len(dnlQueue) = EXPECTED_MARK_COUNT
  BY DEF DnlInit, Entry
<1>2. QED BY <1>1, SMTT(60) DEF DnlInit, DnlInv

LEMMA AddNonceInv ==
  ASSUME DnlInv, NEW e \in Hashes, addNonce(e)
  PROVE  DnlInv'
<1> USE DnlAssumption
<1>1. e \in Entry
  BY DEF Entry
<1>2. CASE e \in Range(dnlQueue)
  <2> DEFINE j == CHOOSE i \in DOMAIN dnlQueue : dnlQueue[i] = e
  <2>1. j \in DOMAIN dnlQueue
    BY <1>2 DEF Range
  <2>2. dnlQueue' = Append(RemoveAt(dnlQueue, j), e)
    BY <1>2, ZenonT(60) DEF addNonce
  <2> HIDE DEF j
  <2>3. dnlQueue' \in Seq(Entry) /\ Len(dnlQueue') = Len(dnlQueue)
    BY <1>1, <2>1, <2>2, Relocate, SMTT(60) DEF DnlInv
  <2>4. QED BY <2>3, SMTT(60) DEF DnlInv, addNonce
<1>3. CASE e \notin Range(dnlQueue)
  <2> DEFINE q == Append(dnlQueue, e)
  <2>1. q \in Seq(Entry) /\ Len(q) = Len(dnlQueue) + 1
    BY <1>1 DEF DnlInv
  <2>2. dnlQueue' = evictEntries(q, capacity)
    BY <1>3, ZenonT(60) DEF addNonce
  <2>3. capacity \in Nat
    BY DEF DnlInv
  <2> HIDE DEF q
  <2>4. /\ dnlQueue' \in Seq(Entry)
        /\ Len(q) <= capacity => Len(dnlQueue') = Len(q)
        /\ Len(q) > capacity => Len(dnlQueue') = Len(q) - lesser(Len(q) - capacity, EVICT_LIMIT)
    BY <2>1, <2>2, <2>3, EvictLength, ZenonT(60)
  <2>5. Len(dnlQueue') <= MAX_CAPACITY + marked
    BY <2>1, <2>3, <2>4, SMTT(60) DEF DnlInv, lesser
  <2>6. QED BY <2>4, <2>5, SMTT(60) DEF DnlInv, addNonce
<1>4. QED BY <1>2, <1>3, SMTT(60)

LEMMA MarkInv ==
  ASSUME DnlInv, mark
  PROVE  DnlInv'
<1> USE DnlAssumption
<1>1. dnlQueue' \in Seq(Entry) /\ Len(dnlQueue') = Len(dnlQueue) + 1
  BY DEF DnlInv, mark, Entry
<1>2. marked' \in 0..(EXPECTED_MARK_COUNT + 1) /\ marked' = marked + 1
  BY DEF DnlInv, mark
<1>3. QED BY <1>1, <1>2, SMTT(60) DEF DnlInv, mark

LEMMA AdjustCapacityInv ==
  ASSUME DnlInv, adjustCapacity
  PROVE  DnlInv'
<1> USE DnlAssumption
<1>1. capacity' \in MIN_CAPACITY..MAX_CAPACITY
  BY AdjustedInRange, SMTT(60) DEF DnlInv, adjustCapacity
<1>2. dnlQueue' = evictEntries(dnlQueue, capacity') /\ marked' = 0
  BY DEF adjustCapacity
<1>3. capacity' \in Nat
  BY <1>1, SMTT(60)
<1>4. /\ dnlQueue' \in Seq(Entry)
      /\ Len(dnlQueue) <= capacity' => dnlQueue' = dnlQueue
      /\ Len(dnlQueue) > capacity' =>
           Len(dnlQueue') = Len(dnlQueue) - lesser(Len(dnlQueue) - capacity', EVICT_LIMIT)
  BY <1>2, <1>3, EvictLength, ZenonT(60) DEF DnlInv
<1>5. Len(dnlQueue') <= MAX_CAPACITY
  BY <1>1, <1>4, SMTT(60) DEF DnlInv, lesser
<1>6. QED BY <1>1, <1>2, <1>4, <1>5, SMTT(60) DEF DnlInv

LEMMA DnlInvStep == DnlInv /\ [DnlNext]_dnlVars => DnlInv'
<1>1. ASSUME DnlInv, UNCHANGED dnlVars PROVE DnlInv'
  BY <1>1, SMTT(60) DEF DnlInv, dnlVars
<1>2. QED BY <1>1, AddNonceInv, MarkInv, AdjustCapacityInv DEF DnlNext

(* DeadNonceList::evictEntries removes at most EVICT_LIMIT entries a call,  *)
(* and mark() adds without evicting: the list nevertheless outgrows its     *)
(* maximum capacity by no more than the marks of one adjustment interval,   *)
(* at any rate of insertions.                                               *)
THEOREM DnlBounded == DnlSpec => []QueueIsBounded
<1>1. DnlInv => QueueIsBounded
  BY DEF DnlInv, QueueIsBounded
<1>2. QED BY <1>1, DnlInvInit, DnlInvStep, PTL DEF DnlSpec

LEMMA YoungestStep ==
  ASSUME DnlInv, [DnlNext]_dnlVars, NEW i \in DOMAIN dnlQueue,
         Len(dnlQueue) - i < capacity' - 1
  PROVE  dnlQueue[i] \in Range(dnlQueue')
<1> USE DnlAssumption
<1>0. dnlQueue \in Seq(Entry) /\ capacity \in Nat /\ i \in 1..Len(dnlQueue)
  BY SMTT(60) DEF DnlInv
<1>1. ASSUME NEW e \in Hashes, addNonce(e) PROVE dnlQueue[i] \in Range(dnlQueue')
  <2>1. CASE e \in Range(dnlQueue)
    <3> DEFINE j == CHOOSE k \in DOMAIN dnlQueue : dnlQueue[k] = e
    <3>1. j \in DOMAIN dnlQueue /\ dnlQueue[j] = e
      BY <2>1 DEF Range
    <3>2. dnlQueue' = Append(RemoveAt(dnlQueue, j), e)
      BY <1>1, <2>1, ZenonT(60) DEF addNonce
    <3> HIDE DEF j
    <3>3. e \in Entry
      BY DEF Entry
    <3>4. QED BY <1>0, <3>1, <3>2, <3>3, Relocate, SMTT(60)
  <2>2. CASE e \notin Range(dnlQueue)
    <3> DEFINE q == Append(dnlQueue, e)
    <3>1. /\ q \in Seq(Entry) /\ Len(q) = Len(dnlQueue) + 1
          /\ i \in DOMAIN q /\ q[i] = dnlQueue[i]
      BY <1>0 DEF Entry
    <3>2. dnlQueue' = evictEntries(q, capacity) /\ capacity' = capacity
      BY <1>1, <2>2, ZenonT(60) DEF addNonce
    <3> HIDE DEF q
    <3>3. Len(q) - i < capacity
      BY <1>0, <3>1, <3>2, SMTT(60)
    <3>4. q[i] \in Range(evictEntries(q, capacity))
      BY <1>0, <3>1, <3>3, EvictKeeps, SMTT(60)
    <3>5. QED BY <3>1, <3>2, <3>4, SMTT(60)
  <2>3. QED BY <2>1, <2>2
<1>2. CASE mark
  <2>1. dnlQueue' = Append(dnlQueue, MARK)
    BY <1>2, SMTT(60) DEF mark
  <2>2. i \in DOMAIN dnlQueue' /\ dnlQueue'[i] = dnlQueue[i]
    BY <1>0, <2>1, SMTT(60) DEF Entry
  <2>3. QED BY <2>2, SMTT(60) DEF Range
<1>3. CASE adjustCapacity
  <2>1. capacity' \in Nat
    BY <1>3, AdjustedInRange, SMTT(60) DEF DnlInv, adjustCapacity
  <2>2. Len(dnlQueue) - i < capacity'
    BY <1>0, <2>1, SMTT(60)
  <2>3. dnlQueue' = evictEntries(dnlQueue, capacity')
    BY <1>3 DEF adjustCapacity
  <2>4. QED BY <1>0, <2>1, <2>2, <2>3, EvictKeeps, SMTT(60)
<1>4. CASE UNCHANGED dnlVars
  BY <1>4 DEF dnlVars, Range
<1>5. QED BY <1>1, <1>2, <1>3, <1>4, SMTT(60) DEF DnlNext

(* DeadNonceList::add, mark and adjustCapacity never forget an entry that   *)
(* is younger than what the new capacity has room for, so that detection of *)
(* a loop depends on the capacity alone.                                    *)
THEOREM DnlKeepsYoungest == DnlSpec => YoungestAreKept
<1>1. DnlInv /\ [DnlNext]_dnlVars =>
        [\A i \in DOMAIN dnlQueue :
           Len(dnlQueue) - i < capacity' - 1 => dnlQueue[i] \in Range(dnlQueue')]_dnlVars
  BY YoungestStep
<1>2. QED BY <1>1, DnlInvInit, DnlInvStep, PTL DEF DnlSpec, YoungestAreKept
=============================================================================
