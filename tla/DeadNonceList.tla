--------------------------- MODULE DeadNonceList ---------------------------
(* The Dead Nonce List: a queue of name-and-nonce hashes without            *)
(* timestamps.  How long an entry stays is governed by the capacity, which  *)
(* follows the number of MARKs that are found in the queue.                 *)
EXTENDS Naturals, FiniteSets, SequencesExt

CONSTANTS
  Hashes,              \* hashes of name and nonce
  MARK,                \* the hash that no entry has
  MIN_CAPACITY, INITIAL_CAPACITY, MAX_CAPACITY,
  EXPECTED_MARK_COUNT,
  EVICT_LIMIT,
  MaxRate              \* bound: entries added between two marks

(* The factors CAPACITY_UP and CAPACITY_DOWN, 1.2 and 0.9.                  *)
adjustedUp(c) == (c * 12) \div 10
adjustedDown(c) == (c * 9) \div 10

(* What the constructor asserts; 5 marks fit into the list, and 64 entries  *)
(* may leave where 5 marks come.                                            *)
ASSUME DnlAssumption ==
  /\ MARK \notin Hashes /\ IsFiniteSet(Hashes)
  /\ {MIN_CAPACITY, INITIAL_CAPACITY, MAX_CAPACITY, EXPECTED_MARK_COUNT,
      EVICT_LIMIT, MaxRate} \subseteq Nat
  /\ 1 <= MIN_CAPACITY /\ MIN_CAPACITY <= INITIAL_CAPACITY /\ INITIAL_CAPACITY <= MAX_CAPACITY
  /\ adjustedUp(MIN_CAPACITY) > MIN_CAPACITY
  /\ adjustedDown(MAX_CAPACITY) < MAX_CAPACITY
  /\ EXPECTED_MARK_COUNT \in 1..MAX_CAPACITY
  /\ EVICT_LIMIT > EXPECTED_MARK_COUNT

VARIABLES
  dnlQueue,   \* m_queue, the oldest entry first
  capacity,   \* m_capacity
  markCounts, \* m_actualMarkCounts, without repetitions
  rate,       \* entries that arrive between two marks
  added,      \* entries added since the last mark
  marked      \* marks made since the capacity was adjusted

dnlVars == <<dnlQueue, capacity, markCounts, rate, added, marked>>

countMarks(q) == Cardinality({i \in DOMAIN q : q[i] = MARK})

DnlInit ==
  /\ dnlQueue = [i \in 1..EXPECTED_MARK_COUNT |-> MARK]
  /\ capacity = INITIAL_CAPACITY
  /\ markCounts = {}
  /\ rate \in 0..MaxRate
  /\ added = 0
  /\ marked = 0

lesser(a, b) == IF a <= b THEN a ELSE b

(* Mutant: one entry leaves at a time.                                      *)
evictEntriesOne(q, c) == IF Len(q) <= c THEN q ELSE SubSeq(q, 2, Len(q))

(* Mutant: as many as may leave at a time do.                               *)
evictEntriesAll(q, c) ==
  IF Len(q) <= c THEN q ELSE SubSeq(q, lesser(Len(q), EVICT_LIMIT) + 1, Len(q))

(* At most EVICT_LIMIT of the oldest entries leave at a time.               *)
evictEntries(q, c) ==
  IF Len(q) <= c THEN q
  ELSE SubSeq(q, lesser(Len(q) - c, EVICT_LIMIT) + 1, Len(q))

(* An entry that is in the list already becomes the youngest one.           *)
addNonce(e) ==
  /\ added < rate
  /\ added' = added + 1
  /\ dnlQueue' = IF e \in Range(dnlQueue)
                 THEN LET i == CHOOSE i \in DOMAIN dnlQueue : dnlQueue[i] = e
                      IN  Append(RemoveAt(dnlQueue, i), e)
                 ELSE evictEntries(Append(dnlQueue, e), capacity)
  /\ UNCHANGED <<capacity, markCounts, rate, marked>>

(* The mark timer: it does not evict.                                       *)
mark ==
  /\ added = rate
  /\ marked <= EXPECTED_MARK_COUNT
  /\ dnlQueue' = Append(dnlQueue, MARK)
  /\ markCounts' = markCounts \cup {countMarks(dnlQueue')}
  /\ added' = 0
  /\ marked' = marked + 1
  /\ UNCHANGED <<capacity, rate>>

(* Mutant: the capacity goes the wrong way.                                 *)
adjustedBackwards(c, counts) ==
  IF \A n \in counts : n < EXPECTED_MARK_COUNT
  THEN IF adjustedDown(c) > MIN_CAPACITY THEN adjustedDown(c) ELSE MIN_CAPACITY
  ELSE IF \A n \in counts : n > EXPECTED_MARK_COUNT
  THEN lesser(adjustedUp(c), MAX_CAPACITY)
  ELSE c

adjusted(c, counts) ==
  IF \A n \in counts : n > EXPECTED_MARK_COUNT
  THEN IF adjustedDown(c) > MIN_CAPACITY THEN adjustedDown(c) ELSE MIN_CAPACITY
  ELSE IF \A n \in counts : n < EXPECTED_MARK_COUNT
  THEN lesser(adjustedUp(c), MAX_CAPACITY)
  ELSE c

(* The other timer.  Its period is EXPECTED_MARK_COUNT times that of the    *)
(* mark timer; both are set again only when they have fired and drift, so   *)
(* it may find one mark less or one more.                                   *)
adjustCapacity ==
  /\ marked >= EXPECTED_MARK_COUNT - 1
  /\ marked' = 0
  /\ capacity' = adjusted(capacity, markCounts)
  /\ markCounts' = {}
  /\ dnlQueue' = evictEntries(dnlQueue, capacity')
  /\ UNCHANGED <<rate, added>>

DnlNext ==
  \/ \E e \in Hashes : addNonce(e)
  \/ mark
  \/ adjustCapacity

DnlSpec == DnlInit /\ [][DnlNext]_dnlVars

(* Packets and time go on; both timers fire again and again.                *)
DnlFairness == WF_dnlVars(DnlNext)

----------------------------------------------------------------------------
(* Properties                                                               *)

(* The capacity stays within its limits, and the queue exceeds the largest  *)
(* capacity by no more than the marks that evictEntries has not seen yet.   *)
QueueIsBounded ==
  /\ capacity \in MIN_CAPACITY..MAX_CAPACITY
  /\ Len(dnlQueue) <= MAX_CAPACITY + marked

(* No step forgets an entry that is among the capacity - 1 youngest ones:   *)
(* evictEntries takes the oldest, and only as many as there are too many.   *)
YoungestAreKept ==
  [][\A i \in DOMAIN dnlQueue :
       Len(dnlQueue) - i < capacity' - 1 => dnlQueue[i] \in Range(dnlQueue')]_dnlVars

(* The capacity follows the rate at which nonces die: it does not stay too  *)
(* small to keep an entry for its lifetime, unless it is at its maximum,    *)
(* nor too large, unless it is at its minimum.                              *)
CapacityFollowsRate ==
  /\ []<>(countMarks(dnlQueue) >= EXPECTED_MARK_COUNT \/ capacity = MAX_CAPACITY)
  /\ []<>(countMarks(dnlQueue) <= EXPECTED_MARK_COUNT \/ capacity = MIN_CAPACITY)
=============================================================================
