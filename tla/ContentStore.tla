---------------------------- MODULE ContentStore ---------------------------
(* The Content Store with its two replacement policies.  The table owns the *)
(* entries; the policy keeps iterators to them in queues of its own, and    *)
(* the priority FIFO also in the timers that move an entry to its stale     *)
(* queue.                                                                   *)
EXTENDS Naturals, FiniteSets, SequencesExt

CONSTANTS
  Contents,    \* Data packets, as numbers in the order of their full names
  Lasting,     \* those whose FreshnessPeriod is not zero
  Ranges,      \* the packets under a name, for some names
  Limits,      \* capacities the management may set
  EraseCounts  \* how many packets an erase command may name

ASSUME CsAssumption ==
  /\ Contents \subseteq Nat /\ Lasting \subseteq Contents
  /\ Ranges \subseteq SUBSET Contents
  /\ Limits \subseteq Nat /\ EraseCounts \subseteq Nat

VARIABLES
  table,       \* packets in the table -> [unsolicited, fresh]
  queues,      \* queues of the policy: QueueType -> sequence of packets
  staleTimers, \* packets with a moveStaleEventId that is scheduled
  policy,      \* "lru" or "priority_fifo"
  limit,       \* m_limit of the policy
  shouldAdmit, shouldServe,
  others       \* others[d]: packets touched since d was touched last

csVars == <<table, queues, staleTimers, policy, limit, shouldAdmit, shouldServe, others>>

QueueTypes == {"lru", "unsolicited", "stale", "fifo"}

cached == DOMAIN table

CsInit ==
  /\ table = << >>
  /\ queues = [q \in QueueTypes |-> << >>]
  /\ staleTimers = {}
  /\ policy = "lru"
  /\ limit \in Limits
  /\ shouldAdmit = TRUE
  /\ shouldServe = TRUE
  /\ others = [d \in Contents |-> {}]

without(T, D) == [d \in DOMAIN T \ D |-> T[d]]

detached(Q, D) == [q \in QueueTypes |-> SelectSeq(Q[q], LAMBDA d : d \notin D)]

(* The queue an entry belongs to.                                           *)
queueOf(e) == IF policy = "lru" THEN "lru"
              ELSE IF e.unsolicited THEN "unsolicited"
              ELSE IF ~ e.fresh THEN "stale" ELSE "fifo"

(* insertToQueue of one policy, detachQueue and attachQueue of the other.   *)
attached(Q, d, e) == [detached(Q, {d}) EXCEPT ![queueOf(e)] = Append(@, d)]

timersAfter(d, e) == (staleTimers \ {d}) \cup (IF queueOf(e) = "fifo" THEN {d} ELSE {})

(* evictEntries: the front of the first queue that is not empty leaves,     *)
(* until the table is within the limit n.                                   *)
victims(T, Q, n) ==
  LET order == Q["unsolicited"] \o Q["stale"] \o Q["fifo"] \o Q["lru"]
      excess == Cardinality(DOMAIN T) - n
  IN  {order[i] : i \in {j \in DOMAIN order : j <= excess}}

evictInto(T, Q, S, n) ==
  LET gone == victims(T, Q, n)
  IN  /\ table' = without(T, gone)
      /\ queues' = detached(Q, gone)
      /\ staleTimers' = S \ gone

touched(d) == [x \in Contents |-> IF x = d THEN {} ELSE others[x] \cup {d}]

(* A packet without FreshnessPeriod is fresh only in the very instant it is *)
(* looked at.                                                               *)
insertData(d, isUnsolicited, isFresh) ==
  /\ d \in Lasting => isFresh
  /\ shouldAdmit
  /\ limit # 0
  /\ IF d \in cached
     THEN LET e == [unsolicited |-> table[d].unsolicited /\ isUnsolicited, fresh |-> isFresh]
          IN  /\ table' = [table EXCEPT ![d] = e]
              /\ queues' = attached(queues, d, e)
              /\ staleTimers' = timersAfter(d, e)
     ELSE LET e == [unsolicited |-> isUnsolicited, fresh |-> isFresh]
          IN  evictInto([x \in cached \cup {d} |-> IF x = d THEN e ELSE table[x]],
                        attached(queues, d, e), timersAfter(d, e), limit)
  /\ others' = touched(d)
  /\ UNCHANGED <<policy, limit, shouldAdmit, shouldServe>>

firstOf(D) == CHOOSE d \in D : \A x \in D : d <= x

(* Mutant: the policy is not told of a use.                                 *)
findDataUnnoticed(range, mustBeFresh) ==
  LET matches == {d \in range \cap cached : mustBeFresh => table[d].fresh}
  IN  /\ shouldServe
      /\ limit # 0
      /\ matches # {}
      /\ others' = touched(firstOf(matches))
      /\ UNCHANGED <<table, queues, staleTimers, policy, limit, shouldAdmit, shouldServe>>

(* Only the LRU policy does something in beforeUse.                         *)
findData(range, mustBeFresh) ==
  LET matches == {d \in range \cap cached : mustBeFresh => table[d].fresh}
  IN  /\ shouldServe
      /\ limit # 0
      /\ matches # {}
      /\ queues' = IF policy = "lru"
                   THEN attached(queues, firstOf(matches), table[firstOf(matches)])
                   ELSE queues
      /\ others' = touched(firstOf(matches))
      /\ UNCHANGED <<table, staleTimers, policy, limit, shouldAdmit, shouldServe>>

(* Mutant: the policy is not told of an erasure.                            *)
eraseDataUnnoticed(range, count) ==
  LET D == range \cap cached
      gone == {d \in D : Cardinality({x \in D : x < d}) < count}
  IN  /\ table' = without(table, gone)
      /\ UNCHANGED <<queues, staleTimers, policy, limit, shouldAdmit, shouldServe, others>>

eraseData(range, count) ==
  LET D == range \cap cached
      gone == {d \in D : Cardinality({x \in D : x < d}) < count}
  IN  /\ table' = without(table, gone)
      /\ queues' = detached(queues, gone)
      /\ staleTimers' = staleTimers \ gone
      /\ UNCHANGED <<policy, limit, shouldAdmit, shouldServe, others>>

(* Mutant: the new limit is left to the next insertion.                     *)
setLimitLater(n) ==
  /\ limit' = n
  /\ UNCHANGED <<table, queues, staleTimers, policy, shouldAdmit, shouldServe, others>>

setLimit(n) ==
  /\ limit' = n
  /\ evictInto(table, queues, staleTimers, n)
  /\ UNCHANGED <<policy, shouldAdmit, shouldServe, others>>

(* The configuration changes the policy only of an empty store.             *)
setPolicy(p) ==
  /\ cached = {}
  /\ policy' = p
  /\ queues' = [q \in QueueTypes |-> << >>]
  /\ staleTimers' = {}
  /\ UNCHANGED <<table, limit, shouldAdmit, shouldServe, others>>

enableAdmit(b) ==
  /\ shouldAdmit' = b
  /\ UNCHANGED <<table, queues, staleTimers, policy, limit, shouldServe, others>>

enableServe(b) ==
  /\ shouldServe' = b
  /\ UNCHANGED <<table, queues, staleTimers, policy, limit, shouldAdmit, others>>

(* The clock passes m_freshUntil.                                           *)
becomeStale(d) ==
  /\ d \in cached
  /\ table[d].fresh
  /\ table' = [table EXCEPT ![d].fresh = FALSE]
  /\ UNCHANGED <<queues, staleTimers, policy, limit, shouldAdmit, shouldServe, others>>

(* The timer fires after that.                                              *)
moveToStaleQueue(d) ==
  /\ d \in staleTimers
  /\ d \in cached => ~ table[d].fresh
  /\ staleTimers' = staleTimers \ {d}
  /\ queues' = [queues EXCEPT !["fifo"] = SelectSeq(@, LAMBDA x : x # d),
                              !["stale"] = Append(@, d)]
  /\ UNCHANGED <<table, policy, limit, shouldAdmit, shouldServe, others>>

CsNext ==
  \/ \E d \in Contents, u, f \in BOOLEAN : insertData(d, u, f)
  \/ \E range \in Ranges, m \in BOOLEAN : findData(range, m)
  \/ \E range \in Ranges, n \in EraseCounts : eraseData(range, n)
  \/ \E n \in Limits : setLimit(n)
  \/ \E p \in {"lru", "priority_fifo"} : setPolicy(p)
  \/ \E b \in BOOLEAN : enableAdmit(b) \/ enableServe(b)
  \/ \E d \in Contents : becomeStale(d) \/ moveToStaleQueue(d)

----------------------------------------------------------------------------
(* Properties                                                               *)

(* The policy and the table name the same entries: every cached packet is   *)
(* in one queue, once, and no queue holds an iterator to an erased one;     *)
(* the stale timers are those of the FIFO queue.  The assertions of         *)
(* evictEntries, detachQueue and moveToStaleQueue rest on it.               *)
QueuesHoldTable ==
  /\ \A d \in cached : \E q \in QueueTypes :
       /\ Cardinality({i \in DOMAIN queues[q] : queues[q][i] = d}) = 1
       /\ \A r \in QueueTypes \ {q} : d \notin Range(queues[r])
  /\ \A q \in QueueTypes : Range(queues[q]) \subseteq cached
  /\ staleTimers = Range(queues["fifo"])

(* The store never holds more packets than its limit.                       *)
LimitIsKept == Cardinality(cached) <= limit

(* With LRU an insertion evicts only a packet that has not been touched     *)
(* while at least as many others as the store can hold were.                *)
LruKeepsWorkingSet ==
  [][policy = "lru" /\ DOMAIN table' \ cached # {} =>
       \A d \in cached \ DOMAIN table' : Cardinality(others'[d]) >= limit]_csVars
=============================================================================
