------------------------------ MODULE Packets ------------------------------
(* The packets NFD's forwarding pipelines exchange, reduced to the fields   *)
(* the pipelines branch on.  A name is a model value: what the code asks of *)
(* a name (is it reflexive, is it under /localhost, is it a prefix of that  *)
(* other name) is a constant set.  Packet contents, signatures and counters *)
(* are left out.                                                            *)
EXTENDS Integers, FiniteSets

CONSTANTS
  Names,           \* every name that occurs
  ReflexiveNames,  \* names with a ReflexiveNameComponent (type 59)
  ProducerNames,   \* the ones among them that hold the reserved value RN=9999
  LocalhostNames,  \* names under /localhost
  LocalhopNames,   \* names under /localhop
  PrefixOf,        \* <<p, n>> \in PrefixOf: p is a prefix of n (n itself included)
  Nonces,          \* Interest nonces
  Word32,          \* the values a PIT token decodes to; 0 is "no token" to the code
  MaxHopLimit,     \* largest HopLimit (255 in the code)
  Faces,           \* every face that is ever in the face table
  LocalFaces,      \* faces of scope local (Unix sockets, internal faces)
  P2PFaces,        \* faces of link type point-to-point
  AdHocFaces,      \* faces of link type ad hoc; the remaining ones are multi-access
  NoTag,           \* a packet tag that is absent
  NoHopLimit       \* an Interest without HopLimit

ASSUME NamesAssumption ==
  /\ ProducerNames \subseteq ReflexiveNames
  /\ ReflexiveNames \subseteq Names
  /\ LocalhostNames \subseteq Names
  /\ LocalhopNames \subseteq Names
  /\ PrefixOf \subseteq Names \X Names

ASSUME FacesAssumption ==
  /\ LocalFaces \subseteq Faces
  /\ P2PFaces \subseteq Faces
  /\ AdHocFaces \subseteq Faces
  /\ P2PFaces \cap AdHocFaces = {}
  /\ NoTag \notin Faces

ASSUME NumbersAssumption ==
  /\ Word32 \subseteq Nat
  /\ 0 \in Word32
  /\ NoTag \notin Word32
  /\ MaxHopLimit \in Nat
  /\ NoHopLimit \notin Nat

----------------------------------------------------------------------------
(* A PIT entry is found by Name, CanBePrefix and MustBeFresh.               *)
Keys == [name : Names, canBePrefix : BOOLEAN, mustBeFresh : BOOLEAN]

Tags == Word32 \cup {NoTag}

HopLimits == (0 .. MaxHopLimit) \cup {NoHopLimit}

(* token is the PIT token tag of the packet and nextHop its NextHopFaceId   *)
(* tag, both hop-by-hop NDNLPv2 fields.                                     *)
Interests == [key : Keys, nonce : Nonces, hopLimit : HopLimits,
              token : Tags, nextHop : Faces \cup {NoTag}]

(* FreshnessPeriod, as far as the pipelines tell periods apart: 0 never     *)
(* satisfies MustBeFresh, 1 is shorter than the Dead Nonce List's lifetime, *)
(* 2 is not.                                                                *)
FreshnessPeriods == 0 .. 2

(* noCache is a CachePolicy tag of NO_CACHE.                                *)
Datas == [name : Names, freshness : FreshnessPeriods, noCache : BOOLEAN]

(* lp::NackReason with its wire values; a smaller value is less severe,     *)
(* except NONE, the most severe.                                            *)
NONE == 0
CONGESTION == 50
DUPLICATE == 100
NO_ROUTE == 150
Reasons == {NONE, CONGESTION, DUPLICATE, NO_ROUTE}

Nacks == [key : Keys, nonce : Nonces, reason : Reasons]

----------------------------------------------------------------------------
isReflexiveInterestFromProducer(i) == i.key.name \in ProducerNames

isReflexiveInterest(i) == i.key.name \in ReflexiveNames

(* Interest::matchesData; names are without implicit digest.                *)
matchesData(k, d) ==
  /\ IF k.canBePrefix THEN <<k.name, d.name>> \in PrefixOf ELSE k.name = d.name
  /\ k.mustBeFresh => d.freshness > 0

(* Mutant: the tag is read without asking whether there is one.             *)
tokenValueUnchecked(i) == i.token

(* An absent token tag reads as 0, here and in readInterestPitToken.        *)
tokenValue(i) == IF i.token = NoTag THEN 0 ELSE i.token

isLessSevere(x, y) == x # NONE /\ (y = NONE \/ x < y)

(* The least severe of a set of Nack reasons, NONE if there is none.        *)
leastSevereReason(rs) ==
  IF rs \subseteq {NONE}
  THEN NONE
  ELSE CHOOSE r \in rs : \A s \in rs : ~ isLessSevere(s, r)
=============================================================================
