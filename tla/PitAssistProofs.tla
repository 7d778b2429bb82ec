-------------------------- MODULE PitAssistProofs --------------------------
(* Proofs about pit_assist, for any set of names and of tokens: the table   *)
(* keeps its two maps inverse to each other and implements TokenTable.      *)
EXTENDS PitAssist, TLAPS

(* createName, for a name that is not in the table yet, is the only step;   *)
(* what it reads and writes, by cases.                                      *)
LEMMA AssistTypeStep ==
  ASSUME AssistTypeOK, NEW n \in Names, NEW t \in Word32, createName(n, t)
  PROVE  AssistTypeOK'
BY DEF AssistTypeOK, createName, generateToken

LEMMA AssistTokenStep ==
  ASSUME AssistTypeOK, TokenIdentifiesName,
         NEW n \in Names, NEW t \in Word32, ~ existName(n), createName(n, t)
  PROVE  TokenIdentifiesName'
<1>1. PICK token \in generateToken :
        /\ nameToToken' = [nameToToken EXCEPT ![n] = token]
        /\ tokenToName' = [tokenToName EXCEPT ![token] = n]
  BY ZenonT(60) DEF createName
<1>2. token \in Word32 /\ token \notin reserved /\ tokenToName[token] = NoName
  BY <1>1 DEF generateToken
<1>3. ASSUME NEW m \in Names, existName(m)'
      PROVE  nameToToken'[m] \notin reserved /\ tokenToName'[nameToToken'[m]] = m
  <2>1. CASE m = n
    BY <1>1, <1>2, <2>1 DEF AssistTypeOK
  <2>2. CASE m # n
    BY <1>1, <1>2, <1>3, <2>2, AssistAssumption
       DEF AssistTypeOK, TokenIdentifiesName, existName
  <2>3. QED BY <2>1, <2>2
<1>4. ASSUME NEW u \in Word32, tokenToName'[u] # NoName
      PROVE  nameToToken'[tokenToName'[u]] = u
  <2>1. CASE u = token
    BY <1>1, <1>2, <2>1 DEF AssistTypeOK
  <2>2. CASE u # token
    BY <1>1, <1>2, <1>4, <2>2, AssistAssumption
       DEF AssistTypeOK, TokenIdentifiesName, existName
  <2>3. QED BY <2>1, <2>2
<1>5. reserved' = reserved
  BY DEF reserved
<1>6. QED BY <1>3, <1>4, <1>5 DEF TokenIdentifiesName, existName

LEMMA AssistPrevStep ==
  ASSUME AssistTypeOK, TokenHasPrevToken,
         NEW n \in Names, NEW t \in Word32, createName(n, t)
  PROVE  TokenHasPrevToken'
BY AssistAssumption
   DEF AssistTypeOK, TokenHasPrevToken, existName, createName, generateToken

(* The inductive invariant of the table.                                    *)
AssistInv == AssistTypeOK /\ TokenIdentifiesName /\ TokenHasPrevToken

LEMMA AssistInvInit == AssistInit => AssistInv
BY DEF AssistInit, AssistInv, AssistTypeOK, TokenIdentifiesName, TokenHasPrevToken, existName

LEMMA AssistInvStep == AssistInv /\ [AssistNext]_assistVars => AssistInv'
<1> SUFFICES ASSUME AssistInv, [AssistNext]_assistVars PROVE AssistInv'
  OBVIOUS
<1>1. CASE AssistNext
  <2>1. PICK n \in Names, t \in Word32 : ~ existName(n) /\ createName(n, t)
    BY <1>1, NamesAssumption DEF AssistNext
  <2>2. QED BY <2>1, AssistTypeStep, AssistTokenStep, AssistPrevStep DEF AssistInv
<1>2. CASE UNCHANGED assistVars
  BY <1>2 DEF AssistInv, AssistTypeOK, TokenIdentifiesName, TokenHasPrevToken, existName,
              assistVars, reserved
<1>3. QED BY <1>1, <1>2

(* pit_assist on its own: the maps between names and tokens stay inverse to *)
(* each other, so createName never gives one token to two names.            *)
THEOREM AssistCorrect == AssistSpec => []TokenIdentifiesName
<1>1. AssistInv => TokenIdentifiesName
  BY DEF AssistInv
<1>2. QED BY <1>1, AssistInvInit, AssistInvStep, PTL DEF AssistSpec

(* createName records a previous token with every token it gives out, so    *)
(* the exit of onSendingRI for a missing previous token is never taken.     *)
THEOREM AssistHasPrevTokens == AssistSpec => []TokenHasPrevToken
<1>1. AssistInv => TokenHasPrevToken
  BY DEF AssistInv
<1>2. QED BY <1>1, AssistInvInit, AssistInvStep, PTL DEF AssistSpec

----------------------------------------------------------------------------
LEMMA AssistBinds ==
  ASSUME AssistInv, NEW n \in Names, NEW t \in Word32, ~ existName(n), createName(n, t)
  PROVE  Table!Next
<1>1. PICK token \in generateToken :
        /\ nameToToken' = [nameToToken EXCEPT ![n] = token]
        /\ tokenToName' = [tokenToName EXCEPT ![token] = n]
  BY ZenonT(60) DEF createName
<1>2. token \in Word32 \ reserved /\ tokenToName[token] = NoName
  BY <1>1 DEF generateToken
<1>3. \A b \in bound : b[1] # n /\ b[2] # token
  <2> SUFFICES ASSUME NEW m \in Names, existName(m)
               PROVE  m # n /\ nameToToken[m] # token
    BY DEF bound
  <2>1. tokenToName[nameToToken[m]] = m
    BY DEF AssistInv, TokenIdentifiesName
  <2>2. QED BY <1>2, <2>1, AssistAssumption
<1>4. bound' = bound \cup {<<n, token>>}
  <2>1. \A m \in Names : nameToToken'[m] = IF m = n THEN token ELSE nameToToken[m]
    BY <1>1 DEF AssistInv, AssistTypeOK
  <2>2. \A m \in Names : existName(m)' <=> m = n \/ existName(m)
    BY <1>2, <2>1, AssistAssumption DEF existName
  <2>3. QED BY <2>1, <2>2 DEF bound
<1>5. QED BY <1>2, <1>3, <1>4 DEF Table!Next, Table!bind

(* pit_assist implements TokenTable: every step binds one new name to one   *)
(* unused token that is not reserved, and takes no binding back.            *)
THEOREM AssistRefinesTable == AssistSpec => ImplementsTokenTable
<1>1. AssistInit => Table!Init
  BY DEF AssistInit, Table!Init, bound, existName
<1>2. AssistInv /\ [AssistNext]_assistVars => [Table!Next]_bound
  <2> SUFFICES ASSUME AssistInv, [AssistNext]_assistVars PROVE [Table!Next]_bound
    OBVIOUS
  <2>1. CASE AssistNext
    <3>1. PICK n \in Names, t \in Word32 : ~ existName(n) /\ createName(n, t)
      BY <2>1, NamesAssumption DEF AssistNext
    <3>2. QED BY <3>1, AssistBinds
  <2>2. CASE UNCHANGED assistVars
    BY <2>2 DEF assistVars, bound, existName
  <2>3. QED BY <2>1, <2>2
<1>3. QED BY <1>1, <1>2, AssistInvInit, AssistInvStep, PTL
          DEF AssistSpec, ImplementsTokenTable, Table!Spec
=============================================================================
