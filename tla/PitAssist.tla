----------------------------- MODULE PitAssist -----------------------------
(* pit_assist, the table a forwarder keeps to correlate a reflexive         *)
(* Interest I1 with the Interests (RI) the producer sends back: for every   *)
(* reflexive name it has forwarded, the token it generated for the next     *)
(* hop, and the token the previous hop had put on I1.  The four maps grow   *)
(* and are never trimmed.                                                   *)
EXTENDS Packets

CONSTANTS
  NoToken,   \* a name that is not in a map from names
  NoName     \* a token that is not in a map from tokens

ASSUME AssistAssumption ==
  /\ NoToken \notin Word32
  /\ NoName \notin Names

VARIABLES
  nameToToken,       \* m_Name_to_Token
  tokenToName,       \* m_Token_to_Name
  nameToPrevToken,   \* m_Name_to_prevToken
  prevTokenToName    \* m_prevToken_to_Name

assistVars == <<nameToToken, tokenToName, nameToPrevToken, prevTokenToName>>

AssistTypeOK ==
  /\ nameToToken \in [Names -> Word32 \cup {NoToken}]
  /\ tokenToName \in [Word32 -> Names \cup {NoName}]
  /\ nameToPrevToken \in [Names -> Word32 \cup {NoToken}]
  /\ prevTokenToName \in [Word32 -> Names \cup {NoName}]

AssistInit ==
  /\ nameToToken = [n \in Names |-> NoToken]
  /\ tokenToName = [t \in Word32 |-> NoName]
  /\ nameToPrevToken = [n \in Names |-> NoToken]
  /\ prevTokenToName = [t \in Word32 |-> NoName]

existName(n) == nameToToken[n] # NoToken

(* m_reserved_value.                                                        *)
reserved == {0}

(* Mutant: a token that is in use may be drawn again.                       *)
generateTokenInUse == Word32 \ reserved

(* Mutant: the reserved value is not excluded.                              *)
generateTokenReserved == {t \in Word32 : tokenToName[t] = NoName}

(* The values generateToken may return: it draws random words until one is  *)
(* neither reserved nor in use, and does not return while there is none.    *)
generateToken == {t \in Word32 \ reserved : tokenToName[t] = NoName}

(* Mutant: an Interest without token leaves no trace of the previous hop.   *)
createNameSkipsZero(n, prevToken) ==
  \E token \in generateToken :
    /\ nameToToken' = [nameToToken EXCEPT ![n] = token]
    /\ tokenToName' = [tokenToName EXCEPT ![token] = n]
    /\ IF prevToken = 0
       THEN UNCHANGED <<nameToPrevToken, prevTokenToName>>
       ELSE /\ nameToPrevToken' = [nameToPrevToken EXCEPT ![n] = prevToken]
            /\ prevTokenToName' = [prevTokenToName EXCEPT ![prevToken] = n]

(* Mutant: the two maps from tokens are swapped.                            *)
createNameSwapped(n, prevToken) ==
  \E token \in generateToken :
    /\ nameToToken' = [nameToToken EXCEPT ![n] = token]
    /\ tokenToName' = [tokenToName EXCEPT ![prevToken] = n]
    /\ nameToPrevToken' = [nameToPrevToken EXCEPT ![n] = prevToken]
    /\ prevTokenToName' = [prevTokenToName EXCEPT ![token] = n]

createName(n, prevToken) ==
  \E token \in generateToken :
    /\ nameToToken' = [nameToToken EXCEPT ![n] = token]
    /\ tokenToName' = [tokenToName EXCEPT ![token] = n]
    /\ nameToPrevToken' = [nameToPrevToken EXCEPT ![n] = prevToken]
    /\ prevTokenToName' = [prevTokenToName EXCEPT ![prevToken] = n]

(* Mutant: a name is entered again each time it is seen.                    *)
recordTokenAgain(i) ==
  IF isReflexiveInterest(i)
  THEN createName(i.key.name, tokenValue(i))
  ELSE UNCHANGED assistVars

(* What onIncomingInterest does with the table for an Interest i: a         *)
(* reflexive name is entered the first time it is seen and left as it is    *)
(* from then on.                                                            *)
recordToken(i) ==
  IF isReflexiveInterest(i) /\ ~ existName(i.key.name)
  THEN createName(i.key.name, tokenValue(i))
  ELSE UNCHANGED assistVars

----------------------------------------------------------------------------
(* The table on its own: names are entered in any order, with any token of  *)
(* the previous hop.                                                        *)
AssistNext ==
  \E n \in ReflexiveNames \ ProducerNames, prevToken \in Word32 :
    ~ existName(n) /\ createName(n, prevToken)

AssistSpec == AssistInit /\ [][AssistNext]_assistVars

(* A token this forwarder has given out identifies one name: the two maps   *)
(* are inverse to each other, so an RI that brings the token back is taken  *)
(* for the exchange the token was generated for and no other.               *)
TokenIdentifiesName ==
  /\ \A n \in Names : existName(n) => /\ nameToToken[n] \notin reserved
                                      /\ tokenToName[nameToToken[n]] = n
  /\ \A t \in Word32 : tokenToName[t] # NoName => nameToToken[tokenToName[t]] = t

(* A name with a token also has the token of the previous hop, which        *)
(* onSendingRI needs to send an RI on: of its four error exits, the one for *)
(* a missing previous token is never taken.                                 *)
TokenHasPrevToken ==
  \A n \in Names : existName(n) <=> nameToPrevToken[n] # NoToken

(* The table implements TokenTable: what it has bound stays bound.          *)
bound == {<<n, nameToToken[n]>> : n \in {m \in Names : existName(m)}}

Table == INSTANCE TokenTable WITH Tokens <- Word32 \ reserved, binding <- bound

ImplementsTokenTable == Table!Spec
=============================================================================
