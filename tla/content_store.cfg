SPECIFICATION Spec
CONSTANTS
  Names <- CsNames
  ReflexiveNames = {}
  ProducerNames = {}
  LocalhostNames = {}
  LocalhopNames = {}
  PrefixOf <- CsPrefixOf
  Nonces = {1, 2}
  Word32 = {0, 7}
  MaxHopLimit = 2
  Faces <- CsFaces
  LocalFaces = {}
  P2PFaces <- CsFaces
  AdHocFaces = {}
  NoTag = NoTag
  NoHopLimit = NoHopLimit
  NoToken = NoToken
  NoName = NoName
  NoRecord = NoRecord
  NotNacked = NotNacked
  NextHops <- CsNextHops
  DefaultHopLimit = 0
  AdmitUnsolicited = {"p"}
  InInterests <- CsInterests
  InDatas <- CsDatas
  InNacks = {}
  NoEntry = NoEntry
  NoData = NoData
PROPERTIES
  DataAnswersInterest
  PendingIsAnswered
CHECK_DEADLOCK FALSE
