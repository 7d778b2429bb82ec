SPECIFICATION Spec
CONSTANTS
  Names <- MCNames
  ReflexiveNames <- MCReflexiveNames
  ProducerNames <- MCProducerNames
  LocalhostNames = {}
  LocalhopNames = {}
  PrefixOf <- MCPrefixOf
  Nonces = {1, 2}
  Word32 <- MCWord32
  MaxHopLimit = 2
  Faces <- TwoConsumers
  LocalFaces = {}
  P2PFaces <- TwoConsumers
  AdHocFaces = {}
  NoTag = NoTag
  NoHopLimit = NoHopLimit
  NoToken = NoToken
  NoName = NoName
  NoRecord = NoRecord
  NotNacked = NotNacked
  NextHops <- MCNextHops
  DefaultHopLimit = 0
  AdmitUnsolicited = {}
  InInterests <- TwoConsumersInterests
  InDatas <- MCDatas
  InNacks <- MCNacks
  NoEntry = NoEntry
  NoData = NoData
PROPERTIES
  RIFollowsToken
CHECK_DEADLOCK FALSE
