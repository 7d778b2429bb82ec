SPECIFICATION Spec
CONSTANTS
  Names <- MCNames
  ReflexiveNames <- MCReflexiveNames
  ProducerNames <- MCProducerNames
  LocalhostNames = {}
  LocalhopNames = {}
  PrefixOf <- MCPrefixOf
  Nonces = {1, 2}
  Word32 <- MCWord32
  MaxHopLimit = 2
  Faces <- OneConsumer
  LocalFaces = {}
  P2PFaces <- OneConsumer
  AdHocFaces = {}
  NoTag = NoTag
  NoHopLimit = NoHopLimit
  NoToken = NoToken
  NoName = NoName
  NoRecord = NoRecord
  NotNacked = NotNacked
  NextHops <- MCNextHops
  DefaultHopLimit = 0
  AdmitUnsolicited = {}
  InInterests <- OneConsumerInterests
  InDatas <- MCDatas
  InNacks <- MCNacks
  NoEntry = NoEntry
  NoData = NoData
PROPERTIES
  DataEchoesToken
CHECK_DEADLOCK FALSE
