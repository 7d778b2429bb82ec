SPECIFICATION Spec
CONSTANTS
  Names <- LocalRINames
  ReflexiveNames <- LocalRINames
  ProducerNames = {"localhost"}
  LocalhostNames = {"localhost"}
  LocalhopNames = {}
  PrefixOf <- LocalRIPrefixOf
  Nonces = {1, 2}
  Word32 <- MCWord32
  MaxHopLimit = 2
  Faces <- OneConsumer
  LocalFaces = {"p"}
  P2PFaces <- OneConsumer
  AdHocFaces = {}
  NoTag = NoTag
  NoHopLimit = NoHopLimit
  NoToken = NoToken
  NoName = NoName
  NoRecord = NoRecord
  NotNacked = NotNacked
  NextHops <- LocalRINextHops
  DefaultHopLimit = 0
  AdmitUnsolicited = {}
  InInterests <- LocalRIInterests
  InDatas = {}
  InNacks = {}
  NoEntry = NoEntry
  NoData = NoData
INVARIANTS
  ScopeIsKept
CHECK_DEADLOCK FALSE
