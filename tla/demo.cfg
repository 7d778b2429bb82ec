SPECIFICATION DemoSpec
CONSTANTS
  Names <- MCNames
  ReflexiveNames <- MCNames
  ProducerNames = {"ri1", "ri2"}
  LocalhostNames = {}
  LocalhopNames = {}
  PrefixOf <- MCPrefixOf
  Nonces = {1}
  Word32 = {0, 1, 7}
  MaxHopLimit = 2
  Faces = {"c", "m", "p"}
  LocalFaces = {"c", "p"}
  P2PFaces = {"c", "m", "p"}
  AdHocFaces = {}
  NoTag = NoTag
  NoHopLimit = NoHopLimit
  NoToken = NoToken
  NoName = NoName
  NoRecord = NoRecord
  NotNacked = NotNacked
  NextHops <- MCNextHops
  DefaultHopLimit = 0
  AdmitUnsolicited = {}
  InInterests = {}
  InDatas = {}
  InNacks = {}
  NoEntry = NoEntry
  NoData = NoData
  I1 = "i1"
  RI1 = "ri1"
  RI2 = "ri2"
  ConsumerToken = 7
  MaxMishaps = 1
INVARIANTS
  RIBringsOwnToken
  D1ComesLast
PROPERTIES
  ExchangeCompletes
  SettledOnce
CHECK_DEADLOCK FALSE
