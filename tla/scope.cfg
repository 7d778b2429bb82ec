SPECIFICATION Spec
CONSTANTS
  Names <- ScopeNames
  ReflexiveNames = {}
  ProducerNames = {}
  LocalhostNames = {"localhost"}
  LocalhopNames = {"localhop"}
  PrefixOf <- ScopePrefixOf
  Nonces = {1, 2}
  Word32 = {0, 7}
  MaxHopLimit = 2
  Faces <- ScopeFaces
  LocalFaces = {"l"}
  P2PFaces = {"l", "p"}
  AdHocFaces = {"h"}
  NoTag = NoTag
  NoHopLimit = NoHopLimit
  NoToken = NoToken
  NoName = NoName
  NoRecord = NoRecord
  NotNacked = NotNacked
  NextHops <- ScopeNextHops
  DefaultHopLimit = 1
  AdmitUnsolicited = {}
  InInterests <- ScopeInterests
  InDatas <- ScopeDatas
  InNacks <- ScopeNacks
  NoEntry = NoEntry
  NoData = NoData
INVARIANTS
  ScopeIsKept
PROPERTIES
  PendingIsAnswered
  
  
CHECK_DEADLOCK FALSE
