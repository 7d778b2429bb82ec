SPECIFICATION Spec
CONSTANTS
  Names <- RetxNames
  ReflexiveNames = {}
  ProducerNames = {}
  LocalhostNames = {}
  LocalhopNames = {}
  PrefixOf <- RetxPrefixOf
  Nonces = {1, 2, 3}
  Word32 = {0, 7}
  MaxHopLimit = 2
  Faces <- RetxFaces
  LocalFaces = {}
  P2PFaces <- RetxFaces
  AdHocFaces = {}
  NoTag = NoTag
  NoHopLimit = NoHopLimit
  NoToken = NoToken
  NoName = NoName
  NoRecord = NoRecord
  NotNacked = NotNacked
  NextHops <- RetxNextHops
  DefaultHopLimit = 0
  AdmitUnsolicited = {}
  InInterests <- RetxInterests
  InDatas <- RetxDatas
  InNacks <- RetxNacks
  NoEntry = NoEntry
  NoData = NoData
PROPERTIES
  NackIsCleared
CHECK_DEADLOCK FALSE
