SPECIFICATION Spec
CONSTANTS
  Parts = {"rib"}
  Names <- MCNames
  ReflexiveNames <- MCNames
  ProducerNames = {}
  LocalhostNames = {}
  LocalhopNames = {}
  PrefixOf = {}
  Nonces = {1}
  Word32 <- MCWord32
  MaxHopLimit = 0
  Faces = {}
  LocalFaces = {}
  P2PFaces = {}
  AdHocFaces = {}
  NoTag = NoTag
  NoHopLimit = NoHopLimit
  NoToken = NoToken
  NoName = NoName
  NamePrefixes <- MCPrefixes
  StrictPrefixOf <- MCStrictPrefixOf
  FaceIds = {1, 2, 3, 4}
  InitialFaces = {1, 3, 4}
  Losable = {1}
  Origins = {0}
  Costs = {1, 2}
  TimerIds = {t1}
  CountLimit = 4
  NoPrefix = NoPrefix
  NoTimer = NoTimer
  NoRibEntry = NoRibEntry
  NoCost = NoCost
  RegisterRequests <- MCRegister
  UnregisterRequests <- MCUnregister
  MaxRequests = 3
  MaxQueued = 0
  MaxTimeouts = 1
  LateCommands = {}
  Hashes = {1, 2, 3, 4}
  MARK = 0
  MIN_CAPACITY = 5
  INITIAL_CAPACITY = 5
  MAX_CAPACITY = 7
  EXPECTED_MARK_COUNT = 2
  EVICT_LIMIT = 3
  MaxRate = 2
  Contents = {1, 2, 3}
  Lasting = {1, 2}
  Ranges = {{1, 2}, {2, 3}}
  Limits = {0, 1, 2}
  EraseCounts = {1}
  Ends = {"left", "right"}
  NetPkts <- MCNetPkts
  sender <- MCSender
  Size <- MCSize
  HeaderSize <- MCHeaderSize
  Mtu = 10
  SingleOverhead = 2
  FragOverhead = 4
  NMaxFragments = 3
  MaxRetx = 1
  SeqNumLossThreshold = 1
  AckRoom = 2
  TxModulus = 16
  FirstTx = 14
  MaxInFlight = 2
  MaxSequences = 2
  MaxForgotten = 1
  NoTx = NoTx
  NoFrag = NoFrag
  FetchOptions <- MCTransfers
  CwndUnit = 60
  NObject = 3
  NackReasons = {"CONGESTION", "NO_ROUTE"}
  RetryReasons = {"CONGESTION"}
  MaxLosses = 2
  NoFinalBlock = NoFinalBlock
  NotSegment = NotSegment
INVARIANTS
  FailedUpdateStaysOut
CHECK_DEADLOCK FALSE
