CONSTANTS
  Bits <- MCBits
  MaxVectors = 3
  BlockDocs = 2
  TileQueries = 2
  Additions <- MCAdditions
  Batches <- MCBatches
  Configs <- MCConfigs
  Bound = 4
  RankAdditions <- MCRankAdditions
  QueryLists <- MCQueryLists
  IdLists <- MCIdLists
  Ks = {0, 2, 9}
  Shift = 1500
  Lanes512 = 8
  LanesB2 = 4
  LanesB4 = 2
  Block = 2
  Flush = 2
  AccMod = 512
  U8Max = 255
  WordBits = 4
  HistLanes = 3
  PairConfigs <- MCPairConfigs
  PairAdditions <- MCPairAdditions
  PairQueries <- MCPairQueries
  Policies <- MCPolicies
  Lag = 2
  NoMax = NoMax
SPECIFICATION PairSpec
INVARIANTS
  TypeOK
  HeapExact
  CsrExact
  TwoStageExact
  FastscanNear
  ScalesExact
  EvidenceAgrees
  NullExact
PROPERTIES
  ScanReturns
  IndexLikeStore
