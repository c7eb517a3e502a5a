CONSTANTS
  WordBits = 2
  Qpv = 2
  NTop = 2
  MaxVectors = 4
  Chunk = 2
  Additions <- MCAdditions
  QueryLists <- MCQueryLists
  IdLists <- MCIdLists
  Ks <- MCKs
  BatchSizes <- MCBatchSizes
SPECIFICATION FairSpec
INVARIANTS
  Persistable
  ConstantWeight
  ScoresExact
PROPERTIES
  AnswersLikeStore
  CallReturns
