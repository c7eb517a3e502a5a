SPECIFICATION Spec
CONSTANTS
  t1 = t1
  t2 = t2
  r1 = r1
  r2 = r2
  Unfit = Unfit
  Blank = Blank
  Nobody = Nobody
  Threads <- MCThreads
  Rows <- MCRows
  Score <- MCScore
  RowCounts <- MCRowCounts
  IdLists <- MCIdLists
  MaxVectors = 2
  Ks <- MCKs
  Casting <- MCCasting
INVARIANT ReturnsExact
PROPERTY CallsReturn
