CONSTANTS
  q1 = q1
  q2 = q2
  Infinity = 9
  N <- MCN
  Queries <- MCQueries
  RawScores <- MCRawScores
  CentreOf <- MCCentreOf
  ScoreTables <- MCScoreTables
  Calls <- MCCalls
SPECIFICATION FairSpec
INVARIANTS
  TypeOK
  CollectorExact
  RowsExact
  SlicesInBounds
PROPERTY CallReturns
