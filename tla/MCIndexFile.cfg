CONSTANTS
  r1 = r1
  w1 = w1
  w2 = w2
  Formats = {"Rank", "RankQuant", "Bitmap", "SignBitmap", "RankQuantFastscan"}
  Dim = 2
  Buckets = 2
  NTop = 1
  Lanes = 2
  MaxRows = 2
  MaxSaves = 3
  MaxStops = 1
  Holdings <- MCHoldings
  Savers = {w1, w2}
  Readers = {r1}
SPECIFICATION FileSpec
INVARIANTS
  LoadExact
SYMMETRY Interchangeable
CONSTRAINT Explored
