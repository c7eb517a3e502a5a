CONSTANTS
  w1 = w1
  w2 = w2
  i1 = i1
  i2 = i2
  i3 = i3
  i4 = i4
  m1 = m1
  bad = bad
  Torn = Torn
  NoFile = NoFile
  Special = Special
  Writers = {w1, w2}
  Manifests = {m1}
  Refused = {bad}
  Inodes = {i1, i2, i3, i4}
  MaxCalls = 3
  MaxRemovals = 1
  MaxCrashes = 1
SPECIFICATION Spec
SYMMETRY Interchangeable
INVARIANTS
  TypeOK
  DestinationWhole
  AckedSurvives
PROPERTY CheckedUnchanged
CHECK_DEADLOCK FALSE
