CONSTANTS
  Absent = Absent
  Aux <- MCAux
  Base <- MCBase
  Slashed <- MCSlashed
  Rooted <- MCRooted
  Drives = {"C:"}
  Unit = 10
  NotFinite <- MCNotFinite
  MaxRatio = 50
  MaxU64 = 5000
  Indexes <- MCIndexes
  RowMaps <- MCRowMaps
  AuxFiles <- MCAuxFiles
  Cases <- MCCreateCases
SPECIFICATION Spec
INVARIANT CreatedConsistent
CHECK_DEADLOCK FALSE
