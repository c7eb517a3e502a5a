CONSTANTS
  m1 = m1
  m2 = m2
  p1 = p1
  p2 = p2
  Absent = Absent
  Manifests = {m1, m2}
  Declares <- MCDeclares
  Contents <- MCContents
  Processes = {p1, p2}
  Commands <- MCCommands
  OldTables <- MCOldTables
  EditDuringCalls = FALSE
  MaxCalls = 2
  MaxEdits = 2
SPECIFICATION Spec
SYMMETRY Interchangeable
INVARIANTS
  TypeOK
  HitSound
  ActivationBacked
PROPERTY LogKept
CHECK_DEADLOCK FALSE
