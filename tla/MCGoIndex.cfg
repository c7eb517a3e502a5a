CONSTANTS
  Goroutines = {g1, g2}
  Finalizer = gc
  Threads = {t1, t2, t3}
  Messages = {m1}
  NoMessage = empty
  None = None
SPECIFICATION FairSpec
INVARIANTS
  TypeOK
  ErrorIsOwn
  NotLeaked
PROPERTIES
  HandleSafe
  CallsReturn
