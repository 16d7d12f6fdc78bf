SPECIFICATION Spec
CONSTANTS
  t1 = t1
  t2 = t2
  Threads = {t1, t2}
  Files = {1, 2}
  FileOf <- OwnFiles
  Commands <- Submitters
  MaxTasks = 2
  ResetMayFail = TRUE
  MaxContexts = 2
  MaxBuffers = 2
  PoolPages = 3
  Reserved <- ReservedPages
  HandleSpan = 4
  MaxGeneration = 1
  Nobody = Nobody
INVARIANTS
  RuntimeTypeOK
  ResultsAreHonest
PROPERTIES
  OneCommand
  PoolSpec
