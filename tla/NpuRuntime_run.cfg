SPECIFICATION FairSpec
CONSTANTS
  t1 = t1
  t2 = t2
  Threads = {t1, t2}
  Files = {1, 2}
  FileOf <- OwnFiles
  Commands <- Runners
  MaxTasks = 2
  ResetMayFail = TRUE
  MaxContexts = 2
  MaxBuffers = 1
  PoolPages = 2
  Reserved <- ReservedPages
  HandleSpan = 4
  MaxGeneration = 1
  Nobody = Nobody
PROPERTIES
  CallsEnd
