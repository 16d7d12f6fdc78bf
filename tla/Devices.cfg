SPECIFICATION Spec
CONSTANTS
  ToSend = 1
  Arrivals = 1
  InPackets = 3
  Failing = 1
  Queue = 2
  FileBlocks = 2
  TableMax = 2
  Scans = 1
  Workers = {w1, w2}
  Buffers = 2
  InFlight = 1
  Losses = 2
  Patient = TRUE
  FtpWorkers = {w1, w2, w3}
  MaxSessions = 2
  Starts = 2
  PathNames = {"a", "b"}
  PathParts = 3
  TreeDepth = 2
  LongNames <- BoardNames
  ShortNames <- ShortName
  StemOf <- Stems
  PerSector = 2
  PerCluster = 4
  Clusters = 2
  Checksums = 2
  PowerLosses = 1
  Requests = 2
  XferWords = 3
  FifoDepth = 2
  EarlyExpiry = TRUE
  CardMoves = 4
  CameraTasks = {t1, t2}
  NoTask = NoTask
  FrameCount = 6
  BusFailures = 1
  Uses = 3
  NtpCallers = {c1, c2}
  NtpDaemons = {d1, d2}
  NtpServers = {s1}
  NumSamples = 2
  NtpRetries = 1
  Selections = 1
  OffsetBits = 3
  Magnitudes = {0, 3}
  NtpCalls = 3
  MaxContexts = 2
  MaxBuffers = 3
  PoolPages = 7
  Reserved <- ReservedPages
  HandleSpan = 4
  MaxGeneration = 2
  Nobody = Nobody
  CpuCount = 8
  Big = 6
  MaxRows = 24
INVARIANTS
  TypesOK
  FramesArrive
  BroughtUp
  FtpResumes
  AccountsOutlive
  PathsAreServed
  NamesAreFound
  SdTransfers
  CameraSound
  PoolIntact
  FindsFirstFit
  EveryRowOnce
PROPERTIES
  ScanIsSound
  ClockIsSafe
  ProtectedStays
  EverythingEnds
CHECK_DEADLOCK FALSE
