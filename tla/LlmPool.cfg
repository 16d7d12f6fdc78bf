SPECIFICATION FairSpec
CONSTANTS
  c1 = c1
  c2 = c2
  Clients = {c1, c2}
  NCpu = 3
  Masks <- AllMasks
  NoOne = NoOne
INVARIANTS
  TypeOK
  JobsAreSound
PROPERTIES
  MemoryProtocol
  PoolAnswers
