SPECIFICATION LinksSpec
CONSTANTS
  Readers = {r1, r2}
  Size = 3
  MaxBytes = 5
  MaxLength = 2
  MaxCommands = 2
  Secured = Secured
  Plain = Plain
  Commands = 2
  Drops = 1
  Resends = 1
INVARIANTS
  Types
  ReadsAreWhole
  AgreedKey
PROPERTIES
  OwnConfirmations
  CleanTeardown
  LinksDeliver
CHECK_DEADLOCK FALSE
