CONSTANTS
  Secured = Secured
  Plain = Plain
  Commands = 2
  Drops = 0
  Resends = 0
SPECIFICATION WifiSpec
INVARIANT AddressGone
CHECK_DEADLOCK FALSE
