SPECIFICATION BridgeSpec
CONSTANTS
  Askers = {t1, t2}
  Agents = {a1, a2}
  MaxRequests = 2
  MaxCancels = 1
  NoAgent = NoAgent
CHECK_DEADLOCK FALSE
INVARIANTS
  OwnReply
