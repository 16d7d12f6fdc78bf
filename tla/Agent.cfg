SPECIFICATION AgentSpec
CONSTANTS
  Askers = {t1, t2}
  Agents = {a1, a2}
  MaxRequests = 2
  MaxCancels = 1
  NoAgent = NoAgent
  Terminals = {t1, t2}
  Starters = {b1, b2}
  MaxSetups = 2
  MaxLosses = 1
  MaxFaults = 1
  MaxKills = 1
  Nobody = Nobody
INVARIANTS
  Types
  BridgeClean
  SetupIsSafe
  Repeatable
PROPERTIES
  NothingOverwritten
  AgentServes
CHECK_DEADLOCK FALSE
