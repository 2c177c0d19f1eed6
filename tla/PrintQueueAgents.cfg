SPECIFICATION FairSpec
CONSTANTS
  j1 = j1
  j2 = j2
  kitchen = kitchen
  bar = bar
  b1 = b1
  b2 = b2
  a1 = a1
  a2 = a2
  Areas = {kitchen, bar}
  Station = station
  AreaOf <- MCAreaOf
  Null = null
  Jobs = {j1, j2}
  Bridges = {b1}
  Agents = {a1, a2}
  BrowserAgents = {a2}
  StationAreas = {}
  BridgeOf <- SharedBridge
  Limit = 2
  AdminOps = {}
  MaxRound = 3
  MaxFaults = 1
INVARIANTS TypeOK OneCopyPerRound CompletedOnPaper
PROPERTY QueueDrains
CHECK_DEADLOCK FALSE
