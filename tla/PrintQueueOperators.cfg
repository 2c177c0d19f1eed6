SPECIFICATION Spec
CONSTANTS
  j1 = j1
  j2 = j2
  kitchen = kitchen
  bar = bar
  b1 = b1
  b2 = b2
  a1 = a1
  a2 = a2
  Areas = {kitchen}
  Station = station
  AreaOf <- MCAreaOf
  Null = null
  Jobs = {j1}
  Bridges = {b1, b2}
  Agents = {a1}
  BrowserAgents = {}
  StationAreas = {kitchen}
  BridgeOf <- OwnBridge
  Limit = 1
  AdminOps = {"fail","complete","confirm","retry","dispatch","delete","assign","test"}
  MaxRound = 2
  MaxFaults = 1
INVARIANT OwnerColumnsAgree EveryDispatchDated
PROPERTY KeepsDelivery
CHECK_DEADLOCK FALSE
