SPECIFICATION FairSpec
CONSTANTS
  b1 = b1
  b2 = b2
  a1 = a1
  a2 = a2
  Jobs = {j1}
  Payments = {p1}
  Bridges = {b1}
  Agents = {a1}
  BridgeOf <- OwnBridge
  Null = null
  TestJobs = {j1}
  AdminOps = {}
  MaxFaults = 0
PROPERTY ClosesSettle
CHECK_DEADLOCK FALSE
