SPECIFICATION FairSpec
CONSTANTS
  b1 = b1
  b2 = b2
  a1 = a1
  a2 = a2
  Jobs = {j1, j2}
  Payments = {p1}
  Bridges = {b1}
  Agents = {a1}
  BridgeOf <- OwnBridge
  Null = null
  TestJobs = {j2}
  AdminOps = {"switch","assign","delete"}
  MaxFaults = 1
INVARIANTS TypeOK EmittedIsReal OwnersReleased ReceiptsExplained
PROPERTIES SettledForGood KeepsReceipts ReceiptsSettle
CHECK_DEADLOCK FALSE
