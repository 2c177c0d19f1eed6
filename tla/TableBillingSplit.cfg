SPECIFICATION Spec
CONSTANTS
  Tables = {t1}
  Orders = {o1, o2}
  Null = null
  Ops = {"close", "split"}
  MaxQty = 1
  MaxPeople = 2
  MaxPayments = 2
  MaxRequests = 2
PROPERTY ClosingRecorded
CHECK_DEADLOCK FALSE
