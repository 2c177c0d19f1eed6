SPECIFICATION Spec
CONSTANTS
  Tables = {t1}
  Orders = {o1, o2}
  Null = null
  Ops = {"void", "edit"}
  MaxQty = 1
  MaxPeople = 2
  MaxPayments = 2
  MaxRequests = 2
INVARIANT OpenOrdersHoldTable
CHECK_DEADLOCK FALSE
