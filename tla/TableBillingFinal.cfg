SPECIFICATION Spec
CONSTANTS
  Tables = {t1}
  Orders = {o1, o2}
  Null = null
  Ops = {"close", "void", "status"}
  MaxQty = 1
  MaxPeople = 2
  MaxPayments = 2
  MaxRequests = 2
PROPERTY PaidIsFinal
CHECK_DEADLOCK FALSE
