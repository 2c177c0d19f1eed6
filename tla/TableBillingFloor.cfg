SPECIFICATION Spec
CONSTANTS
  Tables = {t1, t2}
  Orders = {o1, o2}
  Null = null
  Ops = {"close", "items", "relocate", "status", "void", "edit", "suspend"}
  MaxQty = 1
  MaxPeople = 2
  MaxPayments = 2
  MaxRequests = 2
SYMMETRY Symmetry
INVARIANTS UnitsPaidOnce PaymentsFollowOrders CheckoutKeepsTables
PROPERTIES ClosingsExplained PaidUnlessStale
CHECK_DEADLOCK FALSE
