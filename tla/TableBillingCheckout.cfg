SPECIFICATION Spec
CONSTANTS
  Tables = {t1, t2}
  Orders = {o1, o2}
  Null = null
  Ops = {"close", "split", "items", "relocate", "refund", "edit"}
  MaxQty = 2
  MaxPeople = 2
  MaxPayments = 3
  MaxRequests = 2
SYMMETRY Symmetry
INVARIANTS TypeOK UnitsPaidOnce SharesAddUp
PROPERTY ClosingsExplained
CHECK_DEADLOCK FALSE
