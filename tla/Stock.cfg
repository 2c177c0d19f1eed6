SPECIFICATION Spec
CONSTANTS
  flour = flour
  dough = dough
  NoItem = NoItem
  Items = {flour, dough}
  Preps = {dough}
  POs = {po1}
  Lines = {l1, l2}
  POOf <- MCPOOf
  Orders = {o1}
  Staff = {s1, s2}
  MaxPortions = 2
  MaxArrival = 1
  MaxActs = 2
  Inputs <- MCInputs
  Opening <- MCOpening
  Recipes <- MCRecipes
  OrderedQty <- MCOrderedQty
SYMMETRY Symmetry
INVARIANTS TypeOK BooksBalance ReturnedIsCancelled LedgerExplains DeliveredIsReceived
CHECK_DEADLOCK FALSE
