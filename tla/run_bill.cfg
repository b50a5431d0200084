CONSTANTS
  a1 = a1
  a2 = a2
  r1 = r1
  r2 = r2
  Attempts = {a1, a2}
  Requests = {r1}
  Cases <- BillCases
  MaxClaims = 6
  MaxStalled = 1
  MaxThrown = 2
SPECIFICATION Spec
PROPERTIES BilledInOrder
SYMMETRY Symmetry
CHECK_DEADLOCK FALSE
