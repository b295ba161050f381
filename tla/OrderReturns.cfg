SPECIFICATION Spec
CONSTANTS
  o1 = o1
  l1 = l1
  l2 = l2
  d1 = d1
  d2 = d2
  d3 = d3
  r1 = r1
  r2 = r2
  Orders = {o1}
  Lines = {l1}
  OrderOf <- OneOrder
  Rows = {d1, d2, d3}
  Requests = {r1}
  MaxQty = 3
  Bag = 2
  Operations <- ReturnOps
SYMMETRY RowsAlike
INVARIANTS OfferedCanShip
CHECK_DEADLOCK FALSE
