SPECIFICATION Spec
CONSTANTS
  o1 = o1
  l1 = l1
  l2 = l2
  d1 = d1
  d2 = d2
  d3 = d3
  r1 = r1
  r2 = r2
  Orders = {o1}
  Lines = {l1, l2}
  OrderOf <- OneOrder
  Rows = {d1, d2, d3}
  Requests = {r1}
  MaxQty = 2
  Bag = 2
  Operations <- AllOps
SYMMETRY LinesAlike
INVARIANTS TypeOK CancelledIsUntouched
PROPERTIES SaveRespectsShipments FullyShipsWhatIsOwed HeldPartyGetsNothing
CHECK_DEADLOCK FALSE
