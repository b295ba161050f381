SPECIFICATION Spec
CONSTANTS
  d1 = d1
  d2 = d2
  d3 = d3
  r1 = r1
  r2 = r2
  nobody = nobody
  Draws = {d1, d2, d3}
  Requests = {r1, r2}
  Nobody = nobody
  MaxQty = 2
  Operations <- ConvertOps
SYMMETRY Interchangeable
INVARIANTS DrawnWithinBooked
CHECK_DEADLOCK FALSE
