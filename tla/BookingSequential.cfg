SPECIFICATION Spec
CONSTANTS
  d1 = d1
  d2 = d2
  d3 = d3
  r1 = r1
  r2 = r2
  nobody = nobody
  Draws = {d1, d2}
  Requests = {r1}
  Nobody = nobody
  MaxQty = 3
  Operations <- SequentialOps
SYMMETRY DrawsAlike
INVARIANTS TypeOK CachesAgree DeletedIsUndrawn
PROPERTIES ClosedStaysClosed OverageStaysWithinBooked WritesOffWhatIsLeft
CHECK_DEADLOCK FALSE
