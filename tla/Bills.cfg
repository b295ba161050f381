SPECIFICATION BillsSpec
CONSTANTS
  d1 = d1
  d2 = d2
  c1 = c1
  c2 = c2
  r1 = r1
  r2 = r2
  r3 = r3
  Dispatches = {d1, d2}
  Challans = {c1, c2}
  Quantities = {1, 2}
  Requests = {r1, r2, r3}
  Operations <- AllOperations
  NBills = 2
  MaxDay = 2
  MaxReceipts = 3
  BillAmounts = {3}
  ReceiptAmounts = {2, 4, 5}
  NoteAmounts = {2, 4}
  Openings <- Owed
  Tolerance = 0
  RoundFigure = 2
  OthersPark = TRUE
SYMMETRY Interchangeable
INVARIANTS TypeOK OneScreenBillsAsShipped NoDoubleBilling MoneyIsAccountedFor NoBillOverpaid KeptOffAdvance TypedInAnyOrder
PROPERTIES SpendsIdleMoney NoteComesFirst
CHECK_DEADLOCK FALSE
