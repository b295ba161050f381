SPECIFICATION MoneySpec
CONSTANTS
  p1 = p1
  p2 = p2
  q1 = q1
  w1 = w1
  i1 = i1
  s1 = s1
  s2 = s2
  c1 = c1
  k1 = k1
  r1 = r1
  r2 = r2
  MaxBill = 2
  SweepsAlone = TRUE
  ChecksAlone = TRUE
  Posters <- TwoPosters
  Checkers <- OneChecker
  Sweepers <- OneSweeper
  Invoices = {i1}
  Settlements = {s1, s2}
  Covers = {c1}
  Covered <- OneBill
  Cheques = {k1}
  Requests = {r1, r2}
  Parts = 2
  MaxQty = 2
  Duties <- TwoDesks
SYMMETRY SettlementsAlike
INVARIANTS TypeOK NumbersPair SaysWhatIsSo AgentTypeOK ShareOnce BounceTakenOnce ClearedHasNotBounced
PROPERTY PostsOnce
CHECK_DEADLOCK FALSE
