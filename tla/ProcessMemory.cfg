SPECIFICATION MemorySpec
CONSTANTS
  x1 = x1
  x2 = x2
  x3 = x3
  free = free
  u1 = u1
  u2 = u2
  l1 = l1
  l2 = l2
  c1 = c1
  m1 = m1
  m2 = m2
  k1 = k1
  k2 = k2
  w1 = w1
  w2 = w2
  Callers <- AllCalls
  Needed <- Draws
  Users = {u1, u2}
  Lines = {l1, l2}
  Parties = {c1}
  PartyOf <- OneParty
  Ttl = 3
  MaxCalls = 2
  Items = {m1, m2}
  Readers = {k1, k2}
  Writers = {w1, w2}
  MaxEdits = 1
INVARIANTS TypeOK OneAtATime LocksAndPoolTypeOK OneSheetPerLine
PROPERTIES ServesInOrder EveryCallSettles BillsWhenQuiet NoLineStuck OffersWhatIsPending
CHECK_DEADLOCK FALSE
