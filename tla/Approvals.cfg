SPECIFICATION Spec
CONSTANTS
  a1 = a1
  a2 = a2
  d1 = d1
  d2 = d2
  d3 = d3
  u1 = u1
  u2 = u2
  none = none
  Approvals = {a1, a2}
  Dispatches = {d1, d2, d3}
  Days = {1, 2}
  Users = {u1, u2}
  None = none
  Operations <- AllOps
SYMMETRY AllAlike
INVARIANTS TypeOK ApprovedWasApplied
CHECK_DEADLOCK FALSE
