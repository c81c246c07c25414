SPECIFICATION MCSpec
CONSTANTS
  p1 = p1
  p2 = p2
  c1 = c1
  c2 = c2
  Nobody = Nobody  r1 = r1  r2 = r2  a1 = a1  d0 = d0  Undated = Undated  Nowhere = Nowhere
  Base = d0
  Reader = {r1, r2}
  Amendment = {a1}
  Selection <- MCSelections
  Sections <- MCSections
  Ops <- MCOps
  Direct <- MCDirectAnySpelling
  LastKey = 9
  MaxLog = 2
  Person = {p1, p2}
  Call = {c1, c2}
  MaxRequests = 2
  MaxRoleChanges = 2
  MaxFailures = 2
  MaxSessionLosses = 1
INVARIANT LaterAmendmentWins
CHECK_DEADLOCK FALSE
