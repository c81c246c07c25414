SPECIFICATION MCSpec
CONSTANTS
  e1 = e1  e2 = e2  c1 = c1  c2 = c2  p1 = p1  p2 = p2  o1 = o1  o2 = o2
  None = None  Nobody = Nobody
  Engine = {e1, e2}
  Seeded = e1
  Prompt <- MCPrompt
  Case = {c1, c2}
  Blockers = {}
  MaxValidations = 2
  MaxStandards = 2
  MaxAnalyses = 2
  MaxRequests = 1
  MaxChanges = 2
  Person = {p1, p2}
  Option = {o1, o2}
  Settled = {o1, o2}
  From <- MCFrom
  Until <- MCUntil
  MaxTime = 1
  MaxText = 1
  MaxLedger = 4
  MaxAudit = 5
INVARIANTS RelianceTypeOK CatalogIsSound
PROPERTIES VerdictIsFinal RelianceIsCurrent ExportStandsOnLiveReviews
CONSTRAINT Focus
SYMMETRY Symmetric
CHECK_DEADLOCK FALSE
