SPECIFICATION Spec
CONSTANTS
  Nobody = Nobody
  Document = {d1}
  Approver = {a, b}
  Admin = {a, b}
  MaxVersions = 2
  MaxRuns = 2
  MaxScenarios = 2
  MaxRequests = 1
  MaxWithdrawn = 1
  MaxStale = 1
CONSTRAINT Focus
INVARIANTS
  TypeOK
  RestsOnAttestedEvidence
  RestsOnSettledDecisions
  ApprovalsAgree
PROPERTIES
  ActsAsRegister
  FrozenInForce
SYMMETRY Alike
CHECK_DEADLOCK FALSE
