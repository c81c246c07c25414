SPECIFICATION Spec
CONSTANTS
  f1 = f1
  f2 = f2
  v1 = v1
  v2 = v2
  t1 = t1
  t2 = t2
  b1 = b1
  b2 = b2
  Batch = {b1, b2}
  None = None
  Version = {v1, v2}
  Flow <- TwoFlows
  VersionOf <- TwoReleases
  Source <- JustText
  Text = {t1}
  OcrConfigured = TRUE
  Verdict <- AllVerdicts
  MayAlter = FALSE
  MayPurge = FALSE
  MayFreeze = FALSE
  MaxAttempts = 2
  MaxFaults = 1
PROPERTY QuarantineIsTerminal
CHECK_DEADLOCK FALSE
