SPECIFICATION FairSpec
CONSTANTS
  f1 = f1
  f2 = f2
  v1 = v1
  v2 = v2
  t1 = t1
  t2 = t2
  b1 = b1
  b2 = b2
  Batch = {b1, b2}
  None = None
  Version = {v1}
  Flow <- OneFlow
  VersionOf <- OneRelease
  Source <- JustImage
  Text = {t1, t2}
  OcrConfigured = TRUE
  Verdict <- AllVerdicts
  MayAlter = TRUE
  MayPurge = TRUE
  MayFreeze = TRUE
  MaxAttempts = 2
  MaxFaults = 3
PROPERTY RerunRecovers
CHECK_DEADLOCK FALSE
