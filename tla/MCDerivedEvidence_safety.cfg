SPECIFICATION DerivedSpec
CONSTANTS
  f1 = f1
  f2 = f2
  v1 = v1
  v2 = v2
  t1 = t1
  t2 = t2
  b1 = b1
  b2 = b2
  b3 = b3
  b4 = b4
  Version = {v1, v2}
  Flow <- TwoFlows
  VersionOf <- TwoReleases
  Source <- AllSources
  Text = {t1, t2}
  Batch = {b1, b2, b3, b4}
  MaxRuns = 3
  OcrConfigured = TRUE
  Verdict <- AllVerdicts
  MayAlter = TRUE
  MayPurge = TRUE
  MayFreeze = TRUE
  LegalReliance = TRUE
  MaxAttempts = 2
  MaxFaults = 1
  None = None
CONSTRAINT Focus
INVARIANTS ExtractedIsEvidence OneCurrentRun RelianceLosesNothing
PROPERTIES NoTextAfterPurgeStarts FindingsMatchSource ExecutedEvidenceIsKept
CHECK_DEADLOCK FALSE
