SPECIFICATION Spec
CONSTANTS
  Sessions = {s1, s2}
  Runs = {r1, r2}
  Users = {ann}
  Teams = {east}
  TeamOf <- MCTeamOf
  FieldTypes = {rent}
  Values = {v1}
  Threshold <- MCThreshold
  Confidences = {50, 92}
  OcrConfidences = {40, 60}
  QualityFloor = 60
  MaxResults = 2
  None = None
SYMMETRY Symmetric
INVARIANTS
  TypeOK
  LowConfidenceIsQueued
  ResolvedItemIsBacked
  DeciderInsideBarrier
  ExcludedGoesToManualEntry
  CommittedIsAnnounced
CHECK_DEADLOCK FALSE
