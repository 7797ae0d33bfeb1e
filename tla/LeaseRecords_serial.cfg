SPECIFICATION Spec
CONSTANTS
  Sessions = {s1}
  Runs = {r1, r2}
  Users = {ann}
  Teams = {east}
  TeamOf <- MCTeamOf
  FieldTypes = {rent, term}
  Values = {v1, v2}
  Threshold <- MCThreshold
  Confidences = {50}
  OcrConfidences = {40, 60}
  QualityFloor = 60
  MaxResults = 2
  None = None
SYMMETRY Symmetric
INVARIANTS
  StatusMatchesConfidence
PROPERTIES
  VerifiedIsTerminal
  NoRequeueOfVerified
  ImplementsLifecycle
CHECK_DEADLOCK FALSE
