SPECIFICATION Spec
CONSTANTS
  Sessions = {s1, s2}
  Runs = {r1}
  Users = {ann, bob}
  Teams = {east}
  TeamOf <- MCTeamOf
  FieldTypes = {rent}
  Values = {v1, v2}
  Threshold <- MCThreshold
  Confidences = {50}
  OcrConfidences = {40, 60}
  QualityFloor = 60
  MaxResults = 1
  None = None
SYMMETRY Symmetric
PROPERTY VerifiedIsTerminal
CHECK_DEADLOCK FALSE
