SPECIFICATION DeskSpec
CONSTANTS
  ann = ann
  ada = ada
  east = east
  west = west
  Sessions = {s1, s2}
  Runs = {r1, r2}
  Users = {ann, ada}
  Admins = {ada}
  Barriers <- MCBarriers
  Teams = {east, west}
  TeamOf <- MCTeamOf
  FieldTypes = {rent, free}
  BaseRent = rent
  FreeRentPeriod = free
  Values = {v1}
  Threshold <- MCThreshold
  Confidences = {92}
  OcrConfidences = {40, 60}
  QualityFloor = 60
  MaxResults = 1
  None = None
SYMMETRY Symmetric
INVARIANTS
  DeskTypeOK
  LowConfidenceIsQueued
  AutoPopulatedMetItsThreshold
  
  UploadIsWholeOrAbsent
CHECK_DEADLOCK FALSE
