SPECIFICATION FairSpec
CONSTANTS
  Length = 2
  Kinds = {"lease", "other", "malformed", "bare", "poison"}
  MaxRetries = 2
  MaxOutages = 2
  MaxFaults = 2
INVARIANTS
  TypeOK
  SettledBelowOffset
  RepeatsNeedFaults
PROPERTIES
  EveryMessageSettles
  EscalationIsDelivered
CHECK_DEADLOCK FALSE
