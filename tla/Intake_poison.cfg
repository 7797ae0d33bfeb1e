SPECIFICATION FairSpec
CONSTANTS
  Length = 2
  Kinds = {"lease", "poison"}
  MaxRetries = 2
  MaxOutages = 0
  MaxFaults = 0
PROPERTY FailuresAreEscalated
CHECK_DEADLOCK FALSE
