SPECIFICATION FairSpec
CONSTANTS
  FailMax = 3
  ResetTimeout = 2
  MaxAttempts = 3
INVARIANTS
  TypeOK
  BreakersAreIndependent
  LoadOnAFailingProvider
  UnavailableMeansBothFailed
PROPERTY SecondarySuffices
