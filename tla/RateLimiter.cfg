SPECIFICATION Spec
CONSTANTS
  MaxPerMinute = 2
  Window = 3
  Horizon = 10
INVARIANTS
  TypeOK
  TwiceTheLimitPerWindow
CHECK_DEADLOCK FALSE
