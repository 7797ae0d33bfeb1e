SPECIFICATION Spec
CONSTANTS
  Requests = {q1, q2, q3}
  Replicas = {a, b}
  Paths = {verify, measure}
  Guarded = {verify}
  Headers = {h}
  None = None
  MaxRestarts = 1
SYMMETRY Symmetric
INVARIANTS
  TypeOK
  OnlyLostAnswersActAgain
  RepliesAreOfTheirKey
PROPERTIES
  QuietKeyIsSettled
CHECK_DEADLOCK FALSE
