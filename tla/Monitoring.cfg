SPECIFICATION Spec
CONSTANTS
  docA = docA
  docB = docB
  rent = rent
  right = right
  wrong = wrong
  Fields = {f1, f2}
  Deciders = {d1, d2}
  Docs = {docA, docB}
  FieldTypes = {rent}
  Values = {right, wrong}
  Holdout <- MCHoldout
  Baselines = {55, 100}
  Margin = 5
  Period = 1
  Horizon = 2
  None = None
SYMMETRY Symmetric
INVARIANTS
  TypeOK
  CountedInOnePeriod
  PunctualIsCounted

  
CHECK_DEADLOCK FALSE
