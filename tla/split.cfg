SPECIFICATION Spec
CONSTANTS
  MaxTotal = 60
  Grain = 500
INVARIANTS
  SharesAddUp
  SplitIsClosest
PROPERTY
  DearerNeverPaysLess
CHECK_DEADLOCK FALSE
