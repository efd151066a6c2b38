SPECIFICATION Spec
CONSTANTS
  MaxLogins = 2
  MaxLoads = 0
  MaxRetries = 1
INVARIANT PreviousSessionIsHidden
CHECK_DEADLOCK FALSE
