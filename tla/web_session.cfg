SPECIFICATION LiveSpec
CONSTANTS
  MaxLogins = 2
  MaxLoads = 1
  MaxRetries = 2
INVARIANTS
  TypeOK
  ShownIsOfThisPage
PROPERTIES
  SessionIsKept
  RedirectIsEarned
  EverySpinnerEnds
CHECK_DEADLOCK FALSE
