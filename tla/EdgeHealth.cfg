CONSTANTS
  Delay = 1
  RequestLimit = 3
  ReadLimit = 2
  StaleAfter = 12
  MaxAge = 14
SPECIFICATION Spec
INVARIANTS TypeOK AgeBounded StreamingIsCurrent DeadIsNoticed StaleMeansDead
