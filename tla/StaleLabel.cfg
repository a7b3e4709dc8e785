CONSTANTS
  Main = Main
  Worker = Worker
  Handlers = {h1}
  None = None
  s1 = s1
  s2 = s2
  SessionIds = {s1, s2}
  BootId = s1
  StartRequests <- MCResetRequests
  HasTare = TRUE
  AutoTare = FALSE
  BootSession = FALSE
  MaxCounter = 2
SPECIFICATION ServingSpec
PROPERTY SessionStartsAtZero
