CONSTANTS
  Main = Main
  Worker = Worker
  Handlers = {h1}
  None = None
  s1 = s1
  s2 = s2
  SessionIds = {s1}
  BootId = s1
  StartRequests <- MCTareRequests
  HasTare = TRUE
  AutoTare = FALSE
  BootSession = FALSE
  MaxCounter = 1
SPECIFICATION ServingSpec
INVARIANT UnsupportedMeansNoTare
