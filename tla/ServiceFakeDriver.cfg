CONSTANTS
  Main = Main
  Worker = Worker
  Handlers = {h1, h2}
  None = None
  s1 = s1
  s2 = s2
  SessionIds = {s1}
  BootId = s1
  StartRequests <- MCPlainRequests
  HasTare = FALSE
  AutoTare = FALSE
  BootSession = FALSE
  MaxCounter = 3
SPECIFICATION ServingSpec
SYMMETRY HandlerSymmetry
PROPERTY CountersContiguous
