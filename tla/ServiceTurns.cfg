CONSTANTS
  Main = Main
  Worker = Worker
  Handlers = {h1, h2}
  None = None
  s1 = s1
  s2 = s2
  SessionIds = {s1, s2}
  BootId = s1
  StartRequests <- MCMixedRequests
  HasTare = TRUE
  AutoTare = TRUE
  BootSession = TRUE
  MaxCounter = 1
SPECIFICATION TurnsSpec
INVARIANT RunningMeansSession
PROPERTIES KeepsContract CountsThroughSession
SYMMETRY HandlerSymmetry
