CONSTANTS
  None = None
  Mine = Mine
  Theirs = Theirs
  QueueSize = 1
  MaxSamples = 1
  MaxFaults = 2
SPECIFICATION Spec
PROPERTY RetriesLostHardware
CHECK_DEADLOCK FALSE
