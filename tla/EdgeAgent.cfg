CONSTANTS
  None = None
  Mine = Mine
  Theirs = Theirs
  QueueSize = 2
  MaxSamples = 3
  MaxFaults = 2
SPECIFICATION Spec
INVARIANTS TypeOK RowsInOrder ReportedMeansWritten OnlyLastUnpublished EndedMeansSaved ExitStopsSession
PROPERTIES StopEnds OldReportReplaced Recovers
CHECK_DEADLOCK FALSE
