CONSTANTS
  Features <- MCFeatures
  Rotation = "rotation"
  Yaws <- MCYaws
  MaxPackets = 1
  MaxFifo = 3
  MaxReports = 3
  FileLines = 2
  MaxRows = 3
SPECIFICATION Spec
INVARIANTS TypeOK RowsFollowDriver OutputsAgree EndedMeansSaved SampleIsFresh TaredReadsZero
PROPERTIES QuietEndsCall
