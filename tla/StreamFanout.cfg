CONSTANTS
  Streams = {c1, c2}
  None = None
  QueueSize = 2
  MaxSamples = 4
SPECIFICATION FairSpec
INVARIANTS TypeOK NewestKept
PROPERTIES StreamsKeepPromise LinesAreRecent SamplingNotBlocked StreamsClose
