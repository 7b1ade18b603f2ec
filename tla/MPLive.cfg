SPECIFICATION FairSpec
CONSTANTS
  c1 = c1
  c2 = c2
  p1 = p1
  p2 = p2
  Cursor = cursor
  Consumers = {c1}
  Producers = {p1, p2}
  Stages = 1
  Stage <- OneProcessor
  BufferSize = 2
  MaxSequence = 4
  MaxBatch = 2
  SmallBatch = 1
  RefreshInterval = 2
  ScanLimit = 1
  FaultyHandlers = {}
  FaultyClosure = FALSE
INVARIANTS
  NothingLost
PROPERTIES
  WritesReturn
  DrainTerminates
  ThreadsEnd
  ImplementsLiveLog
