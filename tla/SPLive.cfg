SPECIFICATION FairSpec
CONSTANTS
  c1 = c1
  c2 = c2
  c3 = c3
  Cursor = cursor
  Consumers = {c1, c2, c3}
  Stages = 3
  Stage <- Chain
  BufferSize = 2
  MaxSequence = 4
  MaxBatch = 2
  FaultyHandlers = {}
  FaultyClosure = FALSE
PROPERTIES
  WriteReturns
  DrainTerminates
  ThreadsEnd
  ImplementsLiveLog
