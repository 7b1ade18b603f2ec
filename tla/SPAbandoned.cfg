SPECIFICATION Spec
CONSTANTS
  c1 = c1
  c2 = c2
  c3 = c3
  Cursor = cursor
  Consumers = {c1}
  Stages = 1
  Stage <- OneProcessor
  BufferSize = 2
  MaxSequence = 3
  MaxBatch = 2
  FaultyHandlers = {}
  FaultyClosure = TRUE
INVARIANTS
  OnlyPublished
