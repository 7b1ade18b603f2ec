SPECIFICATION Spec
CONSTANTS
  c1 = c1
  c2 = c2
  c3 = c3
  Cursor = cursor
  Consumers = {c1, c2}
  Stages = 1
  Stage <- OneScope
  BufferSize = 4
  MaxSequence = 7
  MaxBatch = 3
  FaultyHandlers = {}
  FaultyClosure = FALSE
SYMMETRY Interchangeable
INVARIANTS
  NoDataRace
  DrainDelivers
