SPECIFICATION Spec
CONSTANTS
  c1 = c1
  c2 = c2
  c3 = c3
  Cursor = cursor
  Consumers = {c1, c2, c3}
  Stages = 2
  Stage <- Join
  BufferSize = 2
  MaxSequence = 3
  MaxBatch = 2
  FaultyHandlers = {c1, c2, c3}
  FaultyClosure = TRUE
SYMMETRY Interchangeable
INVARIANTS
  StageOrder
  EventIntegrity
  SomebodyMoves
  Invariant
