SPECIFICATION Spec
CONSTANTS
  c1 = c1
  c2 = c2
  p1 = p1
  p2 = p2
  Cursor = cursor
  Consumers = {c1, c2}
  Producers = {p1, p2}
  Stages = 1
  Stage <- OneScope
  BufferSize = 2
  MaxSequence = 4
  MaxBatch = 2
  SmallBatch = 1
  RefreshInterval = 2
  ScanLimit = 1
  FaultyHandlers = {c1, c2}
  FaultyClosure = TRUE
SYMMETRY Interchangeable
INVARIANTS
  NoDataRace
  EventIntegrity
  SomebodyMoves
  DrainDeliversFirstLap
  Invariant
