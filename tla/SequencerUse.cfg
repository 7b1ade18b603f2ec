SPECIFICATION FairSpec
CONSTANTS
  c1 = c1
  c2 = c2
  p1 = p1
  p2 = p2
  Cursor = cursor
  Consumers = {c1, c2}
  Producers = {p1, p2}
  Owner = p1
  Stages = 1
  Stage <- OneScope
  BufferSize = 4
  MaxSequence = 16
  BatchSizes = {1, 4, 5}
  OwnClaims = 3
  SmallBatch = 2
  RefreshInterval = 2
  ScanLimit = 2
  ShortRun = 2
  LongRun = 3
  GatedRun = 4
INVARIANTS
  TypeOK
  NoOverrun
  LateJoinIsSafe
  ClaimedOnce
  NobodyIsStuck
  LastLapPublished
PROPERTIES
  StampsOnlyRise
  ClaimReturns
  AllFinish
