SPECIFICATION FairSpec
CONSTANTS
  h1 = h1
  h2 = h2
  Handlers = {h1, h2}
  Cursor = cursor
  Stamps = stamps
  MaxScopes = 3
  FaultyHandlers = {h1, h2}
  MaxEvents = 2
  MaxSequence = 2
INVARIANTS
  TypeOK
  WiringFollowsScopes
  HandledInOrder
  DrainDelivers
  NoThreadOutlives
PROPERTIES
  JoinReturns
  DrainReturns
  ThreadsEnd
