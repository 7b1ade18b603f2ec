SPECIFICATION FairSpec
CONSTANTS
  Capacity = 1
  MaxMessages = 3
INVARIANTS
  ExitIsClean
PROPERTIES
  CtrlCStops
  CloseReconnects
