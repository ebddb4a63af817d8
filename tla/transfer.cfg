SPECIFICATION FairSpec
CONSTANTS
  Calls <- MCCalls
  Sessions <- MCSessions
  MaxReconnects = 1
  Pings = {3}
INVARIANTS
  FramesAreExact
  DataTilesTransfer
  UnsolicitedWithinLimits
  ReadsLand
PROPERTIES
  TransfersEnd
