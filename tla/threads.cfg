SPECIFICATION FairSpec
CONSTANTS
  Main = m
  Threads = {m, b}
  Calls <- MCCalls
  Window = 1
  MaxCalls = 2
  MaxTicks = 1
INVARIANTS
  GoodMeansAnswered
  OnlyFailuresLeaveFrames
  NumbersAccounted
PROPERTIES
  PostedCallsReturn
