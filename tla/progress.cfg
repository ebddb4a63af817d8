SPECIFICATION FairSpec
CONSTANTS
  Reqs = {r1, r2}
  NoReq = NoReq
  Luns = {0}
  Half = 4
  InitSN = 6
  Window = 1
  MaxUnsolicited = 1
  MaxData = 2
  MaxR2T = 1
  MaxPing = 1
  Timeouts = FALSE
  SocketErrors = FALSE
  EarlyStatus = FALSE
  Rejects = FALSE
  SpinLocks = FALSE
  Calls = {"read", "write", "nop", "tmf"}
  CallbackCalls = {}
PROPERTIES
  EveryRequestAnswered
