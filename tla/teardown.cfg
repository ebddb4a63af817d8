SPECIFICATION Spec
SYMMETRY Symmetry
CONSTANTS
  Reqs = {r1, r2, r3}
  NoReq = NoReq
  Luns = {0}
  Half = 4
  InitSN = 6
  Window = 2
  MaxUnsolicited = 0
  MaxData = 1
  MaxR2T = 1
  MaxPing = 0
  Timeouts = FALSE
  SocketErrors = TRUE
  EarlyStatus = FALSE
  Rejects = FALSE
  SpinLocks = FALSE
  Calls = {"read", "write", "tmf", "logout", "cancel_all", "reset", "destroy"}
  CallbackCalls = {"cancel_all"}
INVARIANTS
  NoneLost
  NeverStale
PROPERTIES
  ResetCancels
