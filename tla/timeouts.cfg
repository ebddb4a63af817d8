SPECIFICATION Spec
SYMMETRY Symmetry
CONSTANTS
  Reqs = {r1, r2, r3}
  NoReq = NoReq
  Luns = {0}
  Half = 4
  InitSN = 6
  Window = 2
  MaxUnsolicited = 0
  MaxData = 2
  MaxR2T = 1
  MaxPing = 0
  Timeouts = TRUE
  SocketErrors = FALSE
  EarlyStatus = FALSE
  Rejects = FALSE
  SpinLocks = FALSE
  Calls = {"write", "tmf"}
  CallbackCalls = {}
INVARIANTS
  NeverStale
  CmdSNContiguous
CHECK_DEADLOCK FALSE
