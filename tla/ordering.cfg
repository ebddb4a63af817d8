SPECIFICATION Spec
SYMMETRY Symmetry
CONSTANTS
  Reqs = {r1, r2, r3}
  NoReq = NoReq
  Luns = {0}
  Half = 4
  InitSN = 6
  Window = 2
  MaxUnsolicited = 1
  MaxData = 2
  MaxR2T = 1
  MaxPing = 1
  Timeouts = FALSE
  SocketErrors = FALSE
  EarlyStatus = FALSE
  Rejects = FALSE
  SpinLocks = FALSE
  Calls = {"read", "write", "nop", "tmf"}
  CallbackCalls = {"read", "write", "tmf"}
INVARIANTS
  CmdSNContiguous
  DataInOrder
  NoUseAfterFree
PROPERTIES
  NoTornPdu
