SPECIFICATION Spec
SYMMETRY Symmetry
CONSTANTS
  Reqs = {r1, r2}
  NoReq = NoReq
  Luns = {0}
  Half = 4
  InitSN = 6
  Window = 2
  MaxUnsolicited = 1
  MaxData = 1
  MaxR2T = 1
  MaxPing = 0
  Timeouts = TRUE
  SocketErrors = TRUE
  EarlyStatus = TRUE
  Rejects = TRUE
  SpinLocks = TRUE
  Calls = {"read", "write", "other_write", "nop", "tmf", "logout", "cancel_task", "cancel_all", "reset", "lun_reset", "destroy"}
  CallbackCalls = {}
INVARIANTS
  TypeOK
  AtMostOnce
  OneOwner
PROPERTIES
  RefinesTaskService
CHECK_DEADLOCK FALSE
