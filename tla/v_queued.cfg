SPECIFICATION Spec
CONSTANTS
  User = FALSE
  TargetUser = FALSE
  Iser = FALSE
  HeaderDigest = {"None"}
  Cmds = {1, 2}
  Tmfs = {3}
  Lun = 0
  NoUa = FALSE
  MaxRetries = 1
  LoginLimit = 4
  UaLimit = 1
  MaxFaults = 2
INVARIANTS
  QueuedWhileReconnecting
CHECK_DEADLOCK FALSE
