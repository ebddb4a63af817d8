SPECIFICATION FairSpec
CONSTANTS
  User = TRUE
  TargetUser = TRUE
  Iser = FALSE
  HeaderDigest = {"None", "CRC32C"}
  Cmds = {1}
  Tmfs = {}
  Lun = 0
  NoUa = FALSE
  MaxRetries = 1
  LoginLimit = 4
  UaLimit = 1
  MaxFaults = 2
INVARIANTS
  SessionInSequence
  NegotiatedAgree
  
PROPERTIES
  ReconnectEnds
  CommandsEnd
CHECK_DEADLOCK FALSE
