SPECIFICATION Spec
CONSTANTS
  Half = 6
  Window = 3
  Chap = TRUE
  InitStatSNs = {0, 1, 2, 3, 4, 5, 6, 7, 8, 9, 10, 11}
INVARIANTS
  AckFollowsTarget
  WindowIsGranted
