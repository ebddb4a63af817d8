SPECIFICATION Spec
CONSTANTS
  BlockCalls <- MCBlockCalls
  Kinds = {"luns", "keys", "groups", "pages", "serial", "ids", "copy", "opcodes", "extents", "tracks", "segments"}
  Lists <- MCLists
  FirstSizes = {8, 16, 20, 24, 64}
  PageFields <- MCPages
  Senses <- MCSenses
  TargetLists <- MCTargetLists
INVARIANTS
  CommandSaysWhatWasAsked
  StableListIsComplete
  CutListIsPrefix
  RewriteKeepsPage
  SenseSaysWhatHappened
  DiscoveryKeepsOrder
