CONSTANTS
  r1 = r1
  a1 = a1
  a2 = a2
  NULL = NULL
  Entry <- MCEntry
  RootEntry <- MCRootEntry
  PicturesToKeep = 2
  MaxSize = 1
  SizeMod = 2
SPECIFICATION FairSpec
INVARIANTS
  ListIntact
  WalkMeetsAll
  ListedCache
PROPERTIES
  IsQueue
  SetFileReturns
