CONSTANTS
  a = a
  b = b
  pic = pic
  Name <- MCOneName
  FileName <- MCOneFile
  MaxDepth = 2
  MaxDirs = 2
  MaxFiles = 2
  MaxCalls = 3
  InitCameras <- MCCameras
  MayFail <- MCAllOrNone
  HasDeleteAll = {TRUE, FALSE}
  RemovesTrees = TRUE
  NewLevels = 2
SPECIFICATION Spec
VIEW MCView
INVARIANTS
  TreeIsSound
  CleanFoldersAreTrue
  NothingStale
