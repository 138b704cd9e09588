CONSTANTS
  a = a
  b = b
  pic = pic
  Name <- MCNames
  FileName <- MCOneFile
  MaxDepth = 2
  MaxDirs = 2
  MaxFiles = 2
  MaxCalls = 3
  InitCameras <- MCCameras
  MayFail <- MCNone
  HasDeleteAll = {TRUE, FALSE}
  RemovesTrees = FALSE
  NewLevels = 1
SPECIFICATION Spec
VIEW MCView
INVARIANTS
  CleanFilesAreTrue
PROPERTY
  IsTransparent
