CONSTANTS
  dcim = dcim
  image = image
  picture = picture
  FileName <- MCFileName
  DirName <- MCDirName
  OwnName = picture
  Folders <- MCFolders
  Cameras <- MCCameras
  Kinds = {"folder", "all"}
  MaxObjects = 4
  MaxCalls = 3
  MaxRefused = 1
  MaxByHand = 2
SPECIFICATION Spec
CHECK_DEADLOCK FALSE
INVARIANTS
  CacheIsTrue
  ResultsAreTrue
  UploadsOnce
PROPERTY
  NamedIsDeleted
