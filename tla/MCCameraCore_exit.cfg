CONSTANTS
  t1 = t1
  t2 = t2
  Timer <- MCTimer
  UsedMod = 256
  MaxRef = 2
  MayFail <- MCMissing
  Callbacks <- MCNoCallback
  InitCallbacks = FALSE
  Reinit = FALSE
SPECIFICATION FairSpec
CHECK_DEADLOCK FALSE
PROPERTY
  ExitCloses
