CONSTANTS
  t1 = t1
  t2 = t2
  Timer <- MCTimer
  UsedMod = 4
  MaxRef = 2
  MayFail <- MCEverythingFails
  Callbacks <- MCNoCallback
  InitCallbacks = FALSE
  Reinit = TRUE
SPECIFICATION Spec
CHECK_DEADLOCK FALSE
INVARIANTS
  DriverStaysMapped
  TimersRemembered
