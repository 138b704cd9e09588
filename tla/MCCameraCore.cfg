CONSTANTS
  t1 = t1
  t2 = t2
  Timer <- MCTimer
  UsedMod = 256
  MaxRef = 2
  MayFail <- MCBenign
  Callbacks <- MCQuiet
  InitCallbacks = FALSE
  Reinit = FALSE
SPECIFICATION FairSpec
CHECK_DEADLOCK FALSE
INVARIANTS
  DriverKeepsFooting
  FreedAtZero
  NothingLeftBehind
PROPERTIES
  ExitIsHonoured
  ExitHappens
