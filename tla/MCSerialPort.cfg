CONSTANTS
  ff = ff
  nul = nul
  x = x
  Settings <- MCSettings
  NoSpeed = 0
  MaxTries = 2
  Byte <- MCByte
  FF = ff
  NUL = nul
  Message <- MCMessage
  MaxRead = 2
  MaxArrived = 2
SPECIFICATION FairSpec
CHECK_DEADLOCK FALSE
INVARIANTS
  OpenUnderLock
  DeliversWhatIsSent
PROPERTY
  CallReturns
