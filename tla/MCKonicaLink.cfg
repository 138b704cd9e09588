CONSTANTS
  t1 = t1
  t2 = t2
  Timer <- MCTimer
  NoTimer = NoTimer
  Operation = {"download", "inquiry", "preview", "plain"}
  Parts = 2
  MaxCalls = 2
  MaxFaults = 2
  PingNacks = 2
  PingTries = 1
  SendTries = 2
  AckTries = 2
SPECIFICATION FairSpec
CHECK_DEADLOCK FALSE
INVARIANTS
  NeverCrashes
  KeptAlive
  Undisturbed
  Recovers
PROPERTIES
  IsExchange
  CallReturns
