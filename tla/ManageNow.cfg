SPECIFICATION FairTimerSpec
CONSTANTS
  Entries <- MCEntries
  Rate <- MCRate
  MaxDuration = 1
  SleepTicks = 2
  MaxLate = 8
INVARIANTS
  TimerTypeOK
  Punctual
PROPERTY
  StopNoticed
CHECK_DEADLOCK FALSE
