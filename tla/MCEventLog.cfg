SPECIFICATION LogFairSpec
CONSTANTS
  e1 = e1
  e2 = e2
  Events <- MCEvents
  OneWriter = FALSE
  MaxTx = 1
  Overlap = 3
  Poll = 1
  BatchLimit = 1
  Retain = 6
  MaxTime = 8
  MaxFaults = 1
INVARIANTS
  SettledIsFinal
PROPERTIES
  EveryCommitDelivered
CHECK_DEADLOCK FALSE
