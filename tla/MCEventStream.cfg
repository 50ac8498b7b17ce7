SPECIFICATION StreamSpec
CONSTANTS
  e1 = e1
  e2 = e2
  c1 = c1
  Events <- MCEvents
  Clients <- MCClients
  OneWriter = FALSE
  MaxTx = 1
  Overlap = 4
  Poll = 1
  BatchLimit = 1
  Retain = 8
  MaxTime = 9
  MaxFaults = 1
  ReadyFirst = TRUE
  Buffer = 1
  MaxReplay = {1, 2}
  Lag = 1
SYMMETRY MCSymmetry
INVARIANTS
  
  WrittenOnce
CHECK_DEADLOCK FALSE
