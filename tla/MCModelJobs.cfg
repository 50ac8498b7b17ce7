SPECIFICATION JobsFairSpec
CONSTANTS
  w1 = w1
  w2 = w2
  Workers <- MCWorkers
  NoWorker = NoWorker
  NumJobs = 2
  MaxAttempts = 2
  Immediate = TRUE
  MaxFaults = 2
INVARIANTS
  LateAnswerDiscarded
  
PROPERTIES
  EveryJobEnds
CHECK_DEADLOCK FALSE
