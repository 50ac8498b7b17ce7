CONSTANTS
  Turns = 2
  Buffer = 1
  Page = 2
  Pages = 2
  Window = 1
  Budgets <- MCBudgets
SPECIFICATION Spec
INVARIANTS
  FramesInOrder
  MissedOnlyIfDropped
PROPERTIES
  RevokedIsCutOff
CHECK_DEADLOCK FALSE
