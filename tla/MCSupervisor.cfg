SPECIFICATION SupervisorSpec
CONSTANTS
  Streams <- MCStreams
  First = "stdout"
  PipeCap = 1
  MaxLines = 4
INVARIANTS
  DeliveredInOrder
  SucceededIffWorkDone
  RunOwnsItsParts
PROPERTIES
  EveryRunReturns
  ProcessNeverBlocked
CHECK_DEADLOCK FALSE
