SPECIFICATION FairSpec
CONSTANTS
  c1 = c1
  t1 = t1  t2 = t2
  p1 = p1  p2 = p2
  l1 = l1  l2 = l2
  Conversations <- MCConversations
  Turns <- MCTurns
  ConvOf <- MCConvOf
  Procs <- MCProcs
  Loops <- MCLoops
  ProcOf <- MCProcOf
  NoTurn = NoTurn
  NoProc = NoProc
  MaxFaults = 1
  MaxLines = 1
INVARIANTS
  ConversationInOrder
  LaunchedAtMostOnce
  DoneIsAnswered
  AnswersAreEarned
PROPERTIES
  ImplementsLedger
  EveryTurnCloses
  EveryRunCloses
CHECK_DEADLOCK FALSE
