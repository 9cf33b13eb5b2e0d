SPECIFICATION FairSpec
CONSTANTS
  MaxRetryCount = 2
  RetryModulus = 4
  NadEnabled = TRUE
  Modes = {"DEFAULT", "TXCHAINING", "RXCHAINING", "RXCHAINING_BUFSIZE"}
  MaxBlocks = 3
  RxRoom = 2
  AnswerBlocks = 6
  MaxWtx = 2
  Wtxm <- MC_Wtxm
  MaxTurn = 4
INVARIANT BlockNumbersAgree
INVARIANT RequestTakenOnce
INVARIANT AnswerComplete
INVARIANT BoundedRecovery
PROPERTY AnswerIsForRequest
PROPERTY ImplementsAlternation
PROPERTY CallReturns
