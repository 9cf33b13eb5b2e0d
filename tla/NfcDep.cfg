SPECIFICATION FairSpec
CONSTANTS
  MaxBlocks = 3
  PniModulus = 6
  MaxRetryCount = 2
  AtnDisabled = FALSE
  RxRoom = 4
  MaxMsg = 2
  MaxHits = 1
INVARIANT MessagesIntact
INVARIANT TargetFollows
PROPERTY ImplementsAlternation
PROPERTY CallReturns
