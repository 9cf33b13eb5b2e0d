\* One link after the other between two ends.
SPECIFICATION FairSpec
CONSTANTS
  Stacks <- MCStacks
  TxBufferLength = 300
  SendsInTurn = {"ini"}
  SendsAgain = {}
  Foreign <- MCForeign
  MaxSends = 1
  MaxSessions = 2
  MaxQuits = 1
  MaxFaults = 1
INVARIANT CalledBackOnce
INVARIANT SentMeansTaken
INVARIANT LinkSurvives
PROPERTY SendReturns
CHECK_DEADLOCK FALSE
