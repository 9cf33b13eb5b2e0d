SPECIFICATION Spec
CONSTANTS
  NB_SOCKET_MAX = 2
  Used = {0}
  RW <- RW_1_2
  MaxSdu <- Sdu_3_2
  Base = 14
INVARIANT OneTurn
INVARIANT LinkHoldsPendingFrame
PROPERTY ImplementsChannel
