SPECIFICATION FairSpec
CONSTANTS
  NB_SOCKET_MAX = 2
  Used = {0}
  RW <- RW_1_2
  MaxSdu <- Sdu_2_2
  Base = 15
PROPERTY EventuallySettled
