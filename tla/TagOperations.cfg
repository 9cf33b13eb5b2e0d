SPECIFICATION Spec
CONSTANTS
  d = d
  m = m
  n = n
  l = l
  Messages <- MC_Messages
  Size <- MC_Size
  Room = 2
  Default = d
  None = None
  Blank = Blank
  Torn = Torn
  Types = {"T1T", "T2T", "T3T", "T4T"}
INVARIANT SuccessMeansDone
INVARIANT ReadIsCurrent
PROPERTY WriteSucceeds
PROPERTY ImplementsNdefTag
