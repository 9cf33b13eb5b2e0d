\* Discovery and activation with cards that come and go.
SPECIFICATION Spec
CONSTANTS
  a1 = a1
  a2 = a2
  a3 = a3
  a4 = a4
  a5 = a5
  a6 = a6
  b1 = b1
  b2 = b2
  f1 = f1
  f2 = f2
  n1 = n1
  Card = {a1, a2, a3, a4, a5, a6, b1, b2, f1, f2, n1}
  Kind <- MCKind
  PartLen = 3
  Worlds <- MCWorlds
  Configs <- MCConfigs
  PollLimit = 2
  None = None
  AnyCard = AnyCard
  MaxCalls = 2
  MaxEvents = 2
INVARIANT FoundAreReal
INVARIANT AllFound
INVARIANT CallIsBounded
PROPERTY ActivatedIsSelected

CHECK_DEADLOCK FALSE
