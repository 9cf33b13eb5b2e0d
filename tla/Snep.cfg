\* MIU 128 at both ends: messages of one SDU, of exactly one, and of several.
SPECIFICATION FairSpec
CONSTANTS
  ClientMiu = 128
  ServerMiu = 128
  Window = 1
  Versions = {16, 32}
  InboxSize = 1024
  PutLengths = {400, 1025}
  GetLengths = {100}
  ResponseLengths = {122, 300}
  AcceptableLengths = {200, 1000}
  SecondOctet = "data"
  Buffers = {TRUE}
  ClearsContext = TRUE
  MaxRequests = 2
  MaxConnections = 2
INVARIANT CalledBackOnce
INVARIANT Delivered
PROPERTY RequestReturns
