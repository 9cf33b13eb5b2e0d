SPECIFICATION Spec
CONSTANTS
  NB_SOCKET_MAX = 2
  Serves = {"target"}
  Connects = {"initiator"}
  ConnectTo = {4}
  Answers = {"none", "accept", "reject"}
  Disconnects = {"initiator"}
  Hasty = {}
  Sends = {"initiator"}
  Retries = {}
  Closes = {}
INVARIANT NoNullCallback
INVARIANT EndsAgree
