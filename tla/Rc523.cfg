SPECIFICATION Spec
CONSTANTS
    FifoSize = 3
    AlertLevel = 2
    BufSize = 7
    Setups <- MCSetups
    Lengths = {1, 4}
    AnswerLengths = {1, 4}
    Preempted = FALSE
INVARIANT SentAsComposed
INVARIANT ReceivedAsSent
INVARIANT WakesUp
CHECK_DEADLOCK FALSE
