SPECIFICATION Spec
CONSTANTS
  Setups <- MCSetups
  FaultPoints = {0, 5, 14, 27}
  BufSize = 8
  TimerMax = 39586813
  LoadRegs = TRUE
INVARIANT ChipAsConfigured
INVARIANT TimerAsConfigured
PROPERTY RefusedChangesNothing
PROPERTY ApplyForgetsHistory
CHECK_DEADLOCK FALSE
