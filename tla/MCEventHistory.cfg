SPECIFICATION Spec
CONSTANTS
  Mod = 27
  SUB_MIN = 6
  Frame = 3
  Second = 3
  ResetClk = 2
  PowerUpClk = 18
  Delays = {1, 3}
  Modes <- StartModes
  None = None
  Horizon = 6
  MaxInputs = 2
  MaxRequests = 5
  Early = FALSE
  Patient = TRUE
INVARIANTS
  TypeOK
  Faithful
  StopsInTime
CHECK_DEADLOCK FALSE
