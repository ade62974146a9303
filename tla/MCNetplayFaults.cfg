SPECIFICATION Spec
CONSTANTS
  a = a
  b = b
  Peer <- Peers
  Slot <- Slots
  None = None
  Suspending = Suspending
  FrameDelta = 2
  MaxFrame = 4
  Register <- Bits
  On <- IsOn
  Budget <- FaultBudget
SYMMETRY Symmetric
INVARIANTS
  PlaysOnTime
  NoFalseAlarm
  DifferenceCaught
PROPERTIES
  IsLockstep
