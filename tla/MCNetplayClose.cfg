SPECIFICATION Spec
CONSTANTS
  a = a
  b = b
  Peer <- Peers
  Slot <- Slots
  None = None
  Suspending = Suspending
  FrameDelta = 3
  MaxFrame = 4
  Register <- Bits
  On <- IsOn
  Budget <- LeaveBudget
SYMMETRY Symmetric
INVARIANTS
  NoDoubleClose
