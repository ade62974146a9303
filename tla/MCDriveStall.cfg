SPECIFICATION Spec
CONSTANTS
  N = 1
  Mod = 16
  SUB_MIN = 2
  Frame = 2
  Scale = 2
  Ratio = 3
  Speeds = {1}
  Chunk = 3
  AccumMod = 12
  Idle = 6
  Booted = 4
  MaxInstr = 2
  ResetClk = 1
  Methods = {"none"}
  IECReset = TRUE
  WriteAhead = TRUE
  Singles = FALSE
  Forgets = FALSE
INVARIANTS
  RunsAsLongAsMachine
