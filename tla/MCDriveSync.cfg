SPECIFICATION FairSpec
CONSTANTS
  N = 1
  Mod = 12
  SUB_MIN = 2
  Frame = 2
  Scale = 2
  Ratio = 1
  Speeds = {1, 2}
  Chunk = 3
  AccumMod = 8
  Idle = 4
  Booted = 3
  MaxInstr = 2
  ResetClk = 1
  Methods = {"none", "skip"}
  IECReset = FALSE
  WriteAhead = TRUE
  Singles = TRUE
  Forgets = TRUE
INVARIANTS
  TypeOK
  InStep
  NotInFuture
PROPERTIES
  RunsAgain
