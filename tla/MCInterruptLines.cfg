SPECIFICATION Spec
CONSTANTS
  cia = cia
  acia = acia
  save = save
  sync = sync
  NoTrap = NoTrap
  Source = {cia, acia}
  SetsOnRestore = {}
  StartAges = {0}
  Trap = {save}
  Resets = TRUE
  Snapshots = TRUE
INVARIANTS
  TypeOK
  LinesCounted
  GhostIrqBounded
PROPERTIES
  IsInterruptLines
SYMMETRY Symmetric
