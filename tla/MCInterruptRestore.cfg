SPECIFICATION Spec
CONSTANTS
  cia = cia
  acia = acia
  save = save
  sync = sync
  NoTrap = NoTrap
  Source = {cia, acia}
  SetsOnRestore = {acia}
  StartAges = {0}
  Trap = {save}
  Resets = FALSE
  Snapshots = TRUE
INVARIANTS
  IrqLinesCounted
