SPECIFICATION FairSpec
CONSTANTS
  cia = cia
  acia = acia
  save = save
  sync = sync
  NoTrap = NoTrap
  Source = {cia}
  SetsOnRestore = {}
  StartAges = {0, 1}
  Trap = {save}
  Resets = TRUE
  Snapshots = FALSE
PROPERTIES
  NmiServed
  RequestsServed
  IrqServed
