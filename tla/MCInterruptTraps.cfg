SPECIFICATION Spec
CONSTANTS
  cia = cia
  acia = acia
  save = save
  sync = sync
  NoTrap = NoTrap
  Source = {cia}
  SetsOnRestore = {}
  StartAges = {0}
  Trap = {save, sync}
  Resets = FALSE
  Snapshots = FALSE
INVARIANTS
  NoTrapLost
