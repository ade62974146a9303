SPECIFICATION Spec
CONSTANTS
  Virtual = {8}
  Real = {9}
  Absent = {10}
  Idle = Idle
  FileName <- Name
  FileLength = 2
  NameLength = 3
  Setups <- OldPetAndDrive
  MaxBytes = 2
INVARIANTS
  WaitsForNdac
