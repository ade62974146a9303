SPECIFICATION FairSpec
CONSTANTS
  Virtual = {8}
  Real = {9}
  Absent = {10}
  Idle = Idle
  FileName <- Name
  FileLength = 2
  NameLength = 2
  Setups <- Sound
  MaxBytes = 2
INVARIANTS
  TypeOK
  DoesNotHearItself
  NoContention
  OffTheBus
PROPERTIES
  IsStream
  NoFalseAlarm
  NameIntact
  EveryJobEnds
