CONSTANTS
  ByteSize = 2
  ClockMax = 40
  ControlA <- SomeControlA
  ControlB <- SomeControlB
  Masks <- SomeMasks
  Lengths = {3}
  Fetch = 3
  MaxIdle = 8
  ClkMaxValue = 12
  SubMin = 4
  Latches = {1, 2}
  MaxAccesses = 2
SPECIFICATION SpecPair
INVARIANTS
  TimersAgree
  FlagsAgree
  InterruptOnTime
  AlarmsMatch
