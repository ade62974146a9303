CONSTANTS
  Alarm = {a1, a2, a3}
  NoAlarm = NoAlarm
  VideoAlarm = NoAlarm
  EventAlarm = NoAlarm
  a3 = a3
  a1 = a1
  a2 = a2
  MaxPending = 3
  ClockMax = 31
  SubMin = 7
  ClkBase = 1
  FrameCycles = 2
  MaxStep = 2
  Horizon = 3
  Second = 1
  MaxEvents = 1
  RecordedClk = {0}
SPECIFICATION Spec
SYMMETRY Symmetry
INVARIANTS
  DueMeansPending
