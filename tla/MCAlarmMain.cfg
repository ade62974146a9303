CONSTANTS
  Alarm = {raster, event, a1, a2}
  NoAlarm = NoAlarm
  VideoAlarm = raster
  EventAlarm = event
  raster = raster
  event = event
  a1 = a1
  a2 = a2
  MaxPending = 3
  ClockMax = 24
  SubMin = 6
  ClkBase = 5
  FrameCycles = 2
  MaxStep = 2
  Horizon = 2
  Second = 2
  MaxEvents = 2
  RecordedClk = {0, 5, 13, 19}
SPECIFICATION FairSpec
INVARIANTS
  TypeOK
  PendingIndicesAgree
  NextIsEarliest
  ClocksNeverWrap
PROPERTIES
  AlarmsDrain
  IsAlarmService
  TimestampsASecondApart
