CONSTANTS
  Alarm = {raster, event, a1}
  NoAlarm = NoAlarm
  VideoAlarm = raster
  EventAlarm = event
  raster = raster
  event = event
  a1 = a1
  MaxPending = 3
  ClockMax = 24
  SubMin = 6
  ClkBase = 5
  FrameCycles = 2
  MaxStep = 2
  Horizon = 2
  Second = 7
  MaxEvents = 1
  RecordedClk = {0}
SPECIFICATION Spec
PROPERTY TimestampsASecondApart
