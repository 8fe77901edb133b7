SPECIFICATION ControlSpec
CONSTANTS
  Cranes = {"a", "b"}
  Worker = "a"
  Turn = 8
  TopGear = 2
  MaxSpeed <- MCSpeed
  MaxAcc <- MCAcc
  GearSpeed <- MCGearSpeed
  Low <- MCLow
  High <- MCHigh
  Base <- MCBase
  RootHeight <- MCRoot
  JibSamples = {2, 4}
  Cos <- MCCos
  Sin <- MCSin
  Bound <- MCBound
  WindBound <- MCWindBound
  SampleFrames = 2
  Samples = 1
  Zones <- MCZones
  ZonePolicy = "task_only"
  Weight <- MCWeight
  MaxLoad = 4
  MaxLoadRadius = 2
  TipLoad = 1
  JibLength = 5
  RatedMoment = 10
  Segments = 2
  Pickup <- MCPickup
  Dropoff <- MCDropoff
  LiftHeight = 5
  AlignXY = 2
  AttachXY = 1
  ReleaseXY = 1
  AttachHeight = 2
  ReleaseHeight = 2
  SlowSpeed <- MCSlow
  Precision <- MCPrecision
  Drivers = {"solo", "pair", "guided"}
  SafetyModes <- MCModes
  Weathers <- MCWeathers
  CommandSets <- MCCommandSets
  Durations <- MCDurations
  Interval = 2
  StartAngle <- MCStart
INVARIANT TaskOnlyRecords
CHECK_DEADLOCK FALSE
