SPECIFICATION MonitorSpec
CONSTANTS
  t1 = t1
  Targets <- MCTargets
  Metrics <- MCMetrics
  Values <- MCValues
  Transfers <- MCTransfers
  AlphaNum = 1
  AlphaDen = 8
  MinSamples = 2
  ThresholdSq = 1
  CriticalSq = 2
  AbsThreshold <- MCAbsThreshold
  CriticalAbs <- MCCriticalAbs
  Cooldown = 2
  CyclesPerHour = 4
  HoursPerDay = 2
  MaxTime = 5
INVARIANTS
  MonitorTypeOK
  BaselineIsReference
  AlarmsAreOfCount
  IoReportedOnce
PROPERTY
  OneAlertPerCooldown
