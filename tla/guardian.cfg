SPECIFICATION MonitorSpec
CONSTANTS
  Dwell = 2
  Cooldown = 4
  DeploymentEnabled = TRUE
  ClockSteps <- ForwardSteps
  MaxTime = 9
  MaxFrames = 9
  NoTime = NoTime
INVARIANTS
  MonitorTypeOK
  ConfirmedEscalation
  SustainedThreatPublished
  QuietCooldown
  LatchedHoldIsBounded
PROPERTY CalmNeverJumps
