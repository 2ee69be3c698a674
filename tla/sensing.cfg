SPECIFICATION WatchSpec
CONSTANTS
  Dwell = 3
  Cooldown = 30
  DeploymentEnabled = FALSE
  ClockSteps = {0, 1, 2, 10}
  MaxTime = 800
  MaxFrames = 200
  NoTime = NoTime
  Weights <- DefaultWeights
  Thresholds <- DefaultThresholds
  GhostInterval = 30
  GhostWindow = 4
  LogLines = 3
  Configs <- ModelConfigs
  Scenes <- ModelScenes
  Notes <- ModelNotes
  MaxSamples <- ModelSamples
  MaxChanges <- ModelChanges
INVARIANTS
  WatchTypeOK
  QuietUntilDrift
  AnomalyNeedsRecentTraffic
  WhisperMissesOnlyMasked
  MotionIsReal
  AwakeThreatSeenAsleep
  MoreEvidenceNeverLowers
CHECK_DEADLOCK FALSE
