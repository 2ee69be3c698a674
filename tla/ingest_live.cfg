SPECIFICATION FairIngestSpec
CONSTANTS
  Environment = "production"
  MeshKeySet = FALSE
  OperatorKey = OperatorKey
  DevKey = DevKey
  ZeroKey = ZeroKey
  Keys <- IngestKeys
  HasDuration = FALSE
  DryRun = TRUE
  WipesEnvFile = FALSE
  ChainPhase = FALSE
  Inputs <- OneOfEach
  MaxRows = 2
  SpoolMayFail = FALSE
  MaxFrames = 2
  MaxBoots = 2
  MaxCrashes = 1
CHECK_DEADLOCK FALSE
PROPERTIES
  CriticalFrameIsAudited
  ThreatIsHandedOver
