SPECIFICATION IngestSpec
CONSTANTS
  Environment = "production"
  MeshKeySet = FALSE
  OperatorKey = OperatorKey
  DevKey = DevKey
  ZeroKey = ZeroKey
  Keys <- IngestKeys
  HasDuration = FALSE
  DryRun = TRUE
  WipesEnvFile = FALSE
  ChainPhase = TRUE
  Inputs <- OneOfEach
  MaxRows = 2
  SpoolMayFail = FALSE
  MaxFrames = 2
  MaxBoots = 1
  MaxCrashes = 0
CHECK_DEADLOCK FALSE
INVARIANT
  StoredCriticalIsAudited
