SPECIFICATION IngestSpec
CONSTANTS
  Environment = "production"
  MeshKeySet = FALSE
  OperatorKey = OperatorKey
  DevKey = DevKey
  ZeroKey = ZeroKey
  Keys <- IngestKeys
  HasDuration = TRUE
  DryRun = FALSE
  WipesEnvFile = TRUE
  ChainPhase = FALSE
  Inputs <- OneOfEach
  MaxRows = 2
  SpoolMayFail = TRUE
  MaxFrames = 2
  MaxBoots = 2
  MaxCrashes = 2
CHECK_DEADLOCK FALSE
INVARIANTS
  IngestTypeOK
  EvidenceBeforeRelay
  LogsAgree
  GapsAreControlEntries
  
PROPERTY ImplementsEvidenceLog
