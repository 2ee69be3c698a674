SPECIFICATION Spec
CONSTANTS
  Configs <- SomeConfigs
  MaxLaunches = 3
  None = None
INVARIANTS
  DeploymentTypeOK
  OperationalIsBacked
  LivePeersAreLive
PROPERTY ImplementsPhases
