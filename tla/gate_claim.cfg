SPECIFICATION EvidenceSpec
CONSTANTS
  Checkouts <- ModelCheckouts
  MaxRuns = 2
  MaxEdits = 2
  Samples = 2
  MaxSweeps = 3
  Builds <- ModelBuilds
  Soaks = {0, 1, 2, 4}
  MaxGateRuns = 2
  MaxFittings = 1
  Versions = {"committed", "cloned"}
  Committed = "committed"
  Cloned = "cloned"
  MaxKeys = 2
  MaxSwitchOns = 3
  MaxChanges = 3
INVARIANT CompleteNodePassesG1
CHECK_DEADLOCK FALSE
