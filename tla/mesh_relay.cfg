SPECIFICATION RelaySpec
CONSTANTS
  p1 = p1
  p2 = p2
  Peers <- ModelPeers
  SpoolMayFail = FALSE
  MaxHanded = 3
  MaxJoins = 1
SYMMETRY Symmetric
INVARIANTS
  RelayTypeOK
  EveryAlertAccountedFor
  SuppressedForGood
