SPECIFICATION TrailSpec
CONSTANTS
  k1 = k1
  k2 = k2
  c1 = c1
  c2 = c2
  ZeroKey = ZeroKey
  Keys <- ModelKeys
  Contents <- ModelContents
  Production = FALSE
  MaxIssued = 4
  MaxChains = 3
SYMMETRY Symmetric
INVARIANTS
  TrailTypeOK
  VerifiedMeansComplete
  IssuedChainVerifies
  WipeCutsTheChain
