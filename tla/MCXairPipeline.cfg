SPECIFICATION PSpec
CONSTANTS
  MaxId = 100
  WordBits = 16
  Programs <- MCPrograms
  LiveModules <- MCLive
  Inputs <- MCInputs
  Seeds = {}
  Entries = {1, 3}
  Limits = {2}
  MaxRuns = 2
  MaxReturns = 2
  PageSize = 4
  Arguments <- MCArguments
  Imms = {0}
  MaxBlocks = 3
  MaxGrowth = 1
INVARIANTS CanonicalizePreserves CanonicalizeVerifies Idempotent ComputesMeaning NothingLeftToFold
  SafeWhileBuilding StateInBounds
CHECK_DEADLOCK FALSE
