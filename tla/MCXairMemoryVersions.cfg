SPECIFICATION MVSpec
CONSTANTS
  MaxId = 100
  WordBits = 16
  Programs <- Memories
  Inputs <- MCInputs
  Seeds <- MCSeeds
  Entries = {1}
  Limits = {3}
  MaxRuns = 1
  MaxReturns = 2
  PageSize = 4
PROPERTY LoadSeesItsVersion
CHECK_DEADLOCK FALSE
