SPECIFICATION FairSpec
CONSTANTS
  MaxId = 100
  WordBits = 16
  Programs <- MCPrograms
  Inputs <- MCInputs
  Seeds <- MCSeeds
  Entries = {1, 2}
  Limits = {0, 3}
  MaxRuns = 2
  MaxReturns = 2
  PageSize = 4
INVARIANTS NeverStale VerifiedNeverFails StoredTypesAgree StoreThenLoad
PROPERTIES ParallelTransfer RunEnds
CHECK_DEADLOCK FALSE
