SPECIFICATION Spec
CONSTANTS
  MaxId = 20
  WordBits = 16
  DirectSlots = 1
  TmpLimit = 9
  Sessions <- MCSessions
INVARIANTS CachedHere CarriesState VerifiesUnlessFlawed
PROPERTIES FailureKeepsState
CHECK_DEADLOCK FALSE
