SPECIFICATION Spec
CONSTANTS
  Limit = 8
  Files <- Files_All
  Fuels = {0, 1, 2, 3, 4, 5, 9}
  Requests = {0, 4}
  MaxRead = 3
INVARIANTS HeapOwned WithinFile ReadsWhatIsMapped ImageHoldsEntry
