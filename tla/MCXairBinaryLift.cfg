SPECIFICATION Spec
CONSTANTS
  Limit = 8
  Files <- Files_All
  Fuels = {9}
  Requests = {0, 4}
  MaxRead = 1
INVARIANT LiftsWhereRequested
