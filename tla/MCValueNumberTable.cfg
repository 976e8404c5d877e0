SPECIFICATION Spec
CONSTANTS
  Keys <- MCKeys
  NoKey = "free"
  Hash <- MCHash
  FirstCap = 4
  MaxCap = 16
INVARIANTS HalfEmpty
PROPERTIES ImplementsSet
