SPECIFICATION MCSpec
CONSTANTS
  MaxId = 3
  BlockIds = {1, 2}
  ValueIds = {1, 2, 3}
  Targets = {}
  ClientTypes <- MCTypes
  UnaryOpcodes = {"ZEXT"}
  BinaryOpcodes = {"ADD"}
  Imms = {0}
  Names = {0}
  Codes = {}
  ClientEndians = {}
  MaxBlocks = 2
  MaxArgs = 0
  MaxPool = 0
INVARIANTS WellLinked ListsExact PooledExactly TermArgsDisjoint
PROPERTIES HandedOverForGood FailedCallLeavesNoTrace AppendOnly
