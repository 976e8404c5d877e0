SPECIFICATION Spec
CONSTANTS
  MaxId = 60
  WordBits = 16
  LiftMaxReturns = 24
  LiftMaxRegOutputs = 16
  Sessions <- MCSessions
INVARIANTS LiftsMeaning ResultDescribesBlock VerifiesOnceEnded
CHECK_DEADLOCK FALSE
