SPECIFICATION Spec
CONSTANTS
  SizeMax = 63
  ElemSize = 2
  FirstCap = 2
  Batches = {1, 3, 6}
INVARIANTS Allocated NoWrap
