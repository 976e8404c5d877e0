SPECIFICATION Spec
CONSTANTS
  LengthLimit = 256
  Prefixings <- Prefixings_Few
  Seconds <- Bytes_All
  Tails = {37, 139}
INVARIANTS DecodesEncoding LengthExact
PROPERTIES AnswerStable
CHECK_DEADLOCK FALSE
