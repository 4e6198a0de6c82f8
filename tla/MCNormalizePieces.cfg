SPECIFICATION Spec
CONSTANTS
  Lines <- PartsOnly
  Options <- UsualOnly
  DecodeErrors <- MCDecodeErrors
  MaxLines = 3
INVARIANTS
  AllThePieces
CHECK_DEADLOCK FALSE
