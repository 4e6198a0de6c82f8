SPECIFICATION Spec
CONSTANTS
  Lines <- MCLines
  Options <- MCOptions
  DecodeErrors <- MCDecodeErrors
  MaxLines = 4
INVARIANTS
  TypeOK
  YieldedOnce
  NoSilentLoss
  OneMessageEach
  GroupComesOut
  SpanBounded
  BudgetKept
CHECK_DEADLOCK FALSE
