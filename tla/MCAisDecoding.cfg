SPECIFICATION Spec
CONSTANTS
  Payloads <- MCPayloads
  Calls <- ConstructorCalls
INVARIANTS
  TypeOK
  CursorInPayload
  AssertsFailExactly
  EveryBitOnce
  NoPadRead
  Decided
CHECK_DEADLOCK FALSE
