SPECIFICATION Spec
CONSTANTS
  Payloads <- MCPayloadsUnknown
  Calls <- ConstructorCalls
INVARIANTS
  UnknownReturned
CHECK_DEADLOCK FALSE
