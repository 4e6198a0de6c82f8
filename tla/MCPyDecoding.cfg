SPECIFICATION PySpec
CONSTANTS
  Payloads <- MCPyPayloads
  Calls <- PyCalls
INVARIANTS
  ShowsOnlyRead
  ShowsAllRead
  OwnKeys
  OwnReports
  ListsWhole
CHECK_DEADLOCK FALSE
