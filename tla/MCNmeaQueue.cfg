SPECIFICATION Spec
CONSTANTS
  c1 = c1
  c2 = c2
  bad = bad
  text = text
  Talkers = {"AIVDM", "GPZDA"}
  Chunks <- MCChunks
  CharsIn <- MCCharsIn
  DecodeErrors <- MCDecodeErrors
  HandlerErrors <- MCHandlerErrors
  TextLines = {text}
  BareLines <- MCBareLines
  TagLines <- MCTagLines
  UscgLines <- MCUscgLines
  MaxLines = 4
INVARIANTS
  TypeOK
  EachLineOnce
  InLineOrder
  DecodedFromOwnLines
  BareGroupComesOut
CHECK_DEADLOCK FALSE
