SPECIFICATION ReadersSpec
CONSTANTS
  ai = ai
  bs = bs
  c1 = c1
  c2 = c2
  c3 = c3
  Talkers = {ai, bs}
  Chunks <- MCChunks
  CharsIn <- MCCharsIn
  Undecodable = {}
  DecodeErrors <- MCDecodeErrors
  HandlerErrors = {}
  Lines <- MCLines
  MaxLines = 5
INVARIANTS
  BufferIsGroup
  PythonDecodesToo
CHECK_DEADLOCK FALSE
