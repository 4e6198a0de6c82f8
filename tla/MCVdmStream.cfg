SPECIFICATION Spec
CONSTANTS
  ai = ai
  bs = bs
  c1 = c1
  c2 = c2
  c3 = c3
  tiny = tiny
  odd = odd
  Talkers <- MCTalkers
  Chunks <- MCChunks
  CharsIn <- MCCharsIn
  Undecodable <- MCUndecodable
  Lines <- Crowded
  MaxLines = 5
INVARIANTS
  TypeOK
  BuffersInOrder
  MessagesAreCoherent
  NoStaleParts
  FifoOutput
  CompleteGroupComesOut
PROPERTIES
  ImplementsAssembly
CHECK_DEADLOCK FALSE
