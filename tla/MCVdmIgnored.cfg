SPECIFICATION Spec
CONSTANTS
  ai = ai
  bs = bs
  c1 = c1
  c2 = c2
  c3 = c3
  tiny = tiny
  odd = odd
  Talkers <- MCTalkers
  Chunks <- MCChunks
  CharsIn <- MCCharsIn
  Undecodable <- MCUndecodable
  Lines <- Crowded
  MaxLines = 3
PROPERTIES
  StrayFinalIgnored
CHECK_DEADLOCK FALSE
