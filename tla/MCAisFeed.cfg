SPECIFICATION FeedSpec
CONSTANTS
  x = x
  y = y
  Talkers <- MCTalkers
  Chunks <- MCChunks
  CharsIn <- MCCharsIn
  Undecodable = {}
  Lines <- MCLines
  Stations <- MCStations
  Schedule <- MCSchedule
  MaxLines = 10
  MaxLost = 1
  MaxRepeats = 1
INVARIANTS
  NothingSpliced
  MultiLineOnce
PROPERTIES
  UndamagedCollected
CHECK_DEADLOCK FALSE
