SPECIFICATION FairSpec
CONSTANTS
  Streams <- MCStreams
  Length = 3
  STREAM_BUF = 2
  PREBUFFER = 1
  READ_CHUNK = 2
  SLACK = 1
  WritesFail = TRUE
  MaxPlays = 2
  MaxStops = 1
INVARIANTS TypeOK InOrder CleanedUp CompletedIsWhole
PROPERTIES PlayEnds
CHECK_DEADLOCK FALSE
