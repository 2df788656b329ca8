SPECIFICATION Spec
CONSTANTS
  Streams <- MCStreams
  Length = 3
  STREAM_BUF = 2
  PREBUFFER = 1
  READ_CHUNK = 2
  SLACK = 1
  WritesFail = FALSE
  MaxPlays = 2
  MaxStops = 1

INVARIANT CompletedIsEnd
CHECK_DEADLOCK FALSE
