SPECIFICATION FairSpec
CONSTANTS
  MaxGenerations = 3
  Retries = 1
  MusicAssistant = TRUE
  Browsing = TRUE
  WebToggle = FALSE
  Deadline = "block"
INVARIANTS
  TypeOK
  AdvanceWasEarned
PROPERTIES ImplementsIntent StopEnds PlayLeavesQueue
CHECK_DEADLOCK FALSE
