SPECIFICATION Spec
CONSTANTS
  NumPodcasts = 2
  keep_episodes <- MCKeep
  Protected = {}
  Throttle = 2
  FirstEpisodes <- MCFirst
  MaxEpisodes <- MCEpisodes
  MaxAsks = 2
  Asked <- MCAsked
  MaxTroubles = 1
  MaxReboots = 1
INVARIANTS TypeOK KeepLimit FlashBehind
PROPERTIES NothingSkipped JobEnds
CHECK_DEADLOCK FALSE
