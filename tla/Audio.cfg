CONSTANTS
  Players = {worker}
  Recorders = {worker, tuner}
  Sendspins = {sendspin}
  Formats = {f1, f2}
  NoSource = NoSource
SPECIFICATION FairSpec
INVARIANTS
  TypeOK
  OneOwner
  OpenIsPowered
  CaptureExcludesPlayback
PROPERTIES IdleCodecCloses OnlyLateUnmute
