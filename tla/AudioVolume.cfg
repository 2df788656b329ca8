CONSTANTS
  Callers = {lvgl, sendspin}
  Lvgl = lvgl
  MaxVolume = 2
SPECIFICATION VolumeSpec
INVARIANTS
  VolumeUnderCeiling
