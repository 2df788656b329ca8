SPECIFICATION Spec
CONSTANTS
  CONFIG_ALARM_COUNT = 2
  AlarmMinute <- MCMinute
  AlarmDays <- MCDays
  MinutesPerDay = 4
  DaysPerWeek = 2
  BackAt = 4
  BackBy = 2
  SnoozeMinutes = 1
  Levels = {1, 2}
  BootVolume = 2
  RampStart = 1
  Target = 2
  MaxWall = 4
  MaxMoves = 2
INVARIANTS VolumeRestored
PROPERTIES FiresOnce RingsOnTime AlarmSounds
