SPECIFICATION Spec
CONSTANTS
  Modes <- MCModes
  Cool = "cool"
  Off = "off"
  Fans <- MCFans
  AutoFan = "auto"
  Sources <- MCSources
  AsyncSources <- MCAsync
  Deltas <- TempDeltas
  Frames <- TwoFrames
  Configs <- OpenConfigs
  MinOff = 2
  ClockWrap = 4
  FlushAfter = 1
  Repeats = 1
  RestoreOnBoot = TRUE
  SendFails = FALSE
  WriteFails = FALSE
  MissesFrames = FALSE
  None = None
INVARIANT
  CopiesCurrent
PROPERTIES
  CrashKeepsState
