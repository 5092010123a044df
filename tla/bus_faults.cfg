SPECIFICATION FairSession
CONSTANTS
  Modes <- MCModes
  Cool = "cool"
  Off = "off"
  Fans <- MCFans
  AutoFan = "auto"
  Sources <- MCSources
  AsyncSources <- MCAsync
  Deltas <- PowerDeltas
  Frames <- TwoFrames
  Configs <- GatedConfigs
  MinOff = 2
  ClockWrap = 4
  FlushAfter = 1
  Repeats = 0
  RestoreOnBoot = TRUE
  SendFails = TRUE
  WriteFails = TRUE
  MissesFrames = TRUE
  None = None
PROPERTIES
  NoStartWhileHolding
  HoldEnds
