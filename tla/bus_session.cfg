SPECIFICATION FairSession
CONSTANTS
  Modes <- MCModes
  Cool = "cool"
  Off = "off"
  Fans <- MCFans
  AutoFan = "auto"
  Sources <- MCSources
  AsyncSources <- MCAsync
  Deltas <- BeepDeltas
  Frames <- TwoFrames
  Configs <- UnitConfigs
  MinOff = 2
  ClockWrap = 4
  FlushAfter = 2
  Repeats = 0
  RestoreOnBoot = TRUE
  SendFails = FALSE
  WriteFails = FALSE
  MissesFrames = FALSE
  None = None
INVARIANTS
  InSync
  StaleFileMarked
PROPERTIES
  ProtectsCompressor
  HeldStartRuns
