SPECIFICATION Spec
CONSTANTS
  DayLength = 2
  Horizon = 4
  Rule = {"r1", "r2"}
  MaxRules = 2
  Absent = Absent
  Damaged = Damaged
  SaveInterval = 2
  MaxStarts = 2
  MaxRev = 2
  FailuresBefore = 2
  Nothing = Nothing
  Chat = {"ann", "bob", "eve"}
  FarChat = {"eve"}
  MaxUpdates = 2
  PerPoll = 2
  MaxQueue = 2
  MaxFaults = 2
  DeviceCount = 3
  Sleeper = {3}
  Verbose = {2}
  MaxPending = 2
  FailuresBeforeOffline = 2
  Wishes = {1}
  MaxOrders = 2
  MaxEvents = 2
  Unknown = Unknown
  Modes = {"cool", "heat"}
  Cool = "cool"
  Off = "off"
  Fans = {"auto"}
  AutoFan = "auto"
  Targets <- AllTargets
  LimitSets <- EvenSteps
INVARIANTS TypeOK CountersRight EveryoneTold OneOwner NoneTwice WithinLimits NoDrift FileKeepsState
PROPERTIES CountdownRings EveryoneFollows DeliveryTried NoneHandledTwice AllHeard OnceInOrder CommandsLeave KnowsDevices
CHECK_DEADLOCK FALSE
