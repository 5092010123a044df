SPECIFICATION Spec
CONSTANTS
  Heartbeat = 3
  FirstDelay = 1
  MaxDelay = 3
  MaxRevision = 2
  Nothing = Nothing
INVARIANTS UpToDate
PROPERTIES HomeAssistantFollows HomeAssistantSeesDevice
