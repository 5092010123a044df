SPECIFICATION Spec
CONSTANTS
  Supported = {1, 2}
  NoProtocol = 0
  OtherButton = {"b1"}
  Temperature = {20, 21}
  MaxBindings = 1
  MaxTargets = 3
  MaxTorn = 1
  Plans <- MCPlans
  PutKeys <- MCPutKeys
  Off = Off
  FirstCapture = FirstCapture
PROPERTIES HandsetObeyed
CHECK_DEADLOCK FALSE
