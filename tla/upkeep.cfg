SPECIFICATION Spec
CONSTANTS
  Section = {"wifi", "auth", "ac"}
  Rank <- MCRank
  Checked = {"auth"}
  Secret = {"wifi", "auth"}
  Posted <- MCPosted
  Missing = Missing
  Partial = Partial
  Uploader = {"page"}
  Nobody = Nobody
  MaxClicks = 2
  Supported = {1, 2}
  NoProtocol = 0
  OtherButton = {"b1", "b2"}
  Temperature = {20, 21, 22}
  MaxBindings = 1
  MaxTargets = 2
  MaxTorn = 1
  Plans <- MCPlans
  PutKeys <- MCPutKeys
  Off = Off
  FirstCapture = FirstCapture
INVARIANTS TypeOK SettingsAgree Recalls
PROPERTIES Kept RestartsOnWholeImage ComesBack AdoptedWorks WizardEnds
CHECK_DEADLOCK FALSE
