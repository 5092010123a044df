SPECIFICATION Spec
CONSTANTS
  Def <- MCDef
  Fields = {"power", "lamp"}
  Peers = {"lamp"}
  Values = {"on", "off"}
  Unknown = Unknown
  Tested = {1}
  MaxFires = 2
  Edits = {{1, 2}, {1}}
  Window = 2
  Suppression = 3
INVARIANTS TypeOK RateBounded
PROPERTIES HeldLongEnough RuleFires SequencesEnd
