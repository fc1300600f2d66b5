SPECIFICATION Spec
CONSTANTS
  Bytes <- MCBytes
  Esc = "esc"
  CtrlG = "^g"
  LetterO = "O"
  Bracket = "["
  ParamBytes = {"1"}
  InterBytes = {}
  NoByte = "none"
  Size = 4
  KeySeqs <- MCKeySeqs
  MouseSeqs <- MCMouseSeqs
  KeyTimeZero = {TRUE, FALSE}
  MaxBacklog = 3
  MaxTyped = 5
PROPERTIES
  ControlGQuitsSearch
CHECK_DEADLOCK FALSE
