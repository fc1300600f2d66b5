SPECIFICATION Spec
CONSTANTS
  Bytes <- MoreBytesTyped
  Esc = "esc"
  CtrlG = "^g"
  LetterO = "O"
  Bracket = "["
  ParamBytes = {"1"}
  InterBytes = {"$"}
  NoByte = "none"
  Size = 4
  KeySeqs <- MoreKeySeqs
  MouseSeqs <- MCMouseSeqs
  KeyTimeZero = {TRUE, FALSE}
  MaxBacklog = 3
  MaxTyped = 4
INVARIANTS TypeOK HeldInRing KnownKeyNotBroken
PROPERTIES ImplementsQueue DecodingEnds
CHECK_DEADLOCK FALSE
