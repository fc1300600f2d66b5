SPECIFICATION Spec
CONSTANTS
  None = None
  Words = {"a", "b"}
  Macros = {"m", "r", "l"}
  RMacros = {"r"}
  LineArgMacros = {"l"}
  Values = {"v"}
  Files = {"f", "g"}
  Readable = {"f", "g"}
  MainFile = "main"
  Body <- MCBody
  ValueText <- MCValueText
  FileText <- MCFileText
  MainTexts <- MCTexts
  MaxNesting = 2
  HashLine = 7
PROPERTIES
  ReadsFlatText
CHECK_DEADLOCK FALSE
