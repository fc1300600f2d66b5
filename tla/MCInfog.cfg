SPECIFICATION Spec
CONSTANTS
  Manuals = {"texinfo", "info", "plain"}
  Missing = {"gone"}
  Nodes = {"Top", "a", "i"}
  Top = "Top"
  FIRST_MANUAL = "texinfo"
  WithContents = {"texinfo", "info"}
  Toc <- MCToc
  Indices <- MCIndices
  Pointers <- MCPointers
  None = None
  MaxCommands = 3
INVARIANTS TypeOK ManualsAgree SettledRight
PROPERTY Settles
CHECK_DEADLOCK FALSE
