SPECIFICATION Spec
CONSTANTS
  Commands = {"center", "itemize", "item", "item_LINE", "end"}
  flags <- MCflags
  data <- MCdata
  args_number <- MCargs_number
  Expanded = {}
  MaxDepth = 7
  MaxConditionals = 0
  MaxItems = 2
  MaxCounters = 2
INVARIANT ItemsNumberedByTheirList
CHECK_DEADLOCK FALSE
