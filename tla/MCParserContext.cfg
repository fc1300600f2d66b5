SPECIFICATION Spec
CONSTANTS
  Commands = {"node", "end", "deffn", "menu", "footnote", "inlineraw", "ifset", "html",
              "center", "bye", "itemize", "item", "item_LINE", "table"}
  flags <- MCflags
  data <- MCdata
  args_number <- MCargs_number
  Expanded = {"html"}
  MaxDepth = 6
  MaxConditionals = 1
  MaxItems = 1
  MaxCounters = 2
INVARIANTS TypeOK ContextsFollowPath RemainingArgsFollowPath NestingFollowsPath NeverFatal
PROPERTY ClosingEnds
CHECK_DEADLOCK FALSE
